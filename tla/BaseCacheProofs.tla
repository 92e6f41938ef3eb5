-------------------------- MODULE BaseCacheProofs --------------------------
(***************************************************************************)
(* For every capacity, key set, value set and ttl, whatever policy         *)
(* newBaseCache is called with: the cache's own structure is right, it     *)
(* evicts the entry its policy names, and it keeps the contract every      *)
(* cache.Cache has.                                                        *)
(*                                                                         *)
(* The proofs go bottom up: what the library's list operators do to a list *)
(* without duplicates; the four lists of the ARC cache; the pointers of a  *)
(* doubly-linked list; the LRU cache; the contract; ARC and LRU keep it;   *)
(* the frequency lists of the LFU cache; then the cache of a store, and    *)
(* the sum BytesStored stands for.                                         *)
(***************************************************************************)
EXTENDS BaseCache, SequenceTheorems, FiniteSetTheorems, WellFoundedInduction, TLAPS

(* list.Remove cuts the list at the one position the element has.          *)
LEMMA RemoveFirstAt ==
  ASSUME NEW S, NEW s \in Seq(S), IsInjective(s), NEW i \in 1 .. Len(s)
  PROVE  RemoveFirst(s, s[i]) = RemoveAt(s, i)
<1> DEFINE I == {j \in 1 .. Len(s) : s[j] = s[i]}
<1>1. I = {i}
  BY DEF IsInjective
<1>2. Min(I) = i
  BY <1>1 DEF Min
<1>3. SelectInSeq(s, LAMBDA v : v = s[i]) = i
  BY <1>1, <1>2 DEF SelectInSeq
<1> QED
  BY <1>3 DEF RemoveFirst

(* Element by element, what is left after the cut.                         *)
LEMMA RemoveAtShape ==
  ASSUME NEW S, NEW s \in Seq(S), NEW i \in 1 .. Len(s)
  PROVE  /\ RemoveAt(s, i) \in Seq(S)
         /\ Len(RemoveAt(s, i)) = Len(s) - 1
         /\ \A j \in 1 .. Len(s) - 1 :
              RemoveAt(s, i)[j] = IF j < i THEN s[j] ELSE s[j + 1]
<1> DEFINE a == SubSeq(s, 1, i - 1)
           b == SubSeq(s, i + 1, Len(s))
<1>1. Len(s) \in Nat /\ \A j \in 1 .. Len(s) : s[j] \in S
  BY LenProperties, ElementOfSeq
<1>2. /\ a \in Seq(S) /\ Len(a) = i - 1
      /\ \A j \in 1 .. i - 1 : a[j] = s[j]
  BY <1>1, SubSeqProperties, Z3
<1>3. /\ b \in Seq(S) /\ Len(b) = Len(s) - i
      /\ \A j \in 1 .. Len(s) - i : b[j] = s[i + j]
  <2>1. \A j \in i + 1 .. Len(s) : s[j] \in S
    BY <1>1
  <2>2. /\ b \in Seq(S)
        /\ Len(b) = IF i + 1 <= Len(s) THEN Len(s) - (i + 1) + 1 ELSE 0
        /\ \A j \in 1 .. Len(s) - (i + 1) + 1 : b[j] = s[(i + 1) + j - 1]
    BY <1>1, <2>1, SubSeqProperties
  <2> HIDE DEF b
  <2> QED
    BY <1>1, <2>2
<1>4. /\ a \o b \in Seq(S)
      /\ Len(a \o b) = Len(a) + Len(b)
      /\ \A j \in 1 .. Len(a) + Len(b) :
           (a \o b)[j] = IF j <= Len(a) THEN a[j] ELSE b[j - Len(a)]
  BY <1>2, <1>3, ConcatProperties
<1>5. RemoveAt(s, i) = a \o b
  BY DEF RemoveAt
<1> HIDE DEF a, b
<1>6. ASSUME NEW j \in 1 .. Len(s) - 1
      PROVE  (a \o b)[j] = IF j < i THEN s[j] ELSE s[j + 1]
  <2>1. CASE j < i
    BY <1>1, <1>2, <1>3, <1>4, <2>1
  <2>2. CASE j >= i
    <3> DEFINE n == j - Len(a)
    <3>1. n \in 1 .. Len(s) - i /\ i + n = j + 1 /\ ~(j <= Len(a))
      BY <1>1, <1>2, <2>2
    <3>2. j \in 1 .. Len(a) + Len(b)
      BY <1>1, <1>2, <1>3
    <3>3. (a \o b)[j] = b[n]
      BY <1>4, <3>1, <3>2
    <3> HIDE DEF n
    <3>4. b[n] = s[j + 1]
      BY <1>3, <3>1
    <3> QED
      BY <2>2, <3>3, <3>4
  <2>3. j < i \/ j >= i
    BY <1>1
  <2> QED
    BY <2>1, <2>2, <2>3
<1> QED
  BY <1>1, <1>2, <1>3, <1>4, <1>5, <1>6

(* list.Remove: one element fewer, no other lost, no duplicate made.       *)
LEMMA RemoveFirstProperties ==
  ASSUME NEW S, NEW s \in Seq(S), IsInjective(s), NEW k \in ToSet(s)
  PROVE  /\ RemoveFirst(s, k) \in Seq(S)
         /\ Len(RemoveFirst(s, k)) = Len(s) - 1
         /\ IsInjective(RemoveFirst(s, k))
         /\ ToSet(RemoveFirst(s, k)) = ToSet(s) \ {k}
<1>1. PICK i \in 1 .. Len(s) : s[i] = k
  BY DEF ToSet
<1> DEFINE t == RemoveAt(s, i)
<1>2. RemoveFirst(s, k) = t
  BY <1>1, RemoveFirstAt
<1>3. /\ t \in Seq(S) /\ Len(t) = Len(s) - 1
      /\ \A j \in 1 .. Len(s) - 1 : t[j] = IF j < i THEN s[j] ELSE s[j + 1]
  BY RemoveAtShape
<1> HIDE DEF t
<1>d. DOMAIN s = 1 .. Len(s) /\ DOMAIN t = 1 .. Len(s) - 1 /\ Len(s) \in Nat
  BY <1>3, LenProperties
<1>e. \A j \in DOMAIN t :
        \E m \in DOMAIN s : m = (IF j < i THEN j ELSE j + 1) /\ t[j] = s[m] /\ m # i
  BY <1>3, <1>d
<1>4. IsInjective(t)
  <2> SUFFICES ASSUME NEW a \in DOMAIN t, NEW b \in DOMAIN t, t[a] = t[b]
               PROVE  a = b
    BY DEF IsInjective
  <2>1. PICK m \in DOMAIN s : m = (IF a < i THEN a ELSE a + 1) /\ t[a] = s[m]
    BY <1>e
  <2>2. PICK n \in DOMAIN s : n = (IF b < i THEN b ELSE b + 1) /\ t[b] = s[n]
    BY <1>e
  <2>3. m = n
    BY <2>1, <2>2 DEF IsInjective
  <2> QED
    BY <1>d, <2>1, <2>2, <2>3
<1>5. ToSet(t) \subseteq ToSet(s) \ {k}
  <2> SUFFICES ASSUME NEW j \in DOMAIN t PROVE t[j] \in ToSet(s) \ {k}
    BY DEF ToSet
  <2>1. PICK m \in DOMAIN s : t[j] = s[m] /\ m # i
    BY <1>e
  <2>2. s[m] # s[i]
    BY <1>d, <2>1 DEF IsInjective
  <2> QED
    BY <1>1, <2>1, <2>2 DEF ToSet
<1>6. ASSUME NEW x \in ToSet(s) \ {k}
      PROVE  x \in ToSet(t)
  <2>1. PICK j \in 1 .. Len(s) : s[j] = x /\ j # i
    BY <1>1 DEF ToSet
  <2>2. CASE j < i
    BY <1>3, <1>d, <2>1, <2>2 DEF ToSet
  <2>3. CASE j > i
    <3>1. j - 1 \in 1 .. Len(s) - 1 /\ t[j - 1] = s[j]
      BY <1>3, <2>3
    <3> QED
      BY <1>3, <1>d, <2>1, <3>1 DEF ToSet
  <2> QED
    BY <2>1, <2>2, <2>3
<1> QED
  BY <1>2, <1>3, <1>4, <1>5, <1>6

(* list.PushFront of an element the list does not hold.                    *)
LEMMA ConsProperties ==
  ASSUME NEW S, NEW s \in Seq(S), IsInjective(s), NEW k \in S, k \notin ToSet(s)
  PROVE  /\ Cons(k, s) \in Seq(S)
         /\ Len(Cons(k, s)) = Len(s) + 1
         /\ IsInjective(Cons(k, s))
         /\ ToSet(Cons(k, s)) = ToSet(s) \cup {k}
<1> DEFINE t == Cons(k, s)
<1>1. /\ t \in Seq(S) /\ Len(t) = Len(s) + 1 /\ t[1] = k
      /\ \A j \in 2 .. Len(s) + 1 : t[j] = s[j - 1]
  <2>1. <<k>> \in Seq(S) /\ Len(<<k>>) = 1 /\ <<k>>[1] = k
    OBVIOUS
  <2>2. /\ t \in Seq(S) /\ Len(t) = 1 + Len(s)
        /\ \A j \in 1 .. 1 + Len(s) : t[j] = IF j <= 1 THEN <<k>>[j] ELSE s[j - 1]
    BY <2>1, ConcatProperties DEF Cons
  <2>3. Len(s) \in Nat
    BY LenProperties
  <2> HIDE DEF t
  <2> QED
    BY <2>1, <2>2, <2>3
<1> HIDE DEF t
<1>d. DOMAIN s = 1 .. Len(s) /\ DOMAIN t = 1 .. Len(s) + 1 /\ Len(s) \in Nat
  BY <1>1, LenProperties
<1>2. IsInjective(t)
  <2> SUFFICES ASSUME NEW a \in DOMAIN t, NEW b \in DOMAIN t, t[a] = t[b]
               PROVE  a = b
    BY DEF IsInjective
  <2>1. \A j \in 2 .. Len(s) + 1 : t[j] # k
    BY <1>1, <1>d DEF ToSet
  <2>2. CASE a = 1 \/ b = 1
    BY <1>1, <1>d, <2>1, <2>2
  <2>3. CASE a # 1 /\ b # 1
    <3>1. a - 1 \in DOMAIN s /\ b - 1 \in DOMAIN s /\ s[a - 1] = s[b - 1]
      BY <1>1, <1>d, <2>3
    <3> QED
      BY <1>d, <3>1 DEF IsInjective
  <2> QED
    BY <2>2, <2>3
<1>3. ToSet(t) \subseteq ToSet(s) \cup {k}
  BY <1>1, <1>d DEF ToSet
<1>4. ASSUME NEW x \in ToSet(s) PROVE x \in ToSet(t)
  <2>1. PICK j \in 1 .. Len(s) : s[j] = x
    BY DEF ToSet
  <2>2. j + 1 \in 1 .. Len(t) /\ t[j + 1] = x
    BY <1>1, <2>1
  <2> QED
    BY <1>1, <1>d, <2>2 DEF ToSet
<1>5. k \in ToSet(t)
  BY <1>1, <1>d DEF ToSet
<1> QED
  BY <1>1, <1>2, <1>3, <1>4, <1>5 DEF t

(* list.Remove(list.Back()).                                               *)
LEMMA FrontProperties ==
  ASSUME NEW S, NEW s \in Seq(S), IsInjective(s), Len(s) > 0
  PROVE  /\ Front(s) \in Seq(S)
         /\ Len(Front(s)) = Len(s) - 1
         /\ IsInjective(Front(s))
         /\ Last(s) \in ToSet(s)
         /\ Last(s) \in S
         /\ ToSet(Front(s)) = ToSet(s) \ {Last(s)}
<1> DEFINE t == Front(s)
<1>1. /\ t \in Seq(S) /\ Len(t) = Len(s) - 1
      /\ \A j \in 1 .. Len(s) - 1 : t[j] = s[j]
  <2>1. Len(s) \in Nat /\ \A j \in 1 .. Len(s) - 1 : s[j] \in S
    BY LenProperties, ElementOfSeq
  <2>2. /\ t \in Seq(S)
        /\ Len(t) = IF 1 <= Len(s) - 1 THEN (Len(s) - 1) - 1 + 1 ELSE 0
        /\ \A j \in 1 .. (Len(s) - 1) - 1 + 1 : t[j] = s[1 + j - 1]
    BY <2>1, SubSeqProperties DEF Front
  <2> HIDE DEF t
  <2>3. ASSUME NEW j \in 1 .. Len(s) - 1
        PROVE  t[j] = s[j]
    <3>1. 1 + j - 1 = j /\ j \in 1 .. (Len(s) - 1) - 1 + 1
      BY <2>1
    <3>2. t[j] = s[1 + j - 1]
      BY <2>2, <3>1
    <3> QED
      BY <3>1, <3>2
  <2>4. Len(t) = Len(s) - 1
    <3>1. Len(s) \in Nat /\ Len(t) = IF 1 <= Len(s) - 1 THEN (Len(s) - 1) - 1 + 1 ELSE 0
      BY <2>1, <2>2
    <3>2. CASE 1 <= Len(s) - 1
      BY <3>1, <3>2
    <3>3. CASE Len(s) = 1
      BY <3>1, <3>3
    <3>4. Len(s) \in Nat /\ Len(s) > 0
      BY <2>1
    <3>5. 1 <= Len(s) - 1 \/ Len(s) = 1
      <4>1. \A n \in Nat : n > 0 => 1 <= n - 1 \/ n = 1
        OBVIOUS
      <4> QED
        BY <3>4, <4>1
    <3> QED
      BY <3>2, <3>3, <3>5
  <2> QED
    BY <2>2, <2>3, <2>4
<1>d. DOMAIN s = 1 .. Len(s) /\ DOMAIN t = 1 .. Len(s) - 1 /\ Len(s) \in Nat
  BY <1>1, LenProperties
<1>2. Last(s) = s[Len(s)] /\ Last(s) \in ToSet(s) /\ Last(s) \in S
  BY <1>d, ElementOfSeq DEF Last, ToSet
<1> HIDE DEF t
<1>3. IsInjective(t)
  BY <1>1, <1>d DEF IsInjective
<1>4. ToSet(t) = ToSet(s) \ {Last(s)}
  BY <1>1, <1>2, <1>d DEF IsInjective, ToSet
<1> QED
  BY <1>1, <1>2, <1>3, <1>4 DEF t

---------------------------------------------------------------------------
(* A map whose nodes name the lists they are in, and lists that match it.  *)
MapOK(m) ==
  /\ DOMAIN m \subseteq Keys
  /\ m \in [DOMAIN m -> Nodes]
  /\ \A k \in DOMAIN m : m[k].value = NoValue <=> m[k].list \in {"B1", "B2"}

Matches(l, m) ==
  \A name \in ListNames :
    /\ IsInjective(l[name])
    /\ \A k \in Keys : k \in ToSet(l[name]) <=> k \in DOMAIN m /\ m[k].list = name

WF(l, m) == l \in [ListNames -> Seq(Keys)] /\ MapOK(m) /\ Matches(l, m)

(* The lengths, as natural numbers.                                        *)
LEMMA LenNat ==
  ASSUME NEW l \in [ListNames -> Seq(Keys)], NEW name \in ListNames
  PROVE  l[name] \in Seq(Keys) /\ Len(l[name]) \in Nat
  BY LenProperties

(* The length of one of the lists; opaque to the provers below.            *)
Size(l, name) == Len(l[name])

(* Two lists differ in length by d at name, and nowhere else.              *)
LenShift(l, r, name, d) ==
  \A x \in ListNames :
    Size(r, x) = IF x = name THEN Size(l, x) + d ELSE Size(l, x)

(* removeFromList and delete(itemMap): what Delete, expiry and every move  *)
(* of a node start with.                                                   *)
LEMMA Detach ==
  ASSUME NEW l, NEW m, WF(l, m), NEW k \in DOMAIN m
  PROVE  LET r == removeFromList(l, m[k].list, k)
         IN WF(r, Drop(m, k)) /\ LenShift(l, r, m[k].list, -1)
<1> DEFINE name == m[k].list
           r == removeFromList(l, name, k)
           d == Drop(m, k)
<1>1. /\ name \in ListNames /\ k \in Keys /\ l \in [ListNames -> Seq(Keys)]
      /\ l[name] \in Seq(Keys) /\ IsInjective(l[name]) /\ k \in ToSet(l[name])
  BY DEF WF, MapOK, Matches, Nodes
<1>2. /\ RemoveFirst(l[name], k) \in Seq(Keys)
      /\ Len(RemoveFirst(l[name], k)) = Len(l[name]) - 1
      /\ IsInjective(RemoveFirst(l[name], k))
      /\ ToSet(RemoveFirst(l[name], k)) = ToSet(l[name]) \ {k}
  BY <1>1, RemoveFirstProperties
<1>3. /\ r \in [ListNames -> Seq(Keys)] /\ r[name] = RemoveFirst(l[name], k)
      /\ \A x \in ListNames : x # name => r[x] = l[x]
  BY <1>1, <1>2 DEF removeFromList
<1>4. MapOK(d) /\ DOMAIN d = DOMAIN m \ {k} /\ \A x \in DOMAIN d : d[x] = m[x]
  BY DEF WF, MapOK, Drop
<1> HIDE DEF r, d
<1>5. Matches(r, d)
  <2> SUFFICES ASSUME NEW x \in ListNames
               PROVE  /\ IsInjective(r[x])
                      /\ \A y \in Keys : y \in ToSet(r[x])
                                         <=> y \in DOMAIN d /\ d[y].list = x
    BY DEF Matches
  <2>1. /\ IsInjective(l[x])
        /\ \A y \in Keys : y \in ToSet(l[x]) <=> y \in DOMAIN m /\ m[y].list = x
    BY DEF WF, Matches
  <2>2. CASE x = name
    BY <1>2, <1>3, <1>4, <2>1, <2>2
  <2>3. CASE x # name
    BY <1>3, <1>4, <2>1, <2>3
  <2> QED
    BY <2>2, <2>3
<1>6. LenShift(l, r, name, -1)
  <2>1. Len(l[name]) \in Nat
    BY <1>1, LenNat
  <2> QED
    BY <1>2, <1>3, <2>1 DEF LenShift, Size
<1> QED
  BY <1>3, <1>4, <1>5, <1>6 DEF WF, r, d

(* list.PushFront and the assignment to itemMap: what puts a node the map  *)
(* does not hold into a list.                                              *)
LEMMA Attach ==
  ASSUME NEW l, NEW m, WF(l, m), NEW k \in Keys \ DOMAIN m,
         NEW n \in Nodes, n.value = NoValue <=> n.list \in {"B1", "B2"}
  PROVE  LET r == PushFront(l, n.list, k)
         IN WF(r, Put(m, k, n)) /\ LenShift(l, r, n.list, 1)
<1> DEFINE name == n.list
           r == PushFront(l, name, k)
           d == Put(m, k, n)
<1>1. /\ name \in ListNames /\ k \in Keys /\ l \in [ListNames -> Seq(Keys)]
      /\ l[name] \in Seq(Keys) /\ IsInjective(l[name]) /\ k \notin ToSet(l[name])
  BY DEF WF, MapOK, Matches, Nodes
<1>2. /\ Cons(k, l[name]) \in Seq(Keys)
      /\ Len(Cons(k, l[name])) = Len(l[name]) + 1
      /\ IsInjective(Cons(k, l[name]))
      /\ ToSet(Cons(k, l[name])) = ToSet(l[name]) \cup {k}
  BY <1>1, ConsProperties
<1>3. /\ r \in [ListNames -> Seq(Keys)] /\ r[name] = Cons(k, l[name])
      /\ \A x \in ListNames : x # name => r[x] = l[x]
  BY <1>1, <1>2 DEF PushFront
<1>4. /\ MapOK(d) /\ DOMAIN d = DOMAIN m \cup {k} /\ d[k] = n
      /\ \A x \in DOMAIN m : d[x] = m[x]
  BY DEF WF, MapOK, Put
<1> HIDE DEF r, d
<1>5. Matches(r, d)
  BY <1>1, <1>2, <1>3, <1>4 DEF WF, Matches
<1>6. LenShift(l, r, name, 1)
  <2>1. Len(l[name]) \in Nat
    BY <1>1, LenNat
  <2> QED
    BY <1>2, <1>3, <2>1 DEF LenShift, Size
<1> QED
  BY <1>3, <1>4, <1>5, <1>6 DEF WF, r, d

(* Removing list.Back() and its node: what evicts from T1 without a ghost, *)
(* and what forgets a ghost.                                               *)
LEMMA DropLast ==
  ASSUME NEW l, NEW m, WF(l, m), NEW name \in ListNames, Len(l[name]) > 0
  PROVE  LET r == [l EXCEPT ![name] = Front(@)]
             old == Last(l[name])
         IN /\ WF(r, Drop(m, old)) /\ LenShift(l, r, name, -1)
            /\ old \in DOMAIN m /\ m[old].list = name
<1> DEFINE r == [l EXCEPT ![name] = Front(@)]
           old == Last(l[name])
           d == Drop(m, old)
<1>1. /\ l \in [ListNames -> Seq(Keys)]
      /\ l[name] \in Seq(Keys) /\ IsInjective(l[name])
  BY DEF WF, Matches
<1>2. /\ Front(l[name]) \in Seq(Keys)
      /\ Len(Front(l[name])) = Len(l[name]) - 1
      /\ IsInjective(Front(l[name]))
      /\ old \in ToSet(l[name]) /\ old \in Keys
      /\ ToSet(Front(l[name])) = ToSet(l[name]) \ {old}
  BY <1>1, FrontProperties
<1> HIDE DEF old
<1>3. old \in DOMAIN m /\ m[old].list = name
  BY <1>2 DEF WF, Matches
<1>4. /\ r \in [ListNames -> Seq(Keys)] /\ r[name] = Front(l[name])
      /\ \A x \in ListNames : x # name => r[x] = l[x]
  BY <1>1, <1>2
<1>5. MapOK(d) /\ DOMAIN d = DOMAIN m \ {old} /\ \A x \in DOMAIN d : d[x] = m[x]
  BY DEF WF, MapOK, Drop
<1> HIDE DEF r, d
<1>6. Matches(r, d)
  BY <1>1, <1>2, <1>3, <1>4, <1>5 DEF WF, Matches
<1>7. LenShift(l, r, name, -1)
  <2>1. Len(l[name]) \in Nat
    BY <1>1, LenNat
  <2> QED
    BY <1>2, <1>4, <2>1 DEF LenShift, Size
<1> QED
  BY <1>3, <1>4, <1>5, <1>6, <1>7 DEF WF, r, d, old

(* A node changes list, value or deadline: a hit, an update in place, and  *)
(* a ghost that comes back to life.                                        *)
LEMMA Move ==
  ASSUME NEW l, NEW m, WF(l, m), NEW k \in DOMAIN m,
         NEW n \in Nodes, n.value = NoValue <=> n.list \in {"B1", "B2"}
  PROVE  LET r == PushFront(removeFromList(l, m[k].list, k), n.list, k)
         IN /\ WF(r, [m EXCEPT ![k] = n])
            /\ \E q : LenShift(l, q, m[k].list, -1) /\ LenShift(q, r, n.list, 1)
<1> DEFINE q == removeFromList(l, m[k].list, k)
           d == Drop(m, k)
           r == PushFront(q, n.list, k)
<1>1. WF(q, d) /\ LenShift(l, q, m[k].list, -1)
  BY Detach
<1>2. k \in Keys \ DOMAIN d
  BY DEF Drop, WF, MapOK
<1>3. WF(r, Put(d, k, n)) /\ LenShift(q, r, n.list, 1)
  <2> HIDE DEF q, d
  <2> QED
    BY <1>1, <1>2, Attach DEF r
<1>4. Put(d, k, n) = [m EXCEPT ![k] = n]
  <2>1. m = [x \in DOMAIN m |-> m[x]]
    BY DEF WF, MapOK
  <2> QED
    BY <2>1 DEF Put, Drop
<1> QED
  BY <1>1, <1>3, <1>4

(* replace on a list that is not empty: its last entry becomes a ghost.    *)
LEMMA DemoteWF ==
  ASSUME NEW l, NEW m, WF(l, m), NEW name \in LiveLists, Len(l[name]) > 0
  PROVE  LET d == Demote(l, m, name)
         IN /\ WF(d.lists, d.map)
            /\ \E q : LenShift(l, q, name, -1) /\ LenShift(q, d.lists, GhostOf(name), 1)
            /\ DOMAIN d.map = DOMAIN m
            /\ \E v \in DOMAIN m : /\ d.gone = {v} /\ m[v].list = name
                                  /\ d.map[v].list \notin LiveLists
                                  /\ \A x \in DOMAIN m \ {v} : d.map[x] = m[x]
<1> DEFINE v == Last(l[name])
           q == [l EXCEPT ![name] = Front(@)]
           e == Drop(m, v)
           g == GhostOf(name)
           n == [list |-> g, value |-> NoValue, expiresAt |-> m[v].expiresAt]
<1>1. name \in ListNames /\ g \in {"B1", "B2"} /\ g \in ListNames /\ g # name
  BY DEF LiveLists, ListNames, GhostOf
<1>2. /\ WF(q, e) /\ LenShift(l, q, name, -1)
      /\ v \in DOMAIN m /\ m[v].list = name
  BY <1>1, DropLast
<1>3. m[v] \in Nodes /\ v \in Keys
  BY <1>2 DEF WF, MapOK
<1>4. n \in Nodes /\ n.list = g /\ n.value = NoValue
  BY <1>1, <1>3 DEF Nodes
<1>5. v \in Keys \ DOMAIN e
  BY <1>3 DEF Drop
<1>6. WF(PushFront(q, g, v), Put(e, v, n)) /\ LenShift(q, PushFront(q, g, v), g, 1)
  <2> HIDE DEF q, e, n, v, g
  <2> QED
    BY <1>1, <1>2, <1>4, <1>5, Attach
<1>7. PushFront(q, g, v) = Demote(l, m, name).lists
  <2>1. l \in [ListNames -> Seq(Keys)]
    BY DEF WF
  <2>2. [q EXCEPT ![g] = Cons(v, @)]
          = [l EXCEPT ![name] = Front(@), ![g] = Cons(v, @)]
    BY <1>1, <2>1
  <2> QED
    BY <2>2 DEF PushFront, Demote
<1>8. /\ Put(e, v, n) = Demote(l, m, name).map
      /\ DOMAIN Demote(l, m, name).map = DOMAIN m
      /\ Demote(l, m, name).map[v] = n
      /\ \A x \in DOMAIN m \ {v} : Demote(l, m, name).map[x] = m[x]
  <2>1. m = [x \in DOMAIN m |-> m[x]]
    BY DEF WF, MapOK
  <2>2. Demote(l, m, name).map = [m EXCEPT ![v] = n]
    BY DEF Demote, Node
  <2>3. Put(e, v, n) = [m EXCEPT ![v] = n]
    BY <1>2, <2>1 DEF Put, Drop
  <2> HIDE DEF v, n, e
  <2> QED
    BY <1>2, <2>1, <2>2, <2>3
<1>9. Demote(l, m, name).gone = {v}
  BY DEF Demote
<1>10. Demote(l, m, name).map[v].list \notin LiveLists
  BY <1>1, <1>4, <1>8 DEF LiveLists
<1> QED
  BY <1>2, <1>6, <1>7, <1>8, <1>9, <1>10


(* replace in general.  When it evicts nothing, T2 is empty and T1 is no   *)
(* larger than its target (strictly smaller if T2 was preferred).          *)
ReplaceOutcome(l, r, target, preferT2) ==
  \/ /\ Size(l, "T1") > 0
     /\ \E q : LenShift(l, q, "T1", -1) /\ LenShift(q, r, "B1", 1)
  \/ /\ Size(l, "T2") > 0
     /\ \E q : LenShift(l, q, "T2", -1) /\ LenShift(q, r, "B2", 1)
  \/ /\ r = l /\ ~(Size(l, "T2") > 0)
     /\ ~(Size(l, "T1") > 0 /\ (Size(l, "T1") > target \/ (preferT2 /\ Size(l, "T1") = target)))

(* replace keeps lists and map well formed, and turns at most one live     *)
(* entry into a ghost.                                                     *)
LEMMA ReplaceWF ==
  ASSUME NEW l, NEW m, WF(l, m), NEW target, NEW preferT2 \in BOOLEAN
  PROVE  LET r == Replace(l, m, target, preferT2)
         IN /\ WF(r.lists, r.map)
            /\ ReplaceOutcome(l, r.lists, target, preferT2)
            /\ DOMAIN r.map = DOMAIN m
            /\ r.gone \subseteq {x \in DOMAIN m : m[x].list \in LiveLists}
            /\ (r.gone = {} \/ \E v \in DOMAIN m : r.gone = {v})
            /\ \A x \in r.gone : r.map[x].list \notin LiveLists
            /\ \A x \in DOMAIN m \ r.gone : r.map[x] = m[x]
<1> DEFINE from == ReplaceFrom(l, target, preferT2)
           r == Replace(l, m, target, preferT2)
           over == Size(l, "T1") > 0 /\ (Size(l, "T1") > target \/ (preferT2 /\ Size(l, "T1") = target))
<1>1. CASE over
  <2>1. from = {"T1"}
    BY <1>1 DEF ReplaceFrom, Size
  <2>2. r = Demote(l, m, "T1")
    BY <2>1 DEF Replace
  <2>3. "T1" \in LiveLists /\ GhostOf("T1") = "B1"
    BY DEF LiveLists, GhostOf
  <2> HIDE DEF r
  <2>4. Size(l, "T1") > 0 /\ Len(l["T1"]) > 0
    BY <1>1 DEF Size
  <2>5. /\ WF(r.lists, r.map)
        /\ \E q : LenShift(l, q, "T1", -1) /\ LenShift(q, r.lists, "B1", 1)
        /\ DOMAIN r.map = DOMAIN m
        /\ \E v \in DOMAIN m : /\ r.gone = {v} /\ m[v].list = "T1"
                              /\ r.map[v].list \notin LiveLists
                              /\ \A x \in DOMAIN m \ {v} : r.map[x] = m[x]
    BY <2>2, <2>3, <2>4, DemoteWF
  <2>6. ReplaceOutcome(l, r.lists, target, preferT2)
    BY <2>4, <2>5 DEF ReplaceOutcome
  <2> QED
    BY <2>3, <2>5, <2>6 DEF r
<1>2. CASE ~over /\ Size(l, "T2") > 0
  <2>1. from = {"T2"}
    BY <1>2 DEF ReplaceFrom, Size
  <2>2. r = Demote(l, m, "T2")
    BY <2>1 DEF Replace
  <2>3. "T2" \in LiveLists /\ GhostOf("T2") = "B2"
    BY DEF LiveLists, GhostOf
  <2> HIDE DEF r
  <2>4. Size(l, "T2") > 0 /\ Len(l["T2"]) > 0
    BY <1>2 DEF Size
  <2>5. /\ WF(r.lists, r.map)
        /\ \E q : LenShift(l, q, "T2", -1) /\ LenShift(q, r.lists, "B2", 1)
        /\ DOMAIN r.map = DOMAIN m
        /\ \E v \in DOMAIN m : /\ r.gone = {v} /\ m[v].list = "T2"
                              /\ r.map[v].list \notin LiveLists
                              /\ \A x \in DOMAIN m \ {v} : r.map[x] = m[x]
    BY <2>2, <2>3, <2>4, DemoteWF
  <2>6. ReplaceOutcome(l, r.lists, target, preferT2)
    BY <2>4, <2>5 DEF ReplaceOutcome
  <2> QED
    BY <2>3, <2>5, <2>6 DEF r
<1>3. CASE ~over /\ ~(Size(l, "T2") > 0)
  <2>1. from = {}
    BY <1>3 DEF ReplaceFrom, Size
  <2>2. r = [lists |-> l, map |-> m, gone |-> {}]
    BY <2>1 DEF Replace
  <2> QED
    BY <1>3, <2>2 DEF ReplaceOutcome
<1> QED
  BY <1>1, <1>2, <1>3


(* ListBounds, of any four lists.                                          *)
Bounds(l) ==
  /\ Size(l, "T1") + Size(l, "T2") <= Capacity
  /\ Size(l, "T1") + Size(l, "B1") <= Capacity
  /\ Size(l, "B1") + Size(l, "B2") <= Capacity

LensNat(l) == \A name \in ListNames : Size(l, name) \in Nat

(* Well-formed lists have natural lengths.                                 *)
LEMMA WFLens ==
  ASSUME NEW l, NEW m, WF(l, m)
  PROVE  LensNat(l)
  BY LenNat DEF WF, LensNat, Size

(* The four lengths after replace.                                         *)
LEMMA ReplaceEquations ==
  ASSUME NEW l, LensNat(l), NEW r, NEW target \in Nat, NEW preferT2 \in BOOLEAN,
         ReplaceOutcome(l, r, target, preferT2)
  PROVE  \/ /\ Size(l, "T1") >= 1
            /\ Size(r, "T1") = Size(l, "T1") - 1 /\ Size(r, "B1") = Size(l, "B1") + 1
            /\ Size(r, "T2") = Size(l, "T2") /\ Size(r, "B2") = Size(l, "B2")
         \/ /\ Size(l, "T2") >= 1
            /\ Size(r, "T2") = Size(l, "T2") - 1 /\ Size(r, "B2") = Size(l, "B2") + 1
            /\ Size(r, "T1") = Size(l, "T1") /\ Size(r, "B1") = Size(l, "B1")
         \/ /\ Size(l, "T2") = 0
            /\ Size(l, "T1") = 0 \/ Size(l, "T1") < target \/ (~preferT2 /\ Size(l, "T1") = target)
            /\ Size(r, "T1") = Size(l, "T1") /\ Size(r, "B1") = Size(l, "B1")
            /\ Size(r, "T2") = Size(l, "T2") /\ Size(r, "B2") = Size(l, "B2")
<1>0. /\ Size(l, "T1") \in Nat /\ Size(l, "T2") \in Nat
      /\ Size(l, "B1") \in Nat /\ Size(l, "B2") \in Nat
  BY DEF LensNat, ListNames
<1>1. CASE /\ Size(l, "T1") > 0
           /\ \E q : LenShift(l, q, "T1", -1) /\ LenShift(q, r, "B1", 1)
  <2>1. PICK q : LenShift(l, q, "T1", -1) /\ LenShift(q, r, "B1", 1)
    BY <1>1
  <2>2. /\ Size(q, "T1") = Size(l, "T1") + (-1) /\ Size(q, "T2") = Size(l, "T2")
        /\ Size(q, "B1") = Size(l, "B1") /\ Size(q, "B2") = Size(l, "B2")
    BY <2>1 DEF LenShift, ListNames
  <2>3. /\ Size(r, "T1") = Size(q, "T1") /\ Size(r, "T2") = Size(q, "T2")
        /\ Size(r, "B1") = Size(q, "B1") + 1 /\ Size(r, "B2") = Size(q, "B2")
    BY <2>1 DEF LenShift, ListNames
  <2> QED
    BY <1>0, <1>1, <2>2, <2>3
<1>2. CASE /\ Size(l, "T2") > 0
           /\ \E q : LenShift(l, q, "T2", -1) /\ LenShift(q, r, "B2", 1)
  <2>1. PICK q : LenShift(l, q, "T2", -1) /\ LenShift(q, r, "B2", 1)
    BY <1>2
  <2>2. /\ Size(q, "T2") = Size(l, "T2") + (-1) /\ Size(q, "T1") = Size(l, "T1")
        /\ Size(q, "B1") = Size(l, "B1") /\ Size(q, "B2") = Size(l, "B2")
    BY <2>1 DEF LenShift, ListNames
  <2>3. /\ Size(r, "T1") = Size(q, "T1") /\ Size(r, "T2") = Size(q, "T2")
        /\ Size(r, "B2") = Size(q, "B2") + 1 /\ Size(r, "B1") = Size(q, "B1")
    BY <2>1 DEF LenShift, ListNames
  <2> QED
    BY <1>0, <1>2, <2>2, <2>3
<1>3. CASE /\ r = l /\ ~(Size(l, "T2") > 0)
           /\ ~(Size(l, "T1") > 0 /\ (Size(l, "T1") > target \/ (preferT2 /\ Size(l, "T1") = target)))
  BY <1>0, <1>3
<1> QED
  BY <1>1, <1>2, <1>3 DEF ReplaceOutcome


(* An entry leaves: every bound is kept.                                   *)
LEMMA LeaveBounds ==
  ASSUME NEW l, LensNat(l), Bounds(l), NEW r, NEW name \in ListNames,
         LenShift(l, r, name, -1)
  PROVE  Bounds(r)
<1>1. /\ Size(l, "T1") \in Nat /\ Size(l, "T2") \in Nat
      /\ Size(l, "B1") \in Nat /\ Size(l, "B2") \in Nat
  BY DEF LensNat, ListNames
<1>2. \A x \in ListNames : Size(r, x) \in Int /\ Size(r, x) <= Size(l, x)
  BY DEF LenShift, LensNat
<1>3. /\ Size(r, "T1") <= Size(l, "T1") /\ Size(r, "T2") <= Size(l, "T2")
      /\ Size(r, "B1") <= Size(l, "B1") /\ Size(r, "B2") <= Size(l, "B2")
      /\ Size(r, "T1") \in Int /\ Size(r, "T2") \in Int
      /\ Size(r, "B1") \in Int /\ Size(r, "B2") \in Int
  BY <1>2 DEF ListNames
<1> QED
  BY <1>1, <1>3, CapacityAssumption DEF Bounds

(* A live entry moves to T2.                                               *)
LEMMA PromoteBounds ==
  ASSUME NEW l, LensNat(l), Bounds(l), NEW q, NEW r, NEW name \in LiveLists,
         LenShift(l, q, name, -1), LenShift(q, r, "T2", 1)
  PROVE  Bounds(r)
<1>1. /\ Size(l, "T1") \in Nat /\ Size(l, "T2") \in Nat
      /\ Size(l, "B1") \in Nat /\ Size(l, "B2") \in Nat
  BY DEF LensNat, ListNames
<1>2. /\ Size(r, "T1") = Size(q, "T1") /\ Size(r, "T2") = Size(q, "T2") + 1
      /\ Size(r, "B1") = Size(q, "B1") /\ Size(r, "B2") = Size(q, "B2")
  BY DEF LenShift, ListNames
<1>3. CASE name = "T1"
  <2>1. /\ Size(q, "T1") = Size(l, "T1") + (-1) /\ Size(q, "T2") = Size(l, "T2")
        /\ Size(q, "B1") = Size(l, "B1") /\ Size(q, "B2") = Size(l, "B2")
    BY <1>3 DEF LenShift, ListNames
  <2> QED
    BY <1>1, <1>2, <2>1, CapacityAssumption DEF Bounds
<1>4. CASE name = "T2"
  <2>1. /\ Size(q, "T2") = Size(l, "T2") + (-1) /\ Size(q, "T1") = Size(l, "T1")
        /\ Size(q, "B1") = Size(l, "B1") /\ Size(q, "B2") = Size(l, "B2")
    BY <1>4 DEF LenShift, ListNames
  <2> QED
    BY <1>1, <1>2, <2>1, CapacityAssumption DEF Bounds
<1> QED
  BY <1>3, <1>4 DEF LiveLists

(* A ghost comes back: replace, then the ghost moves to T2.  That there is *)
(* room for it when replace evicts nothing rests on the bound on           *)
(* |T1| + |B1| for a B1 ghost, and on preferT2 for a B2 ghost.             *)
LEMMA ReviveBounds ==
  ASSUME NEW l, LensNat(l), Bounds(l), NEW ghosts \in {"B1", "B2"}, Size(l, ghosts) >= 1,
         NEW target \in 0 .. Capacity, NEW preferT2 \in BOOLEAN, preferT2 <=> ghosts = "B2",
         NEW r, ReplaceOutcome(l, r, target, preferT2),
         NEW q, LenShift(r, q, ghosts, -1),
         NEW s, LenShift(q, s, "T2", 1)
  PROVE  Bounds(s)
<1>0. Capacity \in Nat /\ target \in Nat /\ target <= Capacity
  BY CapacityAssumption
<1>1. /\ Size(l, "T1") \in Nat /\ Size(l, "T2") \in Nat
      /\ Size(l, "B1") \in Nat /\ Size(l, "B2") \in Nat
  BY DEF LensNat, ListNames
<1>2. /\ Size(s, "T1") = Size(q, "T1") /\ Size(s, "T2") = Size(q, "T2") + 1
      /\ Size(s, "B1") = Size(q, "B1") /\ Size(s, "B2") = Size(q, "B2")
  BY DEF LenShift, ListNames
<1>3. \/ /\ Size(l, "T1") >= 1
         /\ Size(r, "T1") = Size(l, "T1") - 1 /\ Size(r, "B1") = Size(l, "B1") + 1
         /\ Size(r, "T2") = Size(l, "T2") /\ Size(r, "B2") = Size(l, "B2")
      \/ /\ Size(l, "T2") >= 1
         /\ Size(r, "T2") = Size(l, "T2") - 1 /\ Size(r, "B2") = Size(l, "B2") + 1
         /\ Size(r, "T1") = Size(l, "T1") /\ Size(r, "B1") = Size(l, "B1")
      \/ /\ Size(l, "T2") = 0
         /\ \/ Size(l, "T1") = 0
            \/ Size(l, "T1") < target
            \/ ~preferT2 /\ Size(l, "T1") = target
         /\ Size(r, "T1") = Size(l, "T1") /\ Size(r, "B1") = Size(l, "B1")
         /\ Size(r, "T2") = Size(l, "T2") /\ Size(r, "B2") = Size(l, "B2")
  BY <1>0, ReplaceEquations
<1>4. CASE ghosts = "B1"
  <2>1. /\ Size(q, "T1") = Size(r, "T1") /\ Size(q, "T2") = Size(r, "T2")
        /\ Size(q, "B1") = Size(r, "B1") + (-1) /\ Size(q, "B2") = Size(r, "B2")
    BY <1>4 DEF LenShift, ListNames
  <2>2. Size(l, "B1") >= 1
    BY <1>4
  <2> QED
    BY <1>0, <1>1, <1>2, <1>3, <2>1, <2>2 DEF Bounds
<1>5. CASE ghosts = "B2"
  <2>1. /\ Size(q, "T1") = Size(r, "T1") /\ Size(q, "T2") = Size(r, "T2")
        /\ Size(q, "B1") = Size(r, "B1") /\ Size(q, "B2") = Size(r, "B2") + (-1)
    BY <1>5 DEF LenShift, ListNames
  <2> QED
    BY <1>0, <1>1, <1>2, <1>3, <1>5, <2>1 DEF Bounds
<1> QED
  BY <1>4, <1>5


---------------------------------------------------------------------------
(* The inductive invariant.                                                *)
Core ==
  /\ WF(lists, itemMap)
  /\ Bounds(lists)
  /\ p \in 0 .. Capacity
  /\ bytes \in Int
  /\ TypesOK

(* The inductive invariant gives the three invariants the runs check.      *)
LEMMA CoreImplies == Core => TypeOK /\ ListsMatchMap /\ ListBounds
<1> SUFFICES ASSUME Core PROVE TypeOK /\ ListsMatchMap /\ ListBounds
  OBVIOUS
<1>1. TypeOK
  BY DEF Core, WF, MapOK, TypeOK
<1>2. ListsMatchMap
  BY DEF Core, WF, Matches, ListsMatchMap, IsIn
<1>3. ListBounds
  <2>1. LensNat(lists)
    BY WFLens DEF Core
  <2>2. /\ Size(lists, "T1") \in Nat /\ Size(lists, "T2") \in Nat
        /\ Size(lists, "B1") \in Nat /\ Size(lists, "B2") \in Nat
    BY <2>1 DEF LensNat, ListNames
  <2>3. /\ Size(lists, "T1") + Size(lists, "T2") <= Capacity
        /\ Size(lists, "T1") + Size(lists, "B1") <= Capacity
        /\ Size(lists, "B1") + Size(lists, "B2") <= Capacity
        /\ Size(lists, "T1") + Size(lists, "T2") + Size(lists, "B1")
             + Size(lists, "B2") <= 2 * Capacity
    BY <2>2, CapacityAssumption DEF Core, Bounds
  <2> QED
    BY <2>3 DEF ListBounds, Live, Total, Size
<1> QED
  BY <1>1, <1>2, <1>3

(* What a call reports is well typed.                                      *)
LEMMA ReplyType ==
  ASSUME NEW op \in {"new", "get", "set", "delete", "peek", "purge"},
         NEW k \in Keys \cup {NoKey}, NEW found \in BOOLEAN,
         NEW value \in Values \cup {NoValue},
         NEW calls \in SUBSET Calls, NEW counted \in SUBSET Counters
  PROVE  Reply(op, k, found, value, calls, counted) \in Replies
  BY DEF Reply, Replies

(* The reply to a call that found nothing is well typed.                   *)
LEMMA MissType ==
  ASSUME NEW op \in {"new", "get", "set", "delete", "peek", "purge"},
         NEW k \in Keys \cup {NoKey}, NEW counted \in SUBSET Counters
  PROVE  Miss(op, k, counted) \in Replies
<1>1. {} \in SUBSET Calls
  OBVIOUS
<1> QED
  BY <1>1, ReplyType DEF Miss

(* A live entry has a value, a deadline and a size.                        *)
LEMMA NodeFacts ==
  ASSUME Core, NEW k \in DOMAIN itemMap
  PROVE  /\ k \in Keys /\ itemMap[k] \in Nodes
         /\ itemMap[k].list \in ListNames
         /\ itemMap[k].expiresAt \in Nat
         /\ len(itemMap[k].value) \in Nat
         /\ itemMap[k].list \in LiveLists => itemMap[k].value \in Values
<1>1. k \in Keys /\ itemMap[k] \in Nodes
  BY DEF Core, WF, MapOK
<1>2. /\ itemMap[k].list \in ListNames /\ itemMap[k].expiresAt \in Nat
      /\ itemMap[k].value \in Values \cup {NoValue}
  BY <1>1 DEF Nodes
<1>3. itemMap[k].list \in LiveLists => itemMap[k].value \in Values
  BY <1>2 DEF Core, WF, MapOK, LiveLists
<1>4. len(itemMap[k].value) \in Nat
  BY <1>2, ValuesAssumption DEF len
<1> QED
  BY <1>1, <1>2, <1>3, <1>4

(* The bytes and the callbacks of the entries replace evicts are well      *)
(* typed.                                                                  *)
LEMMA GoneFacts ==
  ASSUME Core, NEW gone, gone \subseteq {x \in DOMAIN itemMap : itemMap[x].list \in LiveLists}
  PROVE  BytesOf(gone) \in Int /\ ReplaceCalls(gone) \in SUBSET Calls
<1>1. BytesOf(gone) \in Int
  <2>1. CASE gone = {}
    BY <2>1 DEF BytesOf
  <2>2. CASE gone # {}
    <3>1. (CHOOSE x \in gone : TRUE) \in gone
      BY <2>2
    <3>2. len(itemMap[CHOOSE x \in gone : TRUE].value) \in Nat
      BY <3>1, NodeFacts
    <3> QED
      BY <2>2, <3>2 DEF BytesOf
  <2> QED
    BY <2>1, <2>2
<1>2. ReplaceCalls(gone) \in SUBSET Calls
  <2>1. \A x \in gone : x \in Keys /\ itemMap[x].value \in Values
    BY NodeFacts
  <2> QED
    BY <2>1 DEF ReplaceCalls, Calls
<1> QED
  BY <1>1, <1>2

(* The deadline Set computes from a ttl is a time.                         *)
LEMMA ExpiryType ==
  ASSUME now \in Nat, NEW ttl \in TTLs
  PROVE  ExpiryOf(ttl) \in Nat
  BY TimeAssumption DEF ExpiryOf


---------------------------------------------------------------------------
(* Each step of the cache keeps the invariant.                             *)
LEMMA InitCore == Init => Core
<1> SUFFICES ASSUME Init PROVE Core
  OBVIOUS
<1>1. \A name \in ListNames : lists[name] = <<>> /\ Size(lists, name) = 0
  BY DEF Init, Size
<1>2. /\ Size(lists, "T1") = 0 /\ Size(lists, "T2") = 0
      /\ Size(lists, "B1") = 0 /\ Size(lists, "B2") = 0
  BY <1>1 DEF ListNames
<1>3. Bounds(lists)
  BY <1>2, CapacityAssumption DEF Bounds
<1>4. WF(lists, itemMap)
  <2>1. IsInjective(<<>>) /\ ToSet(<<>>) = {}
    BY DEF IsInjective, ToSet
  <2>2. DOMAIN itemMap = {} /\ MapOK(itemMap)
    BY DEF Init, EmptyMap, MapOK
  <2>3. Matches(lists, itemMap)
    BY <1>1, <2>1, <2>2 DEF Matches
  <2>4. lists \in [ListNames -> Seq(Keys)]
    BY DEF Init
  <2> QED
    BY <2>2, <2>3, <2>4 DEF WF
<1>5. TypesOK
  <2>1. {} \in SUBSET Calls /\ {} \in SUBSET Counters
    OBVIOUS
  <2> QED
    BY <2>1, ReplyType DEF Init, InitTypes, TypesOK
<1> QED
  BY <1>3, <1>4, <1>5, CapacityAssumption DEF Core, Init

(* Purge empties the four lists and the map.                               *)
LEMMA PurgeStep ==
  ASSUME Core, Purge
  PROVE  Core'
<1>1. \A name \in ListNames : lists'[name] = <<>> /\ Size(lists', name) = 0
  BY DEF Purge, Size
<1>2. /\ Size(lists', "T1") = 0 /\ Size(lists', "T2") = 0
      /\ Size(lists', "B1") = 0 /\ Size(lists', "B2") = 0
  BY <1>1 DEF ListNames
<1>3. Bounds(lists')
  BY <1>2, CapacityAssumption DEF Bounds
<1>4. WF(lists', itemMap')
  <2>1. IsInjective(<<>>) /\ ToSet(<<>>) = {}
    BY DEF IsInjective, ToSet
  <2>2. DOMAIN itemMap' = {} /\ MapOK(itemMap')
    BY DEF Purge, EmptyMap, MapOK
  <2>3. Matches(lists', itemMap')
    BY <1>1, <2>1, <2>2 DEF Matches
  <2>4. lists' \in [ListNames -> Seq(Keys)]
    BY DEF Purge
  <2> QED
    BY <2>2, <2>3, <2>4 DEF WF
<1>5. TypesOK'
  BY MissType DEF Core, TypesOK, Purge
<1> QED
  BY <1>3, <1>4, <1>5, CapacityAssumption DEF Core, Purge

(* Steps that leave the cache's own state alone.                           *)
LEMMA QuietStep ==
  ASSUME Core, UNCHANGED <<lists, p, itemMap, bytes>>, now' \in Nat, ret' \in Replies
  PROVE  Core'
<1>1. lists' = lists /\ p' = p /\ itemMap' = itemMap /\ bytes' = bytes
  OBVIOUS
<1> QED
  BY <1>1 DEF Core, TypesOK

(* Delete, and a read of an entry past its deadline.                       *)
LEMMA RemoveStep ==
  ASSUME Core, NEW k \in DOMAIN itemMap, RemoveNode(k), ret' \in Replies
  PROVE  Core'
<1>1. WF(lists', itemMap') /\ LenShift(lists, lists', itemMap[k].list, -1)
  BY Detach DEF Core, RemoveNode
<1>2. Bounds(lists')
  BY <1>1, NodeFacts, LeaveBounds, WFLens DEF Core
<1>3. bytes' \in Int
  BY NodeFacts DEF Core, RemoveNode
<1> QED
  BY <1>1, <1>2, <1>3 DEF Core, RemoveNode, TypesOK

(* A hit, and an update in place.                                          *)
LEMMA PromoteStep ==
  ASSUME Core, NEW k \in DOMAIN itemMap, itemMap[k].list \in LiveLists,
         NEW n \in Nodes, n.list = "T2", n.value # NoValue,
         lists' = PushFront(removeFromList(lists, itemMap[k].list, k), "T2", k),
         itemMap' = [itemMap EXCEPT ![k] = n],
         bytes' \in Int, p' = p, now' = now, ret' \in Replies
  PROVE  Core'
<1>1. n.value = NoValue <=> n.list \in {"B1", "B2"}
  OBVIOUS
<1>2. /\ WF(lists', itemMap')
      /\ \E q : /\ LenShift(lists, q, itemMap[k].list, -1)
               /\ LenShift(q, lists', "T2", 1)
  BY <1>1, Move DEF Core
<1>3. Bounds(lists')
  BY <1>2, PromoteBounds, WFLens DEF Core
<1> QED
  BY <1>2, <1>3 DEF Core, TypesOK

(* A ghost that is set again.                                              *)
LEMMA ReviveStep ==
  ASSUME Core, NEW k \in DOMAIN itemMap, NEW v \in Values, NEW ttl \in TTLs,
         NEW ghosts \in {"B1", "B2"}, itemMap[k].list = ghosts,
         NEW preferT2 \in BOOLEAN, preferT2 <=> ghosts = "B2",
         NEW target \in 0 .. Capacity, Revive(k, v, ttl, ghosts, target, preferT2)
  PROVE  Core'
<1> DEFINE r == Replace(lists, itemMap, target, preferT2)
           n == Node("T2", v, ExpiryOf(ttl))
<1>1. /\ WF(r.lists, r.map) /\ DOMAIN r.map = DOMAIN itemMap
      /\ ReplaceOutcome(lists, r.lists, target, preferT2)
      /\ r.gone \subseteq {x \in DOMAIN itemMap : itemMap[x].list \in LiveLists}
      /\ \A x \in DOMAIN itemMap \ r.gone : r.map[x] = itemMap[x]
  BY ReplaceWF DEF Core
<1>2. k \in DOMAIN r.map /\ r.map[k].list = ghosts
  <2>1. k \notin r.gone
    BY <1>1 DEF LiveLists
  <2> QED
    BY <1>1, <2>1
<1>3. n \in Nodes /\ n.list = "T2" /\ (n.value = NoValue <=> n.list \in {"B1", "B2"})
  <2>1. ExpiryOf(ttl) \in Nat
    BY ExpiryType DEF Core, TypesOK
  <2> QED
    BY <2>1, ValuesAssumption DEF Node, Nodes, ListNames
<1>4. /\ lists' = PushFront(removeFromList(r.lists, ghosts, k), "T2", k)
      /\ itemMap' = [r.map EXCEPT ![k] = n]
      /\ bytes' = bytes + SizeOf[v] - BytesOf(r.gone)
      /\ ret' = Reply("set", k, TRUE, NoValue, ReplaceCalls(r.gone), {"Sets", "Evictions"})
      /\ p' = target /\ now' = now
  BY DEF Revive, SetReply
<1> HIDE DEF r, n
<1>5. WF(lists', itemMap') /\ \E q : LenShift(r.lists, q, ghosts, -1) /\ LenShift(q, lists', "T2", 1)
  BY <1>1, <1>2, <1>3, <1>4, Move
<1>6. LensNat(lists) /\ Size(lists, ghosts) >= 1
  <2>1. LensNat(lists)
    BY WFLens DEF Core
  <2>2. ghosts \in ListNames /\ k \in Keys
    BY NodeFacts DEF ListNames
  <2>3. k \in ToSet(lists[ghosts]) /\ lists[ghosts] \in Seq(Keys)
    BY <2>2 DEF Core, WF, Matches
  <2>4. Size(lists, ghosts) # 0
    <3>1. DOMAIN lists[ghosts] = 1 .. Size(lists, ghosts)
      BY <2>3, LenProperties DEF Size
    <3> QED
      BY <2>3, <3>1 DEF ToSet
  <2>5. Size(lists, ghosts) \in Nat
    BY <2>1, <2>2 DEF LensNat
  <2> QED
    BY <2>1, <2>4, <2>5
<1>7. Bounds(lists')
  BY <1>1, <1>5, <1>6, ReviveBounds DEF Core
<1>8. bytes' \in Int /\ ReplaceCalls(r.gone) \in SUBSET Calls
  <2>1. BytesOf(r.gone) \in Int /\ ReplaceCalls(r.gone) \in SUBSET Calls
    BY <1>1, GoneFacts
  <2>2. SizeOf[v] \in Nat
    BY ValuesAssumption
  <2> QED
    BY <1>4, <2>1, <2>2 DEF Core
<1>9. ret' \in Replies
  <2>1. k \in Keys \cup {NoKey}
    BY NodeFacts
  <2>2. {"Sets", "Evictions"} \in SUBSET Counters
    BY DEF Counters
  <2> QED
    BY <1>4, <1>8, <2>1, <2>2, ReplyType
<1> QED
  BY <1>4, <1>5, <1>7, <1>8, <1>9 DEF Core, TypesOK


(* A new key, once room has been made in l and m.                          *)
Room(l) ==
  /\ Size(l, "T1") + Size(l, "T2") + 1 <= Capacity
  /\ Size(l, "T1") + Size(l, "B1") + 1 <= Capacity
  /\ Size(l, "B1") + Size(l, "B2") <= Capacity

(* The end of Set for a new key: PushFront on T1 of lists that have room.  *)
LEMMA AddStep ==
  ASSUME Core, NEW k \in Keys, NEW v \in Values, NEW ttl \in TTLs,
         NEW l, NEW m, NEW gone, WF(l, m), k \notin DOMAIN m, Room(l),
         gone \subseteq {x \in DOMAIN itemMap : itemMap[x].list \in LiveLists},
         AddNew(k, v, ttl, l, m, gone), ret' \in Replies
  PROVE  Core'
<1> DEFINE n == Node("T1", v, ExpiryOf(ttl))
<1>1. n \in Nodes /\ n.list = "T1" /\ (n.value = NoValue <=> n.list \in {"B1", "B2"})
  <2>1. ExpiryOf(ttl) \in Nat
    BY ExpiryType DEF Core, TypesOK
  <2> QED
    BY <2>1, ValuesAssumption DEF Node, Nodes, ListNames
<1>2. /\ lists' = PushFront(l, "T1", k) /\ itemMap' = Put(m, k, n)
      /\ bytes' = bytes + SizeOf[v] - BytesOf(gone) /\ p' = p /\ now' = now
  BY DEF AddNew
<1> HIDE DEF n
<1>3. WF(lists', itemMap') /\ LenShift(l, lists', "T1", 1)
  BY <1>1, <1>2, Attach
<1>4. Bounds(lists')
  <2>1. /\ Size(l, "T1") \in Nat /\ Size(l, "T2") \in Nat
        /\ Size(l, "B1") \in Nat /\ Size(l, "B2") \in Nat
    BY WFLens DEF LensNat, ListNames
  <2>2. /\ Size(lists', "T1") = Size(l, "T1") + 1 /\ Size(lists', "T2") = Size(l, "T2")
        /\ Size(lists', "B1") = Size(l, "B1") /\ Size(lists', "B2") = Size(l, "B2")
    BY <1>3 DEF LenShift, ListNames
  <2> QED
    BY <2>1, <2>2, CapacityAssumption DEF Room, Bounds
<1>5. bytes' \in Int
  <2>1. BytesOf(gone) \in Int
    BY GoneFacts
  <2>2. SizeOf[v] \in Nat
    BY ValuesAssumption
  <2> QED
    BY <1>2, <2>1, <2>2 DEF Core
<1> QED
  BY <1>2, <1>3, <1>4, <1>5 DEF Core, TypesOK

(* The guards of case 4, over Size.                                        *)
LEMMA GuardSizes ==
  ASSUME Core
  PROVE  /\ Size(lists, "T1") \in Nat /\ Size(lists, "T2") \in Nat
         /\ Size(lists, "B1") \in Nat /\ Size(lists, "B2") \in Nat
         /\ Size(lists, "T1") + Size(lists, "T2") <= Capacity
         /\ Size(lists, "T1") + Size(lists, "B1") <= Capacity
         /\ Size(lists, "B1") + Size(lists, "B2") <= Capacity
         /\ FirstFull <=> Size(lists, "T1") + Size(lists, "B1") = Capacity
         /\ Live = Size(lists, "T1") + Size(lists, "T2")
         /\ Total = Live + Size(lists, "B1") + Size(lists, "B2")
<1>1. LensNat(lists)
  BY WFLens DEF Core
<1> QED
  BY <1>1 DEF Core, Bounds, LensNat, ListNames, FirstFull, Live, Total, Size

(* Set of a new key that fits: nothing leaves.                             *)
LEMMA NewFitsStep ==
  ASSUME Core, NEW k \in Keys, NEW v \in Values, NEW ttl \in TTLs, NewFits(k, v, ttl)
  PROVE  Core'
<1>1. ret' \in Replies
  BY ReplyType DEF NewFits, SetReply, Counters
<1>2. Room(lists)
  <2>1. ~FirstFull /\ Live < Capacity
    BY DEF NewFits
  <2> QED
    BY <2>1, GuardSizes, CapacityAssumption DEF Room
<1>3. k \notin DOMAIN itemMap /\ AddNew(k, v, ttl, lists, itemMap, {})
  BY DEF NewFits
<1> QED
  BY <1>1, <1>2, <1>3, AddStep DEF Core

(* Set of a new key with T1 as large as the cache: the last of T1 leaves   *)
(* without a ghost.                                                        *)
LEMMA NewDropsT1Step ==
  ASSUME Core, NEW k \in Keys, NEW v \in Values, NEW ttl \in TTLs, NewDropsT1(k, v, ttl)
  PROVE  Core'
<1> DEFINE old == Last(lists["T1"])
           l == [lists EXCEPT !["T1"] = Front(@)]
           m == Drop(itemMap, old)
<1>1. /\ k \notin DOMAIN itemMap /\ FirstFull /\ Size(lists, "T1") >= Capacity
      /\ AddNew(k, v, ttl, l, m, {old})
      /\ SetReply(k, {[key |-> old, value |-> itemMap[old].value]}, {"Sets", "Evictions"})
  BY DEF NewDropsT1, Size
<1>2. "T1" \in ListNames /\ Len(lists["T1"]) > 0
  <2>1. Size(lists, "T1") > 0
    BY <1>1, GuardSizes, CapacityAssumption
  <2> QED
    BY <2>1 DEF Size, ListNames
<1>3. /\ WF(l, m) /\ LenShift(lists, l, "T1", -1)
      /\ old \in DOMAIN itemMap /\ itemMap[old].list = "T1"
  BY <1>2, DropLast DEF Core
<1>4. old \in Keys /\ itemMap[old].value \in Values
  BY <1>3, NodeFacts DEF LiveLists
<1>5. k \notin DOMAIN m
  BY <1>1 DEF Drop
<1> HIDE DEF old, l, m
<1>6. Room(l)
  <2>1. /\ Size(l, "T1") = Size(lists, "T1") + (-1) /\ Size(l, "T2") = Size(lists, "T2")
        /\ Size(l, "B1") = Size(lists, "B1") /\ Size(l, "B2") = Size(lists, "B2")
    BY <1>3 DEF LenShift, ListNames
  <2> QED
    BY <1>1, <2>1, GuardSizes, CapacityAssumption DEF Room
<1>7. ret' \in Replies
  <2>1. {[key |-> old, value |-> itemMap[old].value]} \in SUBSET Calls
    BY <1>4 DEF Calls
  <2> QED
    BY <1>1, <2>1, ReplyType DEF SetReply, Counters
<1>8. {old} \subseteq {x \in DOMAIN itemMap : itemMap[x].list \in LiveLists}
  BY <1>3 DEF LiveLists
<1> QED
  BY <1>1, <1>3, <1>5, <1>6, <1>7, <1>8, AddStep


(* What NewDropsGhost1 and NewReplaces share: replace on lists from which  *)
(* ghosts may have been dropped.                                           *)
LEMMA ReplaceThenAdd ==
  ASSUME Core, NEW k \in Keys \ DOMAIN itemMap, NEW v \in Values, NEW ttl \in TTLs,
         NEW l, NEW m, WF(l, m), DOMAIN m \subseteq DOMAIN itemMap,
         \A x \in DOMAIN m : m[x] = itemMap[x],
         NEW r, r = Replace(l, m, p, FALSE),
         ReplaceOutcome(l, r.lists, p, FALSE) => Room(r.lists),
         AddNew(k, v, ttl, r.lists, r.map, r.gone),
         SetReply(k, ReplaceCalls(r.gone), {"Sets", "Evictions"})
  PROVE  Core'
<1>1. /\ WF(r.lists, r.map) /\ DOMAIN r.map = DOMAIN m
      /\ ReplaceOutcome(l, r.lists, p, FALSE)
      /\ r.gone \subseteq {x \in DOMAIN m : m[x].list \in LiveLists}
  <2> DEFINE o(b) == Replace(l, m, p, b)
             P(b) == /\ WF(o(b).lists, o(b).map) /\ DOMAIN o(b).map = DOMAIN m
                     /\ ReplaceOutcome(l, o(b).lists, p, b)
                     /\ o(b).gone \subseteq {x \in DOMAIN m : m[x].list \in LiveLists}
  <2>1. \A b \in BOOLEAN : P(b)
    BY ReplaceWF
  <2>2. P(FALSE)
    <3> HIDE DEF P
    <3> QED
      BY <2>1
  <2> QED
    BY <2>2
<1>2. r.gone \subseteq {x \in DOMAIN itemMap : itemMap[x].list \in LiveLists}
  BY <1>1
<1>3. ret' \in Replies
  <2>1. ReplaceCalls(r.gone) \in SUBSET Calls
    BY <1>2, GoneFacts
  <2> QED
    BY <2>1, ReplyType DEF SetReply, Counters
<1>4. k \notin DOMAIN r.map
  BY <1>1
<1> QED
  BY <1>1, <1>2, <1>3, <1>4, AddStep

(* Set of a new key with T1 and B1 full: the last ghost of B1 is           *)
(* forgotten, then replace.                                                *)
LEMMA NewDropsGhost1Step ==
  ASSUME Core, NEW k \in Keys, NEW v \in Values, NEW ttl \in TTLs, NewDropsGhost1(k, v, ttl)
  PROVE  Core'
<1> DEFINE old == Last(lists["B1"])
           l == [lists EXCEPT !["B1"] = Front(@)]
           m == Drop(itemMap, old)
           r == Replace(l, m, p, FALSE)
<1>1. /\ k \notin DOMAIN itemMap /\ FirstFull /\ Size(lists, "T1") < Capacity
      /\ AddNew(k, v, ttl, r.lists, r.map, r.gone)
      /\ SetReply(k, ReplaceCalls(r.gone), {"Sets", "Evictions"})
  BY DEF NewDropsGhost1, Size
<1>2. "B1" \in ListNames /\ Len(lists["B1"]) > 0
  <2>1. Size(lists, "B1") > 0
    BY <1>1, GuardSizes, CapacityAssumption
  <2> QED
    BY <2>1 DEF Size, ListNames
<1>3. WF(l, m) /\ LenShift(lists, l, "B1", -1)
  BY <1>2, DropLast DEF Core
<1>4. DOMAIN m \subseteq DOMAIN itemMap /\ \A x \in DOMAIN m : m[x] = itemMap[x]
  BY DEF Drop
<1> HIDE DEF l, m, r
<1>5. ASSUME ReplaceOutcome(l, r.lists, p, FALSE)
      PROVE  Room(r.lists)
  <2> DEFINE s == r.lists
  <2>1. /\ Size(l, "B1") = Size(lists, "B1") + (-1) /\ Size(l, "T2") = Size(lists, "T2")
        /\ Size(l, "T1") = Size(lists, "T1") /\ Size(l, "B2") = Size(lists, "B2")
    BY <1>3 DEF LenShift, ListNames
  <2>2. LensNat(l) /\ p \in Nat
    BY <1>3, WFLens, CapacityAssumption DEF Core
  <2>3. \/ /\ Size(l, "T1") >= 1
           /\ Size(s, "T1") = Size(l, "T1") - 1 /\ Size(s, "B1") = Size(l, "B1") + 1
           /\ Size(s, "T2") = Size(l, "T2") /\ Size(s, "B2") = Size(l, "B2")
        \/ /\ Size(l, "T2") >= 1
           /\ Size(s, "T2") = Size(l, "T2") - 1 /\ Size(s, "B2") = Size(l, "B2") + 1
           /\ Size(s, "T1") = Size(l, "T1") /\ Size(s, "B1") = Size(l, "B1")
        \/ /\ Size(l, "T2") = 0
           /\ Size(s, "T1") = Size(l, "T1") /\ Size(s, "B1") = Size(l, "B1")
           /\ Size(s, "T2") = Size(l, "T2") /\ Size(s, "B2") = Size(l, "B2")
    BY <1>5, <2>2, ReplaceEquations
  <2> HIDE DEF s
  <2>4. Room(s)
    BY <1>1, <2>1, <2>3, GuardSizes, CapacityAssumption DEF Room
  <2> QED
    BY <2>4 DEF s
<1> QED
  BY <1>1, <1>3, <1>4, <1>5, ReplaceThenAdd DEF r

(* Set of a new key with T1 and B1 not full: a ghost of B2 may go, then    *)
(* replace.                                                                *)
LEMMA NewReplacesStep ==
  ASSUME Core, NEW k \in Keys, NEW v \in Values, NEW ttl \in TTLs, NewReplaces(k, v, ttl)
  PROVE  Core'
<1> DEFINE t == TrimGhost2(lists, itemMap)
           r == Replace(t.lists, t.map, p, FALSE)
<1>1. /\ k \notin DOMAIN itemMap /\ ~FirstFull /\ Live >= Capacity
      /\ AddNew(k, v, ttl, r.lists, r.map, r.gone)
      /\ SetReply(k, ReplaceCalls(r.gone), {"Sets", "Evictions"})
  BY DEF NewReplaces
<1>2. /\ WF(t.lists, t.map) /\ DOMAIN t.map \subseteq DOMAIN itemMap
      /\ \A x \in DOMAIN t.map : t.map[x] = itemMap[x]
      /\ Size(t.lists, "T1") = Size(lists, "T1") /\ Size(t.lists, "T2") = Size(lists, "T2")
      /\ Size(t.lists, "B1") = Size(lists, "B1")
      /\ \/ Size(t.lists, "B2") = Size(lists, "B2") + (-1)
         \/ /\ Size(t.lists, "B2") = Size(lists, "B2")
            /\ ~(Total >= 2 * Capacity /\ Size(lists, "B2") > 0)
  <2>1. CASE Total >= 2 * Capacity /\ Len(lists["B2"]) > 0
    <3> DEFINE l == [lists EXCEPT !["B2"] = Front(@)]
               m == Drop(itemMap, Last(lists["B2"]))
    <3>1. "B2" \in ListNames
      BY DEF ListNames
    <3>2. WF(l, m) /\ LenShift(lists, l, "B2", -1)
      BY <2>1, <3>1, DropLast DEF Core
    <3>3. DOMAIN m \subseteq DOMAIN itemMap /\ \A x \in DOMAIN m : m[x] = itemMap[x]
      BY DEF Drop
    <3>4. t = [lists |-> l, map |-> m]
      BY <2>1 DEF TrimGhost2
    <3> HIDE DEF l, m, t
    <3>5. /\ Size(l, "B2") = Size(lists, "B2") + (-1) /\ Size(l, "T2") = Size(lists, "T2")
          /\ Size(l, "T1") = Size(lists, "T1") /\ Size(l, "B1") = Size(lists, "B1")
      BY <3>2 DEF LenShift, ListNames
    <3> QED
      BY <3>2, <3>3, <3>4, <3>5
  <2>2. CASE ~(Total >= 2 * Capacity /\ Len(lists["B2"]) > 0)
    <3>1. t = [lists |-> lists, map |-> itemMap]
      BY <2>2 DEF TrimGhost2
    <3>2. ~(Total >= 2 * Capacity /\ Size(lists, "B2") > 0)
      BY <2>2 DEF Size
    <3> HIDE DEF t
    <3> QED
      BY <3>1, <3>2 DEF Core
  <2> QED
    BY <2>1, <2>2
<1> HIDE DEF t, r
<1>3. ASSUME ReplaceOutcome(t.lists, r.lists, p, FALSE)
      PROVE  Room(r.lists)
  <2> DEFINE l == t.lists
             s == r.lists
  <2>1. LensNat(l) /\ p \in Nat
    BY <1>2, WFLens, CapacityAssumption DEF Core
  <2>2. \/ /\ Size(l, "T1") >= 1
           /\ Size(s, "T1") = Size(l, "T1") - 1 /\ Size(s, "B1") = Size(l, "B1") + 1
           /\ Size(s, "T2") = Size(l, "T2") /\ Size(s, "B2") = Size(l, "B2")
        \/ /\ Size(l, "T2") >= 1
           /\ Size(s, "T2") = Size(l, "T2") - 1 /\ Size(s, "B2") = Size(l, "B2") + 1
           /\ Size(s, "T1") = Size(l, "T1") /\ Size(s, "B1") = Size(l, "B1")
        \/ /\ Size(l, "T2") = 0
           /\ Size(s, "T1") = Size(l, "T1") /\ Size(s, "B1") = Size(l, "B1")
           /\ Size(s, "T2") = Size(l, "T2") /\ Size(s, "B2") = Size(l, "B2")
    BY <1>3, <2>1, ReplaceEquations
  <2>3. /\ Size(l, "T1") = Size(lists, "T1") /\ Size(l, "T2") = Size(lists, "T2")
        /\ Size(l, "B1") = Size(lists, "B1")
        /\ \/ Size(l, "B2") = Size(lists, "B2") + (-1)
           \/ /\ Size(l, "B2") = Size(lists, "B2")
              /\ ~(Total >= 2 * Capacity /\ Size(lists, "B2") > 0)
    BY <1>2
  <2> HIDE DEF l, s
  <2>4. Room(s)
    BY <1>1, <2>2, <2>3, GuardSizes, CapacityAssumption DEF Room
  <2> QED
    BY <2>4 DEF s
<1> QED
  BY <1>1, <1>2, <1>3, ReplaceThenAdd DEF r


(* Cases 2 and 3: the new target stays between 0 and the capacity.         *)
LEMMA GhostStep ==
  ASSUME Core, NEW k \in Keys, NEW v \in Values, NEW ttl \in TTLs,
         SetGhost1(k, v, ttl) \/ SetGhost2(k, v, ttl)
  PROVE  Core'
<1> DEFINE b1 == Size(lists, "B1")
           b2 == Size(lists, "B2")
<1>1. /\ p \in 0 .. Capacity /\ Capacity \in Nat
      /\ b1 \in Nat /\ b2 \in Nat
  BY GuardSizes, CapacityAssumption DEF Core
<1>2. \A a, b \in Nat : Delta(a, b) \in Nat
  <2> SUFFICES ASSUME NEW a \in Nat, NEW b \in Nat
               PROVE  Delta(a, b) \in Nat
    OBVIOUS
  <2>1. CASE a > 0 /\ b > a
    BY <2>1 DEF Delta
  <2>2. CASE ~(a > 0 /\ b > a)
    BY <2>2 DEF Delta
  <2> QED
    BY <2>1, <2>2
<1>3. CASE SetGhost1(k, v, ttl)
  <2> DEFINE up == p + Delta(b1, b2)
             target == IF up < Capacity THEN up ELSE Capacity
  <2>1. target \in 0 .. Capacity
    <3>1. Delta(b1, b2) \in Nat
      BY <1>1, <1>2
    <3> HIDE DEF b1, b2
    <3> QED
      BY <1>1, <3>1
  <2>2. k \in DOMAIN itemMap /\ itemMap[k].list = "B1" /\ Revive(k, v, ttl, "B1", target, FALSE)
    BY <1>3 DEF SetGhost1, IsIn, Size
  <2> HIDE DEF target
  <2>3. \A f \in BOOLEAN : ~f /\ Revive(k, v, ttl, "B1", target, f) => Core'
    BY <2>1, <2>2, ReviveStep
  <2> DEFINE P(f) == ~f /\ Revive(k, v, ttl, "B1", target, f) => Core'
  <2>4. \A f \in BOOLEAN : P(f)
    BY <2>3
  <2>5. P(FALSE)
    <3> HIDE DEF P
    <3> QED
      BY <2>4
  <2> QED
    BY <2>2, <2>5
<1>4. CASE SetGhost2(k, v, ttl)
  <2> DEFINE down == p - Delta(b2, b1)
             target == IF down > 0 THEN down ELSE 0
  <2>1. target \in 0 .. Capacity
    <3>1. Delta(b2, b1) \in Nat
      BY <1>1, <1>2
    <3> HIDE DEF b1, b2
    <3> QED
      BY <1>1, <3>1
  <2>2. k \in DOMAIN itemMap /\ itemMap[k].list = "B2" /\ Revive(k, v, ttl, "B2", target, TRUE)
    BY <1>4 DEF SetGhost2, IsIn, Size
  <2> HIDE DEF target
  <2>3. \A f \in BOOLEAN : f /\ Revive(k, v, ttl, "B2", target, f) => Core'
    BY <2>1, <2>2, ReviveStep
  <2> DEFINE P(f) == f /\ Revive(k, v, ttl, "B2", target, f) => Core'
  <2>4. \A f \in BOOLEAN : P(f)
    BY <2>3
  <2>5. P(TRUE)
    <3> HIDE DEF P
    <3> QED
      BY <2>4
  <2> QED
    BY <2>2, <2>5
<1> QED
  BY <1>3, <1>4

(* Get, Peek and Delete, with their expiry branches.                       *)
LEMMA ReadStep ==
  ASSUME Core, NEW k \in Keys, Get(k) \/ Peek(k) \/ Delete(k)
  PROVE  Core'
<1>0. now \in Nat /\ ret \in Replies /\ {} \in SUBSET Calls
  BY DEF Core, TypesOK
<1>1. ASSUME NEW op \in {"get", "peek"}, NEW counted \in SUBSET {"Misses"},
             ReadMiss(op, k, counted)
      PROVE  Core'
  <2>1. ret' \in Replies
    BY <1>1, MissType DEF ReadMiss, Counters
  <2> QED
    BY <1>0, <1>1, <2>1, QuietStep DEF ReadMiss
<1>2. ASSUME NEW op \in {"get", "peek"}, NEW counted \in SUBSET {"Misses"},
             ReadExpired(op, k, counted)
      PROVE  Core'
  <2>1. ret' \in Replies
    BY <1>2, MissType DEF ReadExpired, Counters
  <2>2. k \in DOMAIN itemMap /\ RemoveNode(k)
    BY <1>2 DEF ReadExpired, IsIn
  <2> QED
    BY <2>1, <2>2, RemoveStep
<1>3. CASE GetHit(k)
  <2> DEFINE n == Node("T2", itemMap[k].value, itemMap[k].expiresAt)
  <2>1. /\ k \in DOMAIN itemMap /\ itemMap[k].list \in LiveLists
        /\ lists' = PushFront(removeFromList(lists, itemMap[k].list, k), "T2", k)
        /\ itemMap' = [itemMap EXCEPT ![k] = n]
        /\ ret' = Reply("get", k, TRUE, itemMap[k].value, {}, {"Hits"})
        /\ p' = p /\ bytes' = bytes /\ now' = now
    BY <1>3 DEF GetHit, IsIn
  <2>2. itemMap[k].value \in Values /\ itemMap[k].expiresAt \in Nat
    BY <2>1, NodeFacts
  <2>3. n \in Nodes /\ n.list = "T2" /\ n.value # NoValue
    BY <2>2, ValuesAssumption DEF Node, Nodes, ListNames
  <2>4. ret' \in Replies
    BY <1>0, <2>1, <2>2, ReplyType DEF Counters
  <2>5. bytes' \in Int
    BY <2>1 DEF Core
  <2> HIDE DEF n
  <2> QED
    BY <2>1, <2>3, <2>4, <2>5, PromoteStep
<1>4. CASE PeekHit(k)
  <2>1. k \in DOMAIN itemMap /\ itemMap[k].list \in LiveLists
    BY <1>4 DEF PeekHit, IsIn
  <2>2. itemMap[k].value \in Values
    BY <2>1, NodeFacts
  <2>3. ret' \in Replies
    BY <1>0, <1>4, <2>2, ReplyType DEF PeekHit, Counters
  <2> QED
    BY <1>0, <1>4, <2>3, QuietStep DEF PeekHit
<1>5. CASE Delete(k)
  <2>1. CASE k \notin DOMAIN itemMap
    <3>1. ret' = Miss("delete", k, {}) /\ UNCHANGED <<lists, p, itemMap, bytes, now>>
      BY <1>5, <2>1 DEF Delete
    <3>2. ret' \in Replies
      BY <3>1, MissType
    <3> QED
      BY <1>0, <3>1, <3>2, QuietStep
  <2>2. CASE k \in DOMAIN itemMap
    <3>1. RemoveNode(k) /\ ret' = Reply("delete", k, TRUE, NoValue, {}, {"Deletes"})
      BY <1>5, <2>2 DEF Delete
    <3>2. ret' \in Replies
      BY <1>0, <3>1, ReplyType DEF Counters
    <3> QED
      BY <2>2, <3>1, <3>2, RemoveStep
  <2> QED
    BY <2>1, <2>2
<1>6. {"Misses"} \in SUBSET {"Misses"} /\ {} \in SUBSET {"Misses"}
  OBVIOUS
<1> QED
  BY <1>1, <1>2, <1>3, <1>4, <1>5, <1>6 DEF Get, Peek

(* Set, in its cases: a live entry, a ghost of B1 or B2, a new key.        *)
LEMMA SetStep ==
  ASSUME Core, NEW k \in Keys, NEW v \in Values, NEW ttl \in TTLs, Set(k, v, ttl)
  PROVE  Core'
<1>1. CASE SetLive(k, v, ttl)
  <2> DEFINE n == Node("T2", v, ExpiryOf(ttl))
  <2>1. /\ k \in DOMAIN itemMap /\ itemMap[k].list \in LiveLists
        /\ lists' = PushFront(removeFromList(lists, itemMap[k].list, k), "T2", k)
        /\ itemMap' = [itemMap EXCEPT ![k] = n]
        /\ bytes' = bytes + SizeOf[v] - len(itemMap[k].value)
        /\ ret' = Reply("set", k, TRUE, NoValue, {}, {"Sets"})
        /\ p' = p /\ now' = now
    BY <1>1 DEF SetLive, IsIn, SetReply
  <2>2. n \in Nodes /\ n.list = "T2" /\ n.value # NoValue
    <3>1. ExpiryOf(ttl) \in Nat
      BY ExpiryType DEF Core, TypesOK
    <3> QED
      BY <3>1, ValuesAssumption DEF Node, Nodes, ListNames
  <2>3. ret' \in Replies
    BY <2>1, ReplyType DEF Counters
  <2>4. bytes' \in Int
    <3>1. SizeOf[v] \in Nat /\ len(itemMap[k].value) \in Nat /\ bytes \in Int
      BY <2>1, NodeFacts, ValuesAssumption DEF Core
    <3> QED
      BY <2>1, <3>1
  <2> HIDE DEF n
  <2> QED
    BY <2>1, <2>2, <2>3, <2>4, PromoteStep
<1> QED
  BY <1>1, GhostStep, NewDropsGhost1Step, NewDropsT1Step, NewReplacesStep,
     NewFitsStep DEF Set

(* Every step keeps the inductive invariant.                               *)
LEMMA NextCore == Core /\ [Next]_vars => Core'
<1> SUFFICES ASSUME Core, [Next]_vars PROVE Core'
  OBVIOUS
<1>0. now \in Nat /\ ret \in Replies
  BY DEF Core, TypesOK
<1>1. CASE UNCHANGED vars
  BY <1>0, <1>1, QuietStep DEF vars
<1>2. CASE Tick
  BY <1>0, <1>2, QuietStep DEF Tick
<1> QED
  BY <1>1, <1>2, PurgeStep, ReadStep, SetStep DEF Next

---------------------------------------------------------------------------
(* A doubly-linked list, pointer by pointer, and the sequence it stands    *)
(* for.  What PushFront and Remove do to the pointers is stated for any    *)
(* record with these fields: the list of lru.go and that of list.go are    *)
(* both such records.                                                      *)
Nth(s, i) == IF i \in 1 .. Len(s) THEN s[i] ELSE Nil

Chain(l, s) ==
  /\ s \in Seq(Keys) /\ IsInjective(s)
  /\ l.head = Nth(s, 1) /\ l.tail = Nth(s, Len(s))
  /\ DOMAIN l.prev = ToSet(s) /\ DOMAIN l.next = ToSet(s)
  /\ \A i \in 1 .. Len(s) : l.prev[s[i]] = Nth(s, i - 1) /\ l.next[s[i]] = Nth(s, i + 1)

(* Element by element, a list after PushFront.                             *)
LEMMA ConsShape ==
  ASSUME NEW S, NEW s \in Seq(S), NEW k \in S
  PROVE  /\ Cons(k, s) \in Seq(S) /\ Len(Cons(k, s)) = Len(s) + 1 /\ Cons(k, s)[1] = k
         /\ \A j \in 2 .. Len(s) + 1 : Cons(k, s)[j] = s[j - 1]
<1>1. <<k>> \in Seq(S) /\ Len(<<k>>) = 1 /\ <<k>>[1] = k
  OBVIOUS
<1>2. PICK t : t = Cons(k, s)
  OBVIOUS
<1>3. /\ t \in Seq(S) /\ Len(t) = 1 + Len(s)
      /\ \A j \in 1 .. 1 + Len(s) : t[j] = IF j <= 1 THEN <<k>>[j] ELSE s[j - 1]
  BY <1>1, <1>2, ConcatProperties DEF Cons
<1>4. Len(s) \in Nat
  BY LenProperties
<1>5. t \in Seq(S) /\ Len(t) = Len(s) + 1 /\ t[1] = k
  BY <1>1, <1>3, <1>4
<1>6. \A j \in 2 .. Len(s) + 1 : t[j] = s[j - 1]
  BY <1>3, <1>4
<1> QED
  BY <1>2, <1>5, <1>6

(* Element by element, a list after Remove of the element at i.            *)
LEMMA RemoveFirstShape ==
  ASSUME NEW S, NEW s \in Seq(S), IsInjective(s), NEW i \in 1 .. Len(s)
  PROVE  /\ RemoveFirst(s, s[i]) \in Seq(S) /\ Len(RemoveFirst(s, s[i])) = Len(s) - 1
         /\ \A j \in 1 .. Len(s) - 1 :
              RemoveFirst(s, s[i])[j] = IF j < i THEN s[j] ELSE s[j + 1]
  BY RemoveFirstAt, RemoveAtShape

(* The element at a place, after PushFront.                                *)
LEMMA NthCons ==
  ASSUME NEW s \in Seq(Keys), NEW k \in Keys
  PROVE  \A j \in Nat : Nth(Cons(k, s), j) = IF j = 0 THEN Nil ELSE IF j = 1 THEN k ELSE Nth(s, j - 1)
<1>1. PICK t, n : t = Cons(k, s) /\ n = Len(s)
  OBVIOUS
<1>2. /\ n \in Nat /\ Len(t) = n + 1 /\ t[1] = k
      /\ \A j \in 2 .. n + 1 : t[j] = s[j - 1]
  <2>1. /\ Len(t) = Len(s) + 1 /\ t[1] = k
        /\ \A j \in 2 .. Len(s) + 1 : t[j] = s[j - 1]
    BY <1>1, ConsShape
  <2>2. Len(s) \in Nat
    BY LenProperties
  <2> QED
    BY <1>1, <2>1, <2>2
<1> SUFFICES ASSUME NEW j \in Nat
             PROVE  Nth(t, j) = IF j = 0 THEN Nil ELSE IF j = 1 THEN k ELSE Nth(s, j - 1)
  BY <1>1
<1>3. CASE j <= 1
  BY <1>2, <1>3 DEF Nth
<1>4. CASE j > 1 /\ j <= n + 1
  <2>1. j \in 2 .. n + 1 /\ j \in 1 .. Len(t) /\ j - 1 \in 1 .. Len(s)
    BY <1>1, <1>2, <1>4
  <2> QED
    BY <1>2, <1>4, <2>1 DEF Nth
<1>5. CASE j > n + 1
  <2>1. j \notin 1 .. Len(t) /\ j - 1 \notin 1 .. Len(s)
    BY <1>1, <1>2, <1>5
  <2> QED
    BY <1>2, <1>5, <2>1 DEF Nth
<1> QED
  BY <1>2, <1>3, <1>4, <1>5

(* The element at a place, after Remove.                                   *)
LEMMA NthRemove ==
  ASSUME NEW s \in Seq(Keys), IsInjective(s), NEW i \in 1 .. Len(s)
  PROVE  \A j \in Nat :
           Nth(RemoveFirst(s, s[i]), j) = IF j < i THEN Nth(s, j) ELSE Nth(s, j + 1)
<1>1. PICK t, n : t = RemoveFirst(s, s[i]) /\ n = Len(s)
  OBVIOUS
<1>2. /\ n \in Nat /\ i \in Nat /\ 1 <= i /\ i <= n /\ Len(t) = n - 1
      /\ \A j \in 1 .. n - 1 : t[j] = IF j < i THEN s[j] ELSE s[j + 1]
  <2>1. /\ Len(t) = Len(s) - 1
        /\ \A j \in 1 .. Len(s) - 1 : t[j] = IF j < i THEN s[j] ELSE s[j + 1]
    BY <1>1, RemoveFirstShape
  <2>2. Len(s) \in Nat
    BY LenProperties
  <2> QED
    BY <1>1, <2>1, <2>2
<1> SUFFICES ASSUME NEW j \in Nat
             PROVE  Nth(t, j) = IF j < i THEN Nth(s, j) ELSE Nth(s, j + 1)
  BY <1>1
<1>3. CASE j = 0
  BY <1>2, <1>3 DEF Nth
<1>4. CASE j >= 1 /\ j <= n - 1
  <2>1. j \in 1 .. n - 1 /\ j \in 1 .. Len(t) /\ j \in 1 .. Len(s) /\ j + 1 \in 1 .. Len(s)
    BY <1>1, <1>2, <1>4
  <2> QED
    BY <1>2, <2>1 DEF Nth
<1>5. CASE j > n - 1 /\ j >= 1
  <2>1. j \notin 1 .. Len(t) /\ j + 1 \notin 1 .. Len(s) /\ ~(j < i)
    BY <1>1, <1>2, <1>5
  <2> QED
    BY <1>2, <2>1 DEF Nth
<1> QED
  BY <1>2, <1>3, <1>4, <1>5

(* A place in the list holds a key, any other the nil pointer, and no key  *)
(* is in two places.                                                       *)
LEMMA NthFacts ==
  ASSUME NEW s \in Seq(Keys), IsInjective(s)
  PROVE  /\ Len(s) \in Nat /\ ToSet(s) = {Nth(s, i) : i \in 1 .. Len(s)}
         /\ \A i \in 1 .. Len(s) : Nth(s, i) = s[i] /\ s[i] \in Keys /\ s[i] # Nil /\ s[i] \in ToSet(s)
         /\ \A i \in Int \ (1 .. Len(s)) : Nth(s, i) = Nil
         /\ \A i \in 1 .. Len(s), j \in Int : Nth(s, i) = Nth(s, j) => i = j
<1>1. /\ Len(s) \in Nat /\ DOMAIN s = 1 .. Len(s)
      /\ \A i \in 1 .. Len(s) : s[i] \in Keys
  BY LenProperties, ElementOfSeq
<1>2. \A i \in 1 .. Len(s) : Nth(s, i) = s[i] /\ s[i] # Nil /\ s[i] \in ToSet(s)
  BY <1>1, BaseConstants DEF Nth, ToSet
<1>3. \A i \in Int \ (1 .. Len(s)) : Nth(s, i) = Nil
  BY DEF Nth
<1>4. ToSet(s) = {Nth(s, i) : i \in 1 .. Len(s)}
  BY <1>1, <1>2 DEF ToSet
<1>5. ASSUME NEW i \in 1 .. Len(s), NEW j \in Int, Nth(s, i) = Nth(s, j)
      PROVE  i = j
  <2>1. j \in 1 .. Len(s)
    BY <1>2, <1>3, <1>5
  <2>2. s[i] = s[j]
    BY <1>2, <1>5, <2>1
  <2> QED
    BY <1>1, <2>1, <2>2 DEF IsInjective
<1> QED
  BY <1>1, <1>2, <1>3, <1>4, <1>5

(* PushFront of an element the list does not hold.                         *)
LEMMA PushFrontChain ==
  ASSUME NEW l, NEW s, Chain(l, s), NEW k \in Keys \ ToSet(s),
         NEW r, r.head = k, r.tail = (IF l.tail = Nil THEN k ELSE l.tail),
         DOMAIN r.prev = ToSet(s) \cup {k}, DOMAIN r.next = ToSet(s) \cup {k},
         r.prev[k] = Nil, r.next[k] = l.head,
         \A x \in ToSet(s) : r.prev[x] = (IF x = l.head THEN k ELSE l.prev[x]) /\ r.next[x] = l.next[x]
  PROVE  Chain(r, Cons(k, s))
<1>1. PICK t, n : t = Cons(k, s) /\ n = Len(s)
  OBVIOUS
<1>2. s \in Seq(Keys) /\ IsInjective(s) /\ n \in Nat
  BY <1>1, LenProperties DEF Chain
<1>3. /\ t \in Seq(Keys) /\ Len(t) = n + 1 /\ IsInjective(t) /\ ToSet(t) = ToSet(s) \cup {k}
      /\ \A j \in 2 .. n + 1 : t[j] = s[j - 1]
      /\ t[1] = k
  <2>1. /\ t \in Seq(Keys) /\ Len(t) = n + 1 /\ t[1] = k
        /\ \A j \in 2 .. n + 1 : t[j] = s[j - 1]
    <3>1. k \in Keys
      OBVIOUS
    <3>2. /\ Cons(k, s) \in Seq(Keys) /\ Len(Cons(k, s)) = Len(s) + 1 /\ Cons(k, s)[1] = k
          /\ \A j \in 2 .. Len(s) + 1 : Cons(k, s)[j] = s[j - 1]
      BY <1>2, <3>1, ConsShape
    <3> QED
      BY <1>1, <3>2
  <2>2. IsInjective(t) /\ ToSet(t) = ToSet(s) \cup {k}
    BY <1>1, <1>2, ConsProperties
  <2> QED
    BY <2>1, <2>2
<1>4. \A j \in Nat : Nth(t, j) = IF j = 0 THEN Nil ELSE IF j = 1 THEN k ELSE Nth(s, j - 1)
  BY <1>1, <1>2, NthCons
<1>5. /\ \A i \in 1 .. n : Nth(s, i) = s[i] /\ s[i] # Nil /\ s[i] \in ToSet(s)
      /\ \A i \in Int \ (1 .. n) : Nth(s, i) = Nil
      /\ \A i \in 1 .. n, j \in Int : Nth(s, i) = Nth(s, j) => i = j
  BY <1>1, <1>2, NthFacts
<1>6. r.head = Nth(t, 1) /\ r.tail = Nth(t, n + 1)
  <2>1. CASE n = 0
    BY <1>1, <1>4, <1>5, <2>1 DEF Chain
  <2>2. CASE n > 0
    <3>1. l.tail = Nth(s, n) /\ Nth(s, n) # Nil /\ Nth(t, n + 1) = Nth(s, n) /\ Nth(t, 1) = k
      BY <1>1, <1>2, <1>4, <1>5, <2>2 DEF Chain
    <3> QED
      BY <3>1
  <2> QED
    BY <1>2, <2>1, <2>2
<1>7. ASSUME NEW i \in 1 .. n + 1
      PROVE  r.prev[t[i]] = Nth(t, i - 1) /\ r.next[t[i]] = Nth(t, i + 1)
  <2>1. CASE i = 1
    <3>1. Nth(t, i - 1) = Nil /\ Nth(t, i + 1) = Nth(s, 1)
      BY <1>4, <2>1
    <3> QED
      BY <1>3, <2>1, <3>1 DEF Chain
  <2>2. CASE i > 1
    <3>1. i - 1 \in 1 .. n /\ t[i] = s[i - 1] /\ s[i - 1] \in ToSet(s) /\ Nth(s, i - 1) = s[i - 1]
      BY <1>2, <1>3, <1>5, <2>2
    <3>2. l.prev[s[i - 1]] = Nth(s, (i - 1) - 1) /\ l.next[s[i - 1]] = Nth(s, (i - 1) + 1)
      BY <1>1, <3>1 DEF Chain
    <3>3. s[i - 1] = l.head <=> i = 2
      <4>1. l.head = Nth(s, 1)
        BY DEF Chain
      <4> QED
        BY <1>2, <1>5, <3>1, <4>1
    <3>4. Nth(t, i - 1) = (IF i = 2 THEN k ELSE Nth(s, (i - 1) - 1)) /\ Nth(t, i + 1) = Nth(s, (i - 1) + 1)
      BY <1>2, <1>4, <2>2
    <3> QED
      BY <3>1, <3>2, <3>3, <3>4
  <2> QED
    BY <1>2, <2>1, <2>2
<1> QED
  BY <1>1, <1>3, <1>6, <1>7 DEF Chain

(* Remove of the element at i.                                             *)
LEMMA RemoveChain ==
  ASSUME NEW l, NEW s, Chain(l, s), NEW i \in 1 .. Len(s),
         NEW before, before = l.prev[s[i]], NEW after, after = l.next[s[i]],
         NEW r, r.head = (IF before = Nil THEN after ELSE l.head),
         r.tail = (IF after = Nil THEN before ELSE l.tail),
         DOMAIN r.prev = ToSet(s) \ {s[i]}, DOMAIN r.next = ToSet(s) \ {s[i]},
         \A x \in ToSet(s) \ {s[i]} :
           /\ r.prev[x] = (IF x = after THEN before ELSE l.prev[x])
           /\ r.next[x] = (IF x = before THEN after ELSE l.next[x])
  PROVE  Chain(r, RemoveFirst(s, s[i]))
<1>1. PICK t, n : t = RemoveFirst(s, s[i]) /\ n = Len(s)
  OBVIOUS
<1>2. s \in Seq(Keys) /\ IsInjective(s) /\ n \in Nat /\ i \in Nat /\ 1 <= i /\ i <= n
  BY <1>1, LenProperties DEF Chain
<1>3. /\ t \in Seq(Keys) /\ Len(t) = n - 1
      /\ \A j \in 1 .. n - 1 : t[j] = IF j < i THEN s[j] ELSE s[j + 1]
  BY <1>1, <1>2, RemoveFirstShape
<1>4. \A j \in Nat : Nth(t, j) = IF j < i THEN Nth(s, j) ELSE Nth(s, j + 1)
  BY <1>1, <1>2, NthRemove
<1>5. /\ \A j \in 1 .. n : Nth(s, j) = s[j] /\ s[j] # Nil /\ s[j] \in ToSet(s)
      /\ \A j \in Int \ (1 .. n) : Nth(s, j) = Nil
      /\ \A j \in 1 .. n, m \in Int : Nth(s, j) = Nth(s, m) => j = m
  BY <1>1, <1>2, NthFacts
<1>6. IsInjective(t) /\ ToSet(t) = ToSet(s) \ {s[i]}
  BY <1>1, <1>2, <1>5, RemoveFirstProperties
<1>7. /\ before = Nth(s, i - 1) /\ after = Nth(s, i + 1)
      /\ l.head = Nth(s, 1) /\ l.tail = Nth(s, n)
  BY <1>1 DEF Chain
<1>8. (before = Nil <=> i = 1) /\ (after = Nil <=> i = n)
  BY <1>2, <1>5, <1>7
<1>9. r.head = Nth(t, 1) /\ r.tail = Nth(t, n - 1)
  <2>1. r.head = Nth(t, 1)
    <3>1. Nth(t, 1) = IF 1 < i THEN Nth(s, 1) ELSE Nth(s, 2)
      BY <1>4
    <3> QED
      BY <1>2, <1>7, <1>8, <3>1
  <2>2. r.tail = Nth(t, n - 1)
    <3>0. n - 1 \in Nat
      BY <1>2
    <3>1. n - 1 \in Nat /\ Nth(t, n - 1) = IF n - 1 < i THEN Nth(s, n - 1) ELSE Nth(s, (n - 1) + 1)
      BY <1>4, <3>0
    <3>2. CASE i = n
      BY <1>2, <1>7, <1>8, <3>1, <3>2
    <3>3. CASE i < n
      <4>1. (n - 1) + 1 = n /\ ~(n - 1 < i)
        BY <1>2, <3>3
      <4> QED
        BY <1>2, <1>7, <1>8, <3>1, <3>3, <4>1
    <3> QED
      BY <1>2, <3>2, <3>3
  <2> QED
    BY <2>1, <2>2
<1>10. ASSUME NEW j \in 1 .. n - 1
       PROVE  r.prev[t[j]] = Nth(t, j - 1) /\ r.next[t[j]] = Nth(t, j + 1)
  <2>1. PICK m \in 1 .. n : m = (IF j < i THEN j ELSE j + 1) /\ t[j] = s[m]
    BY <1>2, <1>3
  <2>2. m # i /\ s[m] = Nth(s, m) /\ s[i] = Nth(s, i) /\ s[m] \in ToSet(s) /\ s[m] # s[i]
    BY <1>2, <1>5, <2>1
  <2>3. /\ r.prev[s[m]] = (IF s[m] = after THEN before ELSE Nth(s, m - 1))
        /\ r.next[s[m]] = (IF s[m] = before THEN after ELSE Nth(s, m + 1))
    BY <1>1, <2>2 DEF Chain
  <2>4. (s[m] = after <=> m = i + 1) /\ (s[m] = before <=> m = i - 1)
    BY <1>2, <1>5, <1>7, <2>2
  <2>5. /\ Nth(t, j - 1) = IF j - 1 < i THEN Nth(s, j - 1) ELSE Nth(s, (j - 1) + 1)
        /\ Nth(t, j + 1) = IF j + 1 < i THEN Nth(s, j + 1) ELSE Nth(s, (j + 1) + 1)
    <3>1. j - 1 \in Nat /\ j + 1 \in Nat
      BY <1>2
    <3> QED
      BY <1>4, <3>1
  <2>6. CASE j < i
    <3>1. m = j /\ m # i + 1 /\ j - 1 < i
      BY <1>2, <2>1, <2>6
    <3>2. r.prev[t[j]] = Nth(t, j - 1)
      BY <2>1, <2>3, <2>4, <2>5, <3>1
    <3>3. CASE j = i - 1
      <4>1. (j + 1) + 1 = i + 1 /\ ~(j + 1 < i) /\ m = i - 1
        BY <1>2, <3>1, <3>3
      <4> QED
        BY <1>7, <2>1, <2>3, <2>4, <2>5, <3>2, <4>1
    <3>4. CASE j < i - 1
      <4>1. j + 1 < i /\ m # i - 1
        BY <1>2, <3>1, <3>4
      <4> QED
        BY <2>1, <2>3, <2>4, <2>5, <3>1, <3>2, <4>1
    <3> QED
      BY <1>2, <2>6, <3>3, <3>4
  <2>7. CASE j >= i
    <3>1. m = j + 1 /\ m # i - 1 /\ ~(j + 1 < i) /\ m + 1 = (j + 1) + 1
      BY <1>2, <2>1, <2>7
    <3>2. r.next[t[j]] = Nth(t, j + 1)
      BY <2>1, <2>3, <2>4, <2>5, <3>1
    <3>3. CASE j = i
      <4>1. m = i + 1 /\ j - 1 < i /\ j - 1 = i - 1
        BY <1>2, <3>1, <3>3
      <4> QED
        BY <1>7, <2>1, <2>3, <2>4, <2>5, <3>2, <4>1
    <3>4. CASE j > i
      <4>1. m # i + 1 /\ ~(j - 1 < i) /\ (j - 1) + 1 = m - 1
        BY <1>2, <3>1, <3>4
      <4> QED
        BY <2>1, <2>3, <2>4, <2>5, <3>1, <3>2, <4>1
    <3> QED
      BY <1>2, <2>7, <3>3, <3>4
  <2> QED
    BY <1>2, <2>6, <2>7
<1> QED
  BY <1>1, <1>3, <1>6, <1>9, <1>10 DEF Chain

---------------------------------------------------------------------------
(* The LRU cache.  Its helpers, on a list that stands for s.               *)
LEMMA LRUPush ==
  ASSUME NEW l, NEW s, Chain(l, s), NEW k \in Keys, k \notin ToSet(s)
  PROVE  Chain(R!pushFront(l, k), Cons(k, s))
<1>1. PICK r : r = R!pushFront(l, k)
  OBVIOUS
<1>2. /\ r.head = k /\ r.tail = (IF l.tail = Nil THEN k ELSE l.tail)
      /\ r.prev = R!Assign(R!Put(l.prev, k, Nil), l.head, k)
      /\ r.next = R!Put(l.next, k, l.head)
  BY <1>1 DEF R!pushFront
<1>3. DOMAIN l.prev = ToSet(s) /\ DOMAIN l.next = ToSet(s)
  BY DEF Chain
<1>4. l.head = Nil \/ l.head \in ToSet(s)
  BY NthFacts DEF Chain, Nth
<1>5. \A x \in ToSet(s) : x # Nil
  BY NthFacts, BaseConstants DEF Chain
<1>6. /\ DOMAIN r.next = ToSet(s) \cup {k} /\ r.next[k] = l.head
      /\ \A x \in ToSet(s) : r.next[x] = l.next[x]
  BY <1>2, <1>3 DEF R!Put
<1>7. PICK f : f = R!Put(l.prev, k, Nil)
  OBVIOUS
<1>8. /\ DOMAIN f = ToSet(s) \cup {k} /\ f[k] = Nil
      /\ \A x \in ToSet(s) : f[x] = l.prev[x]
  BY <1>3, <1>7 DEF R!Put
<1>9. /\ DOMAIN r.prev = ToSet(s) \cup {k} /\ r.prev[k] = Nil
      /\ \A x \in ToSet(s) : r.prev[x] = (IF x = l.head THEN k ELSE l.prev[x])
  <2>1. CASE l.head = Nil
    <3>1. r.prev = f
      BY <1>2, <1>7, <2>1 DEF R!Assign
    <3> QED
      BY <1>5, <1>8, <2>1, <3>1
  <2>2. CASE l.head # Nil
    <3>1. r.prev = [f EXCEPT ![l.head] = k]
      BY <1>2, <1>7, <2>2 DEF R!Assign
    <3>2. l.head \in ToSet(s) /\ l.head # k
      BY <1>4, <2>2
    <3> QED
      BY <1>8, <3>1, <3>2
  <2> QED
    BY <2>1, <2>2
<1>10. \A x \in ToSet(s) : r.prev[x] = (IF x = l.head THEN k ELSE l.prev[x]) /\ r.next[x] = l.next[x]
  BY <1>6, <1>9
<1>11. k \in Keys \ ToSet(s)
  OBVIOUS
<1>12. Chain(r, Cons(k, s))
  BY <1>2, <1>6, <1>9, <1>10, <1>11, PushFrontChain
<1> QED
  BY <1>1, <1>12

(* removeNode unlinks one node and mends both neighbours.                  *)
LEMMA LRURemove ==
  ASSUME NEW l, NEW s, Chain(l, s), NEW k \in ToSet(s)
  PROVE  Chain(R!removeNode(l, k), RemoveFirst(s, k))
<1>1. PICK r, before, after : r = R!removeNode(l, k) /\ before = l.prev[k] /\ after = l.next[k]
  OBVIOUS
<1>2. /\ r.head = (IF before = Nil THEN after ELSE l.head)
      /\ r.tail = (IF after = Nil THEN before ELSE l.tail)
      /\ r.prev = R!Drop(R!Assign(l.prev, after, before), k)
      /\ r.next = R!Drop(R!Assign(l.next, before, after), k)
  BY <1>1 DEF R!removeNode
<1>3. PICK i \in 1 .. Len(s) : s[i] = k
  BY DEF ToSet, Chain
<1>4. /\ s \in Seq(Keys) /\ IsInjective(s)
      /\ DOMAIN l.prev = ToSet(s) /\ DOMAIN l.next = ToSet(s)
      /\ before = Nth(s, i - 1) /\ after = Nth(s, i + 1)
  BY <1>1, <1>3 DEF Chain
<1>5. /\ before = Nil \/ before \in ToSet(s)
      /\ after = Nil \/ after \in ToSet(s)
      /\ \A x \in ToSet(s) : x # Nil
  <2>1. \A x \in ToSet(s) : x # Nil
    BY <1>4, NthFacts
  <2>2. \A j : Nth(s, j) = Nil \/ Nth(s, j) \in ToSet(s)
    BY <1>4, NthFacts DEF Nth
  <2> QED
    BY <1>4, <2>1, <2>2
<1>7. /\ DOMAIN r.prev = ToSet(s) \ {k}
      /\ \A z \in ToSet(s) \ {k} : r.prev[z] = (IF z = after THEN before ELSE l.prev[z])
  <2>1. PICK g : g = R!Assign(l.prev, after, before)
    OBVIOUS
  <2>2. DOMAIN g = ToSet(s) /\ \A z \in ToSet(s) : g[z] = IF z = after THEN before ELSE l.prev[z]
    BY <1>4, <1>5, <2>1 DEF R!Assign
  <2> QED
    BY <1>2, <2>1, <2>2 DEF R!Drop
<1>8. /\ DOMAIN r.next = ToSet(s) \ {k}
      /\ \A z \in ToSet(s) \ {k} : r.next[z] = (IF z = before THEN after ELSE l.next[z])
  <2>1. PICK g : g = R!Assign(l.next, before, after)
    OBVIOUS
  <2>2. DOMAIN g = ToSet(s) /\ \A z \in ToSet(s) : g[z] = IF z = before THEN after ELSE l.next[z]
    BY <1>4, <1>5, <2>1 DEF R!Assign
  <2> QED
    BY <1>2, <2>1, <2>2 DEF R!Drop
<1>9. \A x \in ToSet(s) \ {s[i]} : /\ r.prev[x] = (IF x = after THEN before ELSE l.prev[x])
                                   /\ r.next[x] = (IF x = before THEN after ELSE l.next[x])
  BY <1>3, <1>7, <1>8
<1>10. before = l.prev[s[i]] /\ after = l.next[s[i]]
  BY <1>1, <1>3
<1>11. DOMAIN r.prev = ToSet(s) \ {s[i]} /\ DOMAIN r.next = ToSet(s) \ {s[i]}
  BY <1>3, <1>7, <1>8
<1>12. Chain(r, RemoveFirst(s, s[i]))
  BY <1>2, <1>9, <1>10, <1>11, RemoveChain
<1> QED
  BY <1>1, <1>3, <1>12

(* moveToFront, which leaves the head where it is.                         *)
LEMMA LRUMove ==
  ASSUME NEW l, NEW s, Chain(l, s), NEW k \in ToSet(s)
  PROVE  Chain(R!moveToFront(l, k), Cons(k, RemoveFirst(s, k)))
<1>0. s \in Seq(Keys) /\ IsInjective(s) /\ k \in Keys
  BY NthFacts DEF Chain
<1>1. PICK t : t = RemoveFirst(s, k)
  OBVIOUS
<1>2. t \in Seq(Keys) /\ IsInjective(t) /\ ToSet(t) = ToSet(s) \ {k} /\ Len(t) = Len(s) - 1
  BY <1>0, <1>1, RemoveFirstProperties
<1>3. CASE k = l.head
  <2>1. 1 \in 1 .. Len(s) /\ s[1] = k /\ Len(s) \in Nat
    <3>1. k = Nth(s, 1) /\ k # Nil
      BY <1>0, <1>3, BaseConstants DEF Chain
    <3> QED
      BY <1>0, <3>1, LenProperties DEF Nth
  <2>2. \A j \in 1 .. Len(s) - 1 : t[j] = s[j + 1]
    <3>1. \A j \in 1 .. Len(s) - 1 : t[j] = IF j < 1 THEN s[j] ELSE s[j + 1]
      BY <1>0, <1>1, <2>1, RemoveFirstShape
    <3> QED
      BY <2>1, <3>1
  <2>3. PICK u : u = Cons(k, t)
    OBVIOUS
  <2>4. /\ u \in Seq(Keys) /\ Len(u) = Len(t) + 1 /\ u[1] = k
        /\ \A j \in 2 .. Len(t) + 1 : u[j] = t[j - 1]
    <3>1. /\ Cons(k, t) \in Seq(Keys) /\ Len(Cons(k, t)) = Len(t) + 1 /\ Cons(k, t)[1] = k
          /\ \A j \in 2 .. Len(t) + 1 : Cons(k, t)[j] = t[j - 1]
      BY <1>0, <1>2, ConsShape
    <3> QED
      BY <2>3, <3>1
  <2>5. Len(u) = Len(s)
    BY <1>2, <2>1, <2>4
  <2>6. ASSUME NEW j \in 1 .. Len(s) PROVE u[j] = s[j]
    <3>1. CASE j = 1
      BY <2>1, <2>4, <3>1
    <3>2. CASE j > 1
      <4>1. j \in 2 .. Len(t) + 1 /\ j - 1 \in 1 .. Len(s) - 1 /\ (j - 1) + 1 = j
        BY <1>2, <2>1, <3>2
      <4> QED
        BY <2>2, <2>4, <4>1
    <3> QED
      BY <3>1, <3>2
  <2>7. u = s
    BY <1>0, <2>4, <2>5, <2>6, SeqEqual
  <2> QED
    BY <1>1, <1>3, <2>3, <2>7 DEF R!moveToFront
<1>4. CASE k # l.head
  <2>1. PICK q : q = R!removeNode(l, k)
    OBVIOUS
  <2>2. Chain(q, t)
    BY <1>1, <2>1, LRURemove
  <2>3. k \notin ToSet(t)
    BY <1>2
  <2>4. Chain(R!pushFront(q, k), Cons(k, t))
    BY <1>0, <2>2, <2>3, LRUPush
  <2> QED
    BY <1>1, <1>4, <2>1, <2>4 DEF R!moveToFront
<1> QED
  BY <1>3, <1>4

(* A list without duplicates has as many keys as its length.               *)
LEMMA ListCard ==
  ASSUME NEW s \in Seq(Keys), IsInjective(s)
  PROVE  IsFiniteSet(ToSet(s)) /\ Cardinality(ToSet(s)) = Len(s)
<1>1. Len(s) \in Nat /\ s \in [1 .. Len(s) -> Keys]
  BY LenProperties
<1>2. IsFiniteSet(1 .. Len(s)) /\ Cardinality(1 .. Len(s)) = Len(s)
  BY <1>1, FS_Interval
<1>3. s \in Surjection(1 .. Len(s), ToSet(s))
  BY <1>1 DEF Surjection, ToSet
<1>4. s \in Injection(1 .. Len(s), ToSet(s))
  BY <1>1, <1>3 DEF Injection, Surjection, IsInjective
<1>5. /\ IsFiniteSet(ToSet(s))
      /\ Cardinality(ToSet(s)) = Cardinality(1 .. Len(s)) <=> s \in Injection(1 .. Len(s), ToSet(s))
  BY <1>2, <1>3, FS_Surjection
<1> QED
  BY <1>2, <1>4, <1>5

(* The library's and the contract's operators are those of the LRU module. *)
LEMMA LRUSame ==
  /\ \A k, s : R!Cons(k, s) = Cons(k, s) /\ R!RemoveFirst(s, k) = RemoveFirst(s, k)
  /\ \A S : R!Cardinality(S) = Cardinality(S)
  /\ \A a, b, c, d, e, f : R!Reply(a, b, c, d, e, f) = Reply(a, b, c, d, e, f)
  /\ \A a, b, c : R!Miss(a, b, c) = Miss(a, b, c)
  /\ \A t : R!ExpiryOf(t) = ExpiryOf(t)
  /\ \A e : R!Expired(e) = Expired(e)
  /\ R!EmptyMap = EmptyMap /\ R!NoKey = NoKey
<1>1. \A k, s : R!Cons(k, s) = Cons(k, s)
  BY DEF R!Cons, Cons
<1>2. ASSUME NEW k, NEW s PROVE R!RemoveFirst(s, k) = RemoveFirst(s, k)
  BY DEF R!RemoveFirst, RemoveFirst, R!SelectInSeq, SelectInSeq, R!Min, Min, R!RemoveAt, RemoveAt
<1>3. \A S : R!Cardinality(S) = Cardinality(S)
  BY DEF R!Cardinality, Cardinality
<1>4. \A a, b, c, d, e, f : R!Reply(a, b, c, d, e, f) = Reply(a, b, c, d, e, f)
  BY DEF R!Reply, Reply
<1>5. \A a, b, c : R!Miss(a, b, c) = Miss(a, b, c)
  BY DEF R!Reply, Reply, R!Miss, Miss
<1>6. (\A t : R!ExpiryOf(t) = ExpiryOf(t)) /\ (\A e : R!Expired(e) = Expired(e))
  BY DEF R!ExpiryOf, ExpiryOf, R!Expired, Expired
<1>7. R!EmptyMap = EmptyMap /\ R!NoKey = NoKey
  BY DEF R!EmptyMap, EmptyMap, R!NoKey, NoKey
<1> QED
  BY <1>1, <1>2, <1>3, <1>4, <1>5, <1>6, <1>7

(* The pointers of the LRU list stand for recency, which lists the keys of *)
(* items.                                                                  *)
LRUInv ==
  /\ DOMAIN items \subseteq Keys /\ items \in [DOMAIN items -> R!Nodes]
  /\ Chain(list, recency) /\ ToSet(recency) = DOMAIN items /\ Len(recency) <= Capacity

(* What LRUInv gives of recency and of the map.                            *)
LEMMA LRUFacts ==
  ASSUME LRUInv
  PROVE  /\ recency \in Seq(Keys) /\ IsInjective(recency) /\ Len(recency) \in Nat
         /\ IsFiniteSet(DOMAIN items) /\ Cardinality(DOMAIN items) = Len(recency)
         /\ \A k \in DOMAIN items : items[k].value \in Values /\ items[k].expiresAt \in Nat
<1>1. recency \in Seq(Keys) /\ IsInjective(recency) /\ Len(recency) \in Nat
  BY LenProperties DEF LRUInv, Chain
<1>2. IsFiniteSet(DOMAIN items) /\ Cardinality(DOMAIN items) = Len(recency)
  BY <1>1, ListCard DEF LRUInv
<1>3. \A k \in DOMAIN items : items[k].value \in Values /\ items[k].expiresAt \in Nat
  BY DEF LRUInv, R!Nodes
<1> QED
  BY <1>1, <1>2, <1>3

(* New and Purge.                                                          *)
LEMMA LRUEmpty ==
  ASSUME NEW i, NEW l, NEW s, i = R!EmptyMap, l = R!EmptyList, s = <<>>
  PROVE  /\ DOMAIN i \subseteq Keys /\ i \in [DOMAIN i -> R!Nodes]
         /\ Chain(l, s) /\ ToSet(s) = DOMAIN i /\ Len(s) <= Capacity
<1>1. DOMAIN i = {} /\ i \in [DOMAIN i -> R!Nodes]
  BY DEF R!EmptyMap
<1>2. s \in Seq(Keys) /\ Len(s) = 0 /\ ToSet(s) = {} /\ IsInjective(s)
  BY DEF ToSet, IsInjective
<1>3. l.head = Nil /\ l.tail = Nil /\ DOMAIN l.prev = {} /\ DOMAIN l.next = {}
  BY DEF R!EmptyList, R!EmptyMap
<1>4. Chain(l, s)
  BY <1>2, <1>3 DEF Chain, Nth
<1> QED
  BY <1>1, <1>2, <1>4, CapacityAssumption

(* Delete, and a read of an entry past its deadline.                       *)
LEMMA LRURemoveStep ==
  ASSUME LRUInv, NEW k \in DOMAIN items, R!RemoveEntry(k)
  PROVE  LRUInv'
<1>1. /\ items' = [x \in DOMAIN items \ {k} |-> items[x]]
      /\ list' = R!removeNode(list, k) /\ recency' = RemoveFirst(recency, k)
  BY LRUSame DEF R!RemoveEntry, R!Without
<1>2. k \in ToSet(recency) /\ Chain(list, recency)
  BY DEF LRUInv
<1>3. Chain(list', recency')
  BY <1>1, <1>2, LRURemove
<1>4. ToSet(recency') = ToSet(recency) \ {k} /\ Len(recency') = Len(recency) - 1
  BY <1>1, <1>2, LRUFacts, RemoveFirstProperties
<1>5. DOMAIN items' = DOMAIN items \ {k} /\ items' \in [DOMAIN items' -> R!Nodes]
  BY <1>1 DEF LRUInv
<1>6. Len(recency') <= Capacity
  BY <1>4, LRUFacts, CapacityAssumption DEF LRUInv
<1> QED
  BY <1>3, <1>4, <1>5, <1>6 DEF LRUInv

(* A hit, and an update in place.                                          *)
LEMMA LRUTouchStep ==
  ASSUME LRUInv, NEW k \in DOMAIN items,
         list' = R!moveToFront(list, k), recency' = R!Touched(k),
         DOMAIN items' = DOMAIN items, items' \in [DOMAIN items -> R!Nodes]
  PROVE  LRUInv'
<1>1. PICK t : t = RemoveFirst(recency, k)
  OBVIOUS
<1>2. recency' = Cons(k, t)
  BY <1>1, LRUSame DEF R!Touched
<1>3. k \in ToSet(recency) /\ Chain(list, recency) /\ k \in Keys
  BY DEF LRUInv
<1>4. Chain(list', recency')
  BY <1>1, <1>2, <1>3, LRUMove
<1>5. t \in Seq(Keys) /\ IsInjective(t) /\ ToSet(t) = ToSet(recency) \ {k} /\ Len(t) = Len(recency) - 1
  BY <1>1, <1>3, LRUFacts, RemoveFirstProperties
<1>6. ToSet(recency') = ToSet(t) \cup {k} /\ Len(recency') = Len(t) + 1
  <2>1. k \notin ToSet(t)
    BY <1>5
  <2>2. ToSet(Cons(k, t)) = ToSet(t) \cup {k} /\ Len(Cons(k, t)) = Len(t) + 1
    BY <1>3, <1>5, <2>1, ConsProperties
  <2> QED
    BY <1>2, <2>2
<1>7. ToSet(recency') = DOMAIN items' /\ Len(recency') <= Capacity
  <2>1. ToSet(recency') = DOMAIN items'
    BY <1>3, <1>5, <1>6 DEF LRUInv
  <2>2. Len(recency') = Len(recency)
    BY <1>5, <1>6, LRUFacts
  <2> QED
    BY <2>1, <2>2 DEF LRUInv
<1> QED
  BY <1>4, <1>7 DEF LRUInv

(* Who a Set of a new key evicts: nobody, or, when the cache is full, the  *)
(* key at the end of recency, which is where the tail points.              *)
LEMMA LRUVictims ==
  ASSUME LRUInv, NEW gone, gone = R!Victims
  PROVE  \/ /\ gone = {} /\ Len(recency) < Capacity
         \/ /\ Len(recency) = Capacity
            /\ recency[Len(recency)] \in DOMAIN items /\ gone = {recency[Len(recency)]}
            /\ recency[Len(recency)] = Last(recency)
<1>1. Cardinality(DOMAIN items) = Len(recency) /\ Len(recency) \in Nat /\ Len(recency) <= Capacity
  BY LRUFacts DEF LRUInv
<1>2. CASE Len(recency) < Capacity
  <2>1. ~(R!Cardinality(DOMAIN items) >= Capacity)
    BY <1>1, <1>2, LRUSame, CapacityAssumption
  <2> QED
    BY <1>2, <2>1 DEF R!Victims
<1>3. CASE Len(recency) = Capacity
  <2>1. Len(recency) \in 1 .. Len(recency)
    BY <1>3, CapacityAssumption
  <2>2. list.tail = recency[Len(recency)] /\ list.tail # Nil /\ list.tail \in ToSet(recency)
    <3>1. list.tail = Nth(recency, Len(recency))
      BY DEF LRUInv, Chain
    <3> QED
      BY <2>1, <3>1, LRUFacts, NthFacts
  <2>3. R!Cardinality(DOMAIN items) >= Capacity
    BY <1>1, <1>3, LRUSame, CapacityAssumption
  <2>4. gone = {list.tail}
    BY <2>2, <2>3 DEF R!Victims
  <2> QED
    BY <1>3, <2>2, <2>4 DEF LRUInv, Last
<1> QED
  BY <1>1, <1>2, <1>3, CapacityAssumption

(* Set of a new key, with the victim out of the way if there is one.       *)
LEMMA LRUNewStep ==
  ASSUME LRUInv, now \in Nat, NEW k \in Keys, NEW v \in Values, NEW ttl \in TTLs, R!SetNew(k, v, ttl)
  PROVE  LRUInv'
<1>1. PICK gone, x, n, l, s :
        /\ gone = R!Victims /\ x = (CHOOSE y \in gone : TRUE) /\ n = R!Node(v, ExpiryOf(ttl))
        /\ l = (IF gone = {} THEN list ELSE R!removeNode(list, x))
        /\ s = (IF gone = {} THEN recency ELSE RemoveFirst(recency, x))
  OBVIOUS
<1>2. /\ k \notin DOMAIN items
      /\ items' = [y \in (DOMAIN items \ gone) \cup {k} |-> IF y = k THEN n ELSE items[y]]
      /\ list' = R!pushFront(l, k) /\ recency' = Cons(k, s)
  <2>1. k \notin DOMAIN items
    BY DEF R!SetNew, R!Held
  <2>2. items' = [y \in (DOMAIN items \ gone) \cup {k} |-> IF y = k THEN n ELSE items[y]]
    BY <1>1, LRUSame DEF R!SetNew
  <2>3. list' = R!pushFront(l, k)
    BY <1>1 DEF R!SetNew
  <2>4. recency' = Cons(k, s)
    BY <1>1, LRUSame DEF R!SetNew
  <2> QED
    BY <2>1, <2>2, <2>3, <2>4
<1>3. n \in R!Nodes
  BY <1>1, ExpiryType DEF R!Node, R!Nodes
<1>4. Chain(list, recency) /\ ToSet(recency) = DOMAIN items
  BY DEF LRUInv
<1>5. /\ Chain(l, s) /\ ToSet(s) = DOMAIN items \ gone /\ Len(s) \in Nat
      /\ Len(s) + 1 <= Capacity
  <2>1. CASE gone = {} /\ Len(recency) < Capacity
    BY <1>1, <1>4, <2>1, LRUFacts, CapacityAssumption
  <2>2. CASE /\ Len(recency) = Capacity
             /\ recency[Len(recency)] \in DOMAIN items /\ gone = {recency[Len(recency)]}
    <3>1. gone = {x} /\ x \in ToSet(recency)
      BY <1>1, <1>4, <2>2
    <3>2. l = R!removeNode(list, x) /\ s = RemoveFirst(recency, x)
      BY <1>1, <3>1
    <3>3. Chain(l, s)
      BY <1>4, <3>1, <3>2, LRURemove
    <3>4. ToSet(s) = ToSet(recency) \ {x} /\ Len(s) = Len(recency) - 1
      BY <3>1, <3>2, LRUFacts, RemoveFirstProperties
    <3>5. Len(s) \in Nat /\ Len(s) + 1 <= Capacity
      BY <2>2, <3>4, CapacityAssumption
    <3> QED
      BY <1>4, <3>1, <3>3, <3>4, <3>5
  <2> QED
    BY <1>1, <2>1, <2>2, LRUVictims
<1>6. k \notin ToSet(s) /\ s \in Seq(Keys) /\ IsInjective(s)
  BY <1>2, <1>5 DEF Chain
<1>7. Chain(list', recency')
  BY <1>2, <1>5, <1>6, LRUPush
<1>8. ToSet(recency') = ToSet(s) \cup {k} /\ Len(recency') = Len(s) + 1
  BY <1>2, <1>6, ConsProperties
<1>9. DOMAIN items' = (DOMAIN items \ gone) \cup {k} /\ items' \in [DOMAIN items' -> R!Nodes]
  BY <1>2, <1>3 DEF LRUInv
<1>10. DOMAIN items' \subseteq Keys
  BY <1>9 DEF LRUInv
<1> QED
  BY <1>5, <1>7, <1>8, <1>9, <1>10 DEF LRUInv
(* A step that leaves the map, the list and its history alone.             *)
LEMMA LRUQuietStep ==
  ASSUME LRUInv, items' = items, list' = list, recency' = recency
  PROVE  LRUInv'
  BY DEF LRUInv, Chain

(* Get, Peek and Delete of the LRU cache.                                  *)
LEMMA LRUReadStep ==
  ASSUME LRUInv, NEW k \in Keys, R!Get(k) \/ R!Peek(k) \/ R!Delete(k)
  PROVE  LRUInv'
<1>1. ASSUME NEW op, NEW counted, R!ReadMiss(op, k, counted)
      PROVE  LRUInv'
  BY <1>1, LRUQuietStep DEF R!ReadMiss
<1>2. ASSUME NEW op, NEW counted, R!ReadExpired(op, k, counted)
      PROVE  LRUInv'
  BY <1>2, LRURemoveStep DEF R!ReadExpired, R!Held
<1>3. CASE R!GetHit(k)
  <2>1. /\ k \in DOMAIN items /\ items' = items
        /\ list' = R!moveToFront(list, k) /\ recency' = R!Touched(k)
    BY <1>3 DEF R!GetHit, R!Held
  <2>2. DOMAIN items' = DOMAIN items /\ items' \in [DOMAIN items -> R!Nodes]
    BY <2>1 DEF LRUInv
  <2> QED
    BY <2>1, <2>2, LRUTouchStep
<1>4. CASE R!PeekHit(k)
  BY <1>4, LRUQuietStep DEF R!PeekHit
<1>5. CASE R!Delete(k)
  <2>1. CASE k \notin DOMAIN items
    BY <1>5, <2>1, LRUQuietStep DEF R!Delete, R!Held
  <2>2. CASE k \in DOMAIN items
    BY <1>5, <2>2, LRURemoveStep DEF R!Delete, R!Held
  <2> QED
    BY <2>1, <2>2
<1> QED
  BY <1>1, <1>2, <1>3, <1>4, <1>5 DEF R!Get, R!Peek

(* Every step of the LRU cache keeps its pointers and its order of use.    *)
LEMMA LRUNextInv ==
  ASSUME LRUInv, now \in Nat, R!Next
  PROVE  LRUInv'
<1>1. CASE R!Tick
  BY <1>1, LRUQuietStep DEF R!Tick
<1>2. CASE R!Purge
  <2>1. items' = R!EmptyMap /\ list' = R!EmptyList /\ recency' = <<>>
    BY <1>2 DEF R!Purge
  <2> QED
    BY <2>1, LRUEmpty DEF LRUInv
<1>3. ASSUME NEW k \in Keys, R!Get(k) \/ R!Peek(k) \/ R!Delete(k)
      PROVE  LRUInv'
  BY <1>3, LRUReadStep
<1>4. ASSUME NEW k \in Keys, NEW v \in Values, NEW ttl \in TTLs, R!Set(k, v, ttl)
      PROVE  LRUInv'
  <2>1. CASE R!SetHeld(k, v, ttl)
    <3>1. PICK n : n = R!Node(v, ExpiryOf(ttl))
      OBVIOUS
    <3>2. /\ k \in DOMAIN items /\ items' = [items EXCEPT ![k] = n]
          /\ list' = R!moveToFront(list, k) /\ recency' = R!Touched(k)
      BY <2>1, <3>1, LRUSame DEF R!SetHeld, R!Held
    <3>3. n \in R!Nodes
      BY <3>1, ExpiryType DEF R!Node, R!Nodes
    <3>4. DOMAIN items' = DOMAIN items /\ items' \in [DOMAIN items -> R!Nodes]
      BY <3>2, <3>3 DEF LRUInv
    <3> QED
      BY <3>2, <3>4, LRUTouchStep
  <2>2. CASE R!SetNew(k, v, ttl)
    BY <2>2, LRUNewStep
  <2> QED
    BY <1>4, <2>1, <2>2 DEF R!Set
<1> QED
  BY <1>1, <1>2, <1>3, <1>4 DEF R!Next

(* What LRUInv says of the pointers is what ListIsRecencyOrder says.       *)
LEMMA LRUInvImplies == LRUInv => R!ListIsRecencyOrder
<1> SUFFICES ASSUME LRUInv PROVE R!ListIsRecencyOrder
  OBVIOUS
<1>1. recency \in Seq(Keys) /\ IsInjective(recency) /\ Len(recency) \in Nat
  BY LRUFacts
<1>2. R!ToSet(recency) = DOMAIN items /\ R!IsInjective(recency)
  BY <1>1 DEF LRUInv, R!ToSet, ToSet, R!IsInjective, IsInjective
<1>3. /\ list.head = IF Len(recency) = 0 THEN Nil ELSE recency[1]
      /\ list.tail = IF Len(recency) = 0 THEN Nil ELSE recency[Len(recency)]
  <2>1. list.head = Nth(recency, 1) /\ list.tail = Nth(recency, Len(recency))
    BY DEF LRUInv, Chain
  <2> QED
    BY <1>1, <2>1 DEF Nth
<1>4. \A i \in 1 .. Len(recency) :
        /\ list.prev[recency[i]] = IF i = 1 THEN Nil ELSE recency[i - 1]
        /\ list.next[recency[i]] = IF i = Len(recency) THEN Nil ELSE recency[i + 1]
  <2> SUFFICES ASSUME NEW i \in 1 .. Len(recency)
               PROVE  /\ list.prev[recency[i]] = IF i = 1 THEN Nil ELSE recency[i - 1]
                      /\ list.next[recency[i]] = IF i = Len(recency) THEN Nil ELSE recency[i + 1]
    OBVIOUS
  <2>1. list.prev[recency[i]] = Nth(recency, i - 1) /\ list.next[recency[i]] = Nth(recency, i + 1)
    BY DEF LRUInv, Chain
  <2> QED
    BY <1>1, <2>1 DEF Nth
<1> QED
  BY <1>2, <1>3, <1>4 DEF R!ListIsRecencyOrder
(* The contract's operators are the ones of the caches.                    *)
LEMMA PromiseSame ==
  /\ \A a, b, c, d, e, f : Promise!Reply(a, b, c, d, e, f) = Reply(a, b, c, d, e, f)
  /\ \A a, b, c : Promise!Miss(a, b, c) = Miss(a, b, c)
  /\ \A t : Promise!ExpiryOf(t) = ExpiryOf(t)
  /\ \A e : Promise!Expired(e) = Expired(e)
  /\ \A S : Promise!Cardinality(S) = Cardinality(S)
  /\ Promise!EmptyMap = EmptyMap /\ Promise!NoKey = NoKey
<1>1. \A a, b, c, d, e, f : Promise!Reply(a, b, c, d, e, f) = Reply(a, b, c, d, e, f)
  BY DEF Promise!Reply, Reply
<1>2. \A a, b, c : Promise!Miss(a, b, c) = Miss(a, b, c)
  BY DEF Promise!Reply, Reply, Promise!Miss, Miss
<1>3. (\A t : Promise!ExpiryOf(t) = ExpiryOf(t)) /\ (\A e : Promise!Expired(e) = Expired(e))
  BY DEF Promise!ExpiryOf, ExpiryOf, Promise!Expired, Expired
<1>4. \A S : Promise!Cardinality(S) = Cardinality(S)
  BY DEF Promise!Cardinality, Cardinality
<1>5. Promise!EmptyMap = EmptyMap /\ Promise!NoKey = NoKey
  BY DEF Promise!EmptyMap, EmptyMap, Promise!NoKey, NoKey
<1> QED
  BY <1>1, <1>2, <1>3, <1>4, <1>5

(* What a call of the contract returns has the type of a reply.            *)
LEMMA PromiseReplies ==
  ASSUME DOMAIN BaseEntries \subseteq Keys,
         \A x \in DOMAIN BaseEntries : BaseEntries[x].value \in Values,
         now \in Nat, ret \in Replies, Promise!Next
  PROVE  now' \in Nat /\ ret' \in Replies
<1>1. CASE Promise!Tick
  BY <1>1 DEF Promise!Tick
<1>2. CASE Promise!Purge
  <2>1. now' = now /\ ret' = Miss("purge", NoKey, {})
    BY <1>2, PromiseSame DEF Promise!Purge
  <2>2. ret' \in Replies
    BY <2>1, MissType
  <2> QED
    BY <2>1, <2>2
<1>3. ASSUME NEW k \in Keys, NEW op \in {"get", "peek"}, NEW onHit \in SUBSET Counters,
             NEW onMiss \in SUBSET Counters, Promise!Read(op, k, onHit, onMiss)
      PROVE  now' \in Nat /\ ret' \in Replies
  <2>1. \/ k \in DOMAIN BaseEntries /\ ret' = Reply(op, k, TRUE, BaseEntries[k].value, {}, onHit)
        \/ ret' = Miss(op, k, onMiss \cup {"TTLExpiries"})
        \/ ret' = Miss(op, k, onMiss)
    BY <1>3, PromiseSame DEF Promise!Read, Promise!Held
  <2>2. onMiss \cup {"TTLExpiries"} \in SUBSET Counters
    BY DEF Counters
  <2>3. ret' \in Replies
    <3>1. CASE k \in DOMAIN BaseEntries /\ ret' = Reply(op, k, TRUE, BaseEntries[k].value, {}, onHit)
      BY <3>1, ReplyType
    <3>2. CASE ret' = Miss(op, k, onMiss \cup {"TTLExpiries"})
      BY <2>2, <3>2, MissType
    <3>3. CASE ret' = Miss(op, k, onMiss)
      BY <3>3, MissType
    <3> QED
      BY <2>1, <3>1, <3>2, <3>3
  <2>4. now' = now
    BY <1>3 DEF Promise!Read
  <2> QED
    BY <2>3, <2>4
<1>4. ASSUME NEW k \in Keys, Promise!Get(k) \/ Promise!Peek(k)
      PROVE  now' \in Nat /\ ret' \in Replies
  <2>1. {"Hits"} \in SUBSET Counters /\ {"Misses"} \in SUBSET Counters /\ {} \in SUBSET Counters
    BY DEF Counters
  <2>2. CASE Promise!Get(k)
    BY <1>3, <2>1, <2>2 DEF Promise!Get
  <2>3. CASE Promise!Peek(k)
    BY <1>3, <2>1, <2>3 DEF Promise!Peek
  <2> QED
    BY <1>4, <2>2, <2>3
<1>5. ASSUME NEW k \in Keys, Promise!Delete(k)
      PROVE  now' \in Nat /\ ret' \in Replies
  <2>1. PICK found \in BOOLEAN :
          ret' = Reply("delete", k, found, NoValue, {}, IF found THEN {"Deletes"} ELSE {})
    BY <1>5, PromiseSame DEF Promise!Delete
  <2>2. (IF found THEN {"Deletes"} ELSE {}) \in SUBSET Counters
    BY DEF Counters
  <2>3. ret' \in Replies
    BY <2>1, <2>2, ReplyType
  <2>4. now' = now
    BY <1>5 DEF Promise!Delete
  <2> QED
    BY <2>3, <2>4
<1>6. ASSUME NEW k \in Keys, NEW v \in Values, NEW ttl \in TTLs, Promise!Set(k, v, ttl)
      PROVE  now' \in Nat /\ ret' \in Replies
  <2>0. PICK gone \in Promise!VictimSets(k), extra \in SUBSET {"Evictions"} :
          /\ ret' = Reply("set", k, TRUE, NoValue,
                          {[key |-> x, value |-> BaseEntries[x].value] : x \in gone},
                          {"Sets"} \cup extra)
          /\ now' = now
    BY <1>6, PromiseSame DEF Promise!Set
  <2>1. PICK calls, counted :
          /\ calls = {[key |-> x, value |-> BaseEntries[x].value] : x \in gone}
          /\ counted = {"Sets"} \cup extra
    OBVIOUS
  <2>2. gone \subseteq DOMAIN BaseEntries
    BY DEF Promise!VictimSets, Promise!Held
  <2>3. calls \in SUBSET Calls
    BY <2>1, <2>2 DEF Calls
  <2>4. counted \in SUBSET Counters
    BY <2>1 DEF Counters
  <2>5. ret' \in Replies
    BY <2>0, <2>1, <2>3, <2>4, ReplyType
  <2> QED
    BY <2>0, <2>5
<1> QED
  BY <1>1, <1>2, <1>4, <1>5, <1>6 DEF Promise!Next

(* A Set of the contract, over what callers see before and after.          *)
LEMMA PromiseSet ==
  ASSUME NEW k \in Keys, NEW v \in Values, NEW ttl \in TTLs,
         NEW gone,
         gone = {} \/ (k \notin DOMAIN BaseEntries /\ \E x \in DOMAIN BaseEntries : gone = {x}),
         Cardinality(DOMAIN BaseEntries') <= Capacity,
         NEW e, e = [value |-> v, expiresAt |-> ExpiryOf(ttl)],
         BaseEntries' = [x \in (DOMAIN BaseEntries \ gone) \cup {k} |->
                           IF x = k THEN e ELSE BaseEntries[x]],
         NEW extra \in SUBSET {"Evictions"}, gone # {} => extra = {"Evictions"},
         ret' = Reply("set", k, TRUE, NoValue,
                      {[key |-> x, value |-> BaseEntries[x].value] : x \in gone},
                      {"Sets"} \cup extra),
         now' = now
  PROVE  Promise!Set(k, v, ttl)
<1>1. gone \in Promise!VictimSets(k)
  BY DEF Promise!VictimSets, Promise!Held
<1>2. Promise!Cardinality((Promise!Held \ gone) \cup {k}) <= Capacity
  <2>1. DOMAIN BaseEntries' = (DOMAIN BaseEntries \ gone) \cup {k}
    OBVIOUS
  <2> QED
    BY <2>1, PromiseSame DEF Promise!Held
<1>3. e = [value |-> v, expiresAt |-> Promise!ExpiryOf(ttl)]
  BY PromiseSame
<1>4. ret' = Promise!Reply("set", k, TRUE, NoValue,
                           {[key |-> x, value |-> BaseEntries[x].value] : x \in gone},
                           {"Sets"} \cup extra)
  BY PromiseSame
<1> QED
  BY <1>1, <1>2, <1>3, <1>4 DEF Promise!Set, Promise!Held
(* Every step of the LRU cache keeps the contract.                         *)
LEMMA LRURefines ==
  ASSUME policy = "lru", policy' = policy, LRUInv, LRUInv', R!Next
  PROVE  Promise!Next
<1>0. BaseEntries = items /\ BaseEntries' = items' /\ Promise!Held = DOMAIN items
  BY DEF BaseEntries, R!LiveEntries, Promise!Held
<1>1. CASE R!Tick
  BY <1>0, <1>1 DEF R!Tick, Promise!Tick, Promise!Next
<1>2. CASE R!Purge
  BY <1>0, <1>2, LRUSame, PromiseSame DEF R!Purge, Promise!Purge, Promise!Next
<1>3. ASSUME NEW k, NEW op, NEW onHit, NEW onMiss,
             R!ReadMiss(op, k, onMiss) \/ R!ReadExpired(op, k, onMiss)
      PROVE  Promise!Read(op, k, onHit, onMiss)
  <2>1. CASE R!ReadMiss(op, k, onMiss)
    BY <1>0, <2>1, LRUSame, PromiseSame DEF R!ReadMiss, R!Held, Promise!Read
  <2>2. CASE R!ReadExpired(op, k, onMiss)
    <3>1. /\ k \in DOMAIN items /\ Expired(items[k]) /\ now' = now
          /\ items' = [x \in DOMAIN items \ {k} |-> items[x]]
          /\ ret' = Miss(op, k, onMiss \cup {"TTLExpiries"})
      BY <2>2, LRUSame DEF R!ReadExpired, R!RemoveEntry, R!Without, R!Held
    <3>2. items' = Promise!Without({k})
      BY <1>0, <3>1 DEF Promise!Without
    <3> QED
      BY <1>0, <3>1, <3>2, PromiseSame DEF Promise!Read
  <2> QED
    BY <1>3, <2>1, <2>2
<1>4. ASSUME NEW k \in Keys, R!Get(k)
      PROVE  Promise!Get(k)
  <2>1. CASE R!GetHit(k)
    BY <1>0, <2>1, LRUSame, PromiseSame DEF R!GetHit, R!Held, Promise!Get, Promise!Read
  <2> QED
    BY <1>3, <1>4, <2>1 DEF R!Get, Promise!Get
<1>5. ASSUME NEW k \in Keys, R!Peek(k)
      PROVE  Promise!Peek(k)
  <2>1. CASE R!PeekHit(k)
    BY <1>0, <2>1, LRUSame, PromiseSame DEF R!PeekHit, R!Held, Promise!Peek, Promise!Read
  <2> QED
    BY <1>3, <1>5, <2>1 DEF R!Peek, Promise!Peek
<1>6. ASSUME NEW k \in Keys, R!Delete(k)
      PROVE  Promise!Delete(k)
  <2>1. CASE k \notin DOMAIN items
    <3>1. items' = items /\ ret' = Reply("delete", k, FALSE, NoValue, {}, {}) /\ now' = now
      BY <1>6, <2>1, LRUSame DEF R!Delete, R!Held, Miss
    <3>2. items = [x \in DOMAIN items |-> items[x]] /\ DOMAIN items \ {k} = DOMAIN items
      BY <2>1 DEF LRUInv
    <3>3. items' = Promise!Without({k})
      BY <1>0, <3>1, <3>2 DEF Promise!Without
    <3> QED
      BY <1>0, <2>1, <3>1, <3>3, PromiseSame DEF Promise!Delete
  <2>2. CASE k \in DOMAIN items
    <3>1. /\ items' = [x \in DOMAIN items \ {k} |-> items[x]] /\ now' = now
          /\ ret' = Reply("delete", k, TRUE, NoValue, {}, {"Deletes"})
      BY <1>6, <2>2, LRUSame DEF R!Delete, R!RemoveEntry, R!Without, R!Held
    <3>2. items' = Promise!Without({k})
      BY <1>0, <3>1 DEF Promise!Without
    <3> QED
      BY <1>0, <3>1, <3>2, PromiseSame DEF Promise!Delete
  <2> QED
    BY <2>1, <2>2
<1>7. Cardinality(DOMAIN BaseEntries') <= Capacity
  <2>1. (Cardinality(DOMAIN items) = Len(recency))'
    BY LRUFacts, PTL
  <2>2. Len(recency') <= Capacity
    BY DEF LRUInv
  <2> QED
    BY <1>0, <2>1, <2>2
<1>8. ASSUME NEW k \in Keys, NEW v \in Values, NEW ttl \in TTLs, R!SetHeld(k, v, ttl)
      PROVE  Promise!Set(k, v, ttl)
  <2>1. PICK e, gone, extra :
          e = [value |-> v, expiresAt |-> ExpiryOf(ttl)] /\ gone = {} /\ extra = {}
    OBVIOUS
  <2>2. /\ k \in DOMAIN items /\ items' = [items EXCEPT ![k] = e] /\ now' = now
        /\ ret' = Reply("set", k, TRUE, NoValue, {}, {"Sets"})
    BY <1>8, <2>1, LRUSame DEF R!SetHeld, R!Held, R!Node
  <2>3. items' = [x \in (DOMAIN items \ gone) \cup {k} |-> IF x = k THEN e ELSE items[x]]
    <3>1. (DOMAIN items \ gone) \cup {k} = DOMAIN items
      BY <2>1, <2>2
    <3> QED
      BY <2>2, <3>1
  <2>4. /\ {[key |-> x, value |-> BaseEntries[x].value] : x \in gone} = {}
        /\ {"Sets"} \cup extra = {"Sets"} /\ extra \in SUBSET {"Evictions"}
    BY <2>1
  <2>5. /\ BaseEntries' = [x \in (DOMAIN BaseEntries \ gone) \cup {k} |->
                              IF x = k THEN e ELSE BaseEntries[x]]
        /\ ret' = Reply("set", k, TRUE, NoValue,
                        {[key |-> x, value |-> BaseEntries[x].value] : x \in gone},
                        {"Sets"} \cup extra)
    BY <1>0, <2>2, <2>3, <2>4
  <2> QED
    BY <1>7, <2>1, <2>2, <2>4, <2>5, PromiseSet
<1>9. ASSUME NEW k \in Keys, NEW v \in Values, NEW ttl \in TTLs, R!SetNew(k, v, ttl)
      PROVE  Promise!Set(k, v, ttl)
  <2>1. PICK e, gone, extra :
          /\ e = [value |-> v, expiresAt |-> ExpiryOf(ttl)] /\ gone = R!Victims
          /\ extra = (IF gone = {} THEN {} ELSE {"Evictions"})
    OBVIOUS
  <2>2. /\ k \notin DOMAIN items /\ now' = now
        /\ items' = [x \in (DOMAIN items \ gone) \cup {k} |-> IF x = k THEN e ELSE items[x]]
        /\ ret' = Reply("set", k, TRUE, NoValue,
                        {[key |-> x, value |-> items[x].value] : x \in gone},
                        {"Sets"} \cup extra)
    BY <1>9, <2>1, LRUSame DEF R!SetNew, R!Held, R!Node, R!EvictCalls
  <2>3. gone = {} \/ \E x \in DOMAIN items : gone = {x}
    BY <2>1, LRUVictims
  <2>4. extra \in SUBSET {"Evictions"} /\ (gone # {} => extra = {"Evictions"})
    BY <2>1
  <2>5. /\ BaseEntries' = [x \in (DOMAIN BaseEntries \ gone) \cup {k} |->
                              IF x = k THEN e ELSE BaseEntries[x]]
        /\ ret' = Reply("set", k, TRUE, NoValue,
                        {[key |-> x, value |-> BaseEntries[x].value] : x \in gone},
                        {"Sets"} \cup extra)
    BY <1>0, <2>2
  <2>6. gone = {} \/ (k \notin DOMAIN BaseEntries /\ \E x \in DOMAIN BaseEntries : gone = {x})
    BY <1>0, <2>2, <2>3
  <2>7. now' = now /\ e = [value |-> v, expiresAt |-> ExpiryOf(ttl)]
    BY <2>1, <2>2
  <2> QED
    BY <1>7, <2>4, <2>5, <2>6, <2>7, PromiseSet
<1> QED
  BY <1>1, <1>2, <1>4, <1>5, <1>6, <1>8, <1>9 DEF R!Next, R!Set, Promise!Next

(* The entry a step of the LRU cache evicts is the last in order of use.   *)
LEMMA LRUEvicts ==
  ASSUME LRUInv, R!Next
  PROVE  R!VictimIsLeastRecent
<1> SUFFICES ASSUME ret' # ret, NEW c \in ret'.calls PROVE c.key = R!Last(recency)
  BY DEF R!VictimIsLeastRecent
<1>1. ASSUME NEW a, NEW b, NEW f, NEW d, NEW g, ret' = Reply(a, b, f, d, {}, g)
      PROVE  FALSE
  BY <1>1 DEF Reply
<1>2. ASSUME NEW a, NEW b, NEW g, ret' = Miss(a, b, g)
      PROVE  FALSE
  BY <1>1, <1>2 DEF Miss
<1>3. ~R!Tick
  BY DEF R!Tick
<1>4. ~R!Purge
  BY <1>2, LRUSame DEF R!Purge
<1>5. ASSUME NEW k, R!Get(k) \/ R!Peek(k) \/ R!Delete(k)
      PROVE  FALSE
  <2>1. \A op, counted : ~R!ReadMiss(op, k, counted) /\ ~R!ReadExpired(op, k, counted)
    BY <1>2, LRUSame DEF R!ReadMiss, R!ReadExpired
  <2>2. ~R!GetHit(k) /\ ~R!PeekHit(k)
    BY <1>1, LRUSame DEF R!GetHit, R!PeekHit
  <2>3. ~R!Delete(k)
    BY <1>1, <1>2, LRUSame DEF R!Delete
  <2> QED
    BY <1>5, <2>1, <2>2, <2>3 DEF R!Get, R!Peek
<1>6. PICK k \in Keys, v \in Values, ttl \in TTLs : R!Set(k, v, ttl)
  BY <1>3, <1>4, <1>5 DEF R!Next
<1>7. ~R!SetHeld(k, v, ttl)
  BY <1>1, LRUSame DEF R!SetHeld
<1>8. PICK gone, calls : gone = R!Victims /\ calls = {[key |-> x, value |-> items[x].value] : x \in gone}
  OBVIOUS
<1>9. ret'.calls = calls
  <2>1. PICK counted : ret' = Reply("set", k, TRUE, NoValue, calls, counted)
    BY <1>6, <1>7, <1>8, LRUSame DEF R!Set, R!SetNew, R!EvictCalls
  <2> QED
    BY <2>1 DEF Reply
<1>10. c.key \in gone
  BY <1>8, <1>9
<1>11. gone = {} \/ gone = {Last(recency)}
  BY <1>8, LRUVictims
<1> QED
  BY <1>10, <1>11 DEF R!Last, Last
---------------------------------------------------------------------------
(* The refinement: to its callers the ARC cache is the abstract cache that *)
(* holds what is in T1 and T2.                                             *)
HeldIn(m) == {x \in DOMAIN m : m[x].list \in LiveLists}

(* What callers see of the map.                                            *)
Shows(m) ==
  [x \in HeldIn(m) |-> [value |-> m[x].value, expiresAt |-> m[x].expiresAt]]

(* A step of an ARC cache.                                                 *)
ArcNow == policy = "arc" /\ policy' = policy

(* The live entries are what the map shows.                                *)
LEMMA LiveShows == policy = "arc" => BaseEntries = Shows(itemMap)
<1>1. HeldIn(itemMap) = {x \in DOMAIN itemMap : IsIn(x, LiveLists)}
  BY DEF HeldIn, IsIn
<1> QED
  BY <1>1 DEF BaseEntries, LiveEntries, Shows

(* A list has no more keys than its length.                                *)
LEMMA ListIsFinite ==
  ASSUME NEW s \in Seq(Keys)
  PROVE  /\ IsFiniteSet(ToSet(s)) /\ Cardinality(ToSet(s)) \in Nat
         /\ Cardinality(ToSet(s)) <= Len(s)
<1>1. Len(s) \in Nat /\ s \in [1 .. Len(s) -> Keys]
  BY LenProperties
<1>2. IsFiniteSet(1 .. Len(s)) /\ Cardinality(1 .. Len(s)) = Len(s)
  BY <1>1, FS_Interval
<1>3. s \in Surjection(1 .. Len(s), ToSet(s))
  BY <1>1 DEF Surjection, ToSet
<1>4. IsFiniteSet(ToSet(s)) /\ Cardinality(ToSet(s)) <= Cardinality(1 .. Len(s))
  BY <1>2, <1>3, FS_Surjection
<1> QED
  BY <1>2, <1>4, FS_CardinalityType

(* The cache holds no more entries than its capacity.                      *)
LEMMA HeldFits ==
  ASSUME Core
  PROVE  Cardinality(HeldIn(itemMap)) <= Capacity
<1>1. PICK t1, t2 : t1 = lists["T1"] /\ t2 = lists["T2"]
  OBVIOUS
<1>2. /\ t1 \in Seq(Keys) /\ t2 \in Seq(Keys)
      /\ Len(t1) \in Nat /\ Len(t2) \in Nat /\ Len(t1) + Len(t2) <= Capacity
  <2>1. lists \in [ListNames -> Seq(Keys)] /\ "T1" \in ListNames /\ "T2" \in ListNames
    BY DEF Core, WF, ListNames
  <2> QED
    BY <1>1, <2>1, LenNat DEF Core, Bounds, Size
<1>3. HeldIn(itemMap) = ToSet(t1) \cup ToSet(t2)
  <2>1. \A x \in Keys : (x \in ToSet(t1) <=> x \in DOMAIN itemMap /\ itemMap[x].list = "T1")
                     /\ (x \in ToSet(t2) <=> x \in DOMAIN itemMap /\ itemMap[x].list = "T2")
    BY <1>1 DEF Core, WF, Matches, ListNames
  <2>2. ToSet(t1) \subseteq Keys /\ ToSet(t2) \subseteq Keys /\ DOMAIN itemMap \subseteq Keys
    BY <1>2 DEF ToSet, Core, WF, MapOK
  <2> QED
    BY <2>1, <2>2 DEF HeldIn, LiveLists
<1>4. PICK A, B : A = ToSet(t1) /\ B = ToSet(t2)
  OBVIOUS
<1>5. /\ IsFiniteSet(A) /\ Cardinality(A) \in Nat /\ Cardinality(A) <= Len(t1)
      /\ IsFiniteSet(B) /\ Cardinality(B) \in Nat /\ Cardinality(B) <= Len(t2)
  BY <1>2, <1>4, ListIsFinite
<1>6. IsFiniteSet(A \cap B) /\ Cardinality(A \cap B) \in Nat
  BY <1>5, FS_Subset, FS_CardinalityType
<1>7. Cardinality(A \cup B) = Cardinality(A) + Cardinality(B) - Cardinality(A \cap B)
  BY <1>5, FS_Union
<1> QED
  BY <1>2, <1>3, <1>4, <1>5, <1>6, <1>7, CapacityAssumption

(* Both states of a step, as callers see them.                             *)
LEMMA ShownEntries ==
  ASSUME ArcNow
  PROVE
  /\ Promise!Held = HeldIn(itemMap) /\ DOMAIN BaseEntries = HeldIn(itemMap)
  /\ \A x \in HeldIn(itemMap) :
       BaseEntries[x] = [value |-> itemMap[x].value, expiresAt |-> itemMap[x].expiresAt]
  /\ DOMAIN BaseEntries' = HeldIn(itemMap')
  /\ \A x \in HeldIn(itemMap') :
       BaseEntries'[x] = [value |-> itemMap'[x].value, expiresAt |-> itemMap'[x].expiresAt]
  /\ BaseEntries' = [x \in HeldIn(itemMap') |-> BaseEntries'[x]]
<1>1. BaseEntries = Shows(itemMap) /\ BaseEntries' = Shows(itemMap')
  <2>1. (policy = "arc" => BaseEntries = Shows(itemMap))'
    BY LiveShows, PTL
  <2> QED
    BY <2>1, LiveShows DEF ArcNow
<1> QED
  BY <1>1 DEF Shows, Promise!Held

(* What callers are told of the entries a Set evicts.                      *)
Reported(gone) == {[key |-> x, value |-> itemMap[x].value] : x \in gone}

(* A Set that evicts gone, one entry at most and only for a new key.       *)
LEMMA SetRefines ==
  ASSUME ArcNow, Core', NEW k \in Keys, NEW v \in Values, NEW ttl \in TTLs,
         NEW gone, gone = {} \/ (k \notin HeldIn(itemMap) /\ \E x \in HeldIn(itemMap) : gone = {x}),
         HeldIn(itemMap') = (HeldIn(itemMap) \ gone) \cup {k},
         itemMap'[k].value = v, itemMap'[k].expiresAt = ExpiryOf(ttl),
         \A x \in HeldIn(itemMap) \ (gone \cup {k}) : itemMap'[x] = itemMap[x],
         NEW extra \in SUBSET {"Evictions"}, gone # {} => extra = {"Evictions"},
         SetReply(k, Reported(gone), {"Sets"} \cup extra), now' = now
  PROVE  Promise!Set(k, v, ttl)
<1>1. Promise!Cardinality((Promise!Held \ gone) \cup {k}) <= Capacity
  <2>1. (Cardinality(HeldIn(itemMap)) <= Capacity)'
    BY HeldFits, PTL
  <2> QED
    BY <2>1, ShownEntries, PromiseSame
<1>2. PICK e : e = [value |-> v, expiresAt |-> ExpiryOf(ttl)]
  OBVIOUS
<1>3. BaseEntries' = [x \in (Promise!Held \ gone) \cup {k} |->
                        IF x = k THEN e ELSE BaseEntries[x]]
  <2>1. ASSUME NEW x \in (HeldIn(itemMap) \ gone) \cup {k}
        PROVE  BaseEntries'[x] = IF x = k THEN e ELSE BaseEntries[x]
    <3>1. BaseEntries'[x] = [value |-> itemMap'[x].value, expiresAt |-> itemMap'[x].expiresAt]
      BY ShownEntries
    <3>2. CASE x = k
      BY <1>2, <3>1, <3>2
    <3>3. CASE x # k
      <4>1. x \in HeldIn(itemMap) \ (gone \cup {k})
        BY <3>3
      <4>2. itemMap'[x] = itemMap[x]
        BY <4>1
      <4>3. BaseEntries[x] = [value |-> itemMap[x].value, expiresAt |-> itemMap[x].expiresAt]
        BY <4>1, ShownEntries
      <4> QED
        BY <3>1, <3>3, <4>2, <4>3
    <3> QED
      BY <3>2, <3>3
  <2>2. Promise!Held = HeldIn(itemMap)
    BY ShownEntries
  <2>3. BaseEntries' = [x \in (HeldIn(itemMap) \ gone) \cup {k} |-> BaseEntries'[x]]
    BY ShownEntries
  <2> QED
    BY <2>1, <2>2, <2>3
<1>4. gone \in Promise!VictimSets(k)
  BY ShownEntries DEF Promise!VictimSets
<1>5. ret' = Promise!Reply("set", k, TRUE, NoValue,
                           {[key |-> x, value |-> BaseEntries[x].value] : x \in gone},
                           {"Sets"} \cup extra)
  <2>1. \A x \in gone : BaseEntries[x].value = itemMap[x].value
    BY ShownEntries
  <2>2. {[key |-> x, value |-> BaseEntries[x].value] : x \in gone} = Reported(gone)
    BY <2>1 DEF Reported
  <2> QED
    BY <2>2 DEF SetReply, Reply, Promise!Reply
<1>6. e = [value |-> v, expiresAt |-> Promise!ExpiryOf(ttl)]
  BY <1>2 DEF Promise!ExpiryOf, ExpiryOf
<1> QED
  BY <1>1, <1>3, <1>4, <1>5, <1>6 DEF Promise!Set

(* No value is empty.  replace does not tell the eviction callback of an   *)
(* empty value, which Go stores as nil; the contract does.                 *)
NoEmptyValue == \A v \in Values : SizeOf[v] > 0

(* Without empty values replace reports every entry it evicts.             *)
LEMMA ReplaceReportsAll ==
  ASSUME Core, NoEmptyValue, NEW gone, gone \subseteq HeldIn(itemMap)
  PROVE  ReplaceCalls(gone) = Reported(gone)
<1>1. \A y \in gone : len(itemMap[y].value) > 0
  <2> SUFFICES ASSUME NEW y \in gone PROVE len(itemMap[y].value) > 0
    OBVIOUS
  <2>1. itemMap[y].value \in Values
    BY NodeFacts DEF HeldIn
  <2> QED
    BY <2>1, ValuesAssumption DEF len, NoEmptyValue
<1>2. {y \in gone : len(itemMap[y].value) > 0} = gone
  BY <1>1
<1> QED
  BY <1>2 DEF ReplaceCalls, Reported

(* replace takes at most one entry from those a Get can return.            *)
LEMMA ReplaceHeld ==
  ASSUME NEW l, NEW m, WF(l, m), NEW target, NEW preferT2 \in BOOLEAN
  PROVE  LET r == Replace(l, m, target, preferT2)
         IN /\ r.gone = {} \/ \E x \in HeldIn(m) : r.gone = {x}
            /\ HeldIn(r.map) = HeldIn(m) \ r.gone
            /\ DOMAIN r.map = DOMAIN m
            /\ \A x \in DOMAIN m \ r.gone : r.map[x] = m[x]
<1> DEFINE r == Replace(l, m, target, preferT2)
<1>1. /\ DOMAIN r.map = DOMAIN m
      /\ r.gone \subseteq {x \in DOMAIN m : m[x].list \in LiveLists}
      /\ (r.gone = {} \/ \E v \in DOMAIN m : r.gone = {v})
      /\ \A x \in r.gone : r.map[x].list \notin LiveLists
      /\ \A x \in DOMAIN m \ r.gone : r.map[x] = m[x]
  BY ReplaceWF
<1> HIDE DEF r
<1>2. r.gone \subseteq HeldIn(m)
  BY <1>1 DEF HeldIn
<1>3. HeldIn(r.map) = HeldIn(m) \ r.gone
  <2>1. \A x \in DOMAIN m : r.map[x].list \in LiveLists <=> m[x].list \in LiveLists /\ x \notin r.gone
    BY <1>1
  <2> QED
    BY <1>1, <2>1 DEF HeldIn
<1> QED
  BY <1>1, <1>2, <1>3 DEF r

(* Case 4 of Set, once the victim is known.                                *)
LEMMA AddRefines ==
  ASSUME ArcNow, Core', NEW k \in Keys, NEW v \in Values, NEW ttl \in TTLs, k \notin DOMAIN itemMap,
         NEW l, NEW m, NEW gone, gone = {} \/ \E x \in HeldIn(itemMap) : gone = {x},
         HeldIn(m) = HeldIn(itemMap) \ gone, \A x \in HeldIn(m) : m[x] = itemMap[x],
         AddNew(k, v, ttl, l, m, gone),
         NEW extra \in SUBSET {"Evictions"}, gone # {} => extra = {"Evictions"},
         SetReply(k, Reported(gone), {"Sets"} \cup extra)
  PROVE  Promise!Set(k, v, ttl)
<1>1. PICK n : n = Node("T1", v, ExpiryOf(ttl))
  OBVIOUS
<1>2. n.value = v /\ n.expiresAt = ExpiryOf(ttl) /\ n.list \in LiveLists
  BY <1>1 DEF Node, LiveLists
<1>3. itemMap' = Put(m, k, n) /\ now' = now
  BY <1>1 DEF AddNew
<1>4. /\ DOMAIN itemMap' = DOMAIN m \cup {k} /\ itemMap'[k] = n
      /\ \A x \in DOMAIN m \ {k} : itemMap'[x] = m[x]
  BY <1>3 DEF Put
<1>5. k \notin HeldIn(itemMap)
  BY DEF HeldIn
<1>6. HeldIn(itemMap') = (HeldIn(itemMap) \ gone) \cup {k}
  <2>1. HeldIn(itemMap') = HeldIn(m) \cup {k}
    BY <1>2, <1>4 DEF HeldIn
  <2> QED
    BY <2>1
<1>7. \A x \in HeldIn(itemMap) \ (gone \cup {k}) : itemMap'[x] = itemMap[x]
  BY <1>4 DEF HeldIn
<1>8. itemMap'[k].value = v /\ itemMap'[k].expiresAt = ExpiryOf(ttl)
  BY <1>2, <1>4
<1>9. gone = {} \/ (k \notin HeldIn(itemMap) /\ \E x \in HeldIn(itemMap) : gone = {x})
  BY <1>5
<1> QED
  BY <1>3, <1>6, <1>7, <1>8, <1>9, SetRefines

(* Case 4 of Set, with replace making room.                                *)
LEMMA ReplaceThenAddRefines ==
  ASSUME ArcNow, Core, Core', NoEmptyValue,
         NEW k \in Keys, NEW v \in Values, NEW ttl \in TTLs, k \notin DOMAIN itemMap,
         NEW l, NEW m, WF(l, m), HeldIn(m) = HeldIn(itemMap),
         \A x \in DOMAIN m : m[x] = itemMap[x],
         NEW r, r = Replace(l, m, p, FALSE),
         AddNew(k, v, ttl, r.lists, r.map, r.gone),
         SetReply(k, ReplaceCalls(r.gone), {"Sets", "Evictions"})
  PROVE  Promise!Set(k, v, ttl)
<1>1. /\ r.gone = {} \/ \E x \in HeldIn(m) : r.gone = {x}
      /\ HeldIn(r.map) = HeldIn(m) \ r.gone
      /\ \A x \in DOMAIN m \ r.gone : r.map[x] = m[x]
  <2> DEFINE o(b) == Replace(l, m, p, b)
             P(b) == /\ o(b).gone = {} \/ \E x \in HeldIn(m) : o(b).gone = {x}
                     /\ HeldIn(o(b).map) = HeldIn(m) \ o(b).gone
                     /\ \A x \in DOMAIN m \ o(b).gone : o(b).map[x] = m[x]
  <2>1. \A b \in BOOLEAN : P(b)
    BY ReplaceHeld
  <2>2. P(FALSE)
    <3> HIDE DEF P
    <3> QED
      BY <2>1
  <2> QED
    BY <2>2
<1>2. \A x \in HeldIn(r.map) : r.map[x] = itemMap[x]
  BY <1>1 DEF HeldIn
<1>3. SetReply(k, Reported(r.gone), {"Sets"} \cup {"Evictions"})
  <2>1. ReplaceCalls(r.gone) = Reported(r.gone)
    BY <1>1, ReplaceReportsAll
  <2>2. {"Sets", "Evictions"} = {"Sets"} \cup {"Evictions"}
    OBVIOUS
  <2> QED
    BY <2>1, <2>2
<1>4. {"Evictions"} \in SUBSET {"Evictions"}
  OBVIOUS
<1>5. HeldIn(r.map) = HeldIn(itemMap) \ r.gone
  BY <1>1
<1> QED
  BY <1>1, <1>2, <1>3, <1>4, <1>5, AddRefines

(* A node that is not live, a ghost, leaves: callers see no difference.    *)
LEMMA ForgetGhost ==
  ASSUME NEW m, NEW k \in DOMAIN m, m[k].list \notin LiveLists
  PROVE  HeldIn(Drop(m, k)) = HeldIn(m) /\ \A x \in DOMAIN Drop(m, k) : Drop(m, k)[x] = m[x]
  BY DEF HeldIn, Drop

(* Case 4 forgets a B2 ghost at most.                                      *)
LEMMA TrimHeld ==
  ASSUME Core, NEW t, t = TrimGhost2(lists, itemMap)
  PROVE  /\ WF(t.lists, t.map) /\ HeldIn(t.map) = HeldIn(itemMap)
         /\ \A x \in DOMAIN t.map : t.map[x] = itemMap[x]
<1>1. CASE Total >= 2 * Capacity /\ Len(lists["B2"]) > 0
  <2>1. PICK old, l, m : /\ old = Last(lists["B2"]) /\ m = Drop(itemMap, old)
                         /\ l = [lists EXCEPT !["B2"] = Front(@)]
    OBVIOUS
  <2>2. "B2" \in ListNames /\ t = [lists |-> l, map |-> m]
    BY <1>1, <2>1 DEF TrimGhost2, ListNames
  <2>3. WF(l, m) /\ old \in DOMAIN itemMap /\ itemMap[old].list = "B2"
    BY <1>1, <2>1, <2>2, DropLast DEF Core
  <2>4. HeldIn(m) = HeldIn(itemMap) /\ \A x \in DOMAIN m : m[x] = itemMap[x]
    BY <2>1, <2>3, ForgetGhost DEF LiveLists
  <2> QED
    BY <2>2, <2>3, <2>4
<1>2. CASE ~(Total >= 2 * Capacity /\ Len(lists["B2"]) > 0)
  <2>1. t = [lists |-> lists, map |-> itemMap]
    BY <1>2 DEF TrimGhost2
  <2> QED
    BY <2>1 DEF Core
<1> QED
  BY <1>1, <1>2

(* Case 4 of Set in its four forms.                                        *)
LEMMA NewRefines ==
  ASSUME ArcNow, Core, Core', NoEmptyValue, NEW k \in Keys, NEW v \in Values, NEW ttl \in TTLs,
         \/ NewDropsGhost1(k, v, ttl) \/ NewDropsT1(k, v, ttl)
         \/ NewReplaces(k, v, ttl) \/ NewFits(k, v, ttl)
  PROVE  Promise!Set(k, v, ttl)
<1>1. CASE NewDropsGhost1(k, v, ttl)
  <2>1. PICK old, l, m, r : /\ old = Last(lists["B1"])
                            /\ l = [lists EXCEPT !["B1"] = Front(@)]
                            /\ m = Drop(itemMap, old)
                            /\ r = Replace(l, m, p, FALSE)
    OBVIOUS
  <2>2. /\ k \notin DOMAIN itemMap /\ FirstFull /\ Size(lists, "T1") < Capacity
        /\ AddNew(k, v, ttl, r.lists, r.map, r.gone)
        /\ SetReply(k, ReplaceCalls(r.gone), {"Sets", "Evictions"})
    BY <1>1, <2>1 DEF NewDropsGhost1, Size
  <2>3. "B1" \in ListNames /\ Len(lists["B1"]) > 0
    <3>1. Size(lists, "B1") > 0
      BY <2>2, GuardSizes, CapacityAssumption
    <3> QED
      BY <3>1 DEF Size, ListNames
  <2>4. WF(l, m) /\ old \in DOMAIN itemMap /\ itemMap[old].list = "B1"
    BY <2>1, <2>3, DropLast DEF Core
  <2>5. HeldIn(m) = HeldIn(itemMap) /\ \A x \in DOMAIN m : m[x] = itemMap[x]
    BY <2>1, <2>4, ForgetGhost DEF LiveLists
  <2> QED
    BY <2>1, <2>2, <2>4, <2>5, ReplaceThenAddRefines
<1>2. CASE NewDropsT1(k, v, ttl)
  <2>1. PICK old, l, m : /\ old = Last(lists["T1"])
                         /\ l = [lists EXCEPT !["T1"] = Front(@)]
                         /\ m = Drop(itemMap, old)
    OBVIOUS
  <2>2. /\ k \notin DOMAIN itemMap /\ FirstFull /\ Size(lists, "T1") >= Capacity
        /\ AddNew(k, v, ttl, l, m, {old})
        /\ SetReply(k, {[key |-> old, value |-> itemMap[old].value]}, {"Sets", "Evictions"})
    BY <1>2, <2>1 DEF NewDropsT1, Size
  <2>3. "T1" \in ListNames /\ Len(lists["T1"]) > 0
    <3>1. Size(lists, "T1") > 0
      BY <2>2, GuardSizes, CapacityAssumption
    <3> QED
      BY <3>1 DEF Size, ListNames
  <2>4. old \in DOMAIN itemMap /\ itemMap[old].list = "T1"
    BY <2>1, <2>3, DropLast DEF Core
  <2>5. old \in HeldIn(itemMap)
    BY <2>4 DEF HeldIn, LiveLists
  <2>6. HeldIn(m) = HeldIn(itemMap) \ {old} /\ \A x \in HeldIn(m) : m[x] = itemMap[x]
    BY <2>1 DEF HeldIn, Drop
  <2>7. SetReply(k, Reported({old}), {"Sets"} \cup {"Evictions"})
    <3>1. Reported({old}) = {[key |-> old, value |-> itemMap[old].value]}
      BY DEF Reported
    <3>2. {"Sets", "Evictions"} = {"Sets"} \cup {"Evictions"}
      OBVIOUS
    <3> QED
      BY <2>2, <3>1, <3>2
  <2>8. {"Evictions"} \in SUBSET {"Evictions"}
    OBVIOUS
  <2>9. \E x \in HeldIn(itemMap) : {old} = {x}
    BY <2>5
  <2> QED
    BY <2>2, <2>6, <2>7, <2>8, <2>9, AddRefines
<1>3. CASE NewReplaces(k, v, ttl)
  <2>1. PICK t, r : t = TrimGhost2(lists, itemMap) /\ r = Replace(t.lists, t.map, p, FALSE)
    OBVIOUS
  <2>2. /\ k \notin DOMAIN itemMap
        /\ AddNew(k, v, ttl, r.lists, r.map, r.gone)
        /\ SetReply(k, ReplaceCalls(r.gone), {"Sets", "Evictions"})
    BY <1>3, <2>1 DEF NewReplaces
  <2>3. /\ WF(t.lists, t.map) /\ HeldIn(t.map) = HeldIn(itemMap)
        /\ \A x \in DOMAIN t.map : t.map[x] = itemMap[x]
    BY <2>1, TrimHeld
  <2> QED
    BY <2>1, <2>2, <2>3, ReplaceThenAddRefines
<1>4. CASE NewFits(k, v, ttl)
  <2>1. /\ k \notin DOMAIN itemMap /\ AddNew(k, v, ttl, lists, itemMap, {})
        /\ SetReply(k, {}, {"Sets"})
    BY <1>4 DEF NewFits
  <2>2. SetReply(k, Reported({}), {"Sets"} \cup {})
    <3>1. Reported({}) = {} /\ {"Sets"} \cup {} = {"Sets"}
      BY DEF Reported
    <3> QED
      BY <2>1, <3>1
  <2>3. {} \in SUBSET {"Evictions"} /\ HeldIn(itemMap) = HeldIn(itemMap) \ {}
    OBVIOUS
  <2> QED
    BY <2>1, <2>2, <2>3, AddRefines
<1> QED
  BY <1>1, <1>2, <1>3, <1>4

(* Cases 2 and 3 of Set: a ghost comes back with a new value.              *)
LEMMA ReviveRefines ==
  ASSUME ArcNow, Core, Core', NoEmptyValue, NEW k \in DOMAIN itemMap, k \in Keys,
         NEW v \in Values, NEW ttl \in TTLs,
         NEW ghosts \in {"B1", "B2"}, itemMap[k].list = ghosts,
         NEW preferT2 \in BOOLEAN, NEW target,
         Revive(k, v, ttl, ghosts, target, preferT2)
  PROVE  Promise!Set(k, v, ttl)
<1>1. PICK r, n : r = Replace(lists, itemMap, target, preferT2) /\ n = Node("T2", v, ExpiryOf(ttl))
  OBVIOUS
<1>2. /\ itemMap' = [r.map EXCEPT ![k] = n]
      /\ SetReply(k, ReplaceCalls(r.gone), {"Sets", "Evictions"}) /\ now' = now
  BY <1>1 DEF Revive
<1>3. n.value = v /\ n.expiresAt = ExpiryOf(ttl) /\ n.list \in LiveLists
  BY <1>1 DEF Node, LiveLists
<1>4. /\ r.gone = {} \/ \E x \in HeldIn(itemMap) : r.gone = {x}
      /\ HeldIn(r.map) = HeldIn(itemMap) \ r.gone
      /\ DOMAIN r.map = DOMAIN itemMap
      /\ \A x \in DOMAIN itemMap \ r.gone : r.map[x] = itemMap[x]
  BY <1>1, ReplaceHeld DEF Core
<1>5. k \notin HeldIn(itemMap)
  BY DEF HeldIn, LiveLists
<1>6. /\ DOMAIN itemMap' = DOMAIN itemMap /\ itemMap'[k] = n
      /\ \A x \in DOMAIN itemMap \ {k} : itemMap'[x] = r.map[x]
  BY <1>2, <1>4
<1>7. HeldIn(itemMap') = (HeldIn(itemMap) \ r.gone) \cup {k}
  <2>1. HeldIn(itemMap') = HeldIn(r.map) \cup {k}
    BY <1>3, <1>4, <1>6 DEF HeldIn
  <2> QED
    BY <1>4, <2>1
<1>8. \A x \in HeldIn(itemMap) \ (r.gone \cup {k}) : itemMap'[x] = itemMap[x]
  BY <1>4, <1>6 DEF HeldIn
<1>9. SetReply(k, Reported(r.gone), {"Sets"} \cup {"Evictions"})
  <2>1. ReplaceCalls(r.gone) = Reported(r.gone)
    BY <1>4, ReplaceReportsAll
  <2>2. {"Sets", "Evictions"} = {"Sets"} \cup {"Evictions"}
    OBVIOUS
  <2> QED
    BY <1>2, <2>1, <2>2
<1>10. {"Evictions"} \in SUBSET {"Evictions"}
  OBVIOUS
<1>11. itemMap'[k].value = v /\ itemMap'[k].expiresAt = ExpiryOf(ttl)
  BY <1>3, <1>6
<1>12. r.gone = {} \/ (k \notin HeldIn(itemMap) /\ \E x \in HeldIn(itemMap) : r.gone = {x})
  BY <1>4, <1>5
<1> QED
  BY <1>2, <1>7, <1>8, <1>9, <1>10, <1>11, <1>12, SetRefines

(* Case 1 of Set: the entry is updated in place and nothing is evicted.    *)
LEMMA SetLiveRefines ==
  ASSUME ArcNow, Core', NEW k \in Keys, NEW v \in Values, NEW ttl \in TTLs, SetLive(k, v, ttl)
  PROVE  Promise!Set(k, v, ttl)
<1>1. PICK n : n = Node("T2", v, ExpiryOf(ttl))
  OBVIOUS
<1>2. /\ k \in HeldIn(itemMap) /\ itemMap' = [itemMap EXCEPT ![k] = n]
      /\ SetReply(k, {}, {"Sets"}) /\ now' = now
  BY <1>1 DEF SetLive, IsIn, HeldIn
<1>3. n.value = v /\ n.expiresAt = ExpiryOf(ttl) /\ n.list \in LiveLists
  BY <1>1 DEF Node, LiveLists
<1>4. /\ DOMAIN itemMap' = DOMAIN itemMap /\ itemMap'[k] = n
      /\ \A x \in DOMAIN itemMap \ {k} : itemMap'[x] = itemMap[x]
  BY <1>2 DEF HeldIn
<1>5. HeldIn(itemMap') = (HeldIn(itemMap) \ {}) \cup {k}
  BY <1>2, <1>3, <1>4 DEF HeldIn
<1>6. \A x \in HeldIn(itemMap) \ ({} \cup {k}) : itemMap'[x] = itemMap[x]
  BY <1>4 DEF HeldIn
<1>7. SetReply(k, Reported({}), {"Sets"} \cup {})
  <2>1. Reported({}) = {} /\ {"Sets"} \cup {} = {"Sets"}
    BY DEF Reported
  <2> QED
    BY <1>2, <2>1
<1>8. {} \in SUBSET {"Evictions"}
  OBVIOUS
<1>9. itemMap'[k].value = v /\ itemMap'[k].expiresAt = ExpiryOf(ttl)
  BY <1>3, <1>4
<1>10. PICK gone : gone = {}
  OBVIOUS
<1> QED
  BY <1>2, <1>5, <1>6, <1>7, <1>8, <1>9, <1>10, SetRefines

(* Set, in its seven forms.                                                *)
LEMMA EverySetRefines ==
  ASSUME ArcNow, Core, Core', NoEmptyValue, NEW k \in Keys, NEW v \in Values, NEW ttl \in TTLs,
         Set(k, v, ttl)
  PROVE  Promise!Set(k, v, ttl)
<1>1. CASE SetGhost1(k, v, ttl)
  <2>1. PICK target : Revive(k, v, ttl, "B1", target, FALSE)
    BY <1>1 DEF SetGhost1
  <2>2. k \in DOMAIN itemMap /\ itemMap[k].list = "B1"
    BY <1>1 DEF SetGhost1, IsIn
  <2> DEFINE P(b) == Revive(k, v, ttl, "B1", target, b) => Promise!Set(k, v, ttl)
  <2>3. \A b \in BOOLEAN : P(b)
    BY <2>2, ReviveRefines
  <2>4. P(FALSE)
    <3> HIDE DEF P
    <3> QED
      BY <2>3
  <2> QED
    BY <2>1, <2>4
<1>2. CASE SetGhost2(k, v, ttl)
  <2>1. PICK target : Revive(k, v, ttl, "B2", target, TRUE)
    BY <1>2 DEF SetGhost2
  <2>2. k \in DOMAIN itemMap /\ itemMap[k].list = "B2"
    BY <1>2 DEF SetGhost2, IsIn
  <2> DEFINE P(b) == Revive(k, v, ttl, "B2", target, b) => Promise!Set(k, v, ttl)
  <2>3. \A b \in BOOLEAN : P(b)
    BY <2>2, ReviveRefines
  <2>4. P(TRUE)
    <3> HIDE DEF P
    <3> QED
      BY <2>3
  <2> QED
    BY <2>1, <2>4
<1> QED
  BY <1>1, <1>2, SetLiveRefines, NewRefines DEF Set

(* An entry leaves the map: Delete, and a read that finds it too old.      *)
LEMMA DropRefines ==
  ASSUME ArcNow, NEW k, itemMap' = Drop(itemMap, k)
  PROVE  BaseEntries' = Promise!Without({k})
<1>1. HeldIn(itemMap') = HeldIn(itemMap) \ {k}
  BY DEF HeldIn, Drop
<1>2. \A x \in HeldIn(itemMap) \ {k} : itemMap'[x] = itemMap[x]
  BY DEF HeldIn, Drop
<1>3. \A x \in HeldIn(itemMap) \ {k} : BaseEntries'[x] = BaseEntries[x]
  BY <1>1, <1>2, ShownEntries
<1>4. BaseEntries' = [x \in HeldIn(itemMap) \ {k} |-> BaseEntries'[x]]
  BY <1>1, ShownEntries
<1> QED
  BY <1>3, <1>4, ShownEntries DEF Promise!Without

(* A step that keeps the live nodes' values and deadlines.                 *)
LEMMA StayRefines ==
  ASSUME ArcNow, HeldIn(itemMap') = HeldIn(itemMap),
         \A x \in HeldIn(itemMap) : /\ itemMap'[x].value = itemMap[x].value
                                    /\ itemMap'[x].expiresAt = itemMap[x].expiresAt
  PROVE  BaseEntries' = BaseEntries
<1>1. \A x \in HeldIn(itemMap) : BaseEntries'[x] = BaseEntries[x]
  BY ShownEntries
<1>2. BaseEntries' = [x \in HeldIn(itemMap) |-> BaseEntries'[x]]
  BY ShownEntries
<1>3. BaseEntries = [x \in HeldIn(itemMap) |-> BaseEntries[x]]
  BY LiveShows DEF Shows, ArcNow
<1> QED
  BY <1>1, <1>2, <1>3

(* Get and Peek, hit, miss and expiry alike.                               *)
LEMMA ReadRefines ==
  ASSUME ArcNow, Core, NEW k \in Keys
  PROVE  (Get(k) => Promise!Get(k)) /\ (Peek(k) => Promise!Peek(k))
<1>1. \A x : IsIn(x, LiveLists) <=> x \in HeldIn(itemMap)
  BY DEF IsIn, HeldIn
<1>2. /\ k \in HeldIn(itemMap) <=> k \in Promise!Held
      /\ k \in HeldIn(itemMap) => /\ BaseEntries[k].value = itemMap[k].value
                                  /\ Promise!Expired(BaseEntries[k]) <=> Expired(itemMap[k])
  BY ShownEntries DEF Promise!Expired, Expired
<1>3. ASSUME NEW op, NEW onHit, NEW onMiss, ReadMiss(op, k, onMiss)
      PROVE  Promise!Read(op, k, onHit, onMiss)
  <2>1. k \notin Promise!Held /\ itemMap' = itemMap /\ now' = now
        /\ ret' = Promise!Miss(op, k, onMiss)
    BY <1>1, <1>2, <1>3 DEF ReadMiss, Promise!Miss, Miss, Promise!Reply, Reply
  <2>2. BaseEntries' = BaseEntries
    BY <2>1, StayRefines
  <2> QED
    BY <2>1, <2>2 DEF Promise!Read
<1>4. ASSUME NEW op, NEW onHit, NEW onMiss, ReadExpired(op, k, onMiss)
      PROVE  Promise!Read(op, k, onHit, onMiss)
  <2>1. /\ k \in Promise!Held /\ Promise!Expired(BaseEntries[k])
        /\ itemMap' = Drop(itemMap, k) /\ now' = now
        /\ ret' = Promise!Miss(op, k, onMiss \cup {"TTLExpiries"})
    BY <1>1, <1>2, <1>4 DEF ReadExpired, RemoveNode, Promise!Miss, Miss, Promise!Reply, Reply
  <2>2. BaseEntries' = Promise!Without({k})
    BY <2>1, DropRefines
  <2> QED
    BY <2>1, <2>2 DEF Promise!Read
<1>5. ASSUME GetHit(k) PROVE Promise!Get(k)
  <2>1. PICK n : n = Node("T2", itemMap[k].value, itemMap[k].expiresAt)
    OBVIOUS
  <2>2. /\ n.value = itemMap[k].value /\ n.expiresAt = itemMap[k].expiresAt
        /\ n.list \in LiveLists
    BY <2>1 DEF Node, LiveLists
  <2>3. /\ k \in HeldIn(itemMap) /\ ~Expired(itemMap[k]) /\ now' = now
        /\ itemMap' = [itemMap EXCEPT ![k] = n]
        /\ ret' = Reply("get", k, TRUE, itemMap[k].value, {}, {"Hits"})
    BY <1>1, <1>5, <2>1 DEF GetHit
  <2>4. HeldIn(itemMap') = HeldIn(itemMap)
    BY <2>2, <2>3 DEF HeldIn
  <2>5. \A x \in HeldIn(itemMap) : /\ itemMap'[x].value = itemMap[x].value
                                   /\ itemMap'[x].expiresAt = itemMap[x].expiresAt
    BY <2>2, <2>3 DEF HeldIn
  <2>6. BaseEntries' = BaseEntries
    BY <2>4, <2>5, StayRefines
  <2>7. ret' = Promise!Reply("get", k, TRUE, BaseEntries[k].value, {}, {"Hits"})
    BY <1>2, <2>3 DEF Reply, Promise!Reply
  <2> QED
    BY <1>2, <2>3, <2>6, <2>7 DEF Promise!Get, Promise!Read
<1>6. ASSUME PeekHit(k) PROVE Promise!Peek(k)
  <2>1. /\ k \in HeldIn(itemMap) /\ ~Expired(itemMap[k]) /\ itemMap' = itemMap /\ now' = now
        /\ ret' = Promise!Reply("peek", k, TRUE, BaseEntries[k].value, {}, {})
    BY <1>1, <1>2, <1>6 DEF PeekHit, Reply, Promise!Reply
  <2>2. BaseEntries' = BaseEntries
    BY <2>1, StayRefines
  <2> QED
    BY <1>2, <2>1, <2>2 DEF Promise!Peek, Promise!Read
<1>7. ASSUME Get(k) PROVE Promise!Get(k)
  BY <1>3, <1>4, <1>5, <1>7 DEF Get, Promise!Get
<1>8. ASSUME Peek(k) PROVE Promise!Peek(k)
  BY <1>3, <1>4, <1>6, <1>8 DEF Peek, Promise!Peek
<1> QED
  BY <1>7, <1>8

(* Delete of a live entry, of a ghost, which callers did not see but are   *)
(* told was found, and of nothing.                                         *)
LEMMA DeleteRefines ==
  ASSUME ArcNow, Core, NEW k \in Keys, Delete(k)
  PROVE  Promise!Delete(k)
<1>1. CASE k \notin DOMAIN itemMap
  <2>1. /\ itemMap' = itemMap /\ now' = now
        /\ ret' = Promise!Reply("delete", k, FALSE, NoValue, {}, {})
    BY <1>1 DEF Delete, Miss, Reply, Promise!Reply
  <2>2. Drop(itemMap, k) = itemMap
    <3>1. itemMap = [x \in DOMAIN itemMap |-> itemMap[x]]
      BY DEF Core, WF, MapOK
    <3>2. DOMAIN itemMap \ {k} = DOMAIN itemMap
      BY <1>1
    <3> QED
      BY <3>1, <3>2 DEF Drop
  <2>3. BaseEntries' = Promise!Without({k})
    BY <2>1, <2>2, DropRefines
  <2>4. k \notin Promise!Held
    BY <1>1, ShownEntries DEF HeldIn
  <2> QED
    BY <2>1, <2>3, <2>4 DEF Promise!Delete
<1>2. CASE k \in DOMAIN itemMap
  <2>1. /\ itemMap' = Drop(itemMap, k) /\ now' = now
        /\ ret' = Promise!Reply("delete", k, TRUE, NoValue, {}, {"Deletes"})
    BY <1>2 DEF Delete, RemoveNode, Reply, Promise!Reply
  <2>2. BaseEntries' = Promise!Without({k})
    BY <2>1, DropRefines
  <2> QED
    BY <2>1, <2>2 DEF Promise!Delete
<1> QED
  BY <1>1, <1>2

(* An empty map shows nothing: New and Purge.                              *)
LEMMA EmptyShows ==
  ASSUME NEW m, m = EmptyMap
  PROVE  Shows(m) = Promise!EmptyMap
<1>1. HeldIn(m) = {}
  BY DEF HeldIn, EmptyMap
<1> QED
  BY <1>1 DEF Shows, Promise!EmptyMap

(* Every step of the ARC cache is a step of the contract.                  *)
LEMMA ARCRefines ==
  ASSUME NoEmptyValue, ArcNow, Core, Core', Next
  PROVE  Promise!Next
<1>1. CASE Tick
  <2>1. now < MaxTime /\ now' = now + 1 /\ itemMap' = itemMap /\ ret' = ret
    BY <1>1 DEF Tick
  <2>2. BaseEntries' = BaseEntries
    BY <2>1, StayRefines
  <2> QED
    BY <2>1, <2>2 DEF Promise!Next, Promise!Tick
<1>2. CASE Purge
  <2>1. itemMap' = EmptyMap /\ now' = now /\ ret' = Promise!Miss("purge", NoKey, {})
    BY <1>2, PromiseSame DEF Purge
  <2>2. BaseEntries' = Shows(itemMap')
    <3>1. (policy = "arc" => BaseEntries = Shows(itemMap))'
      BY LiveShows, PTL
    <3> QED
      BY <3>1 DEF ArcNow
  <2>3. BaseEntries' = Promise!EmptyMap
    BY <2>1, <2>2, EmptyShows
  <2> QED
    BY <2>1, <2>3, PromiseSame DEF Promise!Next, Promise!Purge
<1>3. ASSUME NEW k \in Keys, Get(k) \/ Peek(k) \/ Delete(k)
      PROVE  Promise!Next
  BY <1>3, ReadRefines, DeleteRefines DEF Promise!Next
<1>4. ASSUME NEW k \in Keys, NEW v \in Values, NEW ttl \in TTLs, Set(k, v, ttl)
      PROVE  Promise!Next
  BY <1>4, EverySetRefines DEF Promise!Next
<1> QED
  BY <1>1, <1>2, <1>3, <1>4 DEF Next
---------------------------------------------------------------------------
(* The LFU cache.  The list of list.go does to its pointers what the list  *)
(* of lru.go does, and counts its nodes.                                   *)
Counted(l, s) == Chain(l, s) /\ l.len = Len(s)

(* Only the four pointers of a record matter.                              *)
LEMMA ChainFields ==
  ASSUME NEW l, NEW s, Chain(l, s), NEW r,
         r.head = l.head, r.tail = l.tail, r.prev = l.prev, r.next = l.next
  PROVE  Chain(r, s)
  BY DEF Chain

(* New makes the empty list.                                               *)
LEMMA NewCounted == Counted(F!L!New, <<>>)
<1>1. <<>> \in Seq(Keys) /\ Len(<<>>) = 0 /\ ToSet(<<>>) = {} /\ IsInjective(<<>>)
  BY DEF ToSet, IsInjective
<1>2. /\ F!L!New.head = Nil /\ F!L!New.tail = Nil /\ F!L!New.len = 0
      /\ DOMAIN F!L!New.prev = {} /\ DOMAIN F!L!New.next = {}
  BY DEF F!L!New
<1> QED
  BY <1>1, <1>2 DEF Counted, Chain, Nth

(* list.PushFront and list.Remove.                                         *)
LEMMA ListPush ==
  ASSUME NEW l, NEW s, Counted(l, s), NEW k \in Keys, k \notin ToSet(s)
  PROVE  Counted(F!L!PushFront(l, k), Cons(k, s))
<1>1. PICK r, q : r = F!L!PushFront(l, k) /\ q = R!pushFront(l, k)
  OBVIOUS
<1>2. /\ Chain(l, s) /\ l.len = Len(s) /\ Len(s) \in Nat
      /\ s \in Seq(Keys) /\ IsInjective(s)
  BY LenProperties DEF Counted, Chain
<1>3. l.head = Nil <=> l.tail = Nil
  <2>1. l.head = Nth(s, 1) /\ l.tail = Nth(s, Len(s))
    BY <1>2 DEF Chain
  <2>2. \A i \in 1 .. Len(s) : Nth(s, i) # Nil
    BY <1>2, NthFacts
  <2> QED
    BY <1>2, <2>1, <2>2 DEF Nth
<1>4. \A f, n, v : F!L!Put(f, n, v) = R!Put(f, n, v) /\ F!L!Assign(f, n, v) = R!Assign(f, n, v)
  BY DEF F!L!Put, R!Put, F!L!Assign, R!Assign
<1>5. r.head = q.head /\ r.tail = q.tail /\ r.prev = q.prev /\ r.next = q.next /\ r.len = l.len + 1
  BY <1>1, <1>3, <1>4 DEF F!L!PushFront, R!pushFront
<1>6. Chain(q, Cons(k, s))
  BY <1>1, <1>2, LRUPush
<1>7. Chain(r, Cons(k, s))
  BY <1>5, <1>6, ChainFields
<1>8. Len(Cons(k, s)) = Len(s) + 1
  BY <1>2, ConsProperties
<1> QED
  BY <1>1, <1>2, <1>5, <1>7, <1>8 DEF Counted

(* Remove unlinks a node of the list and counts it out.                    *)
LEMMA ListRemove ==
  ASSUME NEW l, NEW s, Counted(l, s), NEW k \in ToSet(s)
  PROVE  Counted(F!L!Remove(l, k), RemoveFirst(s, k))
<1>1. PICK r, q : r = F!L!Remove(l, k) /\ q = R!removeNode(l, k)
  OBVIOUS
<1>2. /\ Chain(l, s) /\ l.len = Len(s) /\ Len(s) \in Nat
      /\ s \in Seq(Keys) /\ IsInjective(s)
  BY LenProperties DEF Counted, Chain
<1>3. \A f, n, v : F!L!Drop(f, n) = R!Drop(f, n) /\ F!L!Assign(f, n, v) = R!Assign(f, n, v)
  BY DEF F!L!Drop, R!Drop, F!L!Assign, R!Assign
<1>4. r.head = q.head /\ r.tail = q.tail /\ r.prev = q.prev /\ r.next = q.next /\ r.len = l.len - 1
  BY <1>1, <1>3 DEF F!L!Remove, R!removeNode
<1>5. Chain(q, RemoveFirst(s, k))
  BY <1>1, <1>2, LRURemove
<1>6. Chain(r, RemoveFirst(s, k))
  BY <1>4, <1>5, ChainFields
<1>7. Len(RemoveFirst(s, k)) = Len(s) - 1
  BY <1>2, RemoveFirstProperties
<1> QED
  BY <1>1, <1>2, <1>4, <1>6, <1>7 DEF Counted

(* x was used more recently than y, in the history s.                      *)
Before(s, x, y) == \E a, b \in DOMAIN s : s[a] = x /\ s[b] = y /\ a < b

(* t lists its keys in the order of s.                                     *)
Keeps(t, s) == \A i, j \in DOMAIN t : i < j => Before(s, t[i], t[j])

(* What a use does to the order: the key used comes first, and the others  *)
(* keep their order.                                                       *)
LEMMA BeforeCons ==
  ASSUME NEW s \in Seq(Keys), NEW k \in Keys
  PROVE  /\ \A x, y : Before(s, x, y) => Before(Cons(k, s), x, y)
         /\ \A y \in ToSet(s) : Before(Cons(k, s), k, y)
<1>1. PICK t, n : t = Cons(k, s) /\ n = Len(s)
  OBVIOUS
<1>2. /\ t \in Seq(Keys) /\ Len(t) = Len(s) + 1 /\ t[1] = k
      /\ \A j \in 2 .. Len(s) + 1 : t[j] = s[j - 1]
  BY <1>1, ConsShape
<1>3. /\ n \in Nat /\ DOMAIN s = 1 .. n /\ DOMAIN t = 1 .. n + 1
  BY <1>1, <1>2, LenProperties
<1>4. \A a \in 1 .. n : a + 1 \in 2 .. n + 1 /\ (a + 1) - 1 = a
  BY <1>3
<1>5. \A a \in DOMAIN s : a + 1 \in DOMAIN t /\ t[a + 1] = s[a] /\ 1 < a + 1
  BY <1>1, <1>2, <1>3, <1>4
<1>6. ASSUME NEW x, NEW y, Before(s, x, y) PROVE Before(t, x, y)
  <2>1. PICK a \in DOMAIN s, b \in DOMAIN s : s[a] = x /\ s[b] = y /\ a < b
    BY <1>6 DEF Before
  <2>2. a + 1 < b + 1
    BY <1>3, <2>1
  <2> QED
    BY <1>5, <2>1, <2>2 DEF Before
<1>7. ASSUME NEW y \in ToSet(s) PROVE Before(t, k, y)
  <2>1. PICK b \in DOMAIN s : s[b] = y
    BY DEF ToSet
  <2>2. 1 \in DOMAIN t
    BY <1>3
  <2> QED
    BY <1>2, <1>5, <2>1, <2>2 DEF Before
<1> QED
  BY <1>1, <1>6, <1>7

(* Taking a key out keeps the order of the others.                         *)
LEMMA BeforeRemove ==
  ASSUME NEW s \in Seq(Keys), IsInjective(s), NEW k \in ToSet(s),
         NEW x, NEW y, Before(s, x, y), x # k, y # k
  PROVE  Before(RemoveFirst(s, k), x, y)
<1>1. PICK i \in 1 .. Len(s) : s[i] = k
  BY LenProperties DEF ToSet
<1>2. PICK t, n : t = RemoveFirst(s, s[i]) /\ n = Len(s)
  OBVIOUS
<1>3. /\ t \in Seq(Keys) /\ Len(t) = Len(s) - 1
      /\ \A j \in 1 .. Len(s) - 1 : t[j] = IF j < i THEN s[j] ELSE s[j + 1]
  BY <1>2, RemoveFirstShape
<1>4. n \in Nat /\ i \in 1 .. n /\ DOMAIN s = 1 .. n /\ DOMAIN t = 1 .. n - 1
  BY <1>2, <1>3, LenProperties
<1>5. PICK a \in DOMAIN s, b \in DOMAIN s : s[a] = x /\ s[b] = y /\ a < b
  BY DEF Before
<1>6. a # i /\ b # i
  BY <1>1, <1>5
<1>7. PICK c, d : c = (IF a < i THEN a ELSE a - 1) /\ d = (IF b < i THEN b ELSE b - 1)
  OBVIOUS
<1>8. /\ c \in 1 .. n - 1 /\ (c < i => c = a) /\ (~(c < i) => c + 1 = a)
      /\ d \in 1 .. n - 1 /\ (d < i => d = b) /\ (~(d < i) => d + 1 = b)
      /\ c < d
  BY <1>4, <1>5, <1>6, <1>7
<1>9. t[c] = x /\ t[d] = y
  BY <1>2, <1>3, <1>5, <1>8
<1>10. Before(t, x, y)
  BY <1>4, <1>8, <1>9 DEF Before
<1> QED
  BY <1>1, <1>2, <1>10
(* A list of keys other than k does not see k come or go.                  *)
LEMMA KeepsOther ==
  ASSUME NEW s \in Seq(Keys), NEW t \in Seq(Keys), Keeps(t, s), NEW k \in Keys, k \notin ToSet(t)
  PROVE  /\ Keeps(t, Cons(k, s))
         /\ IsInjective(s) /\ k \in ToSet(s) => Keeps(t, RemoveFirst(s, k))
<1>1. Keeps(t, Cons(k, s))
  BY BeforeCons DEF Keeps
<1>2. ASSUME IsInjective(s), k \in ToSet(s) PROVE Keeps(t, RemoveFirst(s, k))
  <2> SUFFICES ASSUME NEW i \in DOMAIN t, NEW j \in DOMAIN t, i < j
               PROVE  Before(RemoveFirst(s, k), t[i], t[j])
    BY DEF Keeps
  <2>1. t[i] # k /\ t[j] # k
    BY DEF ToSet
  <2>2. Before(s, t[i], t[j])
    BY DEF Keeps
  <2> QED
    BY <1>2, <2>1, <2>2, BeforeRemove
<1> QED
  BY <1>1, <1>2

(* k moves to the front of its list as it does in the history.             *)
LEMMA KeepsCons ==
  ASSUME NEW s \in Seq(Keys), NEW t \in Seq(Keys), Keeps(t, s), ToSet(t) \subseteq ToSet(s),
         NEW k \in Keys
  PROVE  Keeps(Cons(k, t), Cons(k, s))
<1>1. PICK u : u = Cons(k, t)
  OBVIOUS
<1>2. /\ u \in Seq(Keys) /\ Len(u) = Len(t) + 1 /\ u[1] = k
      /\ \A j \in 2 .. Len(t) + 1 : u[j] = t[j - 1]
  BY <1>1, ConsShape
<1>3. Len(t) \in Nat /\ DOMAIN t = 1 .. Len(t) /\ DOMAIN u = 1 .. Len(t) + 1
  BY <1>2, LenProperties
<1>4. \A j \in DOMAIN u : j = 1 \/ (j - 1 \in DOMAIN t /\ u[j] = t[j - 1])
  BY <1>2, <1>3
<1>5. ASSUME NEW i \in DOMAIN u, NEW j \in DOMAIN u, i < j
      PROVE  Before(Cons(k, s), u[i], u[j])
  <2>1. j # 1 /\ (i = 1 \/ i - 1 < j - 1)
    BY <1>3, <1>5
  <2>2. j - 1 \in DOMAIN t /\ u[j] = t[j - 1]
    BY <1>4, <2>1
  <2>3. CASE i = 1
    <3>1. u[j] \in ToSet(s)
      BY <2>2 DEF ToSet
    <3>2. u[i] = k
      BY <1>2, <2>3
    <3> QED
      BY <3>1, <3>2, BeforeCons
  <2>4. CASE i # 1
    <3>1. i - 1 \in DOMAIN t /\ u[i] = t[i - 1] /\ i - 1 < j - 1
      BY <1>4, <2>1, <2>4
    <3>2. Before(s, t[i - 1], t[j - 1])
      BY <2>2, <3>1 DEF Keeps
    <3> QED
      BY <2>2, <3>1, <3>2, BeforeCons
  <2> QED
    BY <2>3, <2>4
<1> QED
  BY <1>1, <1>5 DEF Keeps

(* k leaves its list as it leaves the history.                             *)
LEMMA KeepsRemove ==
  ASSUME NEW s \in Seq(Keys), IsInjective(s), NEW t \in Seq(Keys), IsInjective(t),
         Keeps(t, s), NEW k \in ToSet(t), k \in ToSet(s)
  PROVE  Keeps(RemoveFirst(t, k), RemoveFirst(s, k))
<1>1. PICK i \in 1 .. Len(t) : t[i] = k
  BY LenProperties DEF ToSet
<1>2. PICK u : u = RemoveFirst(t, t[i])
  OBVIOUS
<1>3. /\ u \in Seq(Keys) /\ Len(u) = Len(t) - 1
      /\ \A j \in 1 .. Len(t) - 1 : u[j] = IF j < i THEN t[j] ELSE t[j + 1]
  BY <1>2, RemoveFirstShape
<1>4. Len(t) \in Nat /\ DOMAIN t = 1 .. Len(t) /\ DOMAIN u = 1 .. Len(t) - 1
  BY <1>3, LenProperties
<1>5. ASSUME NEW a \in DOMAIN u, NEW b \in DOMAIN u, a < b
      PROVE  Before(RemoveFirst(s, k), u[a], u[b])
  <2>1. PICK c, d : c = (IF a < i THEN a ELSE a + 1) /\ d = (IF b < i THEN b ELSE b + 1)
    OBVIOUS
  <2>2. /\ c \in DOMAIN t /\ c # i /\ d \in DOMAIN t /\ d # i /\ c < d
    BY <1>4, <1>5, <2>1
  <2>3. u[a] = t[c] /\ u[b] = t[d]
    BY <1>3, <1>4, <2>1
  <2>4. t[c] # k /\ t[d] # k
    BY <1>1, <1>4, <2>2 DEF IsInjective
  <2>5. Before(s, t[c], t[d])
    BY <2>2 DEF Keeps
  <2> QED
    BY <2>3, <2>4, <2>5, BeforeRemove
<1> QED
  BY <1>1, <1>2, <1>5 DEF Keeps

(* The keys of m with frequency f.                                         *)
KeysAt(m, f) == {x \in DOMAIN m : m[x].freq = f}

(* fl has a list for each frequency of m and no other, and that list has   *)
(* the keys of that frequency in the order of s.                           *)
ListFor(l, m, f, s) ==
  \E t \in Seq(Keys) : Counted(l, t) /\ ToSet(t) = KeysAt(m, f) /\ Keeps(t, s)

FreqLists(m, fl, s) ==
  /\ \A f : f \in DOMAIN fl <=> KeysAt(m, f) # {}
  /\ \A f \in DOMAIN fl : ListFor(fl[f], m, f, s)

(* s lists the keys of m.                                                  *)
Lists(m, s) ==
  /\ DOMAIN m \subseteq Keys /\ s \in Seq(Keys) /\ IsInjective(s) /\ ToSet(s) = DOMAIN m

(* A node leaves the list of its frequency, which goes with its last node. *)
LEMMA UnlinkLists ==
  ASSUME NEW m, NEW fl, NEW s, Lists(m, s), FreqLists(m, fl, s), NEW k \in DOMAIN m
  PROVE  /\ FreqLists(F!Drop(m, k), F!Unlink(fl, m[k].freq, k), RemoveFirst(s, k))
         /\ Lists(F!Drop(m, k), RemoveFirst(s, k))
<1>1. PICK n, f, u, rest, gl :
        /\ n = F!Drop(m, k) /\ f = m[k].freq /\ u = RemoveFirst(s, k)
        /\ rest = F!L!Remove(fl[f], k) /\ gl = F!Unlink(fl, f, k)
  OBVIOUS
<1>2. k \in Keys /\ k \in ToSet(s) /\ s \in Seq(Keys) /\ IsInjective(s)
  BY DEF Lists
<1>3. DOMAIN n = DOMAIN m \ {k} /\ \A x \in DOMAIN n : n[x] = m[x]
  BY <1>1 DEF F!Drop
<1>4. /\ KeysAt(n, f) = KeysAt(m, f) \ {k} /\ k \in KeysAt(m, f)
      /\ \A g : g # f => KeysAt(n, g) = KeysAt(m, g) /\ k \notin KeysAt(m, g)
  BY <1>1, <1>3 DEF KeysAt
<1>5. f \in DOMAIN fl
  BY <1>4 DEF FreqLists
<1>6. PICK t \in Seq(Keys) : Counted(fl[f], t) /\ ToSet(t) = KeysAt(m, f) /\ Keeps(t, s)
  BY <1>5 DEF FreqLists, ListFor
<1>7. PICK v : v = RemoveFirst(t, k)
  OBVIOUS
<1>8. /\ Counted(rest, v) /\ v \in Seq(Keys) /\ ToSet(v) = KeysAt(n, f) /\ Keeps(v, u)
  <2>1. k \in ToSet(t) /\ IsInjective(t)
    BY <1>4, <1>6 DEF Counted, Chain
  <2>2. Counted(rest, v)
    BY <1>1, <1>6, <1>7, <2>1, ListRemove
  <2>3. v \in Seq(Keys) /\ ToSet(v) = ToSet(t) \ {k}
    BY <1>7, <2>1, RemoveFirstProperties
  <2>4. Keeps(v, u)
    BY <1>1, <1>2, <1>6, <1>7, <2>1, KeepsRemove
  <2> QED
    BY <1>4, <1>6, <2>2, <2>3, <2>4
<1>9. rest.len = 0 <=> KeysAt(n, f) = {}
  <2>1. rest.len = Len(v) /\ Len(v) \in Nat /\ DOMAIN v = 1 .. Len(v)
    BY <1>8, LenProperties DEF Counted
  <2>2. Len(v) = 0 <=> DOMAIN v = {}
    BY <2>1
  <2>3. DOMAIN v = {} <=> ToSet(v) = {}
    BY DEF ToSet
  <2> QED
    BY <1>8, <2>1, <2>2, <2>3
<1>10. gl = IF rest.len = 0 THEN F!Drop(fl, f) ELSE [fl EXCEPT ![f] = rest]
  BY <1>1 DEF F!Unlink
<1>11. /\ DOMAIN gl = (IF rest.len = 0 THEN DOMAIN fl \ {f} ELSE DOMAIN fl)
       /\ \A g \in DOMAIN gl : gl[g] = IF g = f THEN rest ELSE fl[g]
  BY <1>5, <1>10 DEF F!Drop
<1>12. \A g : g \in DOMAIN gl <=> KeysAt(n, g) # {}
  BY <1>4, <1>5, <1>9, <1>11 DEF FreqLists
<1>13. ASSUME NEW g \in DOMAIN gl PROVE ListFor(gl[g], n, g, u)
  <2>1. CASE g = f
    BY <1>8, <1>11, <2>1 DEF ListFor
  <2>2. CASE g # f
    <3>1. g \in DOMAIN fl /\ gl[g] = fl[g]
      BY <1>11, <2>2
    <3>2. PICK w \in Seq(Keys) : Counted(fl[g], w) /\ ToSet(w) = KeysAt(m, g) /\ Keeps(w, s)
      BY <3>1 DEF FreqLists, ListFor
    <3>3. k \notin ToSet(w)
      BY <1>4, <2>2, <3>2
    <3>4. Keeps(w, u)
      BY <1>1, <1>2, <3>2, <3>3, KeepsOther
    <3> QED
      BY <1>4, <2>2, <3>1, <3>2, <3>4 DEF ListFor
  <2> QED
    BY <2>1, <2>2
<1>14. Lists(n, u)
  BY <1>1, <1>2, <1>3, RemoveFirstProperties DEF Lists
<1> QED
  BY <1>1, <1>12, <1>13, <1>14 DEF FreqLists

(* A node joins the list of its frequency, made if need be, in front.      *)
LEMMA LinkLists ==
  ASSUME NEW m, NEW fl, NEW s, Lists(m, s), FreqLists(m, fl, s),
         NEW k \in Keys \ DOMAIN m, NEW e, NEW f, e.freq = f
  PROVE  /\ FreqLists(F!Put(m, k, e), F!Link(fl, f, k), Cons(k, s))
         /\ Lists(F!Put(m, k, e), Cons(k, s)) /\ Len(Cons(k, s)) = Len(s) + 1
<1>1. PICK n, u, l, q, gl :
        /\ n = F!Put(m, k, e) /\ u = Cons(k, s)
        /\ l = (IF f \in DOMAIN fl THEN fl[f] ELSE F!L!New)
        /\ q = F!L!PushFront(l, k) /\ gl = F!Link(fl, f, k)
  OBVIOUS
<1>2. k \in Keys /\ k \notin ToSet(s) /\ s \in Seq(Keys) /\ IsInjective(s) /\ ToSet(s) = DOMAIN m
  BY DEF Lists
<1>3. DOMAIN n = DOMAIN m \cup {k} /\ n[k] = e /\ \A x \in DOMAIN m : n[x] = m[x]
  BY <1>1 DEF F!Put
<1>4. /\ KeysAt(n, f) = KeysAt(m, f) \cup {k} /\ k \notin KeysAt(m, f)
      /\ \A g : g # f => KeysAt(n, g) = KeysAt(m, g) /\ k \notin KeysAt(m, g)
  BY <1>3 DEF KeysAt
<1>5. PICK t \in Seq(Keys) : Counted(l, t) /\ ToSet(t) = KeysAt(m, f) /\ Keeps(t, s)
  <2>1. CASE f \in DOMAIN fl
    BY <1>1, <2>1 DEF FreqLists, ListFor
  <2>2. CASE f \notin DOMAIN fl
    <3>0. <<>> \in Seq(Keys)
      OBVIOUS
    <3>1. PICK t \in Seq(Keys) : t = <<>>
      BY <3>0
    <3>2. Counted(l, t)
      BY <1>1, <2>2, <3>1, NewCounted
    <3>3. DOMAIN t = {}
      BY <3>1
    <3>4. ToSet(t) = KeysAt(m, f) /\ Keeps(t, s)
      BY <2>2, <3>3 DEF FreqLists, ToSet, Keeps
    <3> QED
      BY <3>2, <3>4
  <2> QED
    BY <2>1, <2>2
<1>6. PICK v : v = Cons(k, t)
  OBVIOUS
<1>7. Counted(q, v) /\ v \in Seq(Keys) /\ ToSet(v) = KeysAt(n, f) /\ Keeps(v, u)
  <2>1. k \notin ToSet(t) /\ IsInjective(t) /\ ToSet(t) \subseteq ToSet(s)
    BY <1>2, <1>4, <1>5 DEF Counted, Chain, KeysAt
  <2>2. Counted(q, v)
    BY <1>1, <1>5, <1>6, <2>1, ListPush
  <2>3. v \in Seq(Keys) /\ ToSet(v) = ToSet(t) \cup {k}
    BY <1>6, <2>1, ConsProperties
  <2>4. Keeps(v, u)
    BY <1>1, <1>2, <1>5, <1>6, <2>1, KeepsCons
  <2> QED
    BY <1>4, <1>5, <2>2, <2>3, <2>4
<1>8. DOMAIN gl = DOMAIN fl \cup {f} /\ \A g \in DOMAIN gl : gl[g] = IF g = f THEN q ELSE fl[g]
  BY <1>1 DEF F!Link, F!Put
<1>9. \A g : g \in DOMAIN gl <=> KeysAt(n, g) # {}
  BY <1>4, <1>8 DEF FreqLists
<1>10. ASSUME NEW g \in DOMAIN gl PROVE ListFor(gl[g], n, g, u)
  <2>1. CASE g = f
    BY <1>7, <1>8, <2>1 DEF ListFor
  <2>2. CASE g # f
    <3>1. g \in DOMAIN fl /\ gl[g] = fl[g]
      BY <1>8, <2>2
    <3>2. PICK w \in Seq(Keys) : Counted(fl[g], w) /\ ToSet(w) = KeysAt(m, g) /\ Keeps(w, s)
      BY <3>1 DEF FreqLists, ListFor
    <3>3. k \notin ToSet(w)
      BY <1>4, <2>2, <3>2
    <3>4. Keeps(w, u)
      BY <1>1, <1>2, <3>2, <3>3, KeepsOther
    <3> QED
      BY <1>4, <2>2, <3>1, <3>2, <3>4 DEF ListFor
  <2> QED
    BY <2>1, <2>2
<1>11. Lists(n, u) /\ Len(u) = Len(s) + 1
  <2>1. /\ Cons(k, s) \in Seq(Keys) /\ IsInjective(Cons(k, s))
        /\ ToSet(Cons(k, s)) = ToSet(s) \cup {k} /\ Len(Cons(k, s)) = Len(s) + 1
    BY <1>2, ConsProperties
  <2> QED
    BY <1>1, <1>2, <1>3, <2>1 DEF Lists
<1> QED
  BY <1>1, <1>9, <1>10, <1>11 DEF FreqLists
(* Some node has frequency f and none has a lower one.                     *)
IsMin(m, f) == KeysAt(m, f) # {} /\ \A x \in DOMAIN m : f <= m[x].freq

(* The frequency lists stand for items and recency; minFreq is right when  *)
(* the cache is full, and only then: Delete and expiry leave it stale, and *)
(* the cache fills up again only by a Set of a new key, which resets it.   *)
LFUInv ==
  /\ Lists(items, recency) /\ items \in [DOMAIN items -> F!Nodes]
  /\ FreqLists(items, freqList, recency)
  /\ Len(recency) <= Capacity
  /\ Len(recency) = Capacity => IsMin(items, minFreq)

(* The library's and the contract's operators are those of the LFU module. *)
LEMMA LFUSame ==
  /\ \A k, s : F!Cons(k, s) = Cons(k, s) /\ F!RemoveFirst(s, k) = RemoveFirst(s, k)
  /\ \A S : F!Cardinality(S) = Cardinality(S)
  /\ \A a, b, c, d, e, f : F!Reply(a, b, c, d, e, f) = Reply(a, b, c, d, e, f)
  /\ \A a, b, c : F!Miss(a, b, c) = Miss(a, b, c)
  /\ \A t : F!ExpiryOf(t) = ExpiryOf(t)
  /\ \A e : F!Expired(e) = Expired(e)
  /\ F!EmptyMap = EmptyMap /\ F!NoKey = NoKey
<1>1. \A k, s : F!Cons(k, s) = Cons(k, s)
  BY DEF F!Cons, Cons
<1>2. ASSUME NEW k, NEW s PROVE F!RemoveFirst(s, k) = RemoveFirst(s, k)
  BY DEF F!RemoveFirst, RemoveFirst, F!SelectInSeq, SelectInSeq, F!Min, Min, F!RemoveAt, RemoveAt
<1>3. \A S : F!Cardinality(S) = Cardinality(S)
  BY DEF F!Cardinality, Cardinality
<1>4. \A a, b, c, d, e, f : F!Reply(a, b, c, d, e, f) = Reply(a, b, c, d, e, f)
  BY DEF F!Reply, Reply
<1>5. \A a, b, c : F!Miss(a, b, c) = Miss(a, b, c)
  BY DEF F!Reply, Reply, F!Miss, Miss
<1>6. (\A t : F!ExpiryOf(t) = ExpiryOf(t)) /\ (\A e : F!Expired(e) = Expired(e))
  BY DEF F!ExpiryOf, ExpiryOf, F!Expired, Expired
<1>7. F!EmptyMap = EmptyMap /\ F!NoKey = NoKey
  BY DEF F!EmptyMap, EmptyMap, F!NoKey, NoKey
<1> QED
  BY <1>1, <1>2, <1>3, <1>4, <1>5, <1>6, <1>7

(* What LFUInv gives of recency and of the map.                            *)
LEMMA LFUFacts ==
  ASSUME LFUInv
  PROVE  /\ recency \in Seq(Keys) /\ IsInjective(recency) /\ Len(recency) \in Nat
         /\ DOMAIN items \subseteq Keys /\ ToSet(recency) = DOMAIN items
         /\ IsFiniteSet(DOMAIN items) /\ Cardinality(DOMAIN items) = Len(recency)
         /\ \A k \in DOMAIN items : /\ items[k].value \in Values /\ items[k].expiresAt \in Nat
                                    /\ items[k].freq \in Nat \ {0}
<1>1. recency \in Seq(Keys) /\ IsInjective(recency) /\ Len(recency) \in Nat
  BY LenProperties DEF LFUInv, Lists
<1>2. IsFiniteSet(DOMAIN items) /\ Cardinality(DOMAIN items) = Len(recency)
  BY <1>1, ListCard DEF LFUInv, Lists
<1>3. \A k \in DOMAIN items : /\ items[k].value \in Values /\ items[k].expiresAt \in Nat
                              /\ items[k].freq \in Nat \ {0}
  BY DEF LFUInv, F!Nodes
<1> QED
  BY <1>1, <1>2, <1>3 DEF LFUInv, Lists

(* New and Purge.                                                          *)
LEMMA LFUEmpty ==
  ASSUME NEW m, NEW fl, NEW s, m = F!EmptyMap, fl = F!EmptyMap, s = <<>>
  PROVE  /\ Lists(m, s) /\ m \in [DOMAIN m -> F!Nodes] /\ FreqLists(m, fl, s)
         /\ Len(s) = 0
<1>1. DOMAIN m = {} /\ m \in [DOMAIN m -> F!Nodes] /\ DOMAIN fl = {}
  BY DEF F!EmptyMap
<1>2. s \in Seq(Keys) /\ Len(s) = 0 /\ ToSet(s) = {} /\ IsInjective(s)
  BY DEF ToSet, IsInjective
<1>3. \A f : KeysAt(m, f) = {}
  BY <1>1 DEF KeysAt
<1> QED
  BY <1>1, <1>2, <1>3 DEF Lists, FreqLists

(* Delete, and a read of an entry past its deadline: minFreq may be stale  *)
(* afterwards, but there is room.                                          *)
LEMMA LFURemoveStep ==
  ASSUME LFUInv, NEW k \in DOMAIN items, F!RemoveNode(k)
  PROVE  LFUInv'
<1>1. /\ items' = F!Drop(items, k) /\ recency' = RemoveFirst(recency, k)
      /\ freqList' = F!Unlink(freqList, items[k].freq, k)
  BY LFUSame DEF F!RemoveNode
<1>2. Lists(items', recency') /\ FreqLists(items', freqList', recency')
  BY <1>1, UnlinkLists DEF LFUInv
<1>3. Len(recency') = Len(recency) - 1
  BY <1>1, LFUFacts, RemoveFirstProperties
<1>4. items' \in [DOMAIN items' -> F!Nodes]
  BY <1>1 DEF LFUInv, F!Drop
<1>5. Len(recency') < Capacity /\ Len(recency') <= Capacity /\ Len(recency') # Capacity
  BY <1>3, LFUFacts, CapacityAssumption DEF LFUInv
<1> QED
  BY <1>2, <1>4, <1>5 DEF LFUInv

(* A hit, and an update in place: the node moves to the next frequency,    *)
(* and minFreq with it if it was the last one there.                       *)
LEMMA LFUTouchStep ==
  ASSUME LFUInv, NEW k \in DOMAIN items, F!incrementFreq(k),
         NEW n \in F!Nodes, n.freq = items[k].freq + 1, items' = [items EXCEPT ![k] = n]
  PROVE  LFUInv'
<1>1. PICK old, left, m, t :
        /\ old = items[k].freq /\ left = F!Unlink(freqList, old, k)
        /\ m = F!Drop(items, k) /\ t = RemoveFirst(recency, k)
  OBVIOUS
<1>2. /\ freqList' = F!Link(left, old + 1, k) /\ recency' = Cons(k, t)
      /\ minFreq' = IF old \notin DOMAIN left /\ old = minFreq THEN old + 1 ELSE minFreq
  BY <1>1, LFUSame DEF F!incrementFreq, F!Touched
<1>3. DOMAIN m = DOMAIN items \ {k} /\ \A x \in DOMAIN m : m[x] = items[x]
  BY <1>1 DEF F!Drop
<1>4. Lists(m, t) /\ FreqLists(m, left, t) /\ Len(t) = Len(recency) - 1
  BY <1>1, LFUFacts, UnlinkLists, RemoveFirstProperties DEF LFUInv
<1>5. items' = F!Put(m, k, n)
  <2>1. DOMAIN m \cup {k} = DOMAIN items
    BY <1>3
  <2> QED
    BY <1>3, <2>1 DEF F!Put, LFUInv
<1>6. k \in Keys \ DOMAIN m
  BY <1>3, LFUFacts
<1>7. /\ FreqLists(items', freqList', recency') /\ Lists(items', recency')
      /\ Len(recency') = Len(t) + 1
  <2>1. PICK f : f = old + 1 /\ n.freq = f
    BY <1>1
  <2>2. /\ FreqLists(F!Put(m, k, n), F!Link(left, f, k), Cons(k, t))
        /\ Lists(F!Put(m, k, n), Cons(k, t)) /\ Len(Cons(k, t)) = Len(t) + 1
    BY <1>4, <1>6, <2>1, LinkLists
  <2> QED
    BY <1>2, <1>5, <2>1, <2>2
<1>8. Len(recency') = Len(recency)
  BY <1>4, <1>7, LFUFacts
<1>9. ASSUME Len(recency) = Capacity PROVE IsMin(items', minFreq')
  <2>1. IsMin(items, minFreq)
    BY <1>9 DEF LFUInv
  <2>2. old \in Nat /\ (old \in DOMAIN left <=> KeysAt(m, old) # {})
    BY <1>1, <1>4, LFUFacts DEF FreqLists
  <2>3. /\ DOMAIN items' = DOMAIN items /\ items'[k].freq = old + 1
        /\ \A x \in DOMAIN items \ {k} : items'[x] = items[x]
    BY <1>1
  <2>4. /\ \A x \in DOMAIN items : items[x].freq \in Nat /\ minFreq <= items[x].freq
        /\ minFreq \in Nat
    BY <2>1, LFUFacts DEF IsMin, KeysAt
  <2>5. CASE old \notin DOMAIN left /\ old = minFreq
    <3>1. minFreq' = old + 1
      BY <1>2, <2>5
    <3>2. k \in KeysAt(items', old + 1)
      BY <2>3 DEF KeysAt
    <3>3. \A x \in DOMAIN items \ {k} : items[x].freq # old
      BY <1>3, <2>2, <2>5 DEF KeysAt
    <3>4. \A x \in DOMAIN items' : old + 1 <= items'[x].freq
      BY <2>2, <2>3, <2>4, <2>5, <3>3
    <3> QED
      BY <3>1, <3>2, <3>4 DEF IsMin
  <2>6. CASE old \in DOMAIN left \/ old # minFreq
    <3>1. minFreq' = minFreq
      BY <1>2, <2>6
    <3>2. PICK y \in DOMAIN items \ {k} : items[y].freq = minFreq
      <4>1. CASE old # minFreq
        BY <1>1, <2>1, <4>1 DEF IsMin, KeysAt
      <4>2. CASE old = minFreq
        BY <1>3, <2>2, <2>6, <4>2 DEF KeysAt
      <4> QED
        BY <4>1, <4>2
    <3>3. y \in KeysAt(items', minFreq)
      BY <2>3, <3>2 DEF KeysAt
    <3>4. \A x \in DOMAIN items' : minFreq <= items'[x].freq
      <4> SUFFICES ASSUME NEW x \in DOMAIN items PROVE minFreq <= items'[x].freq
        BY <2>3
      <4>1. minFreq <= items[x].freq /\ minFreq <= old
        BY <1>1, <2>4
      <4> QED
        BY <2>2, <2>3, <2>4, <4>1
    <3> QED
      BY <3>1, <3>3, <3>4 DEF IsMin
  <2> QED
    BY <2>5, <2>6
<1>10. items' \in [DOMAIN items' -> F!Nodes]
  BY DEF LFUInv
<1> QED
  BY <1>7, <1>8, <1>9, <1>10 DEF LFUInv
(* Who a Set of a new key evicts: nobody, or, when the cache is full, the  *)
(* last of the list minFreq names, which is the least frequently used key  *)
(* and among those the least recently used one.                            *)
LEMMA LFUVictims ==
  ASSUME LFUInv, NEW gone, gone = F!evictOne(F!Cardinality(DOMAIN items) >= Capacity)
  PROVE  \/ gone = {} /\ Len(recency) < Capacity
         \/ /\ Len(recency) = Capacity
            /\ \E x \in DOMAIN items :
                 /\ gone = {x} /\ items[x].freq = minFreq
                 /\ \A j \in DOMAIN items \ {x} :
                      \/ items[x].freq < items[j].freq
                      \/ items[x].freq = items[j].freq /\ Before(recency, j, x)
<1>1. Cardinality(DOMAIN items) = Len(recency) /\ Len(recency) \in Nat /\ Len(recency) <= Capacity
  BY LFUFacts DEF LFUInv
<1>2. CASE Len(recency) < Capacity
  <2>1. ~(F!Cardinality(DOMAIN items) >= Capacity)
    BY <1>1, <1>2, LFUSame, CapacityAssumption
  <2> QED
    BY <1>2, <2>1 DEF F!evictOne
<1>3. CASE Len(recency) = Capacity
  <2>1. F!Cardinality(DOMAIN items) >= Capacity
    BY <1>1, <1>3, LFUSame, CapacityAssumption
  <2>2. IsMin(items, minFreq)
    BY <1>3 DEF LFUInv
  <2>3. minFreq \in DOMAIN freqList
    BY <2>2 DEF IsMin, LFUInv, FreqLists
  <2>4. PICK t \in Seq(Keys) : /\ Counted(freqList[minFreq], t)
                               /\ ToSet(t) = KeysAt(items, minFreq) /\ Keeps(t, recency)
    BY <2>3 DEF LFUInv, FreqLists, ListFor
  <2>5. Len(t) \in Nat /\ DOMAIN t = 1 .. Len(t) /\ Len(t) # 0
    <3>1. Len(t) \in Nat /\ DOMAIN t = 1 .. Len(t)
      BY <2>4, LenProperties
    <3>2. DOMAIN t # {}
      BY <2>2, <2>4 DEF IsMin, ToSet
    <3> QED
      BY <3>1, <3>2
  <2>6. PICK n, x : n = Len(t) /\ x = t[n]
    OBVIOUS
  <2>7. n \in DOMAIN t /\ freqList[minFreq].tail = x
    <3>1. n \in 1 .. Len(t)
      BY <2>5, <2>6
    <3>2. freqList[minFreq].tail = Nth(t, n)
      BY <2>4, <2>6 DEF Counted, Chain
    <3> QED
      BY <2>5, <2>6, <3>1, <3>2 DEF Nth
  <2>8. gone = {x}
    BY <2>1, <2>3, <2>7 DEF F!evictOne, F!L!Back
  <2>9. x \in DOMAIN items /\ items[x].freq = minFreq
    BY <2>4, <2>6, <2>7 DEF ToSet, KeysAt
  <2>10. ASSUME NEW j \in DOMAIN items \ {x}
         PROVE  \/ items[x].freq < items[j].freq
                \/ items[x].freq = items[j].freq /\ Before(recency, j, x)
    <3>1. minFreq <= items[j].freq /\ items[j].freq \in Nat /\ minFreq \in Nat
      BY <2>2, <2>9, LFUFacts DEF IsMin
    <3>2. CASE items[j].freq = minFreq
      <4>1. PICK i \in DOMAIN t : t[i] = j
        BY <2>4, <3>2 DEF ToSet, KeysAt
      <4>2. i < n
        BY <2>5, <2>6, <4>1
      <4>3. Before(recency, j, x)
        BY <2>4, <2>6, <2>7, <4>1, <4>2 DEF Keeps
      <4> QED
        BY <2>9, <3>2, <4>3
    <3> QED
      BY <2>9, <3>1, <3>2
  <2> QED
    BY <1>3, <2>8, <2>9, <2>10
<1> QED
  BY <1>1, <1>2, <1>3, CapacityAssumption

(* Set of a new key, with the victim out of the way if there is one.       *)
LEMMA LFUNewStep ==
  ASSUME LFUInv, now \in Nat, NEW k \in Keys, NEW v \in Values, NEW ttl \in TTLs, F!SetNew(k, v, ttl)
  PROVE  LFUInv'
<1>1. PICK gone, x, n, m, fl, s :
        /\ gone = F!evictOne(F!Cardinality(DOMAIN items) >= Capacity)
        /\ x = (CHOOSE y \in gone : TRUE) /\ n = F!Node(v, 1, ExpiryOf(ttl))
        /\ m = [y \in DOMAIN items \ gone |-> items[y]]
        /\ fl = (IF gone = {} THEN freqList ELSE F!Unlink(freqList, minFreq, x))
        /\ s = (IF gone = {} THEN recency ELSE RemoveFirst(recency, x))
  OBVIOUS
<1>2. /\ k \notin DOMAIN items /\ minFreq' = 1
      /\ items' = F!Put(m, k, n) /\ freqList' = F!Link(fl, 1, k) /\ recency' = Cons(k, s)
  <2>1. k \notin DOMAIN items /\ minFreq' = 1
    BY DEF F!SetNew, F!Held
  <2>2. items' = F!Put(m, k, n)
    BY <1>1, LFUSame DEF F!SetNew
  <2>3. freqList' = F!Link(fl, 1, k)
    BY <1>1 DEF F!SetNew
  <2>4. recency' = Cons(k, s)
    BY <1>1, LFUSame DEF F!SetNew
  <2> QED
    BY <2>1, <2>2, <2>3, <2>4
<1>3. n \in F!Nodes /\ n.freq = 1
  BY <1>1, ExpiryType DEF F!Node, F!Nodes
<1>4. /\ Lists(items, recency) /\ FreqLists(items, freqList, recency)
      /\ items \in [DOMAIN items -> F!Nodes]
  BY DEF LFUInv
<1>5. /\ Lists(m, s) /\ FreqLists(m, fl, s) /\ Len(s) \in Nat /\ Len(s) + 1 <= Capacity
      /\ m \in [DOMAIN m -> F!Nodes] /\ DOMAIN m \subseteq DOMAIN items
  <2>1. CASE gone = {} /\ Len(recency) < Capacity
    <3>1. m = items
      BY <1>1, <1>4, <2>1
    <3> QED
      BY <1>1, <1>4, <2>1, <3>1, LFUFacts, CapacityAssumption
  <2>2. CASE /\ Len(recency) = Capacity
             /\ \E y \in DOMAIN items : gone = {y} /\ items[y].freq = minFreq
    <3>1. gone = {x} /\ x \in DOMAIN items /\ items[x].freq = minFreq
      BY <1>1, <2>2
    <3>2. /\ m = F!Drop(items, x) /\ fl = F!Unlink(freqList, items[x].freq, x)
          /\ s = RemoveFirst(recency, x)
      BY <1>1, <3>1 DEF F!Drop
    <3>3. Lists(m, s) /\ FreqLists(m, fl, s)
      BY <1>4, <3>1, <3>2, UnlinkLists
    <3>4. Len(s) = Len(recency) - 1
      BY <3>1, <3>2, LFUFacts, RemoveFirstProperties
    <3>5. Len(s) \in Nat /\ Len(s) + 1 <= Capacity
      BY <2>2, <3>4, CapacityAssumption
    <3>6. m \in [DOMAIN m -> F!Nodes] /\ DOMAIN m \subseteq DOMAIN items
      BY <1>1, <1>4
    <3> QED
      BY <3>3, <3>5, <3>6
  <2> QED
    BY <1>1, <2>1, <2>2, LFUVictims
<1>6. k \in Keys \ DOMAIN m
  BY <1>2, <1>5
<1>7. /\ FreqLists(items', freqList', recency') /\ Lists(items', recency')
      /\ Len(recency') = Len(s) + 1
  <2>1. PICK f : f = 1 /\ n.freq = f
    BY <1>3
  <2>2. /\ FreqLists(F!Put(m, k, n), F!Link(fl, f, k), Cons(k, s))
        /\ Lists(F!Put(m, k, n), Cons(k, s)) /\ Len(Cons(k, s)) = Len(s) + 1
    BY <1>5, <1>6, <2>1, LinkLists
  <2> QED
    BY <1>2, <2>1, <2>2
<1>8. DOMAIN items' = DOMAIN m \cup {k} /\ items' \in [DOMAIN items' -> F!Nodes] /\ items'[k] = n
  BY <1>2, <1>3, <1>5 DEF F!Put
<1>9. IsMin(items', minFreq')
  <2>1. k \in KeysAt(items', 1)
    BY <1>3, <1>8 DEF KeysAt
  <2>2. \A x_ \in DOMAIN items' : 1 <= items'[x_].freq
    BY <1>8 DEF F!Nodes
  <2> QED
    BY <1>2, <2>1, <2>2 DEF IsMin
<1>10. Len(recency') <= Capacity
  BY <1>5, <1>7
<1> QED
  BY <1>7, <1>8, <1>9, <1>10 DEF LFUInv
(* A step that leaves the map, its lists and the history alone.            *)
LEMMA LFUQuietStep ==
  ASSUME LFUInv, items' = items, freqList' = freqList, minFreq' = minFreq, recency' = recency
  PROVE  LFUInv'
  BY DEF LFUInv

(* A node with the next frequency.                                         *)
LEMMA LFUNode ==
  ASSUME LFUInv, NEW k \in DOMAIN items, NEW v \in Values, NEW e \in Nat,
         NEW n, n = F!Node(v, items[k].freq + 1, e)
  PROVE  n \in F!Nodes /\ n.freq = items[k].freq + 1 /\ n.value = v /\ n.expiresAt = e
<1>1. items[k].freq + 1 \in Nat \ {0}
  <2>1. items[k].freq \in Nat \ {0}
    BY LFUFacts
  <2> QED
    BY <2>1
<1> QED
  BY <1>1 DEF F!Node, F!Nodes

(* Get, Peek and Delete of the LFU cache.                                  *)
LEMMA LFUReadStep ==
  ASSUME LFUInv, NEW k \in Keys, F!Get(k) \/ F!Peek(k) \/ F!Delete(k)
  PROVE  LFUInv'
<1>1. ASSUME NEW op, NEW counted, F!ReadMiss(op, k, counted)
      PROVE  LFUInv'
  BY <1>1, LFUQuietStep DEF F!ReadMiss
<1>2. ASSUME NEW op, NEW counted, F!ReadExpired(op, k, counted)
      PROVE  LFUInv'
  BY <1>2, LFURemoveStep DEF F!ReadExpired, F!Held
<1>3. CASE F!GetHit(k)
  <2>1. PICK n : n = F!Node(items[k].value, items[k].freq + 1, items[k].expiresAt)
    OBVIOUS
  <2>2. k \in DOMAIN items /\ F!incrementFreq(k) /\ items' = [items EXCEPT ![k] = n]
    BY <1>3, <2>1 DEF F!GetHit, F!Held
  <2>3. n \in F!Nodes /\ n.freq = items[k].freq + 1
    BY <2>1, <2>2, LFUFacts, LFUNode
  <2> QED
    BY <2>2, <2>3, LFUTouchStep
<1>4. CASE F!PeekHit(k)
  BY <1>4, LFUQuietStep DEF F!PeekHit
<1>5. CASE F!Delete(k)
  <2>1. CASE k \notin DOMAIN items
    BY <1>5, <2>1, LFUQuietStep DEF F!Delete, F!Held
  <2>2. CASE k \in DOMAIN items
    BY <1>5, <2>2, LFURemoveStep DEF F!Delete, F!Held
  <2> QED
    BY <2>1, <2>2
<1> QED
  BY <1>1, <1>2, <1>3, <1>4, <1>5 DEF F!Get, F!Peek

(* Every step of the LFU cache keeps its lists, and minFreq when full.     *)
LEMMA LFUNextInv ==
  ASSUME LFUInv, now \in Nat, F!Next
  PROVE  LFUInv'
<1>1. CASE F!Tick
  BY <1>1, LFUQuietStep DEF F!Tick
<1>2. CASE F!Purge
  <2>1. items' = F!EmptyMap /\ freqList' = F!EmptyMap /\ recency' = <<>>
    BY <1>2 DEF F!Purge
  <2>2. /\ Lists(items', recency') /\ items' \in [DOMAIN items' -> F!Nodes]
        /\ FreqLists(items', freqList', recency') /\ Len(recency') = 0
    BY <2>1, LFUEmpty
  <2> QED
    BY <2>2, CapacityAssumption DEF LFUInv
<1>3. ASSUME NEW k \in Keys, F!Get(k) \/ F!Peek(k) \/ F!Delete(k)
      PROVE  LFUInv'
  BY <1>3, LFUReadStep
<1>4. ASSUME NEW k \in Keys, NEW v \in Values, NEW ttl \in TTLs, F!Set(k, v, ttl)
      PROVE  LFUInv'
  <2>1. CASE F!SetHeld(k, v, ttl)
    <3>1. PICK n, e : n = F!Node(v, items[k].freq + 1, e) /\ e = ExpiryOf(ttl)
      OBVIOUS
    <3>2. k \in DOMAIN items /\ F!incrementFreq(k) /\ items' = [items EXCEPT ![k] = n]
      BY <2>1, <3>1, LFUSame DEF F!SetHeld, F!Held
    <3>3. e \in Nat
      BY <3>1, ExpiryType
    <3>4. n \in F!Nodes /\ n.freq = items[k].freq + 1
      BY <3>1, <3>2, <3>3, LFUNode
    <3> QED
      BY <3>2, <3>4, LFUTouchStep
  <2>2. CASE F!SetNew(k, v, ttl)
    BY <2>2, LFUNewStep
  <2> QED
    BY <1>4, <2>1, <2>2 DEF F!Set
<1> QED
  BY <1>1, <1>2, <1>3, <1>4 DEF F!Next

(* A set of numbers that is not empty has a least member.                  *)
LEMMA LeastNumber ==
  ASSUME NEW T \in SUBSET Nat, T # {}
  PROVE  \E n \in T : \A m \in T : n <= m
<1> DEFINE less == OpToRel(<, Nat)
<1>1. IsWellFoundedOn(less, Nat)
  BY NatLessThanWellFounded
<1>2. less = {q \in Nat \X Nat : q[1] < q[2]}
  BY DEF OpToRel
<1> HIDE DEF less
<1>3. PICK n \in T : \A m \in T : ~(<<m, n>> \in less)
  BY <1>1, WFMin
<1>4. ASSUME NEW m \in T PROVE n <= m
  <2>1. m \in Nat /\ n \in Nat /\ <<m, n>> \in Nat \X Nat /\ <<m, n>>[1] = m /\ <<m, n>>[2] = n
    OBVIOUS
  <2>2. ~(m < n)
    BY <1>2, <1>3, <2>1
  <2> QED
    BY <2>1, <2>2
<1> QED
  BY <1>4

(* t lists the n keys of S in the order of r.                              *)
Enumerates(t, n, S, r) ==
  /\ DOMAIN t = 1 .. n /\ (\A i \in 1 .. n : t[i] \in S)
  /\ (\A x \in S : \E i \in 1 .. n : t[i] = x) /\ Keeps(t, r)

(* There is only one such list.                                            *)
LEMMA OneOrder ==
  ASSUME NEW r \in Seq(Keys), IsInjective(r), NEW n \in Nat, NEW S,
         NEW t, Enumerates(t, n, S, r), NEW u, Enumerates(u, n, S, r)
  PROVE  \A i \in 1 .. n : t[i] = u[i]
<1>0. /\ DOMAIN t = 1 .. n /\ (\A i \in 1 .. n : t[i] \in S)
      /\ (\A x \in S : \E i \in 1 .. n : t[i] = x) /\ Keeps(t, r)
      /\ DOMAIN u = 1 .. n /\ (\A i \in 1 .. n : u[i] \in S)
      /\ (\A x \in S : \E i \in 1 .. n : u[i] = x) /\ Keeps(u, r)
  BY DEF Enumerates
<1>1. \A x, y : Before(r, x, y) => x # y /\ ~Before(r, y, x)
  <2>1. DOMAIN r = 1 .. Len(r) /\ Len(r) \in Nat
    BY LenProperties
  <2> QED
    BY <2>1 DEF Before, IsInjective
<1> DEFINE T == {i \in 1 .. n : t[i] # u[i]}
<1>2. CASE T = {}
  BY <1>2
<1>3. CASE T # {}
  <2>1. PICK i \in T : \A j \in T : i <= j
    <3>1. T \in SUBSET Nat
      OBVIOUS
    <3> HIDE DEF T
    <3> QED
      BY <1>3, <3>1, LeastNumber
  <2>2. i \in 1 .. n /\ t[i] # u[i] /\ \A j \in 1 .. n : j < i => t[j] = u[j]
    <3>1. \A j \in 1 .. n : j < i => j \notin T
      BY <2>1
    <3> QED
      BY <2>1, <3>1
  <2>3. PICK a \in 1 .. n : t[a] = u[i]
    BY <1>0, <2>2
  <2>4. PICK b \in 1 .. n : u[b] = t[i]
    BY <1>0, <2>2
  <2>5. a > i
    <3>1. ~(a < i)
      <4> SUFFICES ASSUME a < i PROVE FALSE
        OBVIOUS
      <4>1. u[a] = u[i]
        BY <2>2, <2>3
      <4>2. Before(r, u[a], u[i])
        BY <1>0, <2>2 DEF Keeps
      <4> QED
        BY <1>1, <4>1, <4>2
    <3>2. a # i
      BY <2>2, <2>3
    <3> QED
      BY <2>2, <3>1, <3>2
  <2>6. b > i
    <3>1. ~(b < i)
      <4> SUFFICES ASSUME b < i PROVE FALSE
        OBVIOUS
      <4>1. t[b] = t[i]
        BY <2>2, <2>4
      <4>2. Before(r, t[b], t[i])
        BY <1>0, <2>2 DEF Keeps
      <4> QED
        BY <1>1, <4>1, <4>2
    <3>2. b # i
      BY <2>2, <2>4
    <3> QED
      BY <2>2, <3>1, <3>2
  <2>7. Before(r, t[i], t[a]) /\ Before(r, u[i], u[b])
    BY <1>0, <2>2, <2>5, <2>6 DEF Keeps
  <2> QED
    BY <1>1, <2>3, <2>4, <2>7
<1> QED
  BY <1>2, <1>3
(* The one list of the keys of S in the order of recency.                  *)
LEMMA MostRecentFirstIs ==
  ASSUME LFUInv, NEW S, NEW n \in Nat, IsFiniteSet(S), Cardinality(S) = n,
         NEW t, t \in [1 .. n -> S], \A x \in S : \E i \in 1 .. n : t[i] = x, Keeps(t, recency)
  PROVE  F!MostRecentFirst(S) = t
<1>1. \A s : (\A i, j \in DOMAIN s : i < j => F!LessRecent(s[j], s[i])) <=> Keeps(s, recency)
  BY DEF F!LessRecent, Before, Keeps
<1>2. PICK u : u = F!MostRecentFirst(S)
  OBVIOUS
<1>3. u \in [1 .. n -> S] /\ Keeps(u, recency)
  <2>1. F!Cardinality(S) = n
    BY LFUSame
  <2>2. u = CHOOSE s \in [1 .. n -> S] : \A i, j \in DOMAIN s : i < j => F!LessRecent(s[j], s[i])
    BY <1>2, <2>1 DEF F!MostRecentFirst
  <2>3. \A i, j \in DOMAIN t : i < j => F!LessRecent(t[j], t[i])
    BY <1>1
  <2>4. u \in [1 .. n -> S] /\ \A i, j \in DOMAIN u : i < j => F!LessRecent(u[j], u[i])
    BY <2>2, <2>3
  <2> QED
    BY <1>1, <2>4
<1>4. recency \in Seq(Keys) /\ IsInjective(recency)
  BY LFUFacts
<1>5. \A x \in S : \E i \in 1 .. n : u[i] = x
  <2>1. DOMAIN recency = 1 .. Len(recency) /\ Len(recency) \in Nat
    BY <1>4, LenProperties
  <2>2. \A x : ~Before(recency, x, x)
    BY <1>4, <2>1 DEF Before, IsInjective
  <2>3. \A i, j \in 1 .. n : u[i] = u[j] => i = j
    <3> SUFFICES ASSUME NEW i \in 1 .. n, NEW j \in 1 .. n, u[i] = u[j], i # j
                 PROVE  FALSE
      OBVIOUS
    <3>1. i < j \/ j < i
      OBVIOUS
    <3>2. Before(recency, u[i], u[j]) \/ Before(recency, u[j], u[i])
      BY <1>3, <3>1 DEF Keeps
    <3> QED
      BY <2>2, <3>2
  <2>4. u \in Injection(1 .. n, S)
    BY <1>3, <2>3 DEF Injection, IsInjective
  <2>5. Cardinality(1 .. n) = Cardinality(S)
    BY FS_Interval
  <2>6. u \in Surjection(1 .. n, S)
    BY <2>4, <2>5, FS_Injection
  <2> QED
    BY <2>6 DEF Surjection
<1>6. Enumerates(t, n, S, recency) /\ Enumerates(u, n, S, recency)
  BY <1>3, <1>5 DEF Enumerates
<1>7. \A i \in 1 .. n : t[i] = u[i]
  BY <1>4, <1>6, OneOrder
<1> QED
  BY <1>2, <1>3, <1>7

(* What LFUInv says of the frequency lists is what the run checks of them. *)
LEMMA LFUInvImplies == LFUInv => F!ListsMatchItems /\ F!MinFreqExactWhenFull
<1> SUFFICES ASSUME LFUInv PROVE F!ListsMatchItems /\ F!MinFreqExactWhenFull
  OBVIOUS
<1>1. DOMAIN freqList = {items[k].freq : k \in DOMAIN items}
  BY DEF LFUInv, FreqLists, KeysAt
<1>2. ASSUME NEW f \in DOMAIN freqList
      PROVE  F!L!IsList(freqList[f], F!MostRecentFirst({k \in DOMAIN items : items[k].freq = f}))
  <2>0. PICK S : S = KeysAt(items, f)
    OBVIOUS
  <2>1. PICK t \in Seq(Keys) : /\ Counted(freqList[f], t) /\ ToSet(t) = S /\ S = KeysAt(items, f)
                               /\ Keeps(t, recency)
    BY <2>0 DEF LFUInv, FreqLists, ListFor
  <2>2. PICK n : n = Len(t)
    OBVIOUS
  <2>3. n \in Nat /\ DOMAIN t = 1 .. n /\ IsInjective(t) /\ Cardinality(S) = n /\ IsFiniteSet(S)
    BY <2>1, <2>2, LenProperties, ListCard DEF Counted, Chain
  <2>4. t \in [1 .. n -> S] /\ S = {t[i] : i \in 1 .. n}
    <3>1. t = [i \in 1 .. n |-> t[i]]
      BY <2>2, LenProperties
    <3>2. \A i \in 1 .. n : t[i] \in S
      BY <2>1, <2>3 DEF ToSet
    <3> QED
      BY <2>1, <2>3, <3>1, <3>2 DEF ToSet
  <2>5. Keeps(t, recency) /\ \A x \in S : \E i \in 1 .. n : t[i] = x
    BY <2>1, <2>4
  <2>6. F!MostRecentFirst(S) = t
    BY <2>3, <2>4, <2>5, MostRecentFirstIs
  <2>7. F!L!IsList(freqList[f], t)
    <3>1. PICK l : l = freqList[f]
      OBVIOUS
    <3>2. /\ l.len = n /\ l.head = Nth(t, 1) /\ l.tail = Nth(t, n)
          /\ DOMAIN l.prev = S /\ DOMAIN l.next = S
          /\ \A i \in 1 .. n : l.prev[t[i]] = Nth(t, i - 1) /\ l.next[t[i]] = Nth(t, i + 1)
      BY <2>1, <2>2, <3>1 DEF Counted, Chain
    <3>3. {t[i] : i \in DOMAIN t} = S
      BY <2>3, <2>4
    <3> QED
      BY <2>2, <2>3, <3>1, <3>2, <3>3 DEF F!L!IsList, Nth
  <2> QED
    BY <2>1, <2>6, <2>7 DEF KeysAt
<1>3. F!MinFreqExactWhenFull
  <2> SUFFICES ASSUME F!Cardinality(DOMAIN items) >= Capacity
               PROVE  /\ minFreq \in DOMAIN freqList
                      /\ \A k \in DOMAIN items : minFreq <= items[k].freq
    BY DEF F!MinFreqExactWhenFull
  <2>1. Len(recency) = Capacity
    <3>1. Len(recency) >= Capacity /\ Len(recency) <= Capacity
      BY LFUFacts, LFUSame DEF LFUInv
    <3> QED
      BY <3>1, LFUFacts, CapacityAssumption
  <2> QED
    BY <2>1 DEF LFUInv, IsMin, FreqLists
<1> QED
  BY <1>1, <1>2, <1>3 DEF F!ListsMatchItems

(* The entry a step of the LFU cache evicts is the least frequently used   *)
(* one and, among those, the least recently used.                          *)
LEMMA LFUEvicts ==
  ASSUME LFUInv, F!Next
  PROVE  F!VictimIsLeastFrequent
<1> SUFFICES ASSUME ret' # ret, NEW c \in ret'.calls, NEW j \in DOMAIN items \ {c.key}
             PROVE  \/ items[c.key].freq < items[j].freq
                    \/ items[c.key].freq = items[j].freq /\ F!LessRecent(c.key, j)
  BY DEF F!VictimIsLeastFrequent
<1>1. ASSUME NEW a, NEW b, NEW f, NEW d, NEW g, ret' = Reply(a, b, f, d, {}, g)
      PROVE  FALSE
  BY <1>1 DEF Reply
<1>2. ASSUME NEW a, NEW b, NEW g, ret' = Miss(a, b, g)
      PROVE  FALSE
  BY <1>1, <1>2 DEF Miss
<1>3. ~F!Tick
  BY DEF F!Tick
<1>4. ~F!Purge
  BY <1>2, LFUSame DEF F!Purge
<1>5. ASSUME NEW k, F!Get(k) \/ F!Peek(k) \/ F!Delete(k)
      PROVE  FALSE
  <2>1. \A op, counted : ~F!ReadMiss(op, k, counted) /\ ~F!ReadExpired(op, k, counted)
    BY <1>2, LFUSame DEF F!ReadMiss, F!ReadExpired
  <2>2. ~F!GetHit(k) /\ ~F!PeekHit(k)
    BY <1>1, LFUSame DEF F!GetHit, F!PeekHit
  <2>3. ~F!Delete(k)
    BY <1>1, <1>2, LFUSame DEF F!Delete
  <2> QED
    BY <1>5, <2>1, <2>2, <2>3 DEF F!Get, F!Peek
<1>6. PICK k \in Keys, v \in Values, ttl \in TTLs : F!Set(k, v, ttl)
  BY <1>3, <1>4, <1>5 DEF F!Next
<1>7. ~F!SetHeld(k, v, ttl)
  BY <1>1, LFUSame DEF F!SetHeld
<1>8. PICK gone, calls :
        /\ gone = F!evictOne(F!Cardinality(DOMAIN items) >= Capacity)
        /\ calls = {[key |-> x, value |-> items[x].value] : x \in gone}
  OBVIOUS
<1>9. ret'.calls = calls
  <2>1. PICK counted : ret' = Reply("set", k, TRUE, NoValue, calls, counted)
    BY <1>6, <1>7, <1>8, LFUSame DEF F!Set, F!SetNew
  <2> QED
    BY <2>1 DEF Reply
<1>10. c.key \in gone
  BY <1>8, <1>9
<1>11. PICK x \in DOMAIN items :
         /\ gone = {x}
         /\ \A i \in DOMAIN items \ {x} :
              \/ items[x].freq < items[i].freq
              \/ items[x].freq = items[i].freq /\ Before(recency, i, x)
  BY <1>8, <1>10, LFUVictims
<1>12. c.key = x
  BY <1>10, <1>11
<1>13. Before(recency, j, x) => F!LessRecent(x, j)
  BY DEF Before, F!LessRecent
<1> QED
  BY <1>11, <1>12, <1>13
(* What callers see of the LFU cache, before and after a step.             *)
LEMMA LFUShows ==
  ASSUME policy = "lfu", policy' = policy
  PROVE  /\ BaseEntries = [x \in DOMAIN items |-> BaseEntries[x]]
         /\ DOMAIN BaseEntries = DOMAIN items /\ Promise!Held = DOMAIN items
         /\ \A x \in DOMAIN items :
              BaseEntries[x] = [value |-> items[x].value, expiresAt |-> items[x].expiresAt]
         /\ BaseEntries' = [x \in DOMAIN items' |-> BaseEntries'[x]]
         /\ \A x \in DOMAIN items' :
              BaseEntries'[x] = [value |-> items'[x].value, expiresAt |-> items'[x].expiresAt]
<1>1. /\ BaseEntries = [x \in DOMAIN items |->
                          [value |-> items[x].value, expiresAt |-> items[x].expiresAt]]
      /\ BaseEntries' = [x \in DOMAIN items' |->
                           [value |-> items'[x].value, expiresAt |-> items'[x].expiresAt]]
  BY DEF BaseEntries, F!LiveEntries
<1> QED
  BY <1>1 DEF Promise!Held

(* A step that keeps every value and deadline.                             *)
LEMMA LFUKeeps ==
  ASSUME policy = "lfu", policy' = policy, DOMAIN items' = DOMAIN items,
         \A x \in DOMAIN items : /\ items'[x].value = items[x].value
                                 /\ items'[x].expiresAt = items[x].expiresAt
  PROVE  BaseEntries' = BaseEntries
<1>1. \A x \in DOMAIN items : BaseEntries'[x] = BaseEntries[x]
  BY LFUShows
<1> QED
  BY <1>1, LFUShows

(* A step that takes a key out.                                            *)
LEMMA LFUDrops ==
  ASSUME policy = "lfu", policy' = policy, NEW k, items' = F!Drop(items, k)
  PROVE  BaseEntries' = Promise!Without({k})
<1>1. DOMAIN items' = DOMAIN items \ {k} /\ \A x \in DOMAIN items \ {k} : items'[x] = items[x]
  BY DEF F!Drop
<1>2. \A x \in DOMAIN items \ {k} : BaseEntries'[x] = BaseEntries[x]
  BY <1>1, LFUShows
<1> QED
  BY <1>1, <1>2, LFUShows DEF Promise!Without

(* A step that sets a key, with or without a victim.                       *)
LEMMA LFUSets ==
  ASSUME policy = "lfu", policy' = policy, LFUInv',
         NEW k \in Keys, NEW v \in Values, NEW ttl \in TTLs,
         NEW gone, gone = {} \/ (k \notin DOMAIN items /\ \E x \in DOMAIN items : gone = {x}),
         DOMAIN items' = (DOMAIN items \ gone) \cup {k},
         items'[k].value = v, items'[k].expiresAt = ExpiryOf(ttl),
         \A x \in DOMAIN items \ (gone \cup {k}) : items'[x] = items[x],
         NEW extra \in SUBSET {"Evictions"}, gone # {} => extra = {"Evictions"},
         ret' = Reply("set", k, TRUE, NoValue,
                      {[key |-> x, value |-> items[x].value] : x \in gone},
                      {"Sets"} \cup extra),
         now' = now
  PROVE  Promise!Set(k, v, ttl)
<1>1. PICK e : e = [value |-> v, expiresAt |-> ExpiryOf(ttl)]
  OBVIOUS
<1>2. BaseEntries' = [x \in (DOMAIN BaseEntries \ gone) \cup {k} |->
                        IF x = k THEN e ELSE BaseEntries[x]]
  <2>1. ASSUME NEW x \in (DOMAIN items \ gone) \cup {k}
        PROVE  BaseEntries'[x] = IF x = k THEN e ELSE BaseEntries[x]
    <3>1. BaseEntries'[x] = [value |-> items'[x].value, expiresAt |-> items'[x].expiresAt]
      BY LFUShows
    <3>2. CASE x = k
      BY <1>1, <3>1, <3>2
    <3>3. CASE x # k
      <4>1. x \in DOMAIN items \ (gone \cup {k}) /\ x \in DOMAIN items
        BY <3>3
      <4>2. items'[x] = items[x]
        BY <4>1
      <4>3. BaseEntries[x] = [value |-> items[x].value, expiresAt |-> items[x].expiresAt]
        BY <4>1, LFUShows
      <4> QED
        BY <3>1, <3>3, <4>2, <4>3
    <3> QED
      BY <3>2, <3>3
  <2> QED
    BY <2>1, LFUShows
<1>3. Cardinality(DOMAIN BaseEntries') <= Capacity
  <2>1. (Cardinality(DOMAIN items) = Len(recency))'
    BY LFUFacts, PTL
  <2>2. Len(recency') <= Capacity
    BY DEF LFUInv
  <2>3. DOMAIN BaseEntries' = DOMAIN items'
    BY LFUShows
  <2> QED
    BY <2>1, <2>2, <2>3
<1>4. ret' = Reply("set", k, TRUE, NoValue,
                   {[key |-> x, value |-> BaseEntries[x].value] : x \in gone},
                   {"Sets"} \cup extra)
  <2>1. \A x \in gone : BaseEntries[x].value = items[x].value
    BY LFUShows
  <2>2. {[key |-> x, value |-> BaseEntries[x].value] : x \in gone} =
        {[key |-> x, value |-> items[x].value] : x \in gone}
    BY <2>1
  <2> QED
    BY <2>2
<1>5. gone = {} \/ (k \notin DOMAIN BaseEntries /\ \E x \in DOMAIN BaseEntries : gone = {x})
  BY LFUShows
<1>6. /\ now' = now /\ extra \in SUBSET {"Evictions"} /\ (gone # {} => extra = {"Evictions"})
      /\ k \in Keys /\ v \in Values /\ ttl \in TTLs
  OBVIOUS
<1> QED
  BY ONLY <1>1, <1>2, <1>3, <1>4, <1>5, <1>6, PromiseSet

(* Every step of the LFU cache keeps the contract.                         *)
LEMMA LFURefines ==
  ASSUME policy = "lfu", policy' = policy, LFUInv, LFUInv', F!Next
  PROVE  Promise!Next
<1>1. CASE F!Tick
  <2>1. BaseEntries' = BaseEntries
    BY <1>1, LFUKeeps DEF F!Tick
  <2> QED
    BY <1>1, <2>1 DEF F!Tick, Promise!Tick, Promise!Next
<1>2. CASE F!Purge
  <2>1. items' = EmptyMap /\ ret' = Miss("purge", NoKey, {}) /\ now' = now
    BY <1>2, LFUSame DEF F!Purge
  <2>2. DOMAIN items' = {}
    BY <2>1 DEF EmptyMap
  <2>3. BaseEntries' = EmptyMap
    BY <2>2, LFUShows DEF EmptyMap
  <2> QED
    BY <2>1, <2>3, PromiseSame DEF Promise!Purge, Promise!Next
<1>3. ASSUME NEW k, NEW op, NEW onHit, NEW onMiss,
             F!ReadMiss(op, k, onMiss) \/ F!ReadExpired(op, k, onMiss)
      PROVE  Promise!Read(op, k, onHit, onMiss)
  <2>1. CASE F!ReadMiss(op, k, onMiss)
    <3>1. k \notin DOMAIN items /\ items' = items /\ now' = now /\ ret' = Miss(op, k, onMiss)
      BY <2>1, LFUSame DEF F!ReadMiss, F!Held
    <3>2. BaseEntries' = BaseEntries
      BY <3>1, LFUKeeps
    <3> QED
      BY <3>1, <3>2, LFUShows, PromiseSame DEF Promise!Read
  <2>2. CASE F!ReadExpired(op, k, onMiss)
    <3>1. /\ k \in DOMAIN items /\ Expired(items[k]) /\ now' = now /\ items' = F!Drop(items, k)
          /\ ret' = Miss(op, k, onMiss \cup {"TTLExpiries"})
      BY <2>2, LFUSame DEF F!ReadExpired, F!RemoveNode, F!Held
    <3>2. BaseEntries' = Promise!Without({k})
      BY <3>1, LFUDrops
    <3>3. k \in Promise!Held /\ Promise!Expired(BaseEntries[k])
      BY <3>1, LFUShows DEF Promise!Expired, Expired
    <3> QED
      BY <3>1, <3>2, <3>3, PromiseSame DEF Promise!Read
  <2> QED
    BY <1>3, <2>1, <2>2
<1>4. ASSUME NEW k, k \in DOMAIN items, ~Expired(items[k])
      PROVE  /\ k \in Promise!Held /\ ~Promise!Expired(BaseEntries[k])
             /\ BaseEntries[k].value = items[k].value
  BY <1>4, LFUShows DEF Promise!Expired, Expired
<1>5. ASSUME NEW k \in Keys, F!Get(k)
      PROVE  Promise!Get(k)
  <2>1. CASE F!GetHit(k)
    <3>1. PICK n : n = F!Node(items[k].value, items[k].freq + 1, items[k].expiresAt)
      OBVIOUS
    <3>2. /\ k \in DOMAIN items /\ ~Expired(items[k]) /\ items' = [items EXCEPT ![k] = n]
          /\ ret' = Reply("get", k, TRUE, items[k].value, {}, {"Hits"}) /\ now' = now
      BY <2>1, <3>1, LFUSame DEF F!GetHit, F!Held
    <3>3. n.value = items[k].value /\ n.expiresAt = items[k].expiresAt
      BY <3>1 DEF F!Node
    <3>4. /\ DOMAIN items' = DOMAIN items
          /\ \A x \in DOMAIN items : /\ items'[x].value = items[x].value
                                     /\ items'[x].expiresAt = items[x].expiresAt
      BY <3>2, <3>3
    <3>5. BaseEntries' = BaseEntries
      BY <3>4, LFUKeeps
    <3> QED
      BY <1>4, <3>2, <3>5, PromiseSame DEF Promise!Get, Promise!Read
  <2> QED
    BY <1>3, <1>5, <2>1 DEF F!Get, Promise!Get
<1>6. ASSUME NEW k \in Keys, F!Peek(k)
      PROVE  Promise!Peek(k)
  <2>1. CASE F!PeekHit(k)
    <3>1. /\ k \in DOMAIN items /\ ~Expired(items[k]) /\ items' = items
          /\ ret' = Reply("peek", k, TRUE, items[k].value, {}, {}) /\ now' = now
      BY <2>1, LFUSame DEF F!PeekHit, F!Held
    <3>2. BaseEntries' = BaseEntries
      BY <3>1, LFUKeeps
    <3> QED
      BY <1>4, <3>1, <3>2, PromiseSame DEF Promise!Peek, Promise!Read
  <2> QED
    BY <1>3, <1>6, <2>1 DEF F!Peek, Promise!Peek
<1>7. ASSUME NEW k \in Keys, F!Delete(k)
      PROVE  Promise!Delete(k)
  <2>1. CASE k \notin DOMAIN items
    <3>1. items' = items /\ ret' = Reply("delete", k, FALSE, NoValue, {}, {}) /\ now' = now
      BY <1>7, <2>1, LFUSame DEF F!Delete, F!Held, Miss
    <3>2. items' = F!Drop(items, k)
      <4>1. items = [x \in DOMAIN items |-> items[x]] /\ DOMAIN items \ {k} = DOMAIN items
        BY <2>1 DEF LFUInv
      <4> QED
        BY <3>1, <4>1 DEF F!Drop
    <3>3. BaseEntries' = Promise!Without({k})
      BY <3>2, LFUDrops
    <3>4. k \notin Promise!Held
      BY <2>1, LFUShows
    <3> QED
      BY <3>1, <3>3, <3>4, PromiseSame DEF Promise!Delete
  <2>2. CASE k \in DOMAIN items
    <3>1. /\ items' = F!Drop(items, k) /\ now' = now
          /\ ret' = Reply("delete", k, TRUE, NoValue, {}, {"Deletes"})
      BY <1>7, <2>2, LFUSame DEF F!Delete, F!RemoveNode, F!Held
    <3>2. BaseEntries' = Promise!Without({k})
      BY <3>1, LFUDrops
    <3> QED
      BY <3>1, <3>2, PromiseSame DEF Promise!Delete
  <2> QED
    BY <2>1, <2>2
<1>8. ASSUME NEW k \in Keys, NEW v \in Values, NEW ttl \in TTLs, F!SetHeld(k, v, ttl)
      PROVE  Promise!Set(k, v, ttl)
  <2>1. PICK n, gone, extra :
          n = F!Node(v, items[k].freq + 1, ExpiryOf(ttl)) /\ gone = {} /\ extra = {}
    OBVIOUS
  <2>2. /\ k \in DOMAIN items /\ items' = [items EXCEPT ![k] = n] /\ now' = now
        /\ ret' = Reply("set", k, TRUE, NoValue, {}, {"Sets"})
    BY <1>8, <2>1, LFUSame DEF F!SetHeld, F!Held
  <2>3. n.value = v /\ n.expiresAt = ExpiryOf(ttl)
    BY <2>1 DEF F!Node
  <2>4. /\ DOMAIN items' = (DOMAIN items \ gone) \cup {k}
        /\ items'[k].value = v /\ items'[k].expiresAt = ExpiryOf(ttl)
        /\ \A x \in DOMAIN items \ (gone \cup {k}) : items'[x] = items[x]
    BY <2>1, <2>2, <2>3
  <2>5. /\ {[key |-> x, value |-> items[x].value] : x \in gone} = {}
        /\ {"Sets"} \cup extra = {"Sets"} /\ extra \in SUBSET {"Evictions"}
    BY <2>1
  <2>6. ret' = Reply("set", k, TRUE, NoValue,
                     {[key |-> x, value |-> items[x].value] : x \in gone}, {"Sets"} \cup extra)
    BY <2>2, <2>5
  <2>7. now' = now /\ gone = {}
    BY <2>1, <2>2
  <2> QED
    BY <2>4, <2>5, <2>6, <2>7, LFUSets
<1>9. ASSUME NEW k \in Keys, NEW v \in Values, NEW ttl \in TTLs, F!SetNew(k, v, ttl)
      PROVE  Promise!Set(k, v, ttl)
  <2>1. PICK n, m, gone, extra :
          /\ gone = F!evictOne(F!Cardinality(DOMAIN items) >= Capacity)
          /\ n = F!Node(v, 1, ExpiryOf(ttl)) /\ m = [y \in DOMAIN items \ gone |-> items[y]]
          /\ extra = (IF gone = {} THEN {} ELSE {"Evictions"})
    OBVIOUS
  <2>2. k \notin DOMAIN items /\ now' = now
    BY <1>9 DEF F!SetNew, F!Held
  <2>3. items' = F!Put(m, k, n)
    BY <1>9, <2>1, LFUSame DEF F!SetNew
  <2>4. ret' = Reply("set", k, TRUE, NoValue,
                     {[key |-> x, value |-> items[x].value] : x \in gone}, {"Sets"} \cup extra)
    BY <1>9, <2>1, LFUSame DEF F!SetNew
  <2>5. gone = {} \/ (k \notin DOMAIN items /\ \E x \in DOMAIN items : gone = {x})
    BY <2>1, <2>2, LFUVictims
  <2>6. n.value = v /\ n.expiresAt = ExpiryOf(ttl)
    BY <2>1 DEF F!Node
  <2>7. /\ DOMAIN items' = (DOMAIN items \ gone) \cup {k}
        /\ items'[k].value = v /\ items'[k].expiresAt = ExpiryOf(ttl)
        /\ \A x \in DOMAIN items \ (gone \cup {k}) : items'[x] = items[x]
    BY <2>1, <2>3, <2>6 DEF F!Put
  <2>8. extra \in SUBSET {"Evictions"} /\ (gone # {} => extra = {"Evictions"})
    BY <2>1
  <2> QED
    BY <2>2, <2>4, <2>5, <2>7, <2>8, LFUSets
<1> QED
  BY <1>1, <1>2, <1>5, <1>6, <1>7, <1>8, <1>9 DEF F!Next, F!Set, Promise!Next
---------------------------------------------------------------------------
(* The cache of a store.  The caches that were not chosen stay empty, so   *)
(* the ARC cache's invariant holds whatever the policy.                    *)
BaseInv ==
  /\ Core
  /\ policy \in Policies
  /\ policy = "lru" => LRUInv
  /\ policy = "lfu" => LFUInv

(* newBaseCache.                                                           *)
LEMMA BaseInit == newBaseCache => BaseInv
<1> SUFFICES ASSUME newBaseCache PROVE BaseInv
  OBVIOUS
<1>1. Core /\ policy \in Policies
  BY InitCore DEF newBaseCache
<1>2. LRUInv
  <2>1. items = R!EmptyMap /\ list = R!EmptyList /\ recency = <<>>
    BY DEF newBaseCache, R!Init
  <2> QED
    BY <2>1, LRUEmpty DEF LRUInv
<1>3. LFUInv
  <2>1. items = F!EmptyMap /\ freqList = F!EmptyMap /\ recency = <<>>
    BY DEF newBaseCache, F!Init
  <2>2. /\ Lists(items, recency) /\ items \in [DOMAIN items -> F!Nodes]
        /\ FreqLists(items, freqList, recency) /\ Len(recency) = 0
    BY <2>1, LFUEmpty
  <2> QED
    BY <2>2, CapacityAssumption DEF LFUInv
<1> QED
  BY <1>1, <1>2, <1>3 DEF BaseInv

(* A step of the LRU or the LFU cache.                                     *)
LEMMA OthersStep ==
  ASSUME Core, lists' = lists, p' = p, itemMap' = itemMap,
         bytes' \in Int, now' \in Nat, ret' \in Replies
  PROVE  Core'
  BY DEF Core, TypesOK

(* A length is a number.                                                   *)
LEMMA SizeNat ==
  ASSUME NEW v \in Values
  PROVE  SizeOf[v] \in Nat
  BY ValuesAssumption

(* The bytes an insertion adds are those of its value less the victim's.   *)
LEMMA NewBytes ==
  ASSUME NEW b \in Int, NEW v \in Values, NEW m, NEW gone,
         gone = {} \/ \E y \in DOMAIN m : gone = {y},
         \A k \in DOMAIN m : m[k].value \in Values
  PROVE  b + SizeOf[v] - (IF gone = {} THEN 0 ELSE SizeOf[m[CHOOSE y \in gone : TRUE].value])
           \in Int
<1>1. SizeOf[v] \in Nat
  BY SizeNat
<1>2. CASE gone = {}
  BY <1>1, <1>2
<1>3. CASE gone # {}
  <2>1. PICK x : x = CHOOSE y \in gone : TRUE
    OBVIOUS
  <2>2. x \in DOMAIN m
    BY <1>3, <2>1
  <2>3. SizeOf[m[x].value] \in Nat
    BY <2>2, SizeNat
  <2>4. b + SizeOf[v] - SizeOf[m[x].value] \in Int
    BY <1>1, <2>3
  <2> QED
    BY <1>3, <2>1, <2>4
<1> QED
  BY <1>2, <1>3

(* BytesStored stays a number through every step of the LRU cache.         *)
LEMMA LRUBytes ==
  ASSUME LRUInv, bytes \in Int, R!Next
  PROVE  bytes' \in Int
<1>0. \A k \in DOMAIN items : items[k].value \in Values
  BY LRUFacts
<1>1. ASSUME NEW k \in DOMAIN items, R!RemoveEntry(k)
      PROVE  bytes' \in Int
  <2>1. SizeOf[items[k].value] \in Nat
    BY <1>0, SizeNat
  <2> QED
    BY <1>1, <2>1 DEF R!RemoveEntry
<1>2. ASSUME NEW k \in Keys, R!Get(k) \/ R!Peek(k) \/ R!Delete(k)
      PROVE  bytes' \in Int
  BY <1>1, <1>2 DEF R!Get, R!Peek, R!Delete, R!ReadMiss, R!ReadExpired, R!GetHit,
                    R!PeekHit, R!Held
<1>3. ASSUME NEW k \in Keys, NEW v \in Values, NEW ttl \in TTLs, R!SetHeld(k, v, ttl)
      PROVE  bytes' \in Int
  <2>1. SizeOf[v] \in Nat /\ k \in DOMAIN items
    BY <1>3, SizeNat DEF R!SetHeld, R!Held
  <2>2. SizeOf[items[k].value] \in Nat
    BY <1>0, <2>1, SizeNat
  <2> QED
    BY <1>3, <2>1, <2>2 DEF R!SetHeld
<1>4. ASSUME NEW k \in Keys, NEW v \in Values, NEW ttl \in TTLs, R!SetNew(k, v, ttl)
      PROVE  bytes' \in Int
  <2>1. PICK gone : gone = R!Victims
    OBVIOUS
  <2>2. bytes' = bytes + SizeOf[v] -
                 (IF gone = {} THEN 0 ELSE SizeOf[items[CHOOSE y \in gone : TRUE].value])
    BY <1>4, <2>1 DEF R!SetNew
  <2>3. gone = {} \/ \E y \in DOMAIN items : gone = {y}
    BY <2>1, LRUVictims
  <2> QED
    BY <1>0, <2>2, <2>3, NewBytes
<1>5. R!Tick \/ R!Purge => bytes' \in Int
  BY DEF R!Tick, R!Purge
<1> QED
  BY <1>2, <1>3, <1>4, <1>5 DEF R!Next, R!Set

(* BytesStored stays a number through every step of the LFU cache.         *)
LEMMA LFUBytes ==
  ASSUME LFUInv, bytes \in Int, F!Next
  PROVE  bytes' \in Int
<1>0. \A k \in DOMAIN items : items[k].value \in Values
  BY LFUFacts
<1>1. ASSUME NEW k \in DOMAIN items, F!RemoveNode(k)
      PROVE  bytes' \in Int
  <2>1. SizeOf[items[k].value] \in Nat
    BY <1>0, SizeNat
  <2> QED
    BY <1>1, <2>1 DEF F!RemoveNode
<1>2. ASSUME NEW k \in Keys, F!Get(k) \/ F!Peek(k) \/ F!Delete(k)
      PROVE  bytes' \in Int
  BY <1>1, <1>2 DEF F!Get, F!Peek, F!Delete, F!ReadMiss, F!ReadExpired, F!GetHit,
                    F!PeekHit, F!Held
<1>3. ASSUME NEW k \in Keys, NEW v \in Values, NEW ttl \in TTLs, F!SetHeld(k, v, ttl)
      PROVE  bytes' \in Int
  <2>1. SizeOf[v] \in Nat /\ k \in DOMAIN items
    BY <1>3, SizeNat DEF F!SetHeld, F!Held
  <2>2. SizeOf[items[k].value] \in Nat
    BY <1>0, <2>1, SizeNat
  <2> QED
    BY <1>3, <2>1, <2>2 DEF F!SetHeld
<1>4. ASSUME NEW k \in Keys, NEW v \in Values, NEW ttl \in TTLs, F!SetNew(k, v, ttl)
      PROVE  bytes' \in Int
  <2>1. PICK gone : gone = F!evictOne(F!Cardinality(DOMAIN items) >= Capacity)
    OBVIOUS
  <2>2. bytes' = bytes + SizeOf[v] -
                 (IF gone = {} THEN 0 ELSE SizeOf[items[CHOOSE y \in gone : TRUE].value])
    BY <1>4, <2>1 DEF F!SetNew
  <2>3. gone = {} \/ \E y \in DOMAIN items : gone = {y}
    BY <2>1, LFUVictims
  <2> QED
    BY <1>0, <2>2, <2>3, NewBytes
<1>5. F!Tick \/ F!Purge => bytes' \in Int
  BY DEF F!Tick, F!Purge
<1> QED
  BY <1>2, <1>3, <1>4, <1>5 DEF F!Next, F!Set

(* A step of the LRU cache.                                                *)
LEMMA LRUBaseStep ==
  ASSUME BaseInv, policy = "lru", policy' = policy, LRUStep
  PROVE  BaseInv' /\ Promise!Next
<1>1. Core /\ LRUInv /\ R!Next /\ now \in Nat /\ ret \in Replies /\ bytes \in Int
  BY DEF BaseInv, Core, TypesOK, LRUStep
<1>2. LRUInv'
  BY <1>1, LRUNextInv
<1>3. Promise!Next
  BY <1>1, <1>2, LRURefines
<1>4. BaseEntries = items
  BY DEF BaseEntries, R!LiveEntries
<1>5. DOMAIN BaseEntries \subseteq Keys /\ \A x \in DOMAIN BaseEntries : BaseEntries[x].value \in Values
  BY <1>1, <1>4, LRUFacts DEF LRUInv
<1>6. now' \in Nat /\ ret' \in Replies
  BY <1>1, <1>3, <1>5, PromiseReplies
<1>7. bytes' \in Int
  BY <1>1, LRUBytes
<1>8. Core'
  BY <1>1, <1>6, <1>7, OthersStep DEF LRUStep
<1> QED
  BY <1>2, <1>3, <1>8 DEF BaseInv

(* A step of the LFU cache.                                                *)
LEMMA LFUBaseStep ==
  ASSUME BaseInv, policy = "lfu", policy' = policy, LFUStep
  PROVE  BaseInv' /\ Promise!Next
<1>1. Core /\ LFUInv /\ F!Next /\ now \in Nat /\ ret \in Replies /\ bytes \in Int
  BY DEF BaseInv, Core, TypesOK, LFUStep
<1>2. LFUInv'
  BY <1>1, LFUNextInv
<1>3. Promise!Next
  BY <1>1, <1>2, LFURefines
<1>4. /\ DOMAIN BaseEntries = DOMAIN items
      /\ \A x \in DOMAIN items :
           BaseEntries[x] = [value |-> items[x].value, expiresAt |-> items[x].expiresAt]
  BY LFUShows
<1>5. DOMAIN BaseEntries \subseteq Keys /\ \A x \in DOMAIN BaseEntries : BaseEntries[x].value \in Values
  BY <1>1, <1>4, LFUFacts
<1>6. now' \in Nat /\ ret' \in Replies
  BY <1>1, <1>3, <1>5, PromiseReplies
<1>7. bytes' \in Int
  BY <1>1, LFUBytes
<1>8. Core'
  BY <1>1, <1>6, <1>7, OthersStep DEF LFUStep
<1> QED
  BY <1>2, <1>3, <1>8 DEF BaseInv

(* A step of the ARC cache.                                                *)
LEMMA ARCBaseStep ==
  ASSUME BaseInv, policy = "arc", policy' = policy, ARCStep
  PROVE  BaseInv'
<1>1. Core'
  BY NextCore DEF BaseInv, ARCStep
<1> QED
  BY <1>1 DEF BaseInv

(* A step that changes nothing.                                            *)
LEMMA BaseStutter ==
  ASSUME BaseInv, UNCHANGED baseVars
  PROVE  BaseInv' /\ UNCHANGED Promise!vars
<1>1. /\ policy' = policy /\ items' = items /\ recency' = recency /\ list' = list
      /\ freqList' = freqList /\ minFreq' = minFreq /\ UNCHANGED vars
  BY DEF baseVars
<1>2. Core'
  BY <1>1, NextCore DEF BaseInv
<1>3. policy = "lru" => LRUInv'
  BY <1>1, LRUQuietStep DEF BaseInv
<1>4. policy = "lfu" => LFUInv'
  BY <1>1, LFUQuietStep DEF BaseInv
<1>5. BaseInv'
  BY <1>1, <1>2, <1>3, <1>4 DEF BaseInv
<1>6. BaseEntries' = BaseEntries /\ now' = now /\ ret' = ret
  BY <1>1 DEF BaseEntries, R!LiveEntries, F!LiveEntries, LiveEntries, IsIn, vars
<1> QED
  BY <1>5, <1>6 DEF Promise!vars

(* Every step keeps the invariant.                                         *)
LEMMA BaseStep == BaseInv /\ [BaseNext]_baseVars => BaseInv'
  BY LRUBaseStep, LFUBaseStep, ARCBaseStep, BaseStutter DEF BaseNext

---------------------------------------------------------------------------
(* Sums over a set, for BytesStored.  MapThenSumSet takes the elements in  *)
(* an order CHOOSE gives, through a function defined by recursion on the   *)
(* subsets; that there is one, and that the order does not matter, is      *)
(* shown by looking at a smallest set for which it fails.                  *)
Pick(s) == CHOOSE x \in s : TRUE

IsFold(f, w, U) ==
  f = [s \in SUBSET U |-> IF s = {} THEN 0 ELSE w[Pick(s)] + f[s \ {Pick(s)}]]

(* Taking an element out of a finite set.                                  *)
LEMMA OneLess ==
  ASSUME NEW U, IsFiniteSet(U), NEW s \in SUBSET U
  PROVE  /\ IsFiniteSet(s) /\ Cardinality(s) \in Nat /\ Cardinality(s) <= Cardinality(U)
         /\ Cardinality(s) = 0 <=> s = {}
         /\ \A x \in s : /\ Cardinality(s \ {x}) = Cardinality(s) - 1
                         /\ Cardinality(s) - 1 \in Nat
<1>1. IsFiniteSet(s) /\ Cardinality(s) \in Nat /\ Cardinality(s) <= Cardinality(U)
  BY FS_Subset, FS_CardinalityType
<1>2. Cardinality(s) = 0 <=> s = {}
  BY <1>1, FS_EmptySet
<1>3. \A x \in s : Cardinality(s \ {x}) = Cardinality(s) - 1
  BY <1>1, FS_RemoveElement
<1> QED
  BY <1>1, <1>2, <1>3

(* The function MapThenSumSet chooses exists.                              *)
LEMMA FoldExists ==
  ASSUME NEW w, NEW U, IsFiniteSet(U)
  PROVE  \E f : IsFold(f, w, U)
<1> DEFINE Small(n) == {t \in SUBSET U : Cardinality(t) <= n}
           Part(f, n) == f = [s \in Small(n) |-> IF s = {} THEN 0
                                                 ELSE w[Pick(s)] + f[s \ {Pick(s)}]]
<1>0. \A s \in SUBSET U : s # {} => Pick(s) \in s
  BY DEF Pick
<1>1. \A n \in Nat : \E f : Part(f, n)
  <2> SUFFICES ASSUME \E n \in Nat : ~\E f : Part(f, n) PROVE FALSE
    OBVIOUS
  <2>1. PICK T : T = {n \in Nat : ~\E f : Part(f, n)}
    OBVIOUS
  <2>2. PICK n \in T : \A m \in T : n <= m
    <3>1. T \in SUBSET Nat /\ T # {}
      BY <2>1
    <3> QED
      BY <3>1, LeastNumber
  <2>3. n \in Nat /\ ~\E f : Part(f, n)
    BY <2>1, <2>2
  <2>4. CASE n = 0
    <3>1. PICK g : g = [s \in Small(n) |-> 0]
      OBVIOUS
    <3>2. \A s \in Small(n) : s = {}
      BY <2>4, OneLess
    <3>3. Part(g, n)
      BY <3>1, <3>2
    <3> QED
      BY <2>3, <3>3
  <2>5. CASE n # 0
    <3>1. n - 1 \in Nat
      BY <2>3, <2>5
    <3>2. n - 1 \notin T
      BY <2>2, <2>3, <3>1
    <3>3. PICK f : Part(f, n - 1)
      BY <2>1, <3>1, <3>2
    <3>4. PICK g : g = [s \in Small(n) |-> IF s = {} THEN 0
                                            ELSE w[Pick(s)] + f[s \ {Pick(s)}]]
      OBVIOUS
    <3>5. \A s \in Small(n) : s # {} => s \ {Pick(s)} \in Small(n - 1)
      <4> SUFFICES ASSUME NEW s \in Small(n), s # {} PROVE s \ {Pick(s)} \in Small(n - 1)
        OBVIOUS
      <4>1. s \in SUBSET U /\ Cardinality(s) <= n /\ Pick(s) \in s
        BY <1>0
      <4>2. Cardinality(s \ {Pick(s)}) = Cardinality(s) - 1 /\ Cardinality(s) \in Nat
        BY <4>1, OneLess
      <4>3. Cardinality(s \ {Pick(s)}) <= n - 1
        BY <2>3, <4>1, <4>2
      <4> QED
        BY <4>1, <4>3
    <3>6. \A t \in Small(n - 1) : t \in Small(n) /\ g[t] = f[t]
      <4> SUFFICES ASSUME NEW t \in Small(n - 1) PROVE t \in Small(n) /\ g[t] = f[t]
        OBVIOUS
      <4>1. Cardinality(t) \in Nat /\ Cardinality(t) <= n - 1
        BY OneLess
      <4>2. Cardinality(t) <= n
        BY <2>3, <4>1
      <4>3. t \in Small(n)
        BY <4>2
      <4>4. g[t] = IF t = {} THEN 0 ELSE w[Pick(t)] + f[t \ {Pick(t)}]
        BY <3>4, <4>3
      <4>5. f[t] = IF t = {} THEN 0 ELSE w[Pick(t)] + f[t \ {Pick(t)}]
        BY <3>3
      <4> QED
        BY <4>3, <4>4, <4>5
    <3>7. \A s \in Small(n) : s # {} => f[s \ {Pick(s)}] = g[s \ {Pick(s)}]
      BY <3>5, <3>6
    <3> HIDE DEF Small
    <3>8. Part(g, n)
      BY <3>4, <3>7
    <3> QED
      BY <2>3, <3>8
  <2> QED
    BY <2>4, <2>5
<1>2. PICK n : n = Cardinality(U)
  OBVIOUS
<1>3. n \in Nat /\ Small(n) = SUBSET U
  BY <1>2, OneLess, FS_CardinalityType
<1>4. PICK f : Part(f, n)
  <2> HIDE DEF Part
  <2> QED
    BY <1>1, <1>3
<1>5. IsFold(f, w, U)
  BY <1>3, <1>4 DEF IsFold
<1> QED
  BY <1>5

(* The order in which elements are taken does not matter.                  *)
LEMMA FoldTakes ==
  ASSUME NEW f, NEW w, NEW U, IsFiniteSet(U), IsFold(f, w, U), \A x \in U : w[x] \in Nat,
         NEW s \in SUBSET U
  PROVE  f[s] \in Nat /\ \A x \in s : f[s] = w[x] + f[s \ {x}]
<1> DEFINE Good(t) == f[t] \in Nat /\ \A x \in t : f[t] = w[x] + f[t \ {x}]
<1>0. \A t \in SUBSET U : /\ t # {} => Pick(t) \in t
                          /\ f[t] = IF t = {} THEN 0 ELSE w[Pick(t)] + f[t \ {Pick(t)}]
  BY DEF IsFold, Pick
<1> SUFFICES ASSUME \E t \in SUBSET U : ~Good(t) PROVE FALSE
  OBVIOUS
<1>1. PICK T : T = {n \in Nat : \E t \in SUBSET U : Cardinality(t) = n /\ ~Good(t)}
  OBVIOUS
<1>2. PICK n \in T : \A m \in T : n <= m
  <2>1. T \in SUBSET Nat /\ T # {}
    <3> HIDE DEF Good
    <3> QED
      BY <1>1, OneLess
  <2> QED
    BY <2>1, LeastNumber
<1>3. PICK t \in SUBSET U : Cardinality(t) = n /\ ~Good(t)
  <2> HIDE DEF Good
  <2> QED
    BY <1>1, <1>2
<1>4. n \in Nat /\ Cardinality(t) = n
  BY <1>1, <1>2, <1>3
<1>5. \A x \in t : t \ {x} \in SUBSET U /\ Good(t \ {x})
  <2> SUFFICES ASSUME NEW x \in t PROVE t \ {x} \in SUBSET U /\ Good(t \ {x})
    OBVIOUS
  <2>1. t \ {x} \in SUBSET U /\ Cardinality(t \ {x}) = n - 1 /\ n - 1 \in Nat
    BY <1>4, OneLess
  <2>2. n - 1 \notin T
    BY <1>2, <1>4, <2>1
  <2> HIDE DEF Good
  <2> QED
    BY <1>1, <2>1, <2>2
<1>6. t # {}
  <2>1. ASSUME t = {} PROVE Good(t)
    <3>1. t \in SUBSET U /\ f[t] = 0
      BY <1>0, <2>1
    <3> QED
      BY <2>1, <3>1
  <2> HIDE DEF Good
  <2> QED
    BY <1>3, <2>1
<1>7. PICK y \in t : y = Pick(t) /\ f[t] = w[y] + f[t \ {y}]
  BY <1>0, <1>6
<1>8. f[t \ {y}] \in Nat /\ w[y] \in Nat
  BY <1>5, <1>7
<1>9. f[t] \in Nat
  BY <1>7, <1>8
<1>10. ASSUME NEW x \in t, x # y PROVE f[t] = w[x] + f[t \ {x}]
  <2>1. x \in t \ {y} /\ y \in t \ {x}
    BY <1>10
  <2>2. f[t \ {y}] = w[x] + f[(t \ {y}) \ {x}]
    BY <1>5, <2>1
  <2>3. f[t \ {x}] = w[y] + f[(t \ {x}) \ {y}]
    BY <1>5, <2>1
  <2>4. (t \ {y}) \ {x} = (t \ {x}) \ {y}
    OBVIOUS
  <2>5. PICK a, b, c, d : a = f[t \ {y}] /\ b = f[(t \ {y}) \ {x}] /\ c = w[x] /\ d = w[y]
    OBVIOUS
  <2>6. (t \ {y}) \ {x} \in SUBSET U /\ b \in Nat
    <3>1. \A z \in t \ {y} : f[(t \ {y}) \ {z}] \in Nat
      <4> SUFFICES ASSUME NEW z \in t \ {y} PROVE f[(t \ {y}) \ {z}] \in Nat
        OBVIOUS
      <4>1. PICK u : u = (t \ {y}) \ {z}
        OBVIOUS
      <4>2. u \in SUBSET U /\ t \ {y} \in SUBSET U
        BY <4>1
      <4>3. Cardinality(t \ {y}) = n - 1 /\ n - 1 \in Nat
        BY <1>4, <1>7, OneLess
      <4>4. Cardinality(u) = (n - 1) - 1 /\ (n - 1) - 1 \in Nat
        BY <4>1, <4>2, <4>3, OneLess
      <4>5. (n - 1) - 1 \notin T
        BY <1>2, <1>4, <4>4
      <4>6. Good(u)
        <5> HIDE DEF Good
        <5> QED
          BY <1>1, <4>2, <4>4, <4>5
      <4> QED
        BY <4>1, <4>6
    <3> QED
      BY <2>1, <2>5, <3>1
  <2>7. c \in Nat /\ d \in Nat
    BY <1>10, <2>5
  <2>8. f[t] = d + a /\ a = c + b /\ f[t \ {x}] = d + b
    BY <1>7, <2>2, <2>3, <2>4, <2>5
  <2>9. f[t] = c + f[t \ {x}]
    BY <2>6, <2>7, <2>8
  <2> QED
    BY <2>5, <2>9
<1> QED
  BY <1>3, <1>7, <1>9, <1>10

(* Nor does the set the function was defined over, or the weight of what   *)
(* is not summed.                                                          *)
LEMMA FoldSame ==
  ASSUME NEW f, NEW w, NEW U, IsFiniteSet(U), IsFold(f, w, U),
         NEW g, NEW v, NEW V, IsFold(g, v, V), V \subseteq U, \A x \in V : w[x] = v[x]
  PROVE  f[V] = g[V]
<1>0. \A t \in SUBSET V : /\ t # {} => Pick(t) \in t
                          /\ f[t] = IF t = {} THEN 0 ELSE w[Pick(t)] + f[t \ {Pick(t)}]
                          /\ g[t] = IF t = {} THEN 0 ELSE v[Pick(t)] + g[t \ {Pick(t)}]
  BY DEF IsFold, Pick
<1> SUFFICES ASSUME \E t \in SUBSET V : f[t] # g[t] PROVE FALSE
  OBVIOUS
<1>1. PICK T : T = {n \in Nat : \E t \in SUBSET V : Cardinality(t) = n /\ f[t] # g[t]}
  OBVIOUS
<1>2. PICK n \in T : \A m \in T : n <= m
  <2>1. T \in SUBSET Nat /\ T # {}
    BY <1>1, OneLess
  <2> QED
    BY <2>1, LeastNumber
<1>3. PICK t \in SUBSET V : Cardinality(t) = n /\ f[t] # g[t]
  BY <1>1, <1>2
<1>4. n \in Nat /\ t \in SUBSET U
  BY <1>1, <1>2, <1>3
<1>5. t # {} /\ Pick(t) \in t
  BY <1>0, <1>3
<1>6. PICK u : u = t \ {Pick(t)}
  OBVIOUS
<1>7. u \in SUBSET V /\ Cardinality(u) = n - 1 /\ n - 1 \in Nat
  BY <1>3, <1>4, <1>5, <1>6, OneLess
<1>8. f[u] = g[u]
  <2>1. n - 1 \notin T
    BY <1>2, <1>4, <1>7
  <2> QED
    BY <1>1, <1>7, <2>1
<1>9. w[Pick(t)] = v[Pick(t)]
  BY <1>3, <1>5
<1> QED
  BY <1>0, <1>3, <1>5, <1>6, <1>8, <1>9

(* The bytes of the values that a map of nodes or entries holds for D.     *)
Bytes(m, D) == MapThenSumSet(LAMBDA k : SizeOf[m[k].value], D)

Sized(m, D) == IsFiniteSet(D) /\ \A k \in D : m[k].value \in Values

(* Bytes is such a fold.                                                   *)
LEMMA BytesFold ==
  ASSUME NEW m, NEW D, IsFiniteSet(D), NEW w, w = [k \in D |-> SizeOf[m[k].value]]
  PROVE  \E f : IsFold(f, w, D) /\ Bytes(m, D) = f[D]
<1> DEFINE P(f) == f = [s \in SUBSET D |->
                          IF s = {} THEN 0
                          ELSE SizeOf[m[CHOOSE x \in s : TRUE].value]
                                 + f[s \ {CHOOSE x \in s : TRUE}]]
<1>1. Bytes(m, D) = (CHOOSE f : P(f))[D]
  BY DEF Bytes, MapThenSumSet, MapThenFoldSet
<1>2. \A s \in SUBSET D : s # {} => w[Pick(s)] = SizeOf[m[CHOOSE x \in s : TRUE].value]
  BY DEF Pick
<1>3. ASSUME NEW f PROVE P(f) <=> IsFold(f, w, D)
  <2>1. \A s \in SUBSET D :
          (IF s = {} THEN 0 ELSE w[Pick(s)] + f[s \ {Pick(s)}]) =
          (IF s = {} THEN 0 ELSE SizeOf[m[CHOOSE x \in s : TRUE].value]
                                   + f[s \ {CHOOSE x \in s : TRUE}])
    BY <1>2 DEF Pick
  <2> QED
    BY <2>1 DEF IsFold
<1>4. \E f : P(f)
  <2>1. PICK f : IsFold(f, w, D)
    BY FoldExists
  <2>2. P(f)
    <3> HIDE DEF P
    <3> QED
      BY <1>3, <2>1
  <2> HIDE DEF P
  <2> QED
    BY <2>2
<1>5. PICK f : f = CHOOSE g : P(g)
  OBVIOUS
<1>6. P(f)
  <2> HIDE DEF P
  <2> QED
    BY <1>4, <1>5
<1>7. IsFold(f, w, D)
  <2> HIDE DEF P
  <2> QED
    BY <1>3, <1>6
<1> QED
  BY <1>1, <1>5, <1>7

(* Nothing weighs nothing.                                                 *)
LEMMA BytesNone ==
  ASSUME NEW m
  PROVE  Bytes(m, {}) = 0
<1>1. PICK w : w = [k \in {} |-> SizeOf[m[k].value]]
  OBVIOUS
<1>2. PICK f : IsFold(f, w, {}) /\ Bytes(m, {}) = f[{}]
  BY <1>1, FS_EmptySet, BytesFold
<1>3. f[{}] = 0
  BY <1>2 DEF IsFold
<1> QED
  BY <1>2, <1>3

(* Only the values of the entries counted matter.                          *)
LEMMA BytesSame ==
  ASSUME NEW m, NEW n, NEW D, IsFiniteSet(D), \A k \in D : m[k].value = n[k].value
  PROVE  Bytes(m, D) = Bytes(n, D)
<1>1. PICK w, v : w = [k \in D |-> SizeOf[m[k].value]] /\ v = [k \in D |-> SizeOf[n[k].value]]
  OBVIOUS
<1>2. PICK f : IsFold(f, w, D) /\ Bytes(m, D) = f[D]
  BY <1>1, BytesFold
<1>3. PICK g : IsFold(g, v, D) /\ Bytes(n, D) = g[D]
  BY <1>1, BytesFold
<1>4. \A x \in D : w[x] = v[x]
  BY <1>1
<1>5. f[D] = g[D]
  BY <1>2, <1>3, <1>4, FoldSame
<1> QED
  BY <1>2, <1>3, <1>5

(* One entry and the others.                                               *)
LEMMA BytesTake ==
  ASSUME NEW m, NEW D, Sized(m, D)
  PROVE  /\ Bytes(m, D) \in Nat
         /\ \A k \in D : Bytes(m, D) = SizeOf[m[k].value] + Bytes(m, D \ {k})
<1>1. PICK w : w = [k \in D |-> SizeOf[m[k].value]]
  OBVIOUS
<1>2. IsFiniteSet(D) /\ \A x \in D : w[x] \in Nat
  BY <1>1, ValuesAssumption DEF Sized
<1>3. PICK f : IsFold(f, w, D) /\ Bytes(m, D) = f[D]
  BY <1>1, <1>2, BytesFold
<1>4. f[D] \in Nat /\ \A x \in D : f[D] = w[x] + f[D \ {x}]
  BY <1>2, <1>3, FoldTakes
<1>5. ASSUME NEW k \in D
      PROVE  Bytes(m, D) = SizeOf[m[k].value] + Bytes(m, D \ {k})
  <2>1. PICK E, v : E = D \ {k} /\ v = [x \in E |-> SizeOf[m[x].value]]
    OBVIOUS
  <2>2. IsFiniteSet(E) /\ E \subseteq D
    BY <1>2, <2>1, FS_Subset
  <2>3. PICK g : IsFold(g, v, E) /\ Bytes(m, E) = g[E]
    BY <2>1, <2>2, BytesFold
  <2>4. \A x \in E : w[x] = v[x]
    BY <1>1, <2>1, <2>2
  <2>5. f[E] = g[E]
    BY <1>2, <1>3, <2>2, <2>3, <2>4, FoldSame
  <2>6. w[k] = SizeOf[m[k].value]
    BY <1>1
  <2> QED
    BY <1>3, <1>4, <2>1, <2>3, <2>5, <2>6
<1> QED
  BY <1>3, <1>4, <1>5

(* An entry leaves.                                                        *)
LEMMA BytesLess ==
  ASSUME NEW m, NEW D, Sized(m, D), NEW k \in D, NEW n,
         \A x \in D \ {k} : n[x].value = m[x].value
  PROVE  Bytes(n, D \ {k}) = Bytes(m, D) - SizeOf[m[k].value]
<1>1. PICK E : E = D \ {k}
  OBVIOUS
<1>2. Sized(m, E) /\ IsFiniteSet(E)
  BY <1>1, FS_Subset DEF Sized
<1>3. Bytes(n, E) = Bytes(m, E)
  BY <1>1, <1>2, BytesSame
<1>4. Bytes(m, D) = SizeOf[m[k].value] + Bytes(m, E)
  BY <1>1, BytesTake
<1>5. Bytes(m, E) \in Nat /\ SizeOf[m[k].value] \in Nat
  BY <1>2, BytesTake, SizeNat DEF Sized
<1> QED
  BY <1>1, <1>3, <1>4, <1>5

(* A value is set for k, new or held.                                      *)
LEMMA BytesMore ==
  ASSUME NEW m, NEW D, Sized(m, D), NEW k, NEW n, NEW v \in Values, n[k].value = v,
         \A x \in D \ {k} : n[x].value = m[x].value
  PROVE  Bytes(n, D \cup {k}) =
           Bytes(m, D) + SizeOf[v] - (IF k \in D THEN SizeOf[m[k].value] ELSE 0)
<1>1. PICK E, G : E = D \ {k} /\ G = D \cup {k}
  OBVIOUS
<1>2. Sized(n, G) /\ Sized(m, E) /\ IsFiniteSet(E)
  <2>1. IsFiniteSet(G)
    BY <1>1, FS_AddElement DEF Sized
  <2>2. IsFiniteSet(E)
    BY <1>1, FS_Subset DEF Sized
  <2> QED
    BY <1>1, <2>1, <2>2 DEF Sized
<1>3. G \ {k} = E /\ k \in G
  BY <1>1
<1>4. Bytes(n, G) = SizeOf[v] + Bytes(n, E)
  BY <1>2, <1>3, BytesTake
<1>5. Bytes(n, E) = Bytes(m, E)
  BY <1>1, <1>2, BytesSame
<1>6. Bytes(m, E) \in Nat /\ SizeOf[v] \in Nat
  BY <1>2, BytesTake, SizeNat
<1>7. CASE k \in D
  <2>1. Bytes(m, D) = SizeOf[m[k].value] + Bytes(m, E)
    BY <1>1, <1>7, BytesTake
  <2>2. SizeOf[m[k].value] \in Nat
    BY <1>7, SizeNat DEF Sized
  <2> QED
    BY <1>1, <1>4, <1>5, <1>6, <1>7, <2>1, <2>2
<1>8. CASE k \notin D
  <2>1. E = D
    BY <1>1, <1>8
  <2>2. PICK a, b : a = Bytes(m, D) /\ b = SizeOf[v]
    OBVIOUS
  <2>3. a \in Nat /\ b \in Nat
    BY <1>6, <2>1, <2>2
  <2>4. Bytes(n, G) = b + a
    BY <1>4, <1>5, <2>1, <2>2
  <2>5. Bytes(n, G) = a + b - 0
    BY <2>3, <2>4
  <2> QED
    BY <1>1, <1>8, <2>2, <2>5
<1> QED
  BY <1>7, <1>8

(* A Set takes out gone, one entry at most, and sets a new key.            *)
LEMMA BytesReplace ==
  ASSUME NEW m, NEW D, Sized(m, D), NEW k, k \notin D, NEW n, NEW v \in Values, n[k].value = v,
         NEW gone, gone = {} \/ \E y \in D : gone = {y},
         \A x \in D \ gone : n[x].value = m[x].value
  PROVE  Bytes(n, (D \ gone) \cup {k}) =
           Bytes(m, D) + SizeOf[v] -
             (IF gone = {} THEN 0 ELSE SizeOf[m[CHOOSE y \in gone : TRUE].value])
<1>1. CASE gone = {}
  <2>1. D \ gone = D
    BY <1>1
  <2>2. \A x \in D \ {k} : n[x].value = m[x].value
    BY <1>1
  <2>3. Bytes(n, D \cup {k}) = Bytes(m, D) + SizeOf[v] - (IF k \in D THEN SizeOf[m[k].value] ELSE 0)
    BY <2>2, BytesMore
  <2> QED
    BY <1>1, <2>1, <2>3
<1>2. ASSUME NEW y \in D, gone = {y}
      PROVE  Bytes(n, (D \ gone) \cup {k}) =
               Bytes(m, D) + SizeOf[v] - SizeOf[m[CHOOSE z \in gone : TRUE].value]
  <2>1. (CHOOSE z \in gone : TRUE) = y
    BY <1>2
  <2>2. PICK E : E = D \ {y}
    OBVIOUS
  <2>3. Sized(m, E)
    BY <2>2, FS_Subset DEF Sized
  <2>4. \A x \in E \ {k} : n[x].value = m[x].value
    BY <1>2, <2>2
  <2>5. Bytes(n, E \cup {k}) = Bytes(m, E) + SizeOf[v] - (IF k \in E THEN SizeOf[m[k].value] ELSE 0)
    BY <2>3, <2>4, BytesMore
  <2>6. Bytes(m, E) = Bytes(m, D) - SizeOf[m[y].value]
    BY <2>2, BytesLess
  <2>7. SizeOf[v] \in Nat /\ SizeOf[m[y].value] \in Nat /\ Bytes(m, D) \in Nat
    BY SizeNat, BytesTake DEF Sized
  <2>8. k \notin E
    BY <2>2
  <2> QED
    BY <1>2, <2>1, <2>2, <2>5, <2>6, <2>7, <2>8
<1> QED
  BY <1>1, <1>2

---------------------------------------------------------------------------
(* BytesStored of the LRU cache.                                           *)
LEMMA LRUCounts ==
  ASSUME LRUInv, bytes = Bytes(items, DOMAIN items), R!Next
  PROVE  bytes' = Bytes(items', DOMAIN items')
<1>0. PICK m, D, n, E : m = items /\ D = DOMAIN items /\ n = items' /\ E = DOMAIN items'
  OBVIOUS
<1>1. Sized(m, D) /\ bytes = Bytes(m, D)
  BY <1>0, LRUFacts DEF Sized
<1>2. ASSUME NEW k \in DOMAIN items, R!RemoveEntry(k)
      PROVE  bytes' = Bytes(n, E)
  <2>1. n = [x \in D \ {k} |-> m[x]] /\ bytes' = bytes - SizeOf[m[k].value]
    BY <1>0, <1>2 DEF R!RemoveEntry, R!Without
  <2>2. E = D \ {k} /\ k \in D /\ \A x \in D \ {k} : n[x].value = m[x].value
    BY <1>0, <2>1
  <2>3. Bytes(n, D \ {k}) = Bytes(m, D) - SizeOf[m[k].value]
    BY <1>1, <2>2, BytesLess
  <2> QED
    BY <1>1, <2>1, <2>2, <2>3
<1>3. ASSUME items' = items, bytes' = bytes
      PROVE  bytes' = Bytes(n, E)
  BY <1>0, <1>1, <1>3
<1>4. ASSUME NEW k \in Keys, R!Get(k) \/ R!Peek(k) \/ R!Delete(k)
      PROVE  bytes' = Bytes(n, E)
  BY <1>2, <1>3, <1>4 DEF R!Get, R!Peek, R!Delete, R!ReadMiss, R!ReadExpired, R!GetHit,
                         R!PeekHit, R!Held
<1>5. ASSUME NEW k \in Keys, NEW v \in Values, NEW ttl \in TTLs, R!SetHeld(k, v, ttl)
      PROVE  bytes' = Bytes(n, E)
  <2>1. PICK e : e = R!Node(v, R!ExpiryOf(ttl))
    OBVIOUS
  <2>2. /\ k \in D /\ n = [m EXCEPT ![k] = e] /\ e.value = v
        /\ bytes' = bytes + SizeOf[v] - SizeOf[m[k].value]
    BY <1>0, <1>5, <2>1 DEF R!SetHeld, R!Held, R!Node
  <2>3. /\ E = D \cup {k} /\ n[k].value = v
        /\ \A x \in D \ {k} : n[x].value = m[x].value
    BY <1>0, <2>2
  <2>4. Bytes(n, D \cup {k}) =
          Bytes(m, D) + SizeOf[v] - (IF k \in D THEN SizeOf[m[k].value] ELSE 0)
    BY <1>1, <2>3, BytesMore
  <2> QED
    BY <1>1, <2>2, <2>3, <2>4
<1>6. ASSUME NEW k \in Keys, NEW v \in Values, NEW ttl \in TTLs, R!SetNew(k, v, ttl)
      PROVE  bytes' = Bytes(n, E)
  <2>1. PICK gone, e : gone = R!Victims /\ e = R!Node(v, R!ExpiryOf(ttl))
    OBVIOUS
  <2>2. /\ k \notin D /\ e.value = v
        /\ n = [y \in (D \ gone) \cup {k} |-> IF y = k THEN e ELSE m[y]]
        /\ bytes' = bytes + SizeOf[v] -
                      (IF gone = {} THEN 0 ELSE SizeOf[m[CHOOSE y \in gone : TRUE].value])
    BY <1>0, <1>6, <2>1 DEF R!SetNew, R!Held, R!Node
  <2>3. gone = {} \/ \E y \in D : gone = {y}
    BY <1>0, <2>1, LRUVictims
  <2>4. /\ E = (D \ gone) \cup {k} /\ n[k].value = v
        /\ \A x \in D \ gone : n[x].value = m[x].value
    BY <1>0, <2>2
  <2>5. Bytes(n, (D \ gone) \cup {k}) =
          Bytes(m, D) + SizeOf[v] -
            (IF gone = {} THEN 0 ELSE SizeOf[m[CHOOSE y \in gone : TRUE].value])
    BY <1>1, <2>2, <2>3, <2>4, BytesReplace
  <2> QED
    BY <1>1, <2>2, <2>4, <2>5
<1>7. CASE R!Purge
  <2>1. bytes' = 0 /\ E = {}
    BY <1>0, <1>7 DEF R!Purge, R!EmptyMap
  <2> QED
    BY <1>0, <2>1, BytesNone
<1>8. CASE R!Tick
  BY <1>0, <1>3, <1>8 DEF R!Tick
<1> QED
  BY <1>0, <1>4, <1>5, <1>6, <1>7, <1>8 DEF R!Next, R!Set

(* BytesStored of the LFU cache.                                           *)
LEMMA LFUCounts ==
  ASSUME LFUInv, bytes = Bytes(items, DOMAIN items), F!Next
  PROVE  bytes' = Bytes(items', DOMAIN items')
<1>0. PICK m, D, n, E : m = items /\ D = DOMAIN items /\ n = items' /\ E = DOMAIN items'
  OBVIOUS
<1>1. Sized(m, D) /\ bytes = Bytes(m, D) /\ IsFiniteSet(D)
  BY <1>0, LFUFacts DEF Sized
<1>2. ASSUME NEW k \in DOMAIN items, F!RemoveNode(k)
      PROVE  bytes' = Bytes(n, E)
  <2>1. n = [x \in D \ {k} |-> m[x]] /\ bytes' = bytes - SizeOf[m[k].value]
    BY <1>0, <1>2 DEF F!RemoveNode, F!Drop
  <2>2. E = D \ {k} /\ k \in D /\ \A x \in D \ {k} : n[x].value = m[x].value
    BY <1>0, <2>1
  <2>3. Bytes(n, D \ {k}) = Bytes(m, D) - SizeOf[m[k].value]
    BY <1>1, <2>2, BytesLess
  <2> QED
    BY <1>1, <2>1, <2>2, <2>3
<1>3. ASSUME items' = items, bytes' = bytes
      PROVE  bytes' = Bytes(n, E)
  BY <1>0, <1>1, <1>3
<1>4. ASSUME NEW k \in Keys, F!GetHit(k)
      PROVE  bytes' = Bytes(n, E)
  <2>1. PICK e : e = F!Node(m[k].value, m[k].freq + 1, m[k].expiresAt)
    OBVIOUS
  <2>2. /\ k \in D /\ n = [m EXCEPT ![k] = e] /\ e.value = m[k].value /\ bytes' = bytes
    BY <1>0, <1>4, <2>1 DEF F!GetHit, F!Held, F!Node
  <2>3. E = D /\ \A x \in D : m[x].value = n[x].value
    BY <1>0, <2>2
  <2>4. Bytes(m, D) = Bytes(n, D)
    BY <1>1, <2>3, BytesSame
  <2> QED
    BY <1>1, <2>2, <2>3, <2>4
<1>5. ASSUME NEW k \in Keys, F!Get(k) \/ F!Peek(k) \/ F!Delete(k)
      PROVE  bytes' = Bytes(n, E)
  <2>1. ASSUME NEW op, NEW counted, F!ReadMiss(op, k, counted) \/ F!ReadExpired(op, k, counted)
        PROVE  bytes' = Bytes(n, E)
    BY <1>2, <1>3, <2>1 DEF F!ReadMiss, F!ReadExpired, F!Held
  <2>2. F!PeekHit(k) => bytes' = Bytes(n, E)
    BY <1>3 DEF F!PeekHit
  <2>3. F!Delete(k) => bytes' = Bytes(n, E)
    BY <1>2, <1>3 DEF F!Delete, F!Held
  <2> QED
    BY <1>4, <1>5, <2>1, <2>2, <2>3 DEF F!Get, F!Peek
<1>6. ASSUME NEW k \in Keys, NEW v \in Values, NEW ttl \in TTLs, F!SetHeld(k, v, ttl)
      PROVE  bytes' = Bytes(n, E)
  <2>1. PICK e : e = F!Node(v, m[k].freq + 1, F!ExpiryOf(ttl))
    OBVIOUS
  <2>2. /\ k \in D /\ n = [m EXCEPT ![k] = e] /\ e.value = v
        /\ bytes' = bytes + SizeOf[v] - SizeOf[m[k].value]
    BY <1>0, <1>6, <2>1 DEF F!SetHeld, F!Held, F!Node
  <2>3. /\ E = D \cup {k} /\ n[k].value = v
        /\ \A x \in D \ {k} : n[x].value = m[x].value
    BY <1>0, <2>2
  <2>4. Bytes(n, D \cup {k}) =
          Bytes(m, D) + SizeOf[v] - (IF k \in D THEN SizeOf[m[k].value] ELSE 0)
    BY <1>1, <2>3, BytesMore
  <2> QED
    BY <1>1, <2>2, <2>3, <2>4
<1>7. ASSUME NEW k \in Keys, NEW v \in Values, NEW ttl \in TTLs, F!SetNew(k, v, ttl)
      PROVE  bytes' = Bytes(n, E)
  <2>1. PICK gone, kept, e : /\ gone = F!evictOne(F!Cardinality(DOMAIN items) >= Capacity)
                             /\ kept = [x \in DOMAIN items \ gone |-> items[x]]
                             /\ e = F!Node(v, 1, F!ExpiryOf(ttl))
    OBVIOUS
  <2>2. /\ k \notin D /\ e.value = v /\ n = F!Put(kept, k, e)
        /\ bytes' = bytes + SizeOf[v] -
                      (IF gone = {} THEN 0 ELSE SizeOf[m[CHOOSE y \in gone : TRUE].value])
    BY <1>0, <1>7, <2>1 DEF F!SetNew, F!Held, F!Node
  <2>3. gone = {} \/ \E y \in D : gone = {y}
    BY <1>0, <2>1, LFUVictims
  <2>4. /\ E = (D \ gone) \cup {k} /\ n[k].value = v
        /\ \A x \in D \ gone : n[x].value = m[x].value
    BY <1>0, <2>1, <2>2 DEF F!Put
  <2>5. Bytes(n, (D \ gone) \cup {k}) =
          Bytes(m, D) + SizeOf[v] -
            (IF gone = {} THEN 0 ELSE SizeOf[m[CHOOSE y \in gone : TRUE].value])
    BY <1>1, <2>2, <2>3, <2>4, BytesReplace
  <2> QED
    BY <1>1, <2>2, <2>4, <2>5
<1>8. CASE F!Purge
  <2>1. bytes' = 0 /\ E = {}
    BY <1>0, <1>8 DEF F!Purge, F!EmptyMap
  <2> QED
    BY <1>0, <2>1, BytesNone
<1>9. CASE F!Tick
  BY <1>0, <1>3, <1>9 DEF F!Tick
<1> QED
  BY <1>0, <1>5, <1>6, <1>7, <1>8, <1>9 DEF F!Next, F!Set

(* The live nodes of the ARC cache are finitely many, and have values.     *)
LEMMA HeldSized ==
  ASSUME Core
  PROVE  Sized(itemMap, HeldIn(itemMap))
<1>1. PICK t1, t2 : t1 = lists["T1"] /\ t2 = lists["T2"]
  OBVIOUS
<1>2. t1 \in Seq(Keys) /\ t2 \in Seq(Keys)
  <2>1. lists \in [ListNames -> Seq(Keys)] /\ "T1" \in ListNames /\ "T2" \in ListNames
    BY DEF Core, WF, ListNames
  <2> QED
    BY <1>1, <2>1
<1>3. HeldIn(itemMap) \subseteq ToSet(t1) \cup ToSet(t2)
  <2>1. \A x \in Keys : (x \in ToSet(t1) <=> x \in DOMAIN itemMap /\ itemMap[x].list = "T1")
                     /\ (x \in ToSet(t2) <=> x \in DOMAIN itemMap /\ itemMap[x].list = "T2")
    BY <1>1 DEF Core, WF, Matches, ListNames
  <2>2. DOMAIN itemMap \subseteq Keys
    BY DEF Core, WF, MapOK
  <2> QED
    BY <2>1, <2>2 DEF HeldIn, LiveLists
<1>4. PICK A, B : A = ToSet(t1) /\ B = ToSet(t2)
  OBVIOUS
<1>5. IsFiniteSet(A) /\ IsFiniteSet(B)
  BY <1>2, <1>4, ListIsFinite
<1>6. IsFiniteSet(HeldIn(itemMap))
  <2>1. IsFiniteSet(A \cup B)
    BY <1>5, FS_Union
  <2> QED
    BY <1>3, <1>4, <2>1, FS_Subset
<1>7. \A x \in HeldIn(itemMap) : itemMap[x].value \in Values
  BY NodeFacts DEF HeldIn
<1> QED
  BY <1>6, <1>7 DEF Sized

(* BytesStored counts the live nodes of the ARC cache.                     *)
ArcCounts == bytes = Bytes(itemMap, HeldIn(itemMap))

(* A live node weighs what its value does.                                 *)
LEMMA LiveLen ==
  ASSUME Core, NEW x \in HeldIn(itemMap)
  PROVE  len(itemMap[x].value) = SizeOf[itemMap[x].value]
<1>1. itemMap[x].value \in Values
  BY NodeFacts DEF HeldIn
<1> QED
  BY <1>1, ValuesAssumption DEF len

(* A Set of a key that is not live, replacing gone.                        *)
LEMMA SetCounts ==
  ASSUME Core, ArcCounts, NEW k, k \notin HeldIn(itemMap), NEW v \in Values,
         NEW gone, gone = {} \/ \E x \in HeldIn(itemMap) : gone = {x},
         HeldIn(itemMap') = (HeldIn(itemMap) \ gone) \cup {k}, itemMap'[k].value = v,
         \A x \in HeldIn(itemMap) \ (gone \cup {k}) : itemMap'[x] = itemMap[x],
         bytes' = bytes + SizeOf[v] - BytesOf(gone)
  PROVE  ArcCounts'
<1>1. PICK m, D, n : m = itemMap /\ D = HeldIn(itemMap) /\ n = itemMap'
  OBVIOUS
<1>2. Sized(m, D) /\ bytes = Bytes(m, D)
  BY <1>1, HeldSized DEF ArcCounts
<1>3. BytesOf(gone) = IF gone = {} THEN 0 ELSE SizeOf[m[CHOOSE y \in gone : TRUE].value]
  <2>1. CASE gone = {}
    BY <2>1 DEF BytesOf
  <2>2. ASSUME NEW x \in HeldIn(itemMap), gone = {x}
        PROVE  BytesOf(gone) = SizeOf[m[CHOOSE y \in gone : TRUE].value]
    <3>1. (CHOOSE y \in gone : TRUE) = x
      BY <2>2
    <3>2. len(itemMap[x].value) = SizeOf[itemMap[x].value]
      BY LiveLen
    <3> QED
      BY <1>1, <2>2, <3>1, <3>2 DEF BytesOf
  <2> QED
    BY <2>1, <2>2
<1>4. \A x \in D \ gone : n[x].value = m[x].value
  BY <1>1
<1>5. k \notin D /\ n[k].value = v /\ (gone = {} \/ \E y \in D : gone = {y})
  BY <1>1
<1>6. Bytes(n, (D \ gone) \cup {k}) =
        Bytes(m, D) + SizeOf[v] -
          (IF gone = {} THEN 0 ELSE SizeOf[m[CHOOSE y \in gone : TRUE].value])
  BY <1>2, <1>4, <1>5, BytesReplace
<1>7. bytes' = Bytes(itemMap', HeldIn(itemMap'))
  BY <1>1, <1>2, <1>3, <1>6
<1> QED
  BY <1>7 DEF ArcCounts

(* Case 4 of Set, once the victim is known.                                *)
LEMMA AddCounts ==
  ASSUME Core, ArcCounts, NEW k \in Keys, NEW v \in Values, NEW ttl \in TTLs, k \notin DOMAIN itemMap,
         NEW l, NEW m, NEW gone, gone = {} \/ \E x \in HeldIn(itemMap) : gone = {x},
         HeldIn(m) = HeldIn(itemMap) \ gone, \A x \in HeldIn(m) : m[x] = itemMap[x],
         AddNew(k, v, ttl, l, m, gone)
  PROVE  ArcCounts'
<1>1. PICK n : n = Node("T1", v, ExpiryOf(ttl))
  OBVIOUS
<1>2. n.value = v /\ n.list \in LiveLists
  BY <1>1 DEF Node, LiveLists
<1>3. itemMap' = Put(m, k, n) /\ bytes' = bytes + SizeOf[v] - BytesOf(gone)
  BY <1>1 DEF AddNew
<1>4. /\ DOMAIN itemMap' = DOMAIN m \cup {k} /\ itemMap'[k] = n
      /\ \A x \in DOMAIN m \ {k} : itemMap'[x] = m[x]
  BY <1>3 DEF Put
<1>5. k \notin HeldIn(itemMap)
  BY DEF HeldIn
<1>6. HeldIn(itemMap') = (HeldIn(itemMap) \ gone) \cup {k}
  <2>1. HeldIn(itemMap') = HeldIn(m) \cup {k}
    BY <1>2, <1>4 DEF HeldIn
  <2> QED
    BY <2>1
<1>7. \A x \in HeldIn(itemMap) \ (gone \cup {k}) : itemMap'[x] = itemMap[x]
  BY <1>4 DEF HeldIn
<1>8. itemMap'[k].value = v
  BY <1>2, <1>4
<1> QED
  BY <1>3, <1>5, <1>6, <1>7, <1>8, SetCounts

(* Case 4 of Set, with replace making room.                                *)
LEMMA ReplaceThenAddCounts ==
  ASSUME Core, ArcCounts,
         NEW k \in Keys, NEW v \in Values, NEW ttl \in TTLs, k \notin DOMAIN itemMap,
         NEW l, NEW m, WF(l, m), HeldIn(m) = HeldIn(itemMap),
         \A x \in DOMAIN m : m[x] = itemMap[x],
         NEW r, r = Replace(l, m, p, FALSE),
         AddNew(k, v, ttl, r.lists, r.map, r.gone)
  PROVE  ArcCounts'
<1>1. /\ r.gone = {} \/ \E x \in HeldIn(m) : r.gone = {x}
      /\ HeldIn(r.map) = HeldIn(m) \ r.gone
      /\ \A x \in DOMAIN m \ r.gone : r.map[x] = m[x]
  <2> DEFINE o(b) == Replace(l, m, p, b)
             P(b) == /\ o(b).gone = {} \/ \E x \in HeldIn(m) : o(b).gone = {x}
                     /\ HeldIn(o(b).map) = HeldIn(m) \ o(b).gone
                     /\ \A x \in DOMAIN m \ o(b).gone : o(b).map[x] = m[x]
  <2>1. \A b \in BOOLEAN : P(b)
    BY ReplaceHeld
  <2>2. P(FALSE)
    <3> HIDE DEF P
    <3> QED
      BY <2>1
  <2> QED
    BY <2>2
<1>2. \A x \in HeldIn(r.map) : r.map[x] = itemMap[x]
  BY <1>1 DEF HeldIn
<1>3. HeldIn(r.map) = HeldIn(itemMap) \ r.gone
  BY <1>1
<1>4. PICK rl, rm, gone : rl = r.lists /\ rm = r.map /\ gone = r.gone
  OBVIOUS
<1>5. gone = {} \/ \E x \in HeldIn(itemMap) : gone = {x}
  BY <1>1, <1>4
<1>6. /\ HeldIn(rm) = HeldIn(itemMap) \ gone /\ \A x \in HeldIn(rm) : rm[x] = itemMap[x]
      /\ AddNew(k, v, ttl, rl, rm, gone)
  BY <1>2, <1>3, <1>4
<1> QED
  BY ONLY Core, ArcCounts, k \in Keys, v \in Values, ttl \in TTLs, k \notin DOMAIN itemMap,
          <1>5, <1>6, AddCounts

(* Case 4 of Set in its four forms.                                        *)
LEMMA NewCounts ==
  ASSUME Core, ArcCounts, NEW k \in Keys, NEW v \in Values, NEW ttl \in TTLs,
         \/ NewDropsGhost1(k, v, ttl) \/ NewDropsT1(k, v, ttl)
         \/ NewReplaces(k, v, ttl) \/ NewFits(k, v, ttl)
  PROVE  ArcCounts'
<1>1. CASE NewDropsGhost1(k, v, ttl)
  <2>1. PICK old, l, m, r : /\ old = Last(lists["B1"])
                            /\ l = [lists EXCEPT !["B1"] = Front(@)]
                            /\ m = Drop(itemMap, old)
                            /\ r = Replace(l, m, p, FALSE)
    OBVIOUS
  <2>2. /\ k \notin DOMAIN itemMap /\ FirstFull /\ Size(lists, "T1") < Capacity
        /\ AddNew(k, v, ttl, r.lists, r.map, r.gone)
    BY <1>1, <2>1 DEF NewDropsGhost1, Size
  <2>3. "B1" \in ListNames /\ Len(lists["B1"]) > 0
    <3>1. Size(lists, "B1") > 0
      BY <2>2, GuardSizes, CapacityAssumption
    <3> QED
      BY <3>1 DEF Size, ListNames
  <2>4. WF(l, m) /\ old \in DOMAIN itemMap /\ itemMap[old].list = "B1"
    BY <2>1, <2>3, DropLast DEF Core
  <2>5. HeldIn(m) = HeldIn(itemMap) /\ \A x \in DOMAIN m : m[x] = itemMap[x]
    BY <2>1, <2>4, ForgetGhost DEF LiveLists
  <2> QED
    BY <2>1, <2>2, <2>4, <2>5, ReplaceThenAddCounts
<1>2. CASE NewDropsT1(k, v, ttl)
  <2>1. PICK old, l, m : /\ old = Last(lists["T1"])
                         /\ l = [lists EXCEPT !["T1"] = Front(@)]
                         /\ m = Drop(itemMap, old)
    OBVIOUS
  <2>2. /\ k \notin DOMAIN itemMap /\ FirstFull /\ Size(lists, "T1") >= Capacity
        /\ AddNew(k, v, ttl, l, m, {old})
    BY <1>2, <2>1 DEF NewDropsT1, Size
  <2>3. "T1" \in ListNames /\ Len(lists["T1"]) > 0
    <3>1. Size(lists, "T1") > 0
      BY <2>2, GuardSizes, CapacityAssumption
    <3> QED
      BY <3>1 DEF Size, ListNames
  <2>4. old \in DOMAIN itemMap /\ itemMap[old].list = "T1"
    BY <2>1, <2>3, DropLast DEF Core
  <2>5. old \in HeldIn(itemMap)
    BY <2>4 DEF HeldIn, LiveLists
  <2>6. HeldIn(m) = HeldIn(itemMap) \ {old} /\ \A x \in HeldIn(m) : m[x] = itemMap[x]
    BY <2>1 DEF HeldIn, Drop
  <2>7. \E x \in HeldIn(itemMap) : {old} = {x}
    BY <2>5
  <2> QED
    BY <2>2, <2>6, <2>7, AddCounts
<1>3. CASE NewReplaces(k, v, ttl)
  <2>1. PICK t, r : t = TrimGhost2(lists, itemMap) /\ r = Replace(t.lists, t.map, p, FALSE)
    OBVIOUS
  <2>2. k \notin DOMAIN itemMap /\ AddNew(k, v, ttl, r.lists, r.map, r.gone)
    BY <1>3, <2>1 DEF NewReplaces
  <2>3. /\ WF(t.lists, t.map) /\ HeldIn(t.map) = HeldIn(itemMap)
        /\ \A x \in DOMAIN t.map : t.map[x] = itemMap[x]
    BY <2>1, TrimHeld
  <2> QED
    BY <2>1, <2>2, <2>3, ReplaceThenAddCounts
<1>4. CASE NewFits(k, v, ttl)
  <2>1. k \notin DOMAIN itemMap /\ AddNew(k, v, ttl, lists, itemMap, {})
    BY <1>4 DEF NewFits
  <2>2. HeldIn(itemMap) = HeldIn(itemMap) \ {}
    OBVIOUS
  <2> QED
    BY <2>1, <2>2, AddCounts
<1> QED
  BY <1>1, <1>2, <1>3, <1>4

(* Cases 2 and 3 of Set: a ghost comes back with a new value.              *)
LEMMA ReviveCounts ==
  ASSUME Core, ArcCounts, NEW k \in DOMAIN itemMap, NEW v \in Values, NEW ttl \in TTLs,
         NEW ghosts \in {"B1", "B2"}, itemMap[k].list = ghosts,
         NEW preferT2 \in BOOLEAN, NEW target,
         Revive(k, v, ttl, ghosts, target, preferT2)
  PROVE  ArcCounts'
<1>1. PICK r, n : r = Replace(lists, itemMap, target, preferT2) /\ n = Node("T2", v, ExpiryOf(ttl))
  OBVIOUS
<1>2. /\ itemMap' = [r.map EXCEPT ![k] = n]
      /\ bytes' = bytes + SizeOf[v] - BytesOf(r.gone)
  BY <1>1 DEF Revive
<1>3. n.value = v /\ n.list \in LiveLists
  BY <1>1 DEF Node, LiveLists
<1>4. /\ r.gone = {} \/ \E x \in HeldIn(itemMap) : r.gone = {x}
      /\ HeldIn(r.map) = HeldIn(itemMap) \ r.gone
      /\ DOMAIN r.map = DOMAIN itemMap
      /\ \A x \in DOMAIN itemMap \ r.gone : r.map[x] = itemMap[x]
  BY <1>1, ReplaceHeld DEF Core
<1>5. k \notin HeldIn(itemMap)
  BY DEF HeldIn, LiveLists
<1>6. /\ DOMAIN itemMap' = DOMAIN itemMap /\ itemMap'[k] = n
      /\ \A x \in DOMAIN itemMap \ {k} : itemMap'[x] = r.map[x]
  BY <1>2, <1>4
<1>7. HeldIn(itemMap') = (HeldIn(itemMap) \ r.gone) \cup {k}
  <2>1. HeldIn(itemMap') = HeldIn(r.map) \cup {k}
    BY <1>3, <1>4, <1>6 DEF HeldIn
  <2> QED
    BY <1>4, <2>1
<1>8. \A x \in HeldIn(itemMap) \ (r.gone \cup {k}) : itemMap'[x] = itemMap[x]
  BY <1>4, <1>6 DEF HeldIn
<1>9. itemMap'[k].value = v
  BY <1>3, <1>6
<1> QED
  BY <1>2, <1>4, <1>5, <1>7, <1>8, <1>9, SetCounts

(* Case 1 of Set: the entry is updated in place and nothing is evicted.    *)
LEMMA SetLiveCounts ==
  ASSUME Core, ArcCounts, NEW k \in Keys, NEW v \in Values, NEW ttl \in TTLs, SetLive(k, v, ttl)
  PROVE  ArcCounts'
<1>1. PICK e : e = Node("T2", v, ExpiryOf(ttl))
  OBVIOUS
<1>2. /\ k \in HeldIn(itemMap) /\ itemMap' = [itemMap EXCEPT ![k] = e]
      /\ bytes' = bytes + SizeOf[v] - len(itemMap[k].value)
  BY <1>1 DEF SetLive, IsIn, HeldIn
<1>3. e.value = v /\ e.list \in LiveLists
  BY <1>1 DEF Node, LiveLists
<1>4. /\ DOMAIN itemMap' = DOMAIN itemMap /\ itemMap'[k] = e
      /\ \A x \in DOMAIN itemMap \ {k} : itemMap'[x] = itemMap[x]
  BY <1>2 DEF HeldIn
<1>5. HeldIn(itemMap') = HeldIn(itemMap) \cup {k}
  BY <1>2, <1>3, <1>4 DEF HeldIn
<1>6. PICK m, D, n : m = itemMap /\ D = HeldIn(itemMap) /\ n = itemMap'
  OBVIOUS
<1>7. Sized(m, D) /\ bytes = Bytes(m, D)
  BY <1>6, HeldSized DEF ArcCounts
<1>8. n[k].value = v /\ \A x \in D \ {k} : n[x].value = m[x].value
  BY <1>3, <1>4, <1>6 DEF HeldIn
<1>9. Bytes(n, D \cup {k}) =
        Bytes(m, D) + SizeOf[v] - (IF k \in D THEN SizeOf[m[k].value] ELSE 0)
  BY ONLY <1>7, <1>8, v \in Values, BytesMore
<1>10. len(itemMap[k].value) = SizeOf[m[k].value] /\ k \in D
  BY <1>2, <1>6, LiveLen
<1>11. bytes' = Bytes(itemMap', HeldIn(itemMap'))
  BY <1>2, <1>5, <1>6, <1>7, <1>9, <1>10
<1> QED
  BY <1>11 DEF ArcCounts

(* An entry leaves the map.  A ghost weighs nothing.                       *)
LEMMA RemoveCounts ==
  ASSUME Core, ArcCounts, NEW k \in DOMAIN itemMap, RemoveNode(k)
  PROVE  ArcCounts'
<1>1. PICK m, D, n : m = itemMap /\ D = HeldIn(itemMap) /\ n = itemMap'
  OBVIOUS
<1>2. Sized(m, D) /\ bytes = Bytes(m, D) /\ bytes' = bytes - len(m[k].value)
  BY <1>1, HeldSized DEF ArcCounts, RemoveNode
<1>3. n = [x \in DOMAIN m \ {k} |-> m[x]] /\ D \subseteq DOMAIN m
  BY <1>1 DEF RemoveNode, Drop, HeldIn
<1>4. HeldIn(n) = D \ {k} /\ \A x \in D \ {k} : n[x].value = m[x].value
  BY <1>1, <1>3 DEF HeldIn
<1>5. CASE k \in D
  <2>1. Bytes(n, D \ {k}) = Bytes(m, D) - SizeOf[m[k].value]
    BY <1>2, <1>4, <1>5, BytesLess
  <2>2. len(m[k].value) = SizeOf[m[k].value]
    BY <1>1, <1>5, LiveLen
  <2>3. bytes' = Bytes(itemMap', HeldIn(itemMap'))
    BY <1>1, <1>2, <1>4, <2>1, <2>2
  <2> QED
    BY <2>3 DEF ArcCounts
<1>6. CASE k \notin D
  <2>1. len(m[k].value) = 0
    <3>1. m[k].list \in {"B1", "B2"}
      <4>1. m[k].list \in ListNames
        BY <1>1, NodeFacts
      <4> QED
        BY <1>1, <1>6, <4>1 DEF ListNames, LiveLists, HeldIn
    <3>2. m[k].value = NoValue
      BY <1>1, <3>1 DEF Core, WF, MapOK
    <3> QED
      BY <3>2 DEF len
  <2>2. D \ {k} = D /\ IsFiniteSet(D) /\ \A x \in D : m[x].value = n[x].value
    BY <1>2, <1>4, <1>6 DEF Sized
  <2>3. Bytes(m, D) = Bytes(n, D) /\ Bytes(m, D) \in Nat
    BY <1>2, <2>2, BytesSame, BytesTake
  <2>4. bytes' = bytes - 0 /\ bytes \in Nat
    BY <1>2, <2>1, <2>3
  <2>5. bytes' = bytes
    BY <2>4
  <2>6. bytes' = Bytes(itemMap', HeldIn(itemMap'))
    BY <1>1, <1>2, <1>4, <2>2, <2>3, <2>5
  <2> QED
    BY <2>6 DEF ArcCounts
<1> QED
  BY <1>5, <1>6

(* A step that keeps the live nodes' values.                               *)
LEMMA StayCounts ==
  ASSUME Core, ArcCounts, bytes' = bytes, HeldIn(itemMap') = HeldIn(itemMap),
         \A x \in HeldIn(itemMap) : itemMap[x].value = itemMap'[x].value
  PROVE  ArcCounts'
<1>1. PICK m, D, n : m = itemMap /\ D = HeldIn(itemMap) /\ n = itemMap'
  OBVIOUS
<1>2. IsFiniteSet(D) /\ \A x \in D : m[x].value = n[x].value
  BY <1>1, HeldSized DEF Sized
<1>3. Bytes(m, D) = Bytes(n, D)
  BY <1>2, BytesSame
<1>4. bytes' = Bytes(itemMap', HeldIn(itemMap'))
  BY <1>1, <1>3 DEF ArcCounts
<1> QED
  BY <1>4 DEF ArcCounts

(* BytesStored of the ARC cache.                                           *)
LEMMA ARCCounts ==
  ASSUME Core, ArcCounts, Next
  PROVE  ArcCounts'
<1>1. ASSUME itemMap' = itemMap, bytes' = bytes PROVE ArcCounts'
  BY <1>1, StayCounts
<1>2. ASSUME NEW k \in Keys, Get(k) \/ Peek(k) \/ Delete(k) PROVE ArcCounts'
  <2>1. ASSUME NEW op, NEW counted, ReadMiss(op, k, counted) \/ ReadExpired(op, k, counted)
        PROVE  ArcCounts'
    BY <1>1, <2>1, RemoveCounts DEF ReadMiss, ReadExpired, IsIn
  <2>2. CASE GetHit(k)
    <3>1. PICK n : n = Node("T2", itemMap[k].value, itemMap[k].expiresAt)
      OBVIOUS
    <3>2. n.value = itemMap[k].value /\ n.list \in LiveLists
      BY <3>1 DEF Node, LiveLists
    <3>3. k \in HeldIn(itemMap) /\ itemMap' = [itemMap EXCEPT ![k] = n] /\ bytes' = bytes
      BY <2>2, <3>1 DEF GetHit, IsIn, HeldIn
    <3>4. HeldIn(itemMap') = HeldIn(itemMap)
      BY <3>2, <3>3 DEF HeldIn
    <3>5. \A x \in HeldIn(itemMap) : itemMap[x].value = itemMap'[x].value
      BY <3>2, <3>3 DEF HeldIn
    <3> QED
      BY <3>3, <3>4, <3>5, StayCounts
  <2>3. CASE PeekHit(k)
    BY <1>1, <2>3 DEF PeekHit
  <2>4. CASE Delete(k)
    BY <1>1, <2>4, RemoveCounts DEF Delete
  <2> QED
    BY <1>2, <2>1, <2>2, <2>3, <2>4 DEF Get, Peek
<1>3. ASSUME NEW k \in Keys, NEW v \in Values, NEW ttl \in TTLs, Set(k, v, ttl)
      PROVE  ArcCounts'
  <2>1. CASE SetGhost1(k, v, ttl)
    <3>1. PICK target : Revive(k, v, ttl, "B1", target, FALSE)
      BY <2>1 DEF SetGhost1
    <3>2. k \in DOMAIN itemMap /\ itemMap[k].list = "B1"
      BY <2>1 DEF SetGhost1, IsIn
    <3> DEFINE P(b) == Revive(k, v, ttl, "B1", target, b) => ArcCounts'
    <3>3. \A b \in BOOLEAN : P(b)
      BY <3>2, ReviveCounts
    <3>4. P(FALSE)
      <4> HIDE DEF P
      <4> QED
        BY <3>3
    <3> QED
      BY <3>1, <3>4
  <2>2. CASE SetGhost2(k, v, ttl)
    <3>1. PICK target : Revive(k, v, ttl, "B2", target, TRUE)
      BY <2>2 DEF SetGhost2
    <3>2. k \in DOMAIN itemMap /\ itemMap[k].list = "B2"
      BY <2>2 DEF SetGhost2, IsIn
    <3> DEFINE P(b) == Revive(k, v, ttl, "B2", target, b) => ArcCounts'
    <3>3. \A b \in BOOLEAN : P(b)
      BY <3>2, ReviveCounts
    <3>4. P(TRUE)
      <4> HIDE DEF P
      <4> QED
        BY <3>3
    <3> QED
      BY <3>1, <3>4
  <2> QED
    BY <1>3, <2>1, <2>2, SetLiveCounts, NewCounts DEF Set
<1>4. CASE Purge
  <2>1. PICK n : n = itemMap'
    OBVIOUS
  <2>2. bytes' = 0 /\ HeldIn(n) = {}
    BY <1>4, <2>1 DEF Purge, EmptyMap, HeldIn
  <2>3. bytes' = Bytes(itemMap', HeldIn(itemMap'))
    BY <2>1, <2>2, BytesNone
  <2> QED
    BY <2>3 DEF ArcCounts
<1>5. CASE Tick
  BY <1>1, <1>5 DEF Tick
<1> QED
  BY <1>2, <1>3, <1>4, <1>5 DEF Next

(* BytesStored counts what the chosen cache holds.                         *)
Counts ==
  /\ policy \in {"lru", "lfu"} => bytes = Bytes(items, DOMAIN items)
  /\ policy = "arc" => ArcCounts

(* A new cache holds nothing.                                              *)
LEMMA InitCounts == newBaseCache => Counts
<1> SUFFICES ASSUME newBaseCache PROVE Counts
  OBVIOUS
<1>1. PICK m, n : m = items /\ n = itemMap
  OBVIOUS
<1>2. DOMAIN m = {} /\ HeldIn(n) = {} /\ bytes = 0
  BY <1>1 DEF newBaseCache, Init, EmptyMap, R!Init, R!EmptyMap, HeldIn
<1>3. Bytes(m, DOMAIN m) = 0 /\ Bytes(n, HeldIn(n)) = 0
  BY <1>2, BytesNone
<1> QED
  BY <1>1, <1>2, <1>3 DEF Counts, ArcCounts

(* Every step of the chosen cache adds what it stores and subtracts what   *)
(* it drops.                                                               *)
LEMMA CountsStep == BaseInv /\ Counts /\ [BaseNext]_baseVars => Counts'
<1> SUFFICES ASSUME BaseInv, Counts, [BaseNext]_baseVars PROVE Counts'
  OBVIOUS
<1>1. CASE policy = "lru" /\ policy' = policy /\ LRUStep
  <2>1. bytes' = Bytes(items', DOMAIN items')
    BY <1>1, LRUCounts DEF BaseInv, Counts, LRUStep
  <2> QED
    BY <1>1, <2>1 DEF Counts
<1>2. CASE policy = "lfu" /\ policy' = policy /\ LFUStep
  <2>1. bytes' = Bytes(items', DOMAIN items')
    BY <1>2, LFUCounts DEF BaseInv, Counts, LFUStep
  <2> QED
    BY <1>2, <2>1 DEF Counts
<1>3. CASE policy = "arc" /\ policy' = policy /\ ARCStep
  <2>1. ArcCounts'
    BY <1>3, ARCCounts DEF BaseInv, Counts, ARCStep
  <2> QED
    BY <1>3, <2>1 DEF Counts
<1>4. CASE UNCHANGED baseVars
  <2>1. policy' = policy /\ items' = items /\ itemMap' = itemMap /\ bytes' = bytes
    BY <1>4 DEF baseVars, vars
  <2> QED
    BY <2>1 DEF Counts, ArcCounts
<1> QED
  BY <1>1, <1>2, <1>3, <1>4 DEF BaseNext

(* The sum that Counts keeps is the one over what a Get can return.        *)
LEMMA CountsExact == BaseInv /\ Counts => BytesStoredExact
<1> SUFFICES ASSUME BaseInv, Counts PROVE BytesStoredExact
  OBVIOUS
<1>1. PICK b, D : b = BaseEntries /\ D = DOMAIN b
  OBVIOUS
<1>2. BytesStoredExact <=> bytes = Bytes(b, D)
  BY <1>1 DEF BytesStoredExact, Bytes
<1>3. policy \in {"lru", "lfu", "arc"}
  BY BaseConstants DEF BaseInv
<1>4. CASE policy = "lru"
  BY <1>1, <1>2, <1>4 DEF Counts, BaseEntries, R!LiveEntries
<1>5. CASE policy = "lfu"
  <2>1. PICK m : m = items
    OBVIOUS
  <2>2. D = DOMAIN m /\ \A x \in D : m[x].value = b[x].value
    BY <1>1, <1>5, <2>1 DEF BaseEntries, F!LiveEntries
  <2>3. IsFiniteSet(D)
    BY <1>5, <2>1, <2>2, LFUFacts DEF BaseInv
  <2>4. Bytes(m, D) = Bytes(b, D)
    BY <2>2, <2>3, BytesSame
  <2> QED
    BY <1>2, <1>5, <2>1, <2>2, <2>4 DEF Counts
<1>6. CASE policy = "arc"
  <2>1. PICK m : m = itemMap
    OBVIOUS
  <2>2. D = HeldIn(m) /\ \A x \in D : m[x].value = b[x].value
    BY <1>1, <1>6, <2>1, LiveShows DEF Shows
  <2>3. IsFiniteSet(D)
    BY <2>1, <2>2, HeldSized DEF BaseInv, Sized
  <2>4. Bytes(m, D) = Bytes(b, D)
    BY <2>2, <2>3, BytesSame
  <2> QED
    BY <1>2, <1>6, <2>1, <2>2, <2>4 DEF Counts, ArcCounts
<1> QED
  BY <1>3, <1>4, <1>5, <1>6

---------------------------------------------------------------------------
(* Whatever cache the store has, ARC's state, the clock and the replies    *)
(* are well typed; LRUInv and LFUInv hold the types of the other two.      *)
THEOREM TypeCorrect == BaseSpec => []TypeOK
<1>1. BaseInv => TypeOK
  BY CoreImplies DEF BaseInv
<1> QED
  BY <1>1, BaseInit, BaseStep, PTL DEF BaseSpec

(* The four lists and itemMap of the ARC cache agree, always: unlinking a  *)
(* node from the list it names is safe.                                    *)
THEOREM ARCListsMatch == BaseSpec => []ListsMatchMap
<1>1. BaseInv => ListsMatchMap
  BY CoreImplies DEF BaseInv
<1> QED
  BY <1>1, BaseInit, BaseStep, PTL DEF BaseSpec

(* The ARC cache never holds more than capacity live entries, capacity     *)
(* ghosts, or 2 * capacity of both, whatever Delete and expiry do to the   *)
(* lists between two Sets.                                                 *)
THEOREM ARCStaysBounded == BaseSpec => []ListBounds
<1>1. BaseInv => ListBounds
  BY CoreImplies DEF BaseInv
<1> QED
  BY <1>1, BaseInit, BaseStep, PTL DEF BaseSpec

(* The pointers of the LRU list give, from either end, the order of last   *)
(* use of the keys held, for every capacity and history.                   *)
THEOREM LRUListIsRecencyOrder == BaseSpec => []ListIsRecencyOrder
<1>1. BaseInv => ListIsRecencyOrder
  BY LRUInvImplies DEF BaseInv, ListIsRecencyOrder
<1> QED
  BY <1>1, BaseInit, BaseStep, PTL DEF BaseSpec

(* The LFU frequency lists are those of items in order of use, and minFreq *)
(* is right whenever the cache is full.                                    *)
THEOREM LFUFrequenciesExact == BaseSpec => []FrequenciesExact
<1>1. BaseInv => FrequenciesExact
  BY LFUInvImplies DEF BaseInv, FrequenciesExact
<1> QED
  BY <1>1, BaseInit, BaseStep, PTL DEF BaseSpec

(* BytesStored is the size of the values that can be read, whatever the    *)
(* policy, through updates, evictions, ghosts coming back, expiries,       *)
(* deletes and purges, for every set of values, the empty one included.    *)
THEOREM BytesAreExact == BaseSpec => []BytesStoredExact
<1>1. newBaseCache => BaseInv /\ Counts
  BY BaseInit, InitCounts
<1>2. (BaseInv /\ Counts) /\ [BaseNext]_baseVars => (BaseInv /\ Counts)'
  BY BaseStep, CountsStep
<1>3. BaseInv /\ Counts => BytesStoredExact
  BY CountsExact
<1> QED
  BY <1>1, <1>2, <1>3, PTL DEF BaseSpec

(* A Set into a full LRU or LFU cache evicts the entry the policy names.   *)
THEOREM VictimsAreRight == BaseSpec => EvictsTheRightOne
<1>1. BaseInv /\ [BaseNext]_baseVars =>
        [/\ policy = "lru" => R!VictimIsLeastRecent
         /\ policy = "lfu" => F!VictimIsLeastFrequent]_baseVars
  <2> SUFFICES ASSUME BaseInv, BaseNext
               PROVE  /\ policy = "lru" => R!VictimIsLeastRecent
                      /\ policy = "lfu" => F!VictimIsLeastFrequent
    OBVIOUS
  <2>1. CASE policy = "lru"
    BY <2>1, LRUEvicts DEF BaseInv, BaseNext, LRUStep
  <2>2. CASE policy = "lfu"
    BY <2>2, LFUEvicts DEF BaseInv, BaseNext, LFUStep
  <2> QED
    BY <2>1, <2>2
<1> QED
  BY <1>1, BaseInit, BaseStep, PTL DEF BaseSpec, EvictsTheRightOne

(* Whatever newBaseCache returns implements the cache.Cache contract; with *)
(* ARC if no value is empty, for its replace does not report an empty      *)
(* victim.                                                                 *)
THEOREM BaseImplementsPromise ==
  ASSUME "arc" \in Policies => NoEmptyValue
  PROVE  BaseSpec => ImplementsPromise
<1>1. newBaseCache => Promise!Init
  <2> SUFFICES ASSUME newBaseCache PROVE Promise!Init
    OBVIOUS
  <2>1. /\ items = EmptyMap /\ itemMap = EmptyMap /\ policy \in {"lru", "lfu", "arc"}
    BY BaseConstants, LRUSame DEF newBaseCache, R!Init, Init
  <2>2. BaseEntries = EmptyMap
    <3>1. CASE policy = "lru"
      BY <2>1, <3>1 DEF BaseEntries, R!LiveEntries
    <3>2. CASE policy = "lfu"
      BY <2>1, <3>2 DEF BaseEntries, F!LiveEntries, EmptyMap
    <3>3. CASE policy = "arc"
      BY <2>1, <3>3, LiveShows, EmptyShows, PromiseSame
    <3> QED
      BY <2>1, <3>1, <3>2, <3>3
  <2>3. Promise!InitTypes
    BY PromiseSame DEF newBaseCache, Init, InitTypes, Promise!InitTypes
  <2> QED
    BY <2>2, <2>3, PromiseSame DEF Promise!Init
<1>2. BaseInv /\ BaseInv' /\ [BaseNext]_baseVars => [Promise!Next]_(Promise!vars)
  <2> SUFFICES ASSUME BaseInv, BaseInv', [BaseNext]_baseVars
               PROVE  [Promise!Next]_(Promise!vars)
    OBVIOUS
  <2>1. CASE policy = "arc" /\ policy' = policy /\ ARCStep
    <3>1. NoEmptyValue
      BY <2>1 DEF BaseInv
    <3> QED
      BY <2>1, <3>1, ARCRefines DEF ArcNow, BaseInv, ARCStep
  <2>2. CASE policy = "lru" /\ policy' = policy /\ LRUStep
    BY <2>2, LRUBaseStep
  <2>3. CASE policy = "lfu" /\ policy' = policy /\ LFUStep
    BY <2>3, LFUBaseStep
  <2> QED
    BY <2>1, <2>2, <2>3, BaseStutter DEF BaseNext
<1> QED
  BY <1>1, <1>2, BaseInit, BaseStep, PTL DEF BaseSpec, ImplementsPromise, Promise!Spec
=============================================================================
