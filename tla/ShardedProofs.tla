--------------------------- MODULE ShardedProofs ---------------------------
(***************************************************************************)
(* The sharded cache for any number of shards, keys, capacity and callers. *)
(*                                                                         *)
(* VisitsExact says what a call has when it returns; it is not inductive.  *)
(* What is, is the same statement about the shards a call has passed so    *)
(* far (SoFar), together with what ties the call's history to the present: *)
(* the keys held all the time are held now, and those held now have been   *)
(* held at some moment (Brackets).                                         *)
(***************************************************************************)
EXTENDS Sharded, FiniteSetTheorems, TLAPS

(* The local variables of a call that visits every shard.                  *)
VisitType ==
  [call : AllCalls \cup {"none"}, next : 1..(NumShards + 1), got : SUBSET Keys, count : Nat,
   truncated : BOOLEAN, always : SUBSET Keys, ever : SUBSET Keys]

(* The keys of K whose shards the call has passed.                         *)
Passed(v, K) == {k \in K : shardFor[k] < v.next}

KeysSoFar(v) == v.call = "keys" => Passed(v, v.always) \subseteq v.got /\ v.got \subseteq v.ever
SnapshotSoFar(v) ==
  v.call = "snapshot" =>
    v.got \subseteq v.ever /\ (v.truncated \/ Passed(v, v.always) \subseteq v.got)
CountSoFar(v) ==
  v.call \in {"len", "stats"} =>
    /\ Cardinality(Passed(v, v.always)) <= v.count
    /\ v.count <= Cardinality(Passed(v, v.ever))
PurgeSoFar(v) == v.call = "purge" => Passed(v, v.always) = {}

(* A call is exact about the shards it has passed.                         *)
SoFar(v) == KeysSoFar(v) /\ SnapshotSoFar(v) /\ CountSoFar(v) /\ PurgeSoFar(v)

(* What a call under way knows of the present.                             *)
Brackets(v, K) == ~Returned(v) => v.always \subseteq K /\ K \subseteq v.ever

Fits(K) == \A i \in Shards : Cardinality(InShard(K, i)) <= perShard

(* The inductive invariant.                                                *)
ShardedInv ==
  /\ held \in SUBSET Keys
  /\ Fits(held)
  /\ visit \in [Visitors -> VisitType]
  /\ \A c \in Visitors : SoFar(visit[c]) /\ Brackets(visit[c], held)

---------------------------------------------------------------------------
(* Sets of keys are finite, and the fewer keys the smaller the number.     *)
LEMMA FewerKeys ==
  ASSUME NEW K \in SUBSET Keys, NEW L \in SUBSET K
  PROVE  /\ IsFiniteSet(K) /\ IsFiniteSet(L)
         /\ Cardinality(K) \in Nat /\ Cardinality(L) \in Nat
         /\ Cardinality(L) <= Cardinality(K)
<1>1. IsFiniteSet(K)
  BY FS_Subset, ShardedConstants
<1>2. IsFiniteSet(L) /\ Cardinality(L) <= Cardinality(K)
  BY <1>1, FS_Subset
<1> QED
  BY <1>1, <1>2, FS_CardinalityType

(* Two sets of keys with no key in common: the numbers add up.             *)
LEMMA KeysAddUp ==
  ASSUME NEW K \in SUBSET Keys, NEW L \in SUBSET Keys, K \cap L = {}
  PROVE  Cardinality(K \cup L) = Cardinality(K) + Cardinality(L)
<1>1. IsFiniteSet(K) /\ IsFiniteSet(L) /\ Cardinality(K) \in Nat /\ Cardinality(L) \in Nat
  BY FewerKeys
<1>2. Cardinality(K \cup L) = Cardinality(K) + Cardinality(L) - Cardinality(K \cap L)
  BY <1>1, FS_Union
<1>3. Cardinality(K \cap L) = 0
  BY FS_EmptySet
<1> QED
  BY <1>1, <1>2, <1>3

(* Shards that hold no more keys than before fit as before.                *)
LEMMA SmallerFits ==
  ASSUME NEW K \in SUBSET Keys, Fits(K), NEW L \in SUBSET K
  PROVE  Fits(L)
<1> SUFFICES ASSUME NEW i \in Shards PROVE Cardinality(InShard(L, i)) <= perShard
  BY DEF Fits
<1>1. InShard(L, i) \in SUBSET InShard(K, i) /\ InShard(K, i) \in SUBSET Keys
  BY DEF InShard
<1>2. /\ Cardinality(InShard(L, i)) \in Nat /\ Cardinality(InShard(K, i)) \in Nat
      /\ Cardinality(InShard(L, i)) <= Cardinality(InShard(K, i))
  BY <1>1, FewerKeys
<1>3. Cardinality(InShard(K, i)) <= perShard
  BY DEF Fits
<1>4. perShard \in Nat
  BY ShardedConstants DEF perShard
<1> QED
  BY <1>2, <1>3, <1>4

(* A call under way lives through a change of the shards.  That a count    *)
(* stays between its bounds needs that the keys held all the time become   *)
(* fewer, and those held at some moment more.                              *)
LEMMA SawKeeps ==
  ASSUME NEW v \in VisitType, SoFar(v), NEW K \in SUBSET Keys
  PROVE  /\ Saw(v, K) \in VisitType /\ SoFar(Saw(v, K)) /\ Brackets(Saw(v, K), K)
         /\ Saw(v, K).next = v.next /\ Saw(v, K).call = v.call
<1>1. CASE Returned(v)
  BY <1>1 DEF Saw, Brackets
<1>2. CASE ~Returned(v)
  <2> DEFINE w == [v EXCEPT !.always = @ \cap K, !.ever = @ \cup K]
  <2>1. Saw(v, K) = w
    BY <1>2 DEF Saw
  <2>2. /\ w \in VisitType /\ w.next = v.next /\ w.call = v.call /\ w.got = v.got
        /\ w.count = v.count /\ w.truncated = v.truncated
        /\ w.always = v.always \cap K /\ w.ever = v.ever \cup K
    BY DEF VisitType
  <2>3. Brackets(w, K)
    BY <2>2 DEF Brackets
  <2> HIDE DEF w
  <2>4. /\ Passed(w, w.always) \in SUBSET Passed(v, v.always)
        /\ Passed(v, v.ever) \in SUBSET Passed(w, w.ever)
        /\ Passed(v, v.always) \in SUBSET Keys /\ Passed(w, w.ever) \in SUBSET Keys
    BY <2>2 DEF Passed, VisitType
  <2>5. KeysSoFar(w) /\ PurgeSoFar(w)
    BY <2>2, <2>4 DEF SoFar, KeysSoFar, PurgeSoFar
  <2>6. SnapshotSoFar(w)
    BY <2>2, <2>4 DEF SoFar, SnapshotSoFar
  <2>7. CountSoFar(w)
    <3>1. /\ Cardinality(Passed(w, w.always)) \in Nat /\ Cardinality(Passed(v, v.always)) \in Nat
          /\ Cardinality(Passed(w, w.always)) <= Cardinality(Passed(v, v.always))
      BY <2>4, FewerKeys
    <3>2. /\ Cardinality(Passed(w, w.ever)) \in Nat /\ Cardinality(Passed(v, v.ever)) \in Nat
          /\ Cardinality(Passed(v, v.ever)) <= Cardinality(Passed(w, w.ever))
      BY <2>4, FewerKeys
    <3>3. w.count \in Nat
      BY <2>2 DEF VisitType
    <3> QED
      BY <2>2, <3>1, <3>2, <3>3 DEF SoFar, CountSoFar
  <2> QED
    BY <2>1, <2>2, <2>3, <2>5, <2>6, <2>7 DEF SoFar
<1> QED
  BY <1>1, <1>2

(* The requests that lock one shard: the other calls see the shards change.*)
LEMMA ChangeKeeps ==
  ASSUME ShardedInv, NEW K \in SUBSET Keys, Fits(K), Change(K)
  PROVE  ShardedInv'
<1>1. \A c \in Visitors : /\ Saw(visit[c], K) \in VisitType
                          /\ SoFar(Saw(visit[c], K)) /\ Brackets(Saw(visit[c], K), K)
  BY SawKeeps DEF ShardedInv
<1> QED
  BY <1>1 DEF Change, ShardedInv

(* A Get may drop its key, if it has expired.                              *)
LEMMA GetKeeps ==
  ASSUME ShardedInv, NEW k \in Keys, Get(k)
  PROVE  ShardedInv'
<1>1. PICK expired \in SUBSET {k} : Change(held \ expired)
  BY DEF Get
<1>2. held \ expired \in SUBSET held /\ held \ expired \in SUBSET Keys
  BY DEF ShardedInv
<1> QED
  BY <1>1, <1>2, SmallerFits, ChangeKeeps DEF ShardedInv

(* A Delete drops its key.                                                 *)
LEMMA DeleteKeeps ==
  ASSUME ShardedInv, NEW k \in Keys, Delete(k)
  PROVE  ShardedInv'
<1>1. held \ {k} \in SUBSET held /\ held \ {k} \in SUBSET Keys
  BY DEF ShardedInv
<1> QED
  BY <1>1, SmallerFits, ChangeKeeps DEF ShardedInv, Delete

(* A Set may push out another key of its shard.                            *)
LEMMA SetKeeps ==
  ASSUME ShardedInv, NEW k \in Keys, Set(k)
  PROVE  ShardedInv'
<1>1. PICK gone \in {{}} \cup (IF k \in held THEN {} ELSE {{x} : x \in In(shardFor[k])}) :
        /\ Cardinality(InShard((held \ gone) \cup {k}, shardFor[k])) <= perShard
        /\ Change((held \ gone) \cup {k})
  BY DEF Set
<1> DEFINE K == (held \ gone) \cup {k}
<1>2. K \in SUBSET Keys
  BY DEF ShardedInv
<1>3. Fits(K)
  <2> SUFFICES ASSUME NEW i \in Shards PROVE Cardinality(InShard(K, i)) <= perShard
    BY DEF Fits
  <2>1. CASE i = shardFor[k]
    BY <1>1, <2>1
  <2>2. CASE i # shardFor[k]
    <3>1. InShard(K, i) = InShard(held \ gone, i)
      BY <2>2 DEF InShard
    <3>2. held \ gone \in SUBSET held
      OBVIOUS
    <3>3. Fits(held \ gone)
      BY <3>2, SmallerFits DEF ShardedInv
    <3> QED
      BY <3>1, <3>3 DEF Fits
  <2> QED
    BY <2>1, <2>2
<1> HIDE DEF K
<1>4. Change(K)
  BY <1>1 DEF K
<1> QED
  BY <1>2, <1>3, <1>4, ChangeKeeps

---------------------------------------------------------------------------
(* A call of visitor c goes on to w, and the shards stay as they are.      *)
LEMMA VisitKeeps ==
  ASSUME ShardedInv, NEW c \in Visitors, NEW w \in VisitType, SoFar(w), Brackets(w, held),
         visit' = [visit EXCEPT ![c] = w], UNCHANGED held
  PROVE  ShardedInv'
  BY DEF ShardedInv

(* A call begins: it has passed no shard.                                  *)
LEMMA StartKeeps ==
  ASSUME ShardedInv, NEW c \in Visitors, Start(c)
  PROVE  ShardedInv'
<1>1. PICK call \in Calls[c] : visit' = [visit EXCEPT ![c] = Began(call)]
  BY DEF Start
<1> DEFINE w == Began(call)
<1>2. w \in VisitType /\ w.always = held /\ w.ever = held /\ w.got = {} /\ w.count = 0 /\ w.next = 1
  BY ShardedConstants DEF Began, VisitType, ShardedInv
<1>3. Brackets(w, held)
  BY <1>2 DEF Brackets
<1> HIDE DEF w
<1>4. Passed(w, w.always) = {} /\ Passed(w, w.ever) = {}
  BY <1>2, ShardedConstants DEF Passed, ShardedInv, Shards
<1>5. SoFar(w)
  BY <1>2, <1>4, FS_EmptySet DEF SoFar, KeysSoFar, SnapshotSoFar, CountSoFar, PurgeSoFar
<1>6. visit' = [visit EXCEPT ![c] = w] /\ UNCHANGED held
  BY <1>1 DEF w, Start
<1> QED
  BY <1>2, <1>3, <1>5, <1>6, VisitKeeps

(* Passing a shard adds its keys to those passed.                          *)
LEMMA PassShard ==
  ASSUME NEW v \in VisitType, NEW w \in VisitType, w.next = v.next + 1, NEW K \in SUBSET Keys
  PROVE  /\ Passed(w, K) = Passed(v, K) \cup InShard(K, v.next)
         /\ Passed(v, K) \cap InShard(K, v.next) = {}
         /\ Passed(v, K) \in SUBSET Keys /\ InShard(K, v.next) \in SUBSET Keys
<1>1. v.next \in Nat /\ \A k \in K : shardFor[k] \in Nat
  BY ShardedConstants DEF VisitType, Shards
<1>2. \A k \in K : shardFor[k] < w.next <=> (shardFor[k] < v.next \/ shardFor[k] = v.next)
  BY <1>1
<1>3. \A k \in K : ~(shardFor[k] < v.next /\ shardFor[k] = v.next)
  BY <1>1
<1> QED
  BY <1>2, <1>3 DEF Passed, InShard

(* Keys reads the next shard.                                              *)
LEMMA KeysStepKeeps ==
  ASSUME ShardedInv, NEW c \in Visitors, KeysStep(c)
  PROVE  ShardedInv'
<1> DEFINE v == visit[c]
           w == [v EXCEPT !.next = @ + 1, !.got = @ \cup In(v.next)]
<1>1. v \in VisitType /\ SoFar(v) /\ Brackets(v, held) /\ ~Returned(v) /\ v.call = "keys"
  BY DEF ShardedInv, KeysStep, Visiting
<1>2. v.always \in SUBSET held /\ held \in SUBSET v.ever /\ held \in SUBSET Keys
  BY <1>1 DEF Brackets, ShardedInv
<1>3. visit' = [visit EXCEPT ![c] = w] /\ UNCHANGED held
  BY DEF KeysStep
<1> HIDE DEF v
<1>4. v.next \in 1..(NumShards + 1) /\ v.next + 1 \in 1..(NumShards + 1)
  BY <1>1, ShardedConstants DEF VisitType, Returned
<1>5. /\ w \in VisitType /\ w.next = v.next + 1 /\ w.got = v.got \cup InShard(held, v.next)
      /\ w.always = v.always /\ w.ever = v.ever /\ w.call = "keys"
  BY <1>1, <1>2, <1>4 DEF VisitType, In, InShard
<1> HIDE DEF w
<1>6. Passed(w, w.always) = Passed(v, v.always) \cup InShard(v.always, v.next)
  BY <1>1, <1>5, PassShard DEF VisitType
<1>7. InShard(v.always, v.next) \subseteq InShard(held, v.next) /\ InShard(held, v.next) \subseteq held
  BY <1>2 DEF InShard
<1>8. SoFar(w)
  BY <1>1, <1>2, <1>5, <1>6, <1>7 DEF SoFar, KeysSoFar, SnapshotSoFar, CountSoFar, PurgeSoFar
<1>9. Brackets(w, held)
  BY <1>2, <1>5 DEF Brackets
<1> QED
  BY <1>3, <1>5, <1>8, <1>9, VisitKeeps

(* The entries counted in a shard are at least those there all the time    *)
(* and at most those there at some moment.                                 *)
LEMMA LenStepKeeps ==
  ASSUME ShardedInv, NEW c \in Visitors, LenStep(c)
  PROVE  ShardedInv'
<1> DEFINE v == visit[c]
           w == [v EXCEPT !.next = @ + 1, !.count = @ + Cardinality(In(v.next))]
<1>1. /\ v \in VisitType /\ SoFar(v) /\ Brackets(v, held) /\ ~Returned(v)
      /\ v.call \in {"len", "stats"}
  BY DEF ShardedInv, LenStep, Visiting
<1>2. v.always \in SUBSET held /\ held \in SUBSET v.ever /\ held \in SUBSET Keys
      /\ v.ever \in SUBSET Keys /\ v.always \in SUBSET Keys
  BY <1>1 DEF Brackets, ShardedInv, VisitType
<1>3. visit' = [visit EXCEPT ![c] = w] /\ UNCHANGED held
  BY DEF LenStep
<1> HIDE DEF v
<1>4. v.next \in 1..(NumShards + 1) /\ v.next + 1 \in 1..(NumShards + 1)
  BY <1>1, ShardedConstants DEF VisitType, Returned
<1> DEFINE here == InShard(held, v.next)
           low == InShard(v.always, v.next)
           high == InShard(v.ever, v.next)
<1>5. here \in SUBSET Keys /\ low \in SUBSET here /\ high \in SUBSET Keys /\ here \in SUBSET high
  BY <1>2 DEF InShard
<1>6. /\ Cardinality(here) \in Nat /\ Cardinality(low) \in Nat /\ Cardinality(high) \in Nat
      /\ Cardinality(low) <= Cardinality(here) /\ Cardinality(here) <= Cardinality(high)
  BY <1>5, FewerKeys
<1>7. /\ w \in VisitType /\ w.next = v.next + 1 /\ w.count = v.count + Cardinality(here)
      /\ w.always = v.always /\ w.ever = v.ever /\ w.call = v.call
  <2> DEFINE n == Cardinality(here)
  <2>1. w = [v EXCEPT !.next = @ + 1, !.count = @ + n]
    BY DEF In
  <2>2. v.count + n \in Nat /\ v.count \in Nat
    BY <1>1, <1>6 DEF VisitType
  <2> HIDE DEF n, w
  <2>3. w \in VisitType /\ w.count = v.count + n
    BY <1>1, <1>4, <2>1, <2>2 DEF VisitType
  <2> QED
    BY <1>1, <2>1, <2>3 DEF VisitType, n
<1> HIDE DEF w, here, low, high
<1>8. /\ Passed(w, v.always) = Passed(v, v.always) \cup low
      /\ Passed(v, v.always) \cap low = {} /\ Passed(v, v.always) \in SUBSET Keys
      /\ low \in SUBSET Keys
  BY <1>1, <1>2, <1>7, PassShard DEF low
<1>9. /\ Passed(w, v.ever) = Passed(v, v.ever) \cup high
      /\ Passed(v, v.ever) \cap high = {} /\ Passed(v, v.ever) \in SUBSET Keys
  BY <1>1, <1>2, <1>7, PassShard DEF high
<1>10. /\ Cardinality(Passed(w, v.always)) = Cardinality(Passed(v, v.always)) + Cardinality(low)
       /\ Cardinality(Passed(w, v.ever)) = Cardinality(Passed(v, v.ever)) + Cardinality(high)
  BY <1>5, <1>8, <1>9, KeysAddUp
<1>11. /\ Cardinality(Passed(v, v.always)) \in Nat /\ Cardinality(Passed(v, v.ever)) \in Nat
       /\ v.count \in Nat
  BY <1>1, <1>8, <1>9, FewerKeys DEF VisitType
<1>12. CountSoFar(w)
  BY <1>1, <1>6, <1>7, <1>10, <1>11 DEF SoFar, CountSoFar
<1>13. SoFar(w)
  BY <1>1, <1>7, <1>12 DEF SoFar, KeysSoFar, SnapshotSoFar, PurgeSoFar
<1>14. Brackets(w, held)
  BY <1>2, <1>7 DEF Brackets
<1> QED
  BY <1>3, <1>7, <1>13, <1>14, VisitKeeps

(* A snapshot that shows less than the shard holds says so.                *)
LEMMA SnapshotStepKeeps ==
  ASSUME ShardedInv, NEW c \in Visitors, SnapshotStep(c)
  PROVE  ShardedInv'
<1> DEFINE v == visit[c]
           here == InShard(held, v.next)
           cut == Cardinality(here) > SnapLimit
<1>1. /\ v \in VisitType /\ SoFar(v) /\ Brackets(v, held) /\ ~Returned(v)
      /\ v.call = "snapshot" /\ UNCHANGED held
  BY DEF ShardedInv, SnapshotStep, Visiting
<1>2. v.always \in SUBSET held /\ held \in SUBSET v.ever /\ held \in SUBSET Keys
  BY <1>1 DEF Brackets, ShardedInv
<1>3. PICK shown \in SUBSET here :
        /\ IF cut THEN Cardinality(shown) = SnapLimit ELSE shown = here
        /\ visit' = [visit EXCEPT ![c] = [visit[c] EXCEPT !.next = @ + 1, !.got = @ \cup shown,
                                                   !.truncated = @ \/ cut]]
  BY DEF SnapshotStep, In
<1> DEFINE w == [v EXCEPT !.next = @ + 1, !.got = @ \cup shown, !.truncated = @ \/ cut]
<1>4. visit' = [visit EXCEPT ![c] = w]
  BY <1>3
<1> HIDE DEF v, cut
<1>5. v.next \in 1..(NumShards + 1) /\ v.next + 1 \in 1..(NumShards + 1)
  BY <1>1, ShardedConstants DEF VisitType, Returned
<1>6. shown \in SUBSET held /\ shown \in SUBSET Keys
  BY <1>2 DEF InShard
<1>7. v.truncated \in BOOLEAN /\ (v.truncated \/ cut) \in BOOLEAN
  BY <1>1 DEF VisitType
<1>8. /\ w \in VisitType /\ w.next = v.next + 1 /\ w.got = v.got \cup shown
      /\ w.always = v.always /\ w.ever = v.ever /\ w.call = "snapshot"
      /\ w.truncated = (v.truncated \/ cut)
  <2> DEFINE tr == (v.truncated \/ cut)
  <2>1. w = [v EXCEPT !.next = @ + 1, !.got = @ \cup shown, !.truncated = tr] /\ tr \in BOOLEAN
    BY <1>1, <1>7 DEF VisitType
  <2> HIDE DEF tr, w
  <2> QED
    BY <1>1, <1>5, <1>6, <2>1 DEF VisitType, tr
<1> HIDE DEF w, here
<1>9. Passed(w, w.always) = Passed(v, v.always) \cup InShard(v.always, v.next)
  BY <1>1, <1>8, PassShard DEF VisitType
<1>10. InShard(v.always, v.next) \subseteq here
  BY <1>2 DEF InShard, here
<1>11. w.truncated \/ shown = here
  BY <1>3, <1>8
<1>12. w.truncated \/ ~v.truncated
  BY <1>7, <1>8
<1>13. SnapshotSoFar(w)
  BY <1>1, <1>2, <1>6, <1>8, <1>9, <1>10, <1>11, <1>12 DEF SoFar, SnapshotSoFar
<1>14. SoFar(w)
  BY <1>8, <1>13 DEF SoFar, KeysSoFar, CountSoFar, PurgeSoFar
<1>15. Brackets(w, held)
  BY <1>2, <1>8 DEF Brackets
<1> QED
  BY <1>1, <1>4, <1>8, <1>14, <1>15, VisitKeeps

(* A purge empties the shard it passes; the others see the keys go.        *)
LEMMA PurgeStepKeeps ==
  ASSUME ShardedInv, NEW c \in Visitors, PurgeStep(c)
  PROVE  ShardedInv'
<1> DEFINE v == visit[c]
           K == held \ In(v.next)
           u == Saw(v, K)
           w == [u EXCEPT !.next = @ + 1]
<1>1. v \in VisitType /\ SoFar(v) /\ Brackets(v, held) /\ ~Returned(v) /\ v.call = "purge"
  BY DEF ShardedInv, PurgeStep, Visiting
<1>2. K \in SUBSET held /\ K \in SUBSET Keys /\ Fits(K)
  BY SmallerFits DEF ShardedInv
<1>3. held' = K /\ visit' = [d \in Visitors |-> IF d = c THEN w ELSE Saw(visit[d], K)]
  BY DEF PurgeStep
<1>4. InShard(K, v.next) = {}
  BY DEF InShard, In
<1>5. \A d \in Visitors : /\ Saw(visit[d], K) \in VisitType
                          /\ SoFar(Saw(visit[d], K)) /\ Brackets(Saw(visit[d], K), K)
  BY <1>2, SawKeeps DEF ShardedInv
<1>6. /\ u \in VisitType /\ SoFar(u) /\ Brackets(u, K) /\ u.next = v.next /\ u.call = "purge"
      /\ u.always \in SUBSET K
  BY <1>1, <1>2, SawKeeps DEF Brackets, Returned
<1> HIDE DEF v, K, u
<1>7. u.next + 1 \in 1..(NumShards + 1)
  BY <1>1, <1>6, ShardedConstants DEF VisitType, Returned
<1>8. /\ w \in VisitType /\ w.next = u.next + 1 /\ w.always = u.always /\ w.ever = u.ever
      /\ w.call = "purge"
  BY <1>6, <1>7 DEF VisitType
<1> HIDE DEF w
<1>9. Passed(w, w.always) = Passed(u, u.always) \cup InShard(u.always, v.next)
  BY <1>6, <1>8, PassShard DEF VisitType
<1>10. Passed(w, w.always) = {}
  BY <1>4, <1>6, <1>9 DEF SoFar, PurgeSoFar, InShard
<1>11. SoFar(w)
  BY <1>8, <1>10 DEF SoFar, KeysSoFar, SnapshotSoFar, CountSoFar, PurgeSoFar
<1>12. Brackets(w, K)
  BY <1>1, <1>6, <1>8 DEF Brackets, Returned
<1> QED
  BY <1>2, <1>3, <1>5, <1>8, <1>11, <1>12 DEF ShardedInv

---------------------------------------------------------------------------
(* No shard holds anything, and no call is under way.                      *)
LEMMA InitInv ==
  ASSUME Init
  PROVE  ShardedInv
<1>1. \A i \in Shards : InShard({}, i) = {}
  BY DEF InShard
<1>2. perShard \in Nat
  BY ShardedConstants DEF perShard
<1>3. Fits({})
  BY <1>1, <1>2, FS_EmptySet DEF Fits
<1>4. NumShards + 1 \in 1..(NumShards + 1)
  BY ShardedConstants
<1>5. visit \in [Visitors -> VisitType] /\ \A c \in Visitors : visit[c].call = "none" /\ Returned(visit[c])
  BY <1>4, ShardedConstants DEF Init, VisitType, Returned
<1> QED
  BY <1>3, <1>5
  DEF Init, ShardedInv, SoFar, KeysSoFar, SnapshotSoFar, CountSoFar, PurgeSoFar, Brackets

(* Every step keeps the invariant.                                         *)
LEMMA NextInv ==
  ASSUME ShardedInv, [Next]_vars
  PROVE  ShardedInv'
<1>1. CASE \E k \in Keys : Get(k) \/ Set(k) \/ Delete(k) \/ Peek(k)
  BY <1>1, GetKeeps, SetKeeps, DeleteKeeps DEF Peek
<1>2. CASE \E c \in Visitors :
             Start(c) \/ KeysStep(c) \/ LenStep(c) \/ SnapshotStep(c) \/ PurgeStep(c)
  BY <1>2, StartKeeps, KeysStepKeeps, LenStepKeeps, SnapshotStepKeeps, PurgeStepKeeps
<1>3. CASE UNCHANGED vars
  BY <1>3 DEF vars, ShardedInv
<1> QED
  BY <1>1, <1>2, <1>3 DEF Next

(* Types of the sharded cache, and no shard outgrows its part of the       *)
(* capacity (sharded.go: New divides it once).                             *)
THEOREM TypeCorrect == Spec => []TypeOK
<1>1. ShardedInv => TypeOK
  BY DEF ShardedInv, TypeOK, VisitType, Fits, In
<1> QED
  BY <1>1, InitInv, NextInv, PTL DEF Spec

(* Keys, Len, Stats, Snapshot and Purge, which lock one shard after the    *)
(* other, return what VisitsExact says, whatever other requests and other  *)
(* such calls do meanwhile.                                                *)
THEOREM VisitsAreExact == Spec => []VisitsExact
<1>1. ShardedInv => VisitsExact
  <2> SUFFICES ASSUME ShardedInv, NEW c \in Visitors, Returned(visit[c])
               PROVE  /\ KeysExact(visit[c]) /\ SnapshotExact(visit[c])
                      /\ CountExact(visit[c]) /\ PurgeExact(visit[c])
    BY DEF VisitsExact
  <2> DEFINE v == visit[c]
  <2>1. v \in VisitType /\ SoFar(v) /\ Returned(v)
    BY DEF ShardedInv
  <2> HIDE DEF v
  <2>2. v.always \in SUBSET Keys /\ v.ever \in SUBSET Keys /\ v.next \in Nat /\ v.next > NumShards
    BY <2>1 DEF VisitType, Returned
  <2>3. \A k \in Keys : shardFor[k] < v.next
    BY <2>2, ShardedConstants DEF Shards
  <2>4. Passed(v, v.always) = v.always /\ Passed(v, v.ever) = v.ever
    BY <2>2, <2>3 DEF Passed
  <2>5. KeysExact(v) /\ SnapshotExact(v) /\ CountExact(v) /\ PurgeExact(v)
    BY <2>1, <2>4 DEF SoFar, KeysSoFar, SnapshotSoFar, CountSoFar, PurgeSoFar,
                      KeysExact, SnapshotExact, CountExact, PurgeExact
  <2> QED
    BY <2>5 DEF v
<1> QED
  BY <1>1, InitInv, NextInv, PTL DEF Spec

---------------------------------------------------------------------------
(* perShard entries for each shard are no more than the capacity, if there *)
(* is room for one entry in each.                                          *)
LEMMA PartsOfCapacity ==
  ASSUME NumShards <= Total
  PROVE  perShard \in Nat /\ NumShards * perShard <= Total
<1> DEFINE q == Total \div NumShards
<1>1. NumShards \in Nat \ {0} /\ Total \in Nat
  BY ShardedConstants
<1>2. q \in Nat /\ NumShards * q <= Total /\ q >= 1
  BY <1>1
<1> QED
  BY <1>2 DEF perShard

(* The keys in the shards are no more than shards times entries a shard:   *)
(* a key goes to its shard and its number among the keys there, and no two *)
(* keys go to the same place.                                              *)
LEMMA ShardsTimesParts ==
  ASSUME NEW K \in SUBSET Keys, Fits(K), perShard \in Nat
  PROVE  Cardinality(K) <= NumShards * perShard
<1> DEFINE Number(i) == CHOOSE f : f \in Bijection(1..Cardinality(InShard(K, i)), InShard(K, i))
           Place(k) == CHOOSE n \in 1..perShard : /\ n <= Cardinality(InShard(K, shardFor[k]))
                                                  /\ Number(shardFor[k])[n] = k
           f == [k \in K |-> <<shardFor[k], Place(k)>>]
<1>1. ASSUME NEW k \in K
      PROVE  /\ shardFor[k] \in Shards /\ Place(k) \in 1..perShard
             /\ Number(shardFor[k])[Place(k)] = k
  <2> DEFINE i == shardFor[k]
             S == InShard(K, i)
             n == Cardinality(S)
  <2>1. i \in Shards /\ k \in S /\ S \in SUBSET Keys
    BY ShardedConstants DEF InShard
  <2>2. IsFiniteSet(S) /\ n \in Nat /\ n <= perShard
    BY <2>1, FewerKeys DEF Fits
  <2>3. Number(i) \in Bijection(1..n, S)
    BY <2>2, FS_CardinalityType DEF ExistsBijection
  <2>4. PICK m \in 1..n : Number(i)[m] = k
    BY <2>1, <2>3 DEF Bijection, Surjection
  <2>5. m \in 1..perShard /\ m <= n
    BY <2>2, <2>4
  <2> QED
    BY <2>1, <2>4, <2>5
<1> HIDE DEF Number, Place
<1>2. f \in [K -> Shards \X (1..perShard)]
  BY <1>1
<1>3. ASSUME NEW x \in K, NEW y \in K, f[x] = f[y]
      PROVE  x = y
  BY <1>1, <1>3
<1>4. f \in Injection(K, Shards \X (1..perShard))
  BY <1>2, <1>3 DEF Injection, IsInjective
<1>5. /\ IsFiniteSet(Shards) /\ Cardinality(Shards) = NumShards
      /\ IsFiniteSet(1..perShard) /\ Cardinality(1..perShard) = perShard
  BY FS_Interval, ShardedConstants DEF Shards
<1>6. /\ IsFiniteSet(Shards \X (1..perShard))
      /\ Cardinality(Shards \X (1..perShard)) = NumShards * perShard
  BY <1>5, FS_Product
<1> QED
  BY <1>4, <1>6, FS_Injection

(* The sharded cache never holds more than Capacity() reports, unless that *)
(* is less than one entry a shard (sharded.go: New gives each at least 1). *)
THEOREM CapacityKept == Spec => []WithinCapacity
<1>1. ShardedInv => WithinCapacity
  <2> SUFFICES ASSUME ShardedInv, NumShards <= Total
               PROVE  Cardinality(held) <= Total
    BY DEF WithinCapacity
  <2>1. perShard \in Nat /\ NumShards * perShard <= Total
    BY PartsOfCapacity
  <2>2. Cardinality(held) <= NumShards * perShard
    BY <2>1, ShardsTimesParts DEF ShardedInv
  <2>3. Cardinality(held) \in Nat /\ NumShards * perShard \in Nat /\ Total \in Nat
    BY <2>1, FewerKeys, ShardedConstants DEF ShardedInv
  <2> QED
    BY <2>1, <2>2, <2>3
<1> QED
  BY <1>1, InitInv, NextInv, PTL DEF Spec
===========================================================================
