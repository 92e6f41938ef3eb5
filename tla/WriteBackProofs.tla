-------------------------- MODULE WriteBackProofs --------------------------
(***************************************************************************)
(* Theorems about WriteBack, and about the stores that use it and change   *)
(* their policy (PolicyChange), for any number of requests, tickers, keys: *)
(*   WriteBackCount    dirtyCount against the dirty map                    *)
(*   TypeCorrect       the types, and who holds the cache's mutex          *)
(*   DeadlinesStay     no deadline is lost or extended on its way          *)
(*   CleanIsInStore    what is not dirty any more has reached the store    *)
(*   ReadsUndisturbed  what an undisturbed write set is what Gets return   *)
(*   ClosesDurably     and what the store has after Close                  *)
(*                                                                         *)
(* The first counts with dirtyCount what each process still owes it; it    *)
(* needs no more than that the map is finite, and not where the processes  *)
(* are: every operation of the map is followed by the count of what it     *)
(* removed or added.  The others say of each place a process can be at     *)
(* what it has in hand there.                                              *)
(*                                                                         *)
(* The last three follow from PlaceInv, who can be where, and KeyInv,      *)
(* which says of each key that is not excused: at most one process is on   *)
(* it, and no later flush is counted on for what a last flush has passed;  *)
(* with nobody on it the cache and the store have what was set (Calm), and *)
(* with a process on it so do its local variables (Busy).                  *)
(***************************************************************************)
EXTENDS PolicyChange, FiniteSetTheorems, TLAPS

(* CountNeverAbove, and what makes Cardinality meaningful.                 *)
CountInv ==
  /\ IsFiniteSet(DOMAIN dirty)
  /\ IsFiniteSet(Uncounted(1)) /\ IsFiniteSet(Uncounted(-1))
  /\ dirtyCount \in Int /\ owes \in [Procs -> {-1, 0, 1}]
  /\ CountNeverAbove

(* Those that owe n in o, when p begins or ceases to owe it.               *)
Owers(o, n) == {p \in Procs : o[p] = n}
One(b) == IF b THEN 1 ELSE 0

LEMMA OwersChange ==
  ASSUME NEW o, NEW p \in Procs, NEW n, IsFiniteSet(Owers(o, n)), NEW r,
         \A q \in Procs \ {p} : r[q] = o[q]
  PROVE  /\ IsFiniteSet(Owers(r, n)) /\ Cardinality(Owers(o, n)) \in Nat
         /\ Cardinality(Owers(r, n))
              = Cardinality(Owers(o, n)) + One(r[p] = n) - One(o[p] = n)
<1>1. PICK S : S = Owers(o, n)
  OBVIOUS
<1>2. IsFiniteSet(S) /\ (p \in S <=> o[p] = n)
  BY <1>1 DEF Owers
<1>3. Cardinality(S) \in Nat
  BY <1>2, FS_CardinalityType
<1>4. CASE r[p] = n
  <2>1. Owers(r, n) = S \cup {p}
    BY <1>1, <1>4 DEF Owers
  <2>2. IsFiniteSet(S \cup {p})
        /\ Cardinality(S \cup {p}) = IF p \in S THEN Cardinality(S) ELSE Cardinality(S) + 1
    BY <1>2, FS_AddElement
  <2> QED
    BY <1>1, <1>2, <1>3, <1>4, <2>1, <2>2 DEF One
<1>5. CASE r[p] # n
  <2>1. Owers(r, n) = S \ {p}
    BY <1>1, <1>5 DEF Owers
  <2>2. IsFiniteSet(S \ {p})
        /\ Cardinality(S \ {p}) = IF p \in S THEN Cardinality(S) - 1 ELSE Cardinality(S)
    BY <1>2, FS_RemoveElement
  <2> QED
    BY <1>1, <1>2, <1>3, <1>5, <2>1, <2>2 DEF One
<1> QED
  BY <1>4, <1>5

(* The same of owes, in a step of p.                                       *)
LEMMA OwesChange ==
  ASSUME CountInv, NEW p \in Procs, \A q \in Procs \ {p} : owes'[q] = owes[q]
  PROVE  /\ IsFiniteSet(Uncounted(1)') /\ Cardinality(Uncounted(1)) \in Nat
         /\ IsFiniteSet(Uncounted(-1)') /\ Cardinality(Uncounted(-1)) \in Nat
         /\ Cardinality(Uncounted(1)')
              = Cardinality(Uncounted(1)) + One(owes'[p] = 1) - One(owes[p] = 1)
         /\ Cardinality(Uncounted(-1)')
              = Cardinality(Uncounted(-1)) + One(owes'[p] = -1) - One(owes[p] = -1)
<1>1. /\ Uncounted(1) = Owers(owes, 1) /\ Uncounted(-1) = Owers(owes, -1)
      /\ Uncounted(1)' = Owers(owes', 1) /\ Uncounted(-1)' = Owers(owes', -1)
  BY DEF Uncounted, Owers
<1>2. IsFiniteSet(Owers(owes, 1)) /\ IsFiniteSet(Owers(owes, -1))
  BY <1>1 DEF CountInv
<1>3. /\ IsFiniteSet(Owers(owes', 1)) /\ Cardinality(Owers(owes, 1)) \in Nat
      /\ Cardinality(Owers(owes', 1))
           = Cardinality(Owers(owes, 1)) + One(owes'[p] = 1) - One(owes[p] = 1)
  BY <1>2, OwersChange
<1>4. /\ IsFiniteSet(Owers(owes', -1)) /\ Cardinality(Owers(owes, -1)) \in Nat
      /\ Cardinality(Owers(owes', -1))
           = Cardinality(Owers(owes, -1)) + One(owes'[p] = -1) - One(owes[p] = -1)
  BY <1>2, OwersChange
<1> QED
  BY <1>1, <1>3, <1>4

(* dirty.LoadAndDelete removes at most one mark, to be counted.            *)
LEMMA LoadAndDeleteCounts ==
  ASSUME CountInv, NEW p \in Procs, owes[p] = 0, NEW k, LoadAndDelete(p, k)
  PROVE  CountInv'
<1>1. DOMAIN dirty' = DOMAIN dirty \ {k}
  BY DEF LoadAndDelete, Drop
<1>2. IsFiniteSet(DOMAIN dirty \ {k})
      /\ Cardinality(DOMAIN dirty \ {k})
           = IF k \in DOMAIN dirty THEN Cardinality(DOMAIN dirty) - 1
                                   ELSE Cardinality(DOMAIN dirty)
  BY FS_RemoveElement DEF CountInv
<1>3. Cardinality(DOMAIN dirty) \in Nat /\ owes \in [Procs -> {-1, 0, 1}] /\ dirtyCount \in Int
  BY FS_CardinalityType DEF CountInv
<1>4. PICK m \in {-1, 0} : /\ owes' = [owes EXCEPT ![p] = m] /\ dirtyCount' = dirtyCount
                           /\ m = IF k \in DOMAIN dirty THEN -1 ELSE 0
  BY DEF LoadAndDelete, Owe
<1>10. owes'[p] = m /\ \A q \in Procs \ {p} : owes'[q] = owes[q]
  BY <1>3, <1>4
<1>5. /\ IsFiniteSet(Uncounted(1)') /\ Cardinality(Uncounted(1)) \in Nat
      /\ IsFiniteSet(Uncounted(-1)') /\ Cardinality(Uncounted(-1)) \in Nat
      /\ Cardinality(Uncounted(1)') = Cardinality(Uncounted(1))
      /\ m = 0 => Cardinality(Uncounted(-1)') = Cardinality(Uncounted(-1))
      /\ m = -1 => Cardinality(Uncounted(-1)') = Cardinality(Uncounted(-1)) + 1
  BY <1>4, <1>10, OwesChange DEF One
<1>6. Cardinality(Uncounted(-1)') = Cardinality(Uncounted(-1)) - m
  BY <1>4, <1>5
<1>7. owes' \in [Procs -> {-1, 0, 1}]
  BY <1>3, <1>4
<1>8. CountNeverAbove'
  BY <1>1, <1>2, <1>3, <1>4, <1>5, <1>6 DEF CountInv, CountNeverAbove
<1> QED
  BY <1>1, <1>2, <1>3, <1>4, <1>5, <1>6, <1>7, <1>8 DEF CountInv

(* A mark that is added, or renewed: the map has one more at most.         *)
LEMMA PutCardinality ==
  ASSUME CountInv, NEW k, NEW exp, dirty' = Put(dirty, k, exp)
  PROVE  /\ IsFiniteSet(DOMAIN dirty') /\ Cardinality(DOMAIN dirty) \in Nat
         /\ Cardinality(DOMAIN dirty')
              = IF k \in DOMAIN dirty THEN Cardinality(DOMAIN dirty)
                                      ELSE Cardinality(DOMAIN dirty) + 1
<1>1. DOMAIN dirty' = DOMAIN dirty \cup {k}
  BY DEF Put
<1> QED
  BY <1>1, FS_AddElement, FS_CardinalityType DEF CountInv

(* Steps that leave the map and the count alone.                           *)
LEMMA OtherSteps ==
  ASSUME CountInv, UNCHANGED <<dirty, dirtyCount, owes>>
  PROVE  CountInv'
<1>1. UNCHANGED <<Uncounted(1), Uncounted(-1)>>
  BY DEF Uncounted
<1> QED
  BY <1>1 DEF CountInv, CountNeverAbove

(* dirty.LoadOrStore leads to a count only if it adds a mark.              *)
LEMMA LoadOrStoreCounts ==
  ASSUME CountInv, NEW p \in Procs, owes[p] = 0, NEW k, NEW exp, LoadOrStore(p, k, exp)
  PROVE  CountInv'
<1>1. CASE k \in DOMAIN dirty
  BY <1>1, OtherSteps DEF LoadOrStore
<1>2. CASE k \notin DOMAIN dirty
  <2>1. /\ dirty' = Put(dirty, k, exp) /\ dirtyCount' = dirtyCount
        /\ owes' = [owes EXCEPT ![p] = 1]
    BY <1>2 DEF LoadOrStore, Owe
  <2>7. owes'[p] = 1 /\ \A q \in Procs \ {p} : owes'[q] = owes[q]
    BY <2>1 DEF CountInv
  <2>2. /\ IsFiniteSet(Uncounted(1)') /\ Cardinality(Uncounted(1)) \in Nat
        /\ Cardinality(Uncounted(1)') = Cardinality(Uncounted(1)) + 1
    BY <2>7, OwesChange DEF One
  <2>3. /\ IsFiniteSet(Uncounted(-1)') /\ Cardinality(Uncounted(-1)) \in Nat
        /\ Cardinality(Uncounted(-1)') = Cardinality(Uncounted(-1))
    BY <2>7, OwesChange DEF One
  <2>4. /\ IsFiniteSet(DOMAIN dirty') /\ Cardinality(DOMAIN dirty) \in Nat
        /\ Cardinality(DOMAIN dirty') = Cardinality(DOMAIN dirty) + 1
    BY <1>2, <2>1, PutCardinality
  <2>5. owes' \in [Procs -> {-1, 0, 1}]
    BY <2>1 DEF CountInv
  <2>6. CountNeverAbove'
    BY <2>1, <2>2, <2>3, <2>4 DEF CountInv, CountNeverAbove
  <2> QED
    BY <2>1, <2>2, <2>3, <2>4, <2>5, <2>6 DEF CountInv
<1> QED
  BY <1>1, <1>2

(* dirty.Store, which Set uses on a mark it has found, counts nothing: if  *)
(* the mark has gone in between, the count is one too low from then on.    *)
LEMMA StoreCounts ==
  ASSUME CountInv, NEW k, NEW exp, dirty' = Put(dirty, k, exp), UNCHANGED <<dirtyCount, owes>>
  PROVE  CountInv'
<1>1. UNCHANGED <<Uncounted(1), Uncounted(-1)>>
  BY DEF Uncounted
<1>2. /\ IsFiniteSet(DOMAIN dirty') /\ Cardinality(DOMAIN dirty) \in Nat
      /\ Cardinality(DOMAIN dirty') \in {Cardinality(DOMAIN dirty), Cardinality(DOMAIN dirty) + 1}
  BY PutCardinality
<1>3. IsFiniteSet(Uncounted(1)) /\ IsFiniteSet(Uncounted(-1)) /\ dirtyCount \in Int
  BY DEF CountInv
<1>4. Cardinality(Uncounted(1)) \in Nat /\ Cardinality(Uncounted(-1)) \in Nat
  BY <1>3, FS_CardinalityType
<1> QED
  BY <1>1, <1>2, <1>3, <1>4 DEF CountInv, CountNeverAbove

(* dirtyCount.Add: p no longer owes what is now counted.                   *)
LEMMA CountCounts ==
  ASSUME CountInv, NEW p \in Procs, Count(p)
  PROVE  CountInv'
<1>1. /\ owes[p] \in {-1, 1} /\ dirtyCount' = dirtyCount + owes[p] /\ dirty' = dirty
      /\ owes' = [owes EXCEPT ![p] = 0]
  BY DEF Count, CountInv
<1>7. owes'[p] = 0 /\ \A q \in Procs \ {p} : owes'[q] = owes[q]
  BY <1>1 DEF CountInv
<1>2. /\ IsFiniteSet(Uncounted(1)') /\ Cardinality(Uncounted(1)) \in Nat
      /\ Cardinality(Uncounted(1)')
           = IF owes[p] = 1 THEN Cardinality(Uncounted(1)) - 1 ELSE Cardinality(Uncounted(1))
  BY <1>1, <1>7, OwesChange DEF One
<1>3. /\ IsFiniteSet(Uncounted(-1)') /\ Cardinality(Uncounted(-1)) \in Nat
      /\ Cardinality(Uncounted(-1)')
           = IF owes[p] = -1 THEN Cardinality(Uncounted(-1)) - 1 ELSE Cardinality(Uncounted(-1))
  BY <1>1, <1>7, OwesChange DEF One
<1>4. owes' \in [Procs -> {-1, 0, 1}] /\ IsFiniteSet(DOMAIN dirty) /\ dirtyCount \in Int
  BY <1>1 DEF CountInv
<1>5. Cardinality(DOMAIN dirty) \in Nat
  BY <1>4, FS_CardinalityType
<1>6. CountNeverAbove'
  BY <1>1, <1>2, <1>3, <1>4, <1>5 DEF CountInv, CountNeverAbove
<1> QED
  BY <1>1, <1>2, <1>3, <1>4, <1>6 DEF CountInv

(* inner.Set touches the map only when it evicts a dirty entry.            *)
LEMMA InsertCounts ==
  ASSUME CountInv, NEW p \in Procs, owes[p] = 0, NEW k, NEW v, NEW ttl, NEW then, Insert(p, k, v, ttl, then)
  PROVE  CountInv'
<1>1. CASE InsertFits(p, k, v, ttl, then)
  BY <1>1, OtherSteps DEF InsertFits
<1>2. CASE InsertEvictsClean(p, k, v, ttl, then)
  BY <1>2, OtherSteps DEF InsertEvictsClean
<1>3. CASE InsertEvictsDirty(p, k, v, ttl, then)
  <2>1. PICK x \in DOMAIN live \cap DOMAIN dirty : LoadAndDelete(p, x)
    BY <1>3 DEF InsertEvictsDirty
  <2> QED
    BY <2>1, LoadAndDeleteCounts
<1> QED
  BY <1>1, <1>2, <1>3 DEF Insert

(* A call begins.                                                          *)
LEMMA CallCounts ==
  ASSUME CountInv, NEW p \in Procs, Call(p)
  PROVE  CountInv'
<1>1. CASE SetInner(p)
  BY <1>1, InsertCounts DEF SetInner, Starts
<1>2. CASE GetInner(p)
  BY <1>2, OtherSteps DEF GetInner
<1>3. CASE DeleteMark(p)
  BY <1>3, LoadAndDeleteCounts DEF DeleteMark, Starts
<1>4. CASE Flush(p)
  BY <1>4, OtherSteps DEF Flush
<1>5. CASE PurgeFlush(p)
  BY <1>5, OtherSteps DEF PurgeFlush
<1>6. CASE CloseFlush(p)
  BY <1>6, OtherSteps DEF CloseFlush
<1> QED
  BY <1>1, <1>2, <1>3, <1>4, <1>5, <1>6 DEF Call

(* A step of flushAll, whoever runs it.                                    *)
LEMMA flushAllCounts ==
  ASSUME CountInv, NEW p \in Procs, owes[p] = 0, flushAll(p)
  PROVE  CountInv'
<1>1. CASE FlushVisit(p)
  BY <1>1, OtherSteps DEF FlushVisit
<1>2. CASE FlushTake(p)
  BY <1>2, LoadAndDeleteCounts DEF FlushTake
<1>3. CASE FlushPeek(p)
  BY <1>3, OtherSteps DEF FlushPeek
<1>4. CASE FlushDropsExpired(p)
  BY <1>4, OtherSteps DEF FlushDropsExpired
<1>5. CASE FlushWrites(p)
  BY <1>5, OtherSteps DEF FlushWrites
<1>6. CASE FlushWriteFails(p)
  BY <1>6, OtherSteps DEF FlushWriteFails
<1>7. CASE FlushRequeues(p)
  BY <1>7, LoadOrStoreCounts DEF FlushRequeues
<1>8. CASE FlushDone(p)
  BY <1>8, OtherSteps DEF FlushDone
<1> QED
  BY <1>1, <1>2, <1>3, <1>4, <1>5, <1>6, <1>7, <1>8 DEF flushAll

(* A step of a process in the middle of a call.                            *)
LEMMA ContinueCounts ==
  ASSUME CountInv, NEW p \in Procs, Continue(p)
  PROVE  CountInv'
<1>0. owes[p] = 0
  BY DEF Continue
<1>1. CASE EvictFlush(p)
  BY <1>1, OtherSteps DEF EvictFlush
<1>2. CASE SetMark(p)
  BY <1>0, <1>2, LoadOrStoreCounts DEF SetMark
<1>3. CASE SetRemark(p)
  BY <1>3, StoreCounts DEF SetRemark
<1>4. CASE GetLoad(p)
  BY <1>4, OtherSteps DEF GetLoad
<1>5. CASE GetDropsExpired(p)
  BY <1>5, OtherSteps DEF GetDropsExpired
<1>6. CASE GetFill(p)
  BY <1>0, <1>6, InsertCounts DEF GetFill
<1>7. CASE DeleteStore(p)
  BY <1>7, OtherSteps DEF DeleteStore
<1>8. CASE DeleteInner(p)
  BY <1>8, OtherSteps DEF DeleteInner
<1>9. CASE flushAll(p)
  BY <1>0, <1>9, flushAllCounts
<1>10. CASE PurgeInner(p)
  BY <1>10, OtherSteps DEF PurgeInner
<1>11. CASE CloseDone(p)
  BY <1>11, OtherSteps DEF CloseDone
<1> QED
  BY <1>1, <1>2, <1>3, <1>4, <1>5, <1>6, <1>7, <1>8, <1>9, <1>10, <1>11 DEF Continue

(* DirtyCount(): whatever requests, evictions, flushers and failures       *)
(* interleave, when those in between have counted, the API reports no      *)
(* pending write that does not exist.                                      *)
THEOREM WriteBackCount == Spec => []CountNeverAbove
<1>1. Init => CountInv
  <2> SUFFICES ASSUME Init PROVE CountInv
    OBVIOUS
  <2>1. DOMAIN dirty = {} /\ dirtyCount = 0 /\ owes = [p \in Procs |-> 0]
    BY DEF Init, Empty
  <2>2. Uncounted(1) = {} /\ Uncounted(-1) = {}
    BY <2>1 DEF Uncounted
  <2>3. IsFiniteSet({}) /\ Cardinality({}) = 0
    BY FS_EmptySet
  <2>4. owes \in [Procs -> {-1, 0, 1}] /\ dirtyCount \in Int
    BY <2>1
  <2>5. CountNeverAbove
    <3>1. Cardinality(Uncounted(1)) = 0 /\ Cardinality(Uncounted(-1)) = 0
          /\ Cardinality(DOMAIN dirty) = 0 /\ dirtyCount = 0
      BY <2>1, <2>2, <2>3
    <3> QED
      BY <3>1 DEF CountNeverAbove
  <2> QED
    BY <2>1, <2>2, <2>3, <2>4, <2>5 DEF CountInv
<1>2. CountInv /\ [Next]_vars => CountInv'
  <2> SUFFICES ASSUME CountInv, [Next]_vars PROVE CountInv'
    OBVIOUS
  <2>1. CASE Tick
    BY <2>1, OtherSteps DEF Tick
  <2>2. ASSUME NEW p \in Procs, Call(p) PROVE CountInv'
    BY <2>2, CallCounts
  <2>3. ASSUME NEW p \in Procs, Continue(p) PROVE CountInv'
    BY <2>3, ContinueCounts
  <2>4. ASSUME NEW p \in Procs, TickerFires(p) PROVE CountInv'
    BY <2>4, OtherSteps DEF TickerFires
  <2>5. ASSUME NEW p \in Procs, TickerStops(p) PROVE CountInv'
    BY <2>5, OtherSteps DEF TickerStops
  <2>6. CASE UNCHANGED vars
    BY <2>6, OtherSteps DEF vars
  <2>7. ASSUME NEW p \in Procs, Count(p) PROVE CountInv'
    BY <2>7, CountCounts
  <2> QED
    BY <2>1, <2>2, <2>3, <2>4, <2>5, <2>6, <2>7 DEF Next
<1>3. CountInv => CountNeverAbove
  BY DEF CountInv
<1> QED
  BY <1>1, <1>2, <1>3, PTL DEF Spec

---------------------------------------------------------------------------
(* The records of Locals, by what the process that has one is doing.       *)
Marks == [at : {"mark"}, key : Keys, ttl : TTLs]
Thens == {Idle} \cup Marks
Afters == {Idle, [at |-> "purge"], [at |-> "close"]}
Rests == [at : {"range"}, todo : SUBSET Keys, then : Afters]
Evicts == [at : {"evict"}, victim : Keys, old : Values, expiresAt : Nat, key : Keys,
           new : [value : Values, expiresAt : Nat], then : Thens]
Remarks == [at : {"remark"}, key : Keys, expiresAt : Nat]
Lookups == [at : {"load", "loadedExpired", "deleteStore", "deleteInner"}, key : Keys]
Fills == [at : {"fill"}, key : Keys, value : Values, ttl : Nat]
Visits == [at : {"take", "peek", "flushExpired"}, key : Keys, expiresAt : Nat, rest : Rests]
Writes == [at : {"write", "requeue"}, key : Keys, value : Values, expiresAt : Nat, rest : Rests]
Stops == {[at |-> "stopped"]}

(* The local variables of a process are one of these.                      *)
LEMMA LocalsAre ==
  Locals = Afters \cup Stops \cup Thens \cup Rests \cup Evicts \cup Remarks
             \cup Lookups \cup Fills \cup Visits \cup Writes
BY DEF Locals, Afters, Stops, Thens, Marks, Rests, Evicts, Remarks, Lookups, Fills, Visits, Writes

(* Where a process is tells which local variables it has.                  *)
LEMMA LocalsByPlace ==
  ASSUME NEW s \in Locals
  PROVE  /\ s.at = "mark" => s \in Marks
         /\ s.at = "range" => s \in Rests
         /\ s.at = "evict" => s \in Evicts
         /\ s.at = "remark" => s \in Remarks
         /\ s.at \in {"load", "loadedExpired", "deleteStore", "deleteInner"} => s \in Lookups
         /\ s.at = "fill" => s \in Fills
         /\ s.at \in {"take", "peek", "flushExpired"} => s \in Visits
         /\ s.at \in {"write", "requeue"} => s \in Writes
<1>1. CASE s \in Afters \cup Stops
  BY <1>1 DEF Afters, Stops, Idle
<1>2. CASE s \in Thens
  BY <1>2 DEF Thens, Marks, Idle
<1>3. CASE s \in Rests
  BY <1>3 DEF Rests
<1>4. CASE s \in Evicts
  BY <1>4 DEF Evicts
<1>5. CASE s \in Remarks
  BY <1>5 DEF Remarks
<1>6. CASE s \in Lookups
  BY <1>6 DEF Lookups
<1>7. CASE s \in Fills
  BY <1>7 DEF Fills
<1>8. CASE s \in Visits
  BY <1>8 DEF Visits
<1>9. CASE s \in Writes
  BY <1>9 DEF Writes
<1> QED
  BY <1>1, <1>2, <1>3, <1>4, <1>5, <1>6, <1>7, <1>8, <1>9, LocalsAre

(* What the cache and the store may hold.                                  *)
CacheEntries == [value : Values, expiresAt : Nat]
LiveOK(f) == DOMAIN f \subseteq Keys /\ f \in [DOMAIN f -> CacheEntries]
StoreOK(f) == DOMAIN f \subseteq Keys /\ f \in [DOMAIN f -> Stored(Values, Nat)]
DirtyOK(f) == DOMAIN f \subseteq Keys /\ f \in [DOMAIN f -> Nat]
CountOK(c, o) == c \in Int /\ o \in [Procs -> {-1, 0, 1}]

(* Maps stay maps: an entry is added, replaced or removed.                 *)
LEMMA MapsStayMaps ==
  ASSUME NEW f, NEW k \in Keys
  PROVE  /\ LiveOK(f) => LiveOK(Drop(f, k))
         /\ StoreOK(f) => StoreOK(Drop(f, k))
         /\ DirtyOK(f) => DirtyOK(Drop(f, k))
         /\ \A e \in CacheEntries : LiveOK(f) => LiveOK(Put(f, k, e))
         /\ \A e \in Stored(Values, Nat) : StoreOK(f) => StoreOK(Put(f, k, e))
         /\ \A e \in Nat : DirtyOK(f) => DirtyOK(Put(f, k, e))
BY DEF LiveOK, StoreOK, DirtyOK, Drop, Put

(* encodeForStore makes what the store holds, so flushValue keeps it so.   *)
LEMMA flushValueType ==
  ASSUME StoreOK(store), NEW k \in Keys, NEW v \in Values, NEW exp \in Nat
  PROVE  StoreOK(flushValue(k, v, exp))
<1>1. encodeForStore(v, exp) \in Stored(Values, Nat)
  BY DEF encodeForStore, Raw, Envelope, Stored
<1> QED
  BY <1>1, MapsStayMaps DEF flushValue

(* dirty.LoadOrStore keeps the types of the map and of its count.          *)
LEMMA LoadOrStoreTypes ==
  ASSUME DirtyOK(dirty), CountOK(dirtyCount, owes), NEW p, NEW k \in Keys, NEW exp \in Nat,
         LoadOrStore(p, k, exp)
  PROVE  DirtyOK(dirty') /\ CountOK(dirtyCount', owes')
<1>1. CASE k \in DOMAIN dirty
  <2>1. dirty' = dirty /\ dirtyCount' = dirtyCount /\ owes' = owes
    BY <1>1 DEF LoadOrStore
  <2> QED
    BY <2>1
<1>2. CASE k \notin DOMAIN dirty
  <2>1. dirty' = Put(dirty, k, exp) /\ CountOK(dirtyCount', owes')
    BY <1>2 DEF LoadOrStore, Owe, CountOK
  <2>2. DirtyOK(Put(dirty, k, exp))
    BY MapsStayMaps
  <2> QED
    BY <2>1, <2>2
<1> QED
  BY <1>1, <1>2

(* TypeOK, from the parts above.                                           *)
LEMMA TypeParts ==
  TypeOK <=> /\ now \in Nat
             /\ LiveOK(live) /\ DirtyOK(dirty) /\ StoreOK(store)
             /\ CountOK(dirtyCount, owes)
             /\ gate \in {"open", "closing", "closed"}
             /\ st \in [Procs -> Locals]
             /\ latest \in [Keys -> Values \cup {NoValue}]
             /\ lock \in Procs \cup {Nobody}
             /\ \A p \in Procs : At(p, "evict") <=> lock = p
BY DEF TypeOK, LiveOK, DirtyOK, StoreOK, CountOK, CacheEntries

(* A step of one process, which may take the cache's mutex or release it.  *)
LEMMA StepTypes ==
  ASSUME TypeOK, NEW p \in Procs, NEW s \in Locals, Goto(p, s),
         now' = now, LiveOK(live'), DirtyOK(dirty'), StoreOK(store'),
         CountOK(dirtyCount', owes'), gate' \in {"open", "closing", "closed"},
         latest' \in [Keys -> Values \cup {NoValue}],
         lock' \in {lock, p, Nobody}, s.at = "evict" <=> lock' = p,
         lock' # lock => lock \in {p, Nobody}
  PROVE  TypeOK'
<1>1. st' \in [Procs -> Locals] /\ st'[p] = s
  BY DEF Goto, TypeOK
<1>2. \A q \in Procs \ {p} : st'[q] = st[q]
  BY DEF Goto, TypeOK
<1>3. Nobody \notin Procs
  BY WBConstants DEF Nobody, Procs
<1>4. lock' \in Procs \cup {Nobody}
  BY DEF TypeOK
<1>5. ASSUME NEW q \in Procs PROVE st'[q].at = "evict" <=> lock' = q
  <2>1. CASE q = p
    BY <1>1, <2>1
  <2>2. CASE q # p
    BY <1>2, <1>3, <2>2 DEF TypeOK, At
  <2> QED
    BY <2>1, <2>2
<1>6. \A q \in Procs : (At(q, "evict"))' <=> lock' = q
  BY <1>5 DEF At
<1>7. now' \in Nat
  BY DEF TypeOK
<1> QED
  BY <1>1, <1>4, <1>6, <1>7 DEF TypeOK, LiveOK, DirtyOK, StoreOK, CountOK, CacheEntries

(* A step of a process outside the callback, which stays outside it.       *)
LEMMA PlainTypes ==
  ASSUME TypeOK, NEW p \in Procs, NEW s \in Locals, Goto(p, s),
         ~At(p, "evict"), s.at # "evict", UNCHANGED <<now, lock>>,
         LiveOK(live'), DirtyOK(dirty'), StoreOK(store'),
         CountOK(dirtyCount', owes'), gate' \in {"open", "closing", "closed"},
         latest' \in [Keys -> Values \cup {NoValue}]
  PROVE  TypeOK'
<1>1. lock # p
  BY DEF TypeOK
<1> QED
  BY <1>1, StepTypes

(* Where a process of a typed state may go.                                *)
LEMMA Places ==
  /\ Idle \in Locals /\ Idle.at = "idle"
  /\ [at |-> "purge"] \in Locals /\ [at |-> "close"] \in Locals /\ [at |-> "stopped"] \in Locals
  /\ \A k \in Keys, t \in TTLs : [at |-> "mark", key |-> k, ttl |-> t] \in Marks
  /\ \A s \in Marks : s \in Locals /\ s.at = "mark"
  /\ \A s \in Thens : s \in Locals /\ s.at \in {"idle", "mark"}
  /\ \A s \in Afters : s \in Locals /\ s.at \in {"idle", "purge", "close"}
  /\ \A s \in Rests : s \in Locals /\ s.at = "range"
  /\ \A s \in Evicts : s \in Locals /\ s.at = "evict"
  /\ \A s \in Remarks : s \in Locals /\ s.at = "remark"
  /\ \A s \in Lookups : s \in Locals /\ s.at \in {"load", "loadedExpired", "deleteStore", "deleteInner"}
  /\ \A s \in Fills : s \in Locals /\ s.at = "fill"
  /\ \A s \in Visits : s \in Locals /\ s.at \in {"take", "peek", "flushExpired"}
  /\ \A s \in Writes : s \in Locals /\ s.at \in {"write", "requeue"}
<1>1. Idle \in Afters /\ [at |-> "purge"] \in Afters /\ [at |-> "close"] \in Afters
  BY DEF Afters
<1>2. [at |-> "stopped"] \in Locals
  BY LocalsAre DEF Stops
<1>3. Idle.at = "idle"
  BY DEF Idle
<1>4. /\ \A s \in Marks : s \in Locals
      /\ \A s \in Thens : s \in Locals
      /\ \A s \in Afters : s \in Locals
      /\ \A s \in Rests : s \in Locals
      /\ \A s \in Evicts : s \in Locals
      /\ \A s \in Remarks : s \in Locals
      /\ \A s \in Lookups : s \in Locals
      /\ \A s \in Fills : s \in Locals
      /\ \A s \in Visits : s \in Locals
      /\ \A s \in Writes : s \in Locals
  BY LocalsAre DEF Thens
<1>5. \A k \in Keys, t \in TTLs : [at |-> "mark", key |-> k, ttl |-> t] \in Marks
  BY DEF Marks
<1>6. /\ \A s \in Marks : s.at = "mark"
      /\ \A s \in Thens : s.at \in {"idle", "mark"}
      /\ \A s \in Afters : s.at \in {"idle", "purge", "close"}
  BY DEF Marks, Thens, Afters, Idle
<1>7. /\ \A s \in Rests : s.at = "range"
      /\ \A s \in Evicts : s.at = "evict"
      /\ \A s \in Remarks : s.at = "remark"
  BY DEF Rests, Evicts, Remarks
<1>8. /\ \A s \in Lookups : s.at \in {"load", "loadedExpired", "deleteStore", "deleteInner"}
      /\ \A s \in Fills : s.at = "fill"
      /\ \A s \in Visits : s.at \in {"take", "peek", "flushExpired"}
      /\ \A s \in Writes : s.at \in {"write", "requeue"}
  BY DEF Lookups, Fills, Visits, Writes
<1> QED
  BY <1>1, <1>2, <1>3, <1>4, <1>5, <1>6, <1>7, <1>8

(* inner.Set.                                                              *)
LEMMA InsertTypes ==
  ASSUME TypeOK, NEW p \in Procs, ~At(p, "evict"), NEW k \in Keys, NEW v \in Values,
         NEW ttl \in Nat, NEW then \in Thens, Insert(p, k, v, ttl, then)
  PROVE  TypeOK'
<1> DEFINE e == Entry(v, Deadline(ttl))
<1>1. e \in CacheEntries
  BY DEF TypeOK, Entry, Deadline, CacheEntries
<1>2. then \in Locals /\ then.at # "evict"
  BY Places
<1>3. /\ LiveOK(live) /\ DirtyOK(dirty) /\ StoreOK(store) /\ CountOK(dirtyCount, owes)
      /\ gate \in {"open", "closing", "closed"}
      /\ latest \in [Keys -> Values \cup {NoValue}]
      /\ st \in [Procs -> Locals]
  BY TypeParts
<1>4. Record(k, v, then) => latest' \in [Keys -> Values \cup {NoValue}]
  BY <1>3 DEF Record
<1> HIDE DEF e
<1>5. CASE InsertFits(p, k, v, ttl, then)
  <2>1. LiveOK(live')
    BY <1>1, <1>3, <1>5, MapsStayMaps DEF InsertFits, e
  <2> QED
    BY <1>2, <1>3, <1>4, <1>5, <2>1, PlainTypes DEF InsertFits
<1>6. CASE InsertEvictsClean(p, k, v, ttl, then)
  <2>1. PICK x \in DOMAIN live \ DOMAIN dirty : live' = Put(Drop(live, x), k, e)
    BY <1>6 DEF InsertEvictsClean, e
  <2>2. x \in Keys
    BY <1>3, <2>1 DEF LiveOK
  <2>3. LiveOK(Drop(live, x))
    BY <1>3, <2>2, MapsStayMaps
  <2>4. LiveOK(live')
    BY <1>1, <2>1, <2>3, MapsStayMaps
  <2> QED
    BY <1>2, <1>3, <1>4, <1>6, <2>4, PlainTypes DEF InsertEvictsClean
<1>7. CASE InsertEvictsDirty(p, k, v, ttl, then)
  <2>1. PICK x \in DOMAIN live \cap DOMAIN dirty :
          /\ live' = Drop(live, x)
          /\ LoadAndDelete(p, x)
          /\ Goto(p, [at |-> "evict", victim |-> x, old |-> live[x].value,
                      expiresAt |-> dirty[x], key |-> k, new |-> e, then |-> then])
    BY <1>7 DEF InsertEvictsDirty, e
  <2>2. x \in Keys /\ live[x].value \in Values /\ dirty[x] \in Nat
    BY <1>3, <2>1 DEF LiveOK, DirtyOK, CacheEntries
  <2> DEFINE s == [at |-> "evict", victim |-> x, old |-> live[x].value,
                   expiresAt |-> dirty[x], key |-> k, new |-> e, then |-> then]
  <2>3. s \in Evicts
    BY <1>1, <2>2 DEF Evicts, CacheEntries
  <2>4. s \in Locals /\ s.at = "evict"
    BY <2>3, Places
  <2>5. LiveOK(live') /\ DirtyOK(dirty')
    BY <1>3, <2>1, <2>2, MapsStayMaps DEF LoadAndDelete, Owe, CountOK
  <2>6. CountOK(dirtyCount', owes')
    BY <1>3, <2>1 DEF LoadAndDelete, Owe, CountOK
  <2>7. Goto(p, s)
    BY <2>1
  <2>8. lock = Nobody /\ lock' = p /\ UNCHANGED <<now, store, gate, latest>>
    BY <1>7 DEF InsertEvictsDirty
  <2> HIDE DEF s
  <2> QED
    BY <1>3, <2>4, <2>5, <2>6, <2>7, <2>8, StepTypes
<1> QED
  BY <1>5, <1>6, <1>7 DEF Insert

(* The callback ends.                                                      *)
LEMMA EvictFlushTypes ==
  ASSUME TypeOK, NEW p \in Procs, EvictFlush(p)
  PROVE  TypeOK'
<1>1. /\ LiveOK(live) /\ DirtyOK(dirty) /\ StoreOK(store) /\ CountOK(dirtyCount, owes)
      /\ gate \in {"open", "closing", "closed"}
      /\ latest \in [Keys -> Values \cup {NoValue}]
      /\ st \in [Procs -> Locals]
  BY TypeParts
<1>2. st[p] \in Evicts
  BY <1>1, LocalsByPlace DEF EvictFlush, At
<1>3. /\ st[p].victim \in Keys /\ st[p].old \in Values /\ st[p].expiresAt \in Nat
      /\ st[p].key \in Keys /\ st[p].new \in CacheEntries /\ st[p].then \in Thens
  BY <1>2 DEF Evicts, CacheEntries
<1>4. st[p].then \in Locals /\ st[p].then.at # "evict"
  BY <1>3, Places
<1>5. LiveOK(live')
  BY <1>1, <1>3, MapsStayMaps DEF EvictFlush
<1>6. StoreOK(store')
  BY <1>1, <1>3, flushValueType DEF EvictFlush, StoreDoes, StoreFailed
<1>7. st[p].new.value \in Values
  BY <1>3 DEF CacheEntries
<1>8. latest' \in [Keys -> Values \cup {NoValue}]
  BY <1>1, <1>3, <1>7 DEF EvictFlush, Record
<1>9. lock = p /\ lock' = Nobody /\ Nobody # p
  BY WBConstants DEF EvictFlush, TypeOK, Nobody, Procs
<1>10. Goto(p, st[p].then) /\ UNCHANGED <<now, dirty, dirtyCount, owes, gate>>
  BY DEF EvictFlush
<1> QED
  BY <1>1, <1>4, <1>5, <1>6, <1>8, <1>9, <1>10, StepTypes

(* Set.                                                                    *)
LEMMA SetTypes ==
  ASSUME TypeOK, NEW p \in Procs, SetInner(p) \/ SetMark(p) \/ SetRemark(p)
  PROVE  TypeOK'
<1>1. /\ LiveOK(live) /\ DirtyOK(dirty) /\ StoreOK(store) /\ CountOK(dirtyCount, owes)
      /\ gate \in {"open", "closing", "closed"}
      /\ latest \in [Keys -> Values \cup {NoValue}]
      /\ st \in [Procs -> Locals] /\ now \in Nat
  BY TypeParts
<1>2. CASE SetInner(p)
  <2>1. PICK k \in Keys, v \in Values, ttl \in TTLs :
          Insert(p, k, v, ttl, [at |-> "mark", key |-> k, ttl |-> ttl])
    BY <1>2 DEF SetInner
  <2>2. [at |-> "mark", key |-> k, ttl |-> ttl] \in Thens
    BY Places DEF Thens
  <2>3. ttl \in Nat /\ ~At(p, "evict")
    BY <1>2, WBConstants DEF SetInner, Starts, At
  <2> QED
    BY <2>1, <2>2, <2>3, InsertTypes
<1>3. CASE SetMark(p)
  <2>1. st[p] \in Marks
    BY <1>1, <1>3, LocalsByPlace DEF SetMark, At
  <2> DEFINE exp == Deadline(st[p].ttl)
  <2>2. st[p].key \in Keys /\ exp \in Nat
    <3>1. st[p].key \in Keys /\ st[p].ttl \in TTLs
      BY <2>1 DEF Marks
    <3>2. st[p].ttl \in Nat
      BY <3>1, WBConstants
    <3> QED
      BY <1>1, <3>1, <3>2 DEF Deadline
  <2> HIDE DEF exp
  <2>3. [at |-> "remark", key |-> st[p].key, expiresAt |-> exp] \in Remarks
    BY <2>2 DEF Remarks
  <2>4. PICK s \in Locals : Goto(p, s) /\ s.at # "evict"
    <3>1. CASE st[p].key \in DOMAIN dirty
      BY <1>3, <2>3, <3>1, Places DEF SetMark, exp
    <3>2. CASE st[p].key \notin DOMAIN dirty
      BY <1>3, <3>2, Places DEF SetMark
    <3> QED
      BY <3>1, <3>2
  <2>5. DirtyOK(dirty') /\ CountOK(dirtyCount', owes')
    <3>1. LoadOrStore(p, st[p].key, exp)
      BY <1>3 DEF SetMark, exp
    <3> QED
      BY <1>1, <3>1, <2>2, LoadOrStoreTypes
  <2>6. UNCHANGED <<now, live, lock, store, gate, latest>> /\ ~At(p, "evict")
    BY <1>3 DEF SetMark, At
  <2> QED
    BY <1>1, <2>4, <2>5, <2>6, PlainTypes
<1>4. CASE SetRemark(p)
  <2>1. st[p] \in Remarks
    BY <1>1, <1>4, LocalsByPlace DEF SetRemark, At
  <2>2. st[p].key \in Keys /\ st[p].expiresAt \in Nat
    BY <2>1 DEF Remarks
  <2>3. DirtyOK(dirty')
    BY <1>1, <1>4, <2>2, MapsStayMaps DEF SetRemark
  <2>4. UNCHANGED <<now, live, lock, dirtyCount, owes, store, gate, latest>> /\ ~At(p, "evict")
        /\ Goto(p, Idle)
    BY <1>4 DEF SetRemark, At
  <2> QED
    BY <1>1, <2>3, <2>4, Places, PlainTypes
<1> QED
  BY <1>2, <1>3, <1>4

(* Delete.                                                                 *)
LEMMA DeleteTypes ==
  ASSUME TypeOK, NEW p \in Procs, DeleteMark(p) \/ DeleteStore(p) \/ DeleteInner(p)
  PROVE  TypeOK'
<1>1. /\ LiveOK(live) /\ DirtyOK(dirty) /\ StoreOK(store) /\ CountOK(dirtyCount, owes)
      /\ gate \in {"open", "closing", "closed"}
      /\ latest \in [Keys -> Values \cup {NoValue}]
      /\ st \in [Procs -> Locals]
  BY TypeParts
<1>2. CASE DeleteMark(p)
  <2>1. PICK k \in Keys : LoadAndDelete(p, k) /\ Goto(p, [at |-> "deleteStore", key |-> k])
    BY <1>2 DEF DeleteMark
  <2>2. [at |-> "deleteStore", key |-> k] \in Lookups
    BY DEF Lookups
  <2>3. PICK s \in Locals : Goto(p, s) /\ s.at # "evict"
    BY <2>1, <2>2, Places
  <2>4. DirtyOK(dirty') /\ CountOK(dirtyCount', owes')
    BY <1>1, <2>1, MapsStayMaps DEF LoadAndDelete, Owe, CountOK
  <2>5. UNCHANGED <<now, live, lock, store, gate, latest>> /\ ~At(p, "evict")
    BY <1>2 DEF DeleteMark, Starts, At
  <2> QED
    BY <1>1, <2>3, <2>4, <2>5, PlainTypes
<1>3. CASE DeleteStore(p)
  <2>1. st[p] \in Lookups
    BY <1>1, <1>3, LocalsByPlace DEF DeleteStore, At
  <2>2. st[p].key \in Keys /\ [at |-> "deleteInner", key |-> st[p].key] \in Lookups
    BY <2>1 DEF Lookups
  <2>3. PICK s \in Locals : Goto(p, s) /\ s.at # "evict"
    BY <1>3, <2>2, Places DEF DeleteStore
  <2>4. StoreOK(store')
    BY <1>1, <1>3, <2>2, MapsStayMaps DEF DeleteStore, StoreDoes, StoreFailed
  <2>5. UNCHANGED <<now, live, lock, dirty, dirtyCount, owes, gate, latest>> /\ ~At(p, "evict")
    BY <1>3 DEF DeleteStore, At
  <2> QED
    BY <1>1, <2>3, <2>4, <2>5, PlainTypes
<1>4. CASE DeleteInner(p)
  <2>1. st[p] \in Lookups
    BY <1>1, <1>4, LocalsByPlace DEF DeleteInner, At
  <2>2. st[p].key \in Keys
    BY <2>1 DEF Lookups
  <2>3. LiveOK(live') /\ latest' \in [Keys -> Values \cup {NoValue}]
    BY <1>1, <1>4, <2>2, MapsStayMaps DEF DeleteInner
  <2>4. UNCHANGED <<now, lock, dirty, dirtyCount, owes, store, gate>> /\ ~At(p, "evict")
        /\ Goto(p, Idle)
    BY <1>4 DEF DeleteInner, At
  <2> QED
    BY <1>1, <2>3, <2>4, Places, PlainTypes
<1> QED
  BY <1>2, <1>3, <1>4

(* Get.                                                                    *)
LEMMA GetTypes ==
  ASSUME TypeOK, NEW p \in Procs, GetInner(p) \/ GetLoad(p) \/ GetDropsExpired(p) \/ GetFill(p)
  PROVE  TypeOK'
<1>1. /\ LiveOK(live) /\ DirtyOK(dirty) /\ StoreOK(store) /\ CountOK(dirtyCount, owes)
      /\ gate \in {"open", "closing", "closed"}
      /\ latest \in [Keys -> Values \cup {NoValue}]
      /\ st \in [Procs -> Locals] /\ now \in Nat
  BY TypeParts
<1>2. CASE GetInner(p)
  <2>1. PICK k \in Keys :
          /\ live' = IF Fresh(k) THEN live ELSE Drop(live, k)
          /\ Goto(p, IF Fresh(k) THEN Idle ELSE [at |-> "load", key |-> k])
    BY <1>2 DEF GetInner
  <2>2. [at |-> "load", key |-> k] \in Lookups
    BY DEF Lookups
  <2>3. PICK s \in Locals : Goto(p, s) /\ s.at # "evict"
    BY <2>1, <2>2, Places
  <2>4. LiveOK(live')
    BY <1>1, <2>1, MapsStayMaps
  <2>5. UNCHANGED <<now, lock, dirty, dirtyCount, owes, store, gate, latest>> /\ ~At(p, "evict")
    BY <1>2 DEF GetInner, Starts, At
  <2> QED
    BY <1>1, <2>3, <2>4, <2>5, PlainTypes
<1>3. CASE GetLoad(p)
  <2>1. st[p] \in Lookups
    BY <1>1, <1>3, LocalsByPlace DEF GetLoad, At
  <2>2. st[p].key \in Keys
    BY <2>1 DEF Lookups
  <2>3. UNCHANGED <<now, live, lock, dirty, dirtyCount, owes, store, gate, latest>> /\ ~At(p, "evict")
    BY <1>3 DEF GetLoad, At
  <2>4. PICK s \in Locals : Goto(p, s) /\ s.at # "evict"
    <3>1. CASE Goto(p, Idle)
      BY <3>1, Places
    <3>2. CASE ~Goto(p, Idle)
      <4> DEFINE k == st[p].key
                 d == decodeFromStore(store[k])
      <4>1. k \in DOMAIN store
            /\ Goto(p, IF ttlExpired(d.expiresAt, now)
                         THEN [at |-> "loadedExpired", key |-> k]
                         ELSE [at |-> "fill", key |-> k, value |-> d.value,
                               ttl |-> ttlLeft(d.expiresAt, now)])
        BY <1>3, <3>2 DEF GetLoad
      <4>2. store[k] \in Stored(Values, Nat)
        BY <1>1, <4>1 DEF StoreOK
      <4>3. d.value \in Values /\ d.expiresAt \in Nat
        BY <4>2 DEF Stored, decodeFromStore
      <4> HIDE DEF d, k
      <4>4. k \in Keys
        BY <2>2 DEF k
      <4>5. CASE ttlExpired(d.expiresAt, now)
        <5>1. [at |-> "loadedExpired", key |-> k] \in Lookups
          BY <4>4 DEF Lookups
        <5> QED
          BY <4>1, <4>5, <5>1, Places
      <4>6. CASE ~ttlExpired(d.expiresAt, now)
        <5>1. ttlLeft(d.expiresAt, now) \in Nat
          BY <1>1, <4>3, <4>6 DEF ttlExpired, ttlLeft
        <5>2. [at |-> "fill", key |-> k, value |-> d.value,
               ttl |-> ttlLeft(d.expiresAt, now)] \in Fills
          BY <4>3, <4>4, <5>1 DEF Fills
        <5> QED
          BY <4>1, <4>6, <5>2, Places
      <4> QED
        BY <4>5, <4>6
    <3> QED
      BY <3>1, <3>2
  <2> QED
    BY <1>1, <2>3, <2>4, PlainTypes
<1>4. CASE GetDropsExpired(p)
  <2>1. st[p] \in Lookups
    BY <1>1, <1>4, LocalsByPlace DEF GetDropsExpired, At
  <2>2. st[p].key \in Keys
    BY <2>1 DEF Lookups
  <2>3. StoreOK(store')
    BY <1>1, <1>4, <2>2, MapsStayMaps DEF GetDropsExpired, StoreDoes, StoreFailed
  <2>4. UNCHANGED <<now, live, lock, dirty, dirtyCount, owes, gate, latest>> /\ ~At(p, "evict")
        /\ Goto(p, Idle)
    BY <1>4 DEF GetDropsExpired, At
  <2> QED
    BY <1>1, <2>3, <2>4, Places, PlainTypes
<1>5. CASE GetFill(p)
  <2>1. st[p] \in Fills
    BY <1>1, <1>5, LocalsByPlace DEF GetFill, At
  <2>2. st[p].key \in Keys /\ st[p].value \in Values /\ st[p].ttl \in Nat
    BY <2>1 DEF Fills
  <2>3. Idle \in Thens /\ ~At(p, "evict")
    BY <1>5 DEF Thens, GetFill, At
  <2>4. Insert(p, st[p].key, st[p].value, st[p].ttl, Idle)
    BY <1>5 DEF GetFill
  <2> QED
    BY <2>2, <2>3, <2>4, InsertTypes
<1> QED
  BY <1>2, <1>3, <1>4, <1>5

(* A flush begins.                                                         *)
LEMMA FlushStartTypes ==
  ASSUME TypeOK, NEW p \in Procs, NEW then \in Afters, FlushStart(p, then), At(p, "idle"),
         UNCHANGED <<now, live, lock, dirty, dirtyCount, owes, store, latest>>,
         gate' \in {"open", "closing", "closed"}
  PROVE  TypeOK'
<1>1. Ranging(Keys, then) \in Rests
  BY DEF Ranging, Rests
<1>2. PICK s \in Locals : Goto(p, s) /\ s.at # "evict"
  BY <1>1, Places DEF FlushStart
<1>3. ~At(p, "evict")
  BY DEF At
<1>4. /\ LiveOK(live) /\ DirtyOK(dirty) /\ StoreOK(store) /\ CountOK(dirtyCount, owes)
      /\ latest \in [Keys -> Values \cup {NoValue}]
  BY TypeParts
<1> QED
  BY <1>2, <1>3, <1>4, PlainTypes

(* A step of flushAll.                                                     *)
LEMMA flushAllTypes ==
  ASSUME TypeOK, NEW p \in Procs, flushAll(p)
  PROVE  TypeOK'
<1>1. /\ LiveOK(live) /\ DirtyOK(dirty) /\ StoreOK(store) /\ CountOK(dirtyCount, owes)
      /\ gate \in {"open", "closing", "closed"}
      /\ latest \in [Keys -> Values \cup {NoValue}]
      /\ st \in [Procs -> Locals] /\ now \in Nat
  BY TypeParts
<1>2. CASE FlushVisit(p)
  <2>1. st[p] \in Rests
    BY <1>1, <1>2, LocalsByPlace DEF FlushVisit, At
  <2>2. PICK k \in st[p].todo :
          LET rest == Ranging(st[p].todo \ {k}, st[p].then)
          IN Goto(p, IF k \in DOMAIN dirty
                       THEN [at |-> "take", key |-> k, expiresAt |-> dirty[k], rest |-> rest]
                       ELSE rest)
    BY <1>2 DEF FlushVisit
  <2> DEFINE rest == Ranging(st[p].todo \ {k}, st[p].then)
  <2>3. k \in Keys /\ rest \in Rests
    BY <2>1, <2>2 DEF Rests, Ranging
  <2>4. Goto(p, IF k \in DOMAIN dirty
                  THEN [at |-> "take", key |-> k, expiresAt |-> dirty[k], rest |-> rest]
                  ELSE rest)
    BY <2>2
  <2> HIDE DEF rest
  <2>5. PICK s \in Locals : Goto(p, s) /\ s.at # "evict"
    <3>1. CASE k \in DOMAIN dirty
      <4>1. [at |-> "take", key |-> k, expiresAt |-> dirty[k], rest |-> rest] \in Visits
        BY <1>1, <2>3, <3>1 DEF Visits, DirtyOK
      <4> QED
        BY <2>4, <3>1, <4>1, Places
    <3>2. CASE k \notin DOMAIN dirty
      BY <2>3, <2>4, <3>2, Places
    <3> QED
      BY <3>1, <3>2
  <2>6. UNCHANGED <<now, live, lock, dirty, dirtyCount, owes, store, gate, latest>> /\ ~At(p, "evict")
    BY <1>2 DEF FlushVisit, At
  <2> QED
    BY <1>1, <2>5, <2>6, PlainTypes
<1>3. CASE FlushTake(p)
  <2>1. st[p] \in Visits
    BY <1>1, <1>3, LocalsByPlace DEF FlushTake, At
  <2>2. st[p].key \in Keys /\ st[p].rest \in Rests /\ [st[p] EXCEPT !.at = "peek"] \in Visits
    BY <2>1 DEF Visits
  <2>3. PICK s \in Locals : Goto(p, s) /\ s.at # "evict"
    <3>1. CASE st[p].key \in DOMAIN dirty
      BY <1>3, <2>2, <3>1, Places DEF FlushTake
    <3>2. CASE st[p].key \notin DOMAIN dirty
      BY <1>3, <2>2, <3>2, Places DEF FlushTake
    <3> QED
      BY <3>1, <3>2
  <2>4. DirtyOK(dirty') /\ CountOK(dirtyCount', owes')
    BY <1>1, <1>3, <2>2, MapsStayMaps DEF FlushTake, LoadAndDelete, Owe, CountOK
  <2>5. UNCHANGED <<now, live, lock, store, gate, latest>> /\ ~At(p, "evict")
    BY <1>3 DEF FlushTake, At
  <2> QED
    BY <1>1, <2>3, <2>4, <2>5, PlainTypes
<1>4. CASE FlushPeek(p)
  <2>1. st[p] \in Visits
    BY <1>1, <1>4, LocalsByPlace DEF FlushPeek, At
  <2>2. /\ st[p].key \in Keys /\ st[p].rest \in Rests /\ st[p].expiresAt \in Nat
        /\ [st[p] EXCEPT !.at = "flushExpired"] \in Visits
    BY <2>1 DEF Visits
  <2>3. PICK s \in Locals : Goto(p, s) /\ s.at # "evict"
    <3>1. CASE Fresh(st[p].key)
      <4>1. live[st[p].key].value \in Values
        BY <1>1, <3>1 DEF Fresh, LiveOK, CacheEntries
      <4>2. [at |-> "write", key |-> st[p].key, value |-> live[st[p].key].value,
             expiresAt |-> st[p].expiresAt, rest |-> st[p].rest] \in Writes
        BY <2>2, <4>1 DEF Writes
      <4> QED
        BY <1>4, <3>1, <4>2, Places DEF FlushPeek
    <3>2. CASE ~Fresh(st[p].key) /\ ttlExpired(st[p].expiresAt, now)
      BY <1>4, <2>2, <3>2, Places DEF FlushPeek
    <3>3. CASE ~Fresh(st[p].key) /\ ~ttlExpired(st[p].expiresAt, now)
      BY <1>4, <2>2, <3>3, Places DEF FlushPeek
    <3> QED
      BY <3>1, <3>2, <3>3
  <2>4. LiveOK(live')
    BY <1>1, <1>4, <2>2, MapsStayMaps DEF FlushPeek
  <2>5. UNCHANGED <<now, lock, dirty, dirtyCount, owes, store, gate, latest>> /\ ~At(p, "evict")
    BY <1>4 DEF FlushPeek, At
  <2> QED
    BY <1>1, <2>3, <2>4, <2>5, PlainTypes
<1>5. CASE FlushDropsExpired(p)
  <2>1. st[p] \in Visits
    BY <1>1, <1>5, LocalsByPlace DEF FlushDropsExpired, At
  <2>2. st[p].key \in Keys /\ st[p].rest \in Rests
    BY <2>1 DEF Visits
  <2>3. StoreOK(store')
    BY <1>1, <1>5, <2>2, MapsStayMaps DEF FlushDropsExpired, StoreDoes, StoreFailed
  <2>4. UNCHANGED <<now, live, lock, dirty, dirtyCount, owes, gate, latest>> /\ ~At(p, "evict")
        /\ Goto(p, st[p].rest)
    BY <1>5 DEF FlushDropsExpired, At
  <2> QED
    BY <1>1, <2>2, <2>3, <2>4, Places, PlainTypes
<1>6. CASE FlushWrites(p)
  <2>1. st[p] \in Writes
    BY <1>1, <1>6, LocalsByPlace DEF FlushWrites, At
  <2>2. st[p].key \in Keys /\ st[p].rest \in Rests /\ st[p].value \in Values /\ st[p].expiresAt \in Nat
    BY <2>1 DEF Writes
  <2>3. StoreOK(store')
    BY <1>1, <1>6, <2>2, flushValueType DEF FlushWrites, StoreDoes
  <2>4. UNCHANGED <<now, live, lock, dirty, dirtyCount, owes, gate, latest>> /\ ~At(p, "evict")
        /\ Goto(p, st[p].rest)
    BY <1>6 DEF FlushWrites, At
  <2> QED
    BY <1>1, <2>2, <2>3, <2>4, Places, PlainTypes
<1>7. CASE FlushWriteFails(p)
  <2>1. st[p] \in Writes
    BY <1>1, <1>7, LocalsByPlace DEF FlushWriteFails, At
  <2>2. [st[p] EXCEPT !.at = "requeue"] \in Writes
    BY <2>1 DEF Writes
  <2>3. UNCHANGED <<now, live, lock, dirty, dirtyCount, owes, store, gate, latest>> /\ ~At(p, "evict")
        /\ Goto(p, [st[p] EXCEPT !.at = "requeue"])
    BY <1>7 DEF FlushWriteFails, At, StoreFailed
  <2>4. PICK s \in Locals : Goto(p, s) /\ s.at # "evict"
    BY <2>2, <2>3, Places
  <2> QED
    BY <1>1, <2>3, <2>4, PlainTypes
<1>8. CASE FlushRequeues(p)
  <2>1. st[p] \in Writes
    BY <1>1, <1>8, LocalsByPlace DEF FlushRequeues, At
  <2>2. st[p].key \in Keys /\ st[p].rest \in Rests /\ st[p].expiresAt \in Nat
    BY <2>1 DEF Writes
  <2>3. DirtyOK(dirty') /\ CountOK(dirtyCount', owes')
    BY <1>1, <1>8, <2>2, LoadOrStoreTypes DEF FlushRequeues
  <2>4. UNCHANGED <<now, live, lock, store, gate, latest>> /\ ~At(p, "evict")
        /\ Goto(p, st[p].rest)
    BY <1>8 DEF FlushRequeues, At
  <2> QED
    BY <1>1, <2>2, <2>3, <2>4, Places, PlainTypes
<1>9. CASE FlushDone(p)
  <2>1. st[p] \in Rests
    BY <1>1, <1>9, LocalsByPlace DEF FlushDone, At
  <2>2. st[p].then \in Afters
    BY <2>1 DEF Rests
  <2>3. UNCHANGED <<now, live, lock, dirty, dirtyCount, owes, store, gate, latest>> /\ ~At(p, "evict")
        /\ Goto(p, st[p].then)
    BY <1>9 DEF FlushDone, At
  <2>4. PICK s \in Locals : Goto(p, s) /\ s.at # "evict"
    BY <2>2, <2>3, Places
  <2> QED
    BY <1>1, <2>3, <2>4, PlainTypes
<1> QED
  BY <1>2, <1>3, <1>4, <1>5, <1>6, <1>7, <1>8, <1>9 DEF flushAll

(* The variables of the write-back policy have their types, and its        *)
(* cache's mutex is held across a callback exactly by the process in it,   *)
(* for any number of keys, requests and tickers.                           *)
THEOREM TypeCorrect == Spec => []TypeOK
<1>1. Init => TypeOK
  <2> SUFFICES ASSUME Init PROVE TypeOK
    OBVIOUS
  <2>1. LiveOK(live) /\ DirtyOK(dirty) /\ StoreOK(store)
    BY DEF Init, Empty, LiveOK, DirtyOK, StoreOK
  <2>2. st \in [Procs -> Locals] /\ \A p \in Procs : st[p].at = "idle"
    BY Places DEF Init
  <2>3. Nobody \notin Procs
    BY WBConstants DEF Nobody, Procs
  <2>4. \A p \in Procs : At(p, "evict") <=> lock = p
    BY <2>2, <2>3 DEF At, Init
  <2> QED
    BY <2>1, <2>2, <2>4, TypeParts DEF Init, CountOK
<1>2. TypeOK /\ [Next]_vars => TypeOK'
  <2> SUFFICES ASSUME TypeOK, [Next]_vars PROVE TypeOK'
    OBVIOUS
  <2>1. CASE Tick
    BY <2>1 DEF Tick, TypeOK, At
  <2>2. ASSUME NEW p \in Procs, Call(p) PROVE TypeOK'
    <3>1. CASE Flush(p) \/ PurgeFlush(p) \/ CloseFlush(p)
      <4>1. PICK then \in Afters : FlushStart(p, then)
        BY <3>1, Places DEF Flush, PurgeFlush, CloseFlush, Afters
      <4>2. At(p, "idle") /\ UNCHANGED <<now, live, lock, dirty, dirtyCount, owes, store, latest>>
            /\ gate' \in {"open", "closing", "closed"}
        BY <3>1 DEF Flush, PurgeFlush, CloseFlush, Starts, TypeOK
      <4> QED
        BY <4>1, <4>2, FlushStartTypes
    <3> QED
      BY <2>2, <3>1, SetTypes, GetTypes, DeleteTypes DEF Call
  <2>3. ASSUME NEW p \in Procs, Continue(p) PROVE TypeOK'
    <3>1. /\ LiveOK(live) /\ DirtyOK(dirty) /\ StoreOK(store) /\ CountOK(dirtyCount, owes)
          /\ gate \in {"open", "closing", "closed"}
          /\ latest \in [Keys -> Values \cup {NoValue}]
      BY TypeParts
    <3>2. CASE PurgeInner(p)
      <4>1. LiveOK(live')
        BY <3>2 DEF PurgeInner, Empty, LiveOK
      <4>2. UNCHANGED <<now, lock, dirty, dirtyCount, owes, store, gate, latest>> /\ ~At(p, "evict")
            /\ Goto(p, Idle)
        BY <3>2 DEF PurgeInner, At
      <4> QED
        BY <3>1, <4>1, <4>2, Places, PlainTypes
    <3>3. CASE CloseDone(p)
      <4>1. UNCHANGED <<now, live, lock, dirty, dirtyCount, owes, store, latest>> /\ ~At(p, "evict")
            /\ Goto(p, Idle) /\ gate' = "closed"
        BY <3>3 DEF CloseDone, At
      <4> QED
        BY <3>1, <4>1, Places, PlainTypes
    <3> QED
      BY <2>3, <3>2, <3>3, EvictFlushTypes, SetTypes, GetTypes, DeleteTypes, flushAllTypes
      DEF Continue
  <2>4. ASSUME NEW p \in Procs, TickerFires(p) PROVE TypeOK'
    <3>1. Idle \in Afters
      BY DEF Afters
    <3> QED
      BY <2>4, <3>1, FlushStartTypes DEF TickerFires, TypeOK
  <2>5. ASSUME NEW p \in Procs, TickerStops(p) PROVE TypeOK'
    <3>1. PICK s \in Locals : Goto(p, s) /\ s.at # "evict"
      BY <2>5, Places DEF TickerStops
    <3>2. UNCHANGED <<now, live, lock, dirty, dirtyCount, owes, store, gate, latest>> /\ ~At(p, "evict")
      BY <2>5 DEF TickerStops, At
    <3> QED
      BY <3>1, <3>2, TypeParts, PlainTypes
  <2>6. CASE UNCHANGED vars
    BY <2>6 DEF vars, TypeOK, At
  <2>7. ASSUME NEW p \in Procs, Count(p) PROVE TypeOK'
    <3>1. owes \in [Procs -> {-1, 0, 1}] /\ dirtyCount \in Int
      BY DEF TypeOK
    <3>2. owes' \in [Procs -> {-1, 0, 1}] /\ dirtyCount' \in Int
      BY <2>7, <3>1 DEF Count
    <3> QED
      BY <2>7, <3>2 DEF Count, TypeOK, At
  <2> QED
    BY <2>1, <2>2, <2>3, <2>4, <2>5, <2>6, <2>7 DEF Next
<1> QED
  BY <1>1, <1>2, PTL DEF Spec

---------------------------------------------------------------------------
(* At the instant t, exp is a deadline, and at most a ttl away.            *)
Ahead(t, exp) == exp # 0 /\ \E ttl \in TTLs : exp <= t + ttl

LiveAhead(t, f) == \A k \in DOMAIN f : Ahead(t, f[k].expiresAt)
StoreAhead(t, f) == \A k \in DOMAIN f : Ahead(t, decodeFromStore(f[k]).expiresAt)
DirtyAhead(t, f) == \A k \in DOMAIN f : Ahead(t, f[k])

(* The deadlines a process has in hand are ahead too.  What a Get is about *)
(* to refill the cache with is a ttl: the clock has moved since it was     *)
(* computed, but it is positive and no longer than one a Set has given.    *)
HandAhead(t, s) ==
  /\ s.at \in {"evict", "remark", "take", "peek", "flushExpired", "write", "requeue"} =>
       Ahead(t, s.expiresAt)
  /\ s.at = "evict" => Ahead(t, s.new.expiresAt)
  /\ s.at = "fill" => s.ttl > 0 /\ \E ttl \in TTLs : s.ttl <= ttl

(* DeadlinesKept, for the dirty map and for every process as well.         *)
AheadInv ==
  /\ LiveAhead(now, live) /\ StoreAhead(now, store) /\ DirtyAhead(now, dirty)
  /\ \A p \in Procs : HandAhead(now, st[p])

(* The clock moves: what is ahead stays ahead.                             *)
LEMMA AheadLater ==
  ASSUME NEW t \in Nat, NEW exp \in Nat, Ahead(t, exp)
  PROVE  Ahead(t + 1, exp)
<1>1. PICK ttl \in TTLs : exp <= t + ttl
  BY DEF Ahead
<1>2. exp <= (t + 1) + ttl
  BY <1>1, WBConstants
<1> QED
  BY <1>2 DEF Ahead

(* The deadline of a ttl that is positive and at most one that Set uses.   *)
LEMMA DeadlineAhead ==
  ASSUME now \in Nat, NEW ttl \in Nat, ttl > 0, \E u \in TTLs : ttl <= u
  PROVE  Ahead(now, Deadline(ttl))
  BY WBConstants DEF Ahead, Deadline

(* Maps whose deadlines are ahead stay so.                                 *)
LEMMA MapsStayAhead ==
  ASSUME NEW t, NEW f, NEW k, NEW e
  PROVE  /\ LiveAhead(t, f) => LiveAhead(t, Drop(f, k))
         /\ StoreAhead(t, f) => StoreAhead(t, Drop(f, k))
         /\ DirtyAhead(t, f) => DirtyAhead(t, Drop(f, k))
         /\ LiveAhead(t, f) /\ Ahead(t, e.expiresAt) => LiveAhead(t, Put(f, k, e))
         /\ StoreAhead(t, f) /\ Ahead(t, decodeFromStore(e).expiresAt)
              => StoreAhead(t, Put(f, k, e))
         /\ DirtyAhead(t, f) /\ Ahead(t, e) => DirtyAhead(t, Put(f, k, e))
<1>1. DOMAIN Drop(f, k) = DOMAIN f \ {k} /\ \A x \in DOMAIN f \ {k} : Drop(f, k)[x] = f[x]
  BY DEF Drop
<1>2. /\ DOMAIN Put(f, k, e) = DOMAIN f \cup {k} /\ Put(f, k, e)[k] = e
      /\ \A x \in DOMAIN f \ {k} : Put(f, k, e)[x] = f[x]
  BY DEF Put
<1> QED
  BY <1>1, <1>2 DEF LiveAhead, StoreAhead, DirtyAhead

(* encodeForStore and decodeFromStore keep the deadline, so flushValue     *)
(* stores one that is ahead.                                               *)
LEMMA flushValueAhead ==
  ASSUME StoreAhead(now, store), NEW k, NEW v, NEW exp, Ahead(now, exp)
  PROVE  StoreAhead(now, flushValue(k, v, exp))
<1>1. decodeFromStore(encodeForStore(v, exp)).expiresAt = exp
  BY DEF decodeFromStore, encodeForStore, Envelope, Raw
<1> QED
  BY <1>1, MapsStayAhead DEF flushValue

(* A step of one process that leaves the clock alone.                      *)
LEMMA StepAhead ==
  ASSUME TypeOK, AheadInv, NEW p \in Procs, NEW s, Goto(p, s), HandAhead(now, s),
         now' = now, LiveAhead(now, live'), StoreAhead(now, store'), DirtyAhead(now, dirty')
  PROVE  AheadInv'
<1>1. \A q \in Procs : st'[q] = IF q = p THEN s ELSE st[q]
  BY DEF Goto, TypeOK
<1>2. \A q \in Procs : HandAhead(now, st'[q])
  BY <1>1 DEF AheadInv
<1> QED
  BY <1>2 DEF AheadInv

(* A process with no deadline in hand.                                     *)
LEMMA EmptyHand ==
  ASSUME NEW t, NEW s,
         s.at \in {"idle", "purge", "close", "stopped", "mark", "range", "load",
                   "loadedExpired", "deleteStore", "deleteInner"}
  PROVE  HandAhead(t, s)
BY DEF HandAhead

(* inner.Set.                                                              *)
LEMMA InsertAhead ==
  ASSUME TypeOK, AheadInv, NEW p \in Procs, NEW k \in Keys, NEW v, NEW ttl \in Nat,
         ttl > 0, \E u \in TTLs : ttl <= u, NEW then \in Thens, Insert(p, k, v, ttl, then)
  PROVE  AheadInv'
<1> DEFINE e == Entry(v, Deadline(ttl))
<1>1. Ahead(now, e.expiresAt)
  BY DeadlineAhead DEF TypeOK, Entry
<1>2. HandAhead(now, then)
  BY Places, EmptyHand
<1>3. LiveAhead(now, live) /\ StoreAhead(now, store) /\ DirtyAhead(now, dirty)
  BY DEF AheadInv
<1> HIDE DEF e
<1>4. CASE InsertFits(p, k, v, ttl, then)
  <2>1. LiveAhead(now, live')
    BY <1>1, <1>3, <1>4, MapsStayAhead DEF InsertFits, e
  <2>2. Goto(p, then) /\ UNCHANGED <<now, store, dirty>>
    BY <1>4 DEF InsertFits
  <2> QED
    BY <1>2, <1>3, <2>1, <2>2, StepAhead
<1>5. CASE InsertEvictsClean(p, k, v, ttl, then)
  <2>1. PICK x \in DOMAIN live \ DOMAIN dirty : live' = Put(Drop(live, x), k, e)
    BY <1>5 DEF InsertEvictsClean, e
  <2>2. LiveAhead(now, Drop(live, x))
    BY <1>3, MapsStayAhead
  <2>3. LiveAhead(now, live')
    BY <1>1, <2>1, <2>2, MapsStayAhead
  <2>4. Goto(p, then) /\ UNCHANGED <<now, store, dirty>>
    BY <1>5 DEF InsertEvictsClean
  <2> QED
    BY <1>2, <1>3, <2>3, <2>4, StepAhead
<1>6. CASE InsertEvictsDirty(p, k, v, ttl, then)
  <2>1. PICK x \in DOMAIN live \cap DOMAIN dirty :
          /\ live' = Drop(live, x)
          /\ LoadAndDelete(p, x)
          /\ Goto(p, [at |-> "evict", victim |-> x, old |-> live[x].value,
                      expiresAt |-> dirty[x], key |-> k, new |-> e, then |-> then])
    BY <1>6 DEF InsertEvictsDirty, e
  <2> DEFINE s == [at |-> "evict", victim |-> x, old |-> live[x].value,
                   expiresAt |-> dirty[x], key |-> k, new |-> e, then |-> then]
  <2>2. Ahead(now, dirty[x])
    BY <1>3, <2>1 DEF DirtyAhead
  <2>3. HandAhead(now, s)
    BY <1>1, <2>2 DEF HandAhead
  <2>4. Goto(p, s)
    BY <2>1
  <2>5. LiveAhead(now, live') /\ DirtyAhead(now, dirty')
    BY <1>3, <2>1, MapsStayAhead DEF LoadAndDelete
  <2>6. UNCHANGED <<now, store>>
    BY <1>6 DEF InsertEvictsDirty
  <2> HIDE DEF s
  <2> QED
    BY <1>3, <2>3, <2>4, <2>5, <2>6, StepAhead
<1> QED
  BY <1>4, <1>5, <1>6 DEF Insert

(* The callback ends.                                                      *)
LEMMA EvictFlushAhead ==
  ASSUME TypeOK, AheadInv, NEW p \in Procs, EvictFlush(p)
  PROVE  AheadInv'
<1>1. st[p] \in Locals
  BY DEF TypeOK
<1>2. st[p] \in Evicts
  BY <1>1, LocalsByPlace DEF EvictFlush, At
<1>3. st[p].then \in Thens
  BY <1>2 DEF Evicts
<1>4. HandAhead(now, st[p].then)
  BY <1>3, Places, EmptyHand
<1>5. Ahead(now, st[p].expiresAt) /\ Ahead(now, st[p].new.expiresAt)
  BY DEF EvictFlush, At, AheadInv, HandAhead
<1>6. LiveAhead(now, live) /\ StoreAhead(now, store) /\ DirtyAhead(now, dirty)
  BY DEF AheadInv
<1>7. LiveAhead(now, live')
  BY <1>5, <1>6, MapsStayAhead DEF EvictFlush
<1>8. StoreAhead(now, store')
  BY <1>5, <1>6, flushValueAhead DEF EvictFlush, StoreDoes, StoreFailed
<1>9. Goto(p, st[p].then) /\ UNCHANGED <<now, dirty>>
  BY DEF EvictFlush
<1> QED
  BY <1>4, <1>6, <1>7, <1>8, <1>9, StepAhead

(* Set, when every Set has a ttl.                                          *)
LEMMA SetAhead ==
  ASSUME 0 \notin TTLs, TypeOK, AheadInv, NEW p \in Procs,
         SetInner(p) \/ SetMark(p) \/ SetRemark(p)
  PROVE  AheadInv'
<1>1. LiveAhead(now, live) /\ StoreAhead(now, store) /\ DirtyAhead(now, dirty)
  BY DEF AheadInv
<1>2. st[p] \in Locals /\ now \in Nat
  BY DEF TypeOK
<1>3. \A ttl \in TTLs : ttl \in Nat /\ ttl > 0 /\ \E u \in TTLs : ttl <= u
  BY WBConstants
<1>4. CASE SetInner(p)
  <2>1. PICK k \in Keys, v \in Values, ttl \in TTLs :
          Insert(p, k, v, ttl, [at |-> "mark", key |-> k, ttl |-> ttl])
    BY <1>4 DEF SetInner
  <2>2. [at |-> "mark", key |-> k, ttl |-> ttl] \in Thens
    BY Places DEF Thens
  <2> QED
    BY <1>3, <2>1, <2>2, InsertAhead
<1>5. CASE SetMark(p)
  <2>1. st[p] \in Marks
    BY <1>2, <1>5, LocalsByPlace DEF SetMark, At
  <2>2. st[p].ttl \in TTLs
    BY <2>1 DEF Marks
  <2>3. PICK exp : exp = Deadline(st[p].ttl)
    OBVIOUS
  <2>4. Ahead(now, exp)
    BY <1>2, <1>3, <2>2, <2>3, DeadlineAhead
  <2>5. UNCHANGED <<now, live, store>>
    BY <1>5 DEF SetMark
  <2>6. CASE st[p].key \in DOMAIN dirty
    <3> DEFINE s == [at |-> "remark", key |-> st[p].key, expiresAt |-> exp]
    <3>1. HandAhead(now, s)
      BY <2>4 DEF HandAhead
    <3>2. Goto(p, s) /\ dirty' = dirty
      BY <1>5, <2>3, <2>6 DEF SetMark, LoadOrStore
    <3> HIDE DEF s
    <3> QED
      BY <1>1, <2>5, <3>1, <3>2, StepAhead
  <2>7. CASE st[p].key \notin DOMAIN dirty
    <3>1. HandAhead(now, Idle)
      BY Places, EmptyHand
    <3>2. Goto(p, Idle) /\ dirty' = Put(dirty, st[p].key, exp)
      BY <1>5, <2>3, <2>7 DEF SetMark, LoadOrStore
    <3>3. DirtyAhead(now, dirty')
      BY <1>1, <2>4, <3>2, MapsStayAhead
    <3> QED
      BY <1>1, <2>5, <3>1, <3>2, <3>3, StepAhead
  <2> QED
    BY <2>6, <2>7
<1>6. CASE SetRemark(p)
  <2>1. Ahead(now, st[p].expiresAt)
    BY <1>6 DEF SetRemark, At, AheadInv, HandAhead
  <2>2. DirtyAhead(now, dirty')
    BY <1>1, <1>6, <2>1, MapsStayAhead DEF SetRemark
  <2>3. UNCHANGED <<now, live, store>> /\ Goto(p, Idle) /\ HandAhead(now, Idle)
    BY <1>6, Places, EmptyHand DEF SetRemark
  <2> QED
    BY <1>1, <2>2, <2>3, StepAhead
<1> QED
  BY <1>4, <1>5, <1>6

(* Get: what is left of a deadline that is ahead is at most a ttl.         *)
LEMMA GetAhead ==
  ASSUME TypeOK, AheadInv, NEW p \in Procs,
         GetInner(p) \/ GetLoad(p) \/ GetDropsExpired(p) \/ GetFill(p)
  PROVE  AheadInv'
<1>1. LiveAhead(now, live) /\ StoreAhead(now, store) /\ DirtyAhead(now, dirty)
  BY DEF AheadInv
<1>2. st[p] \in Locals /\ now \in Nat /\ StoreOK(store)
  BY TypeParts
<1>3. HandAhead(now, Idle)
  BY Places, EmptyHand
<1>4. CASE GetInner(p)
  <2>1. PICK k \in Keys :
          /\ live' = IF Fresh(k) THEN live ELSE Drop(live, k)
          /\ Goto(p, IF Fresh(k) THEN Idle ELSE [at |-> "load", key |-> k])
    BY <1>4 DEF GetInner
  <2>2. HandAhead(now, [at |-> "load", key |-> k])
    BY EmptyHand
  <2>3. PICK s : Goto(p, s) /\ HandAhead(now, s)
    BY <1>3, <2>1, <2>2
  <2>4. LiveAhead(now, live')
    BY <1>1, <2>1, MapsStayAhead
  <2>5. UNCHANGED <<now, store, dirty>>
    BY <1>4 DEF GetInner
  <2> QED
    BY <1>1, <2>3, <2>4, <2>5, StepAhead
<1>5. CASE GetLoad(p)
  <2>1. UNCHANGED <<now, live, store, dirty>>
    BY <1>5 DEF GetLoad
  <2>2. PICK s : Goto(p, s) /\ HandAhead(now, s)
    <3>1. CASE Goto(p, Idle)
      BY <1>3, <3>1
    <3>2. CASE ~Goto(p, Idle)
      <4> DEFINE k == st[p].key
                 d == decodeFromStore(store[k])
      <4>1. k \in DOMAIN store
            /\ Goto(p, IF ttlExpired(d.expiresAt, now)
                         THEN [at |-> "loadedExpired", key |-> k]
                         ELSE [at |-> "fill", key |-> k, value |-> d.value,
                               ttl |-> ttlLeft(d.expiresAt, now)])
        BY <1>5, <3>2 DEF GetLoad
      <4>2. store[k] \in Stored(Values, Nat)
        BY <1>2, <4>1 DEF StoreOK
      <4>3. d.expiresAt \in Nat
        BY <4>2 DEF Stored, decodeFromStore
      <4>4. Ahead(now, d.expiresAt)
        BY <1>1, <4>1 DEF StoreAhead
      <4> HIDE DEF d, k
      <4>5. CASE ttlExpired(d.expiresAt, now)
        <5>1. HandAhead(now, [at |-> "loadedExpired", key |-> k])
          BY EmptyHand
        <5> QED
          BY <4>1, <4>5, <5>1
      <4>6. CASE ~ttlExpired(d.expiresAt, now)
        <5>1. PICK t : t = ttlLeft(d.expiresAt, now)
          OBVIOUS
        <5>2. t > 0 /\ \E u \in TTLs : t <= u
          BY <1>2, <4>3, <4>4, <4>6, <5>1, WBConstants DEF Ahead, ttlExpired, ttlLeft
        <5>3. HandAhead(now, [at |-> "fill", key |-> k, value |-> d.value, ttl |-> t])
          BY <5>2 DEF HandAhead
        <5> QED
          BY <4>1, <4>6, <5>1, <5>3
      <4> QED
        BY <4>5, <4>6
    <3> QED
      BY <3>1, <3>2
  <2> QED
    BY <1>1, <2>1, <2>2, StepAhead
<1>6. CASE GetDropsExpired(p)
  <2>1. StoreAhead(now, store')
    BY <1>1, <1>6, MapsStayAhead DEF GetDropsExpired, StoreDoes, StoreFailed
  <2>2. UNCHANGED <<now, live, dirty>> /\ Goto(p, Idle)
    BY <1>6 DEF GetDropsExpired
  <2> QED
    BY <1>1, <1>3, <2>1, <2>2, StepAhead
<1>7. CASE GetFill(p)
  <2>1. st[p] \in Fills
    BY <1>2, <1>7, LocalsByPlace DEF GetFill, At
  <2>2. st[p].key \in Keys /\ st[p].ttl \in Nat
    BY <2>1 DEF Fills
  <2>3. st[p].ttl > 0 /\ \E u \in TTLs : st[p].ttl <= u
    BY <1>7 DEF GetFill, At, AheadInv, HandAhead
  <2>4. Idle \in Thens /\ Insert(p, st[p].key, st[p].value, st[p].ttl, Idle)
    BY <1>7 DEF Thens, GetFill
  <2> QED
    BY <2>2, <2>3, <2>4, InsertAhead
<1> QED
  BY <1>4, <1>5, <1>6, <1>7

(* Delete drops deadlines and sets none.                                   *)
LEMMA DeleteAhead ==
  ASSUME TypeOK, AheadInv, NEW p \in Procs, DeleteMark(p) \/ DeleteStore(p) \/ DeleteInner(p)
  PROVE  AheadInv'
<1>1. LiveAhead(now, live) /\ StoreAhead(now, store) /\ DirtyAhead(now, dirty)
  BY DEF AheadInv
<1>2. LiveAhead(now, live')
  BY <1>1, MapsStayAhead DEF DeleteMark, DeleteStore, DeleteInner
<1>3. StoreAhead(now, store')
  BY <1>1, MapsStayAhead DEF DeleteMark, DeleteStore, DeleteInner, StoreDoes, StoreFailed
<1>4. DirtyAhead(now, dirty')
  BY <1>1, MapsStayAhead DEF DeleteMark, DeleteStore, DeleteInner, LoadAndDelete
<1>5. PICK s : Goto(p, s) /\ HandAhead(now, s)
  <2>1. \A k : /\ HandAhead(now, [at |-> "deleteStore", key |-> k])
               /\ HandAhead(now, [at |-> "deleteInner", key |-> k])
    BY EmptyHand
  <2>2. HandAhead(now, Idle)
    BY Places, EmptyHand
  <2> QED
    BY <2>1, <2>2 DEF DeleteMark, DeleteStore, DeleteInner
<1>6. now' = now
  BY DEF DeleteMark, DeleteStore, DeleteInner
<1> QED
  BY <1>2, <1>3, <1>4, <1>5, <1>6, StepAhead

(* flushAll carries the deadline of the dirty mark to the store, or back.  *)
LEMMA flushAllAhead ==
  ASSUME TypeOK, AheadInv, NEW p \in Procs, flushAll(p)
  PROVE  AheadInv'
<1>1. LiveAhead(now, live) /\ StoreAhead(now, store) /\ DirtyAhead(now, dirty)
  BY DEF AheadInv
<1>2. st[p] \in Locals /\ HandAhead(now, st[p])
  BY DEF TypeOK, AheadInv
<1>3. \A s \in Rests : HandAhead(now, s)
  BY Places, EmptyHand
<1>4. \A s \in Visits \cup Writes : s.rest \in Rests
  BY DEF Visits, Writes
<1>5. CASE FlushVisit(p)
  <2>1. st[p] \in Rests
    BY <1>2, <1>5, LocalsByPlace DEF FlushVisit, At
  <2>2. PICK k \in st[p].todo :
          LET rest == Ranging(st[p].todo \ {k}, st[p].then)
          IN Goto(p, IF k \in DOMAIN dirty
                       THEN [at |-> "take", key |-> k, expiresAt |-> dirty[k], rest |-> rest]
                       ELSE rest)
    BY <1>5 DEF FlushVisit
  <2>3. PICK rest : rest = Ranging(st[p].todo \ {k}, st[p].then)
    OBVIOUS
  <2>4. rest \in Rests
    BY <2>1, <2>3 DEF Rests, Ranging
  <2>5. PICK s : Goto(p, s) /\ HandAhead(now, s)
    <3>1. CASE k \in DOMAIN dirty
      <4>1. Ahead(now, dirty[k])
        BY <1>1, <3>1 DEF DirtyAhead
      <4>2. HandAhead(now, [at |-> "take", key |-> k, expiresAt |-> dirty[k], rest |-> rest])
        BY <4>1 DEF HandAhead
      <4> QED
        BY <2>2, <2>3, <3>1, <4>2
    <3>2. CASE k \notin DOMAIN dirty
      BY <1>3, <2>2, <2>3, <2>4, <3>2
    <3> QED
      BY <3>1, <3>2
  <2>6. UNCHANGED <<now, live, store, dirty>>
    BY <1>5 DEF FlushVisit
  <2> QED
    BY <1>1, <2>5, <2>6, StepAhead
<1>6. CASE FlushTake(p)
  <2>1. st[p] \in Visits
    BY <1>2, <1>6, LocalsByPlace DEF FlushTake, At
  <2>2. DirtyAhead(now, dirty')
    BY <1>1, <1>6, MapsStayAhead DEF FlushTake, LoadAndDelete
  <2>3. HandAhead(now, [st[p] EXCEPT !.at = "peek"])
    BY <1>2, <1>6, <2>1 DEF HandAhead, FlushTake, At, Visits
  <2>4. PICK s : Goto(p, s) /\ HandAhead(now, s)
    BY <1>3, <1>4, <1>6, <2>1, <2>3 DEF FlushTake
  <2>5. UNCHANGED <<now, live, store>>
    BY <1>6 DEF FlushTake
  <2> QED
    BY <1>1, <2>2, <2>4, <2>5, StepAhead
<1>7. CASE FlushPeek(p)
  <2>1. st[p] \in Visits /\ Ahead(now, st[p].expiresAt)
    BY <1>2, <1>7, LocalsByPlace DEF FlushPeek, At, HandAhead
  <2>2. LiveAhead(now, live')
    BY <1>1, <1>7, MapsStayAhead DEF FlushPeek
  <2>3. HandAhead(now, [st[p] EXCEPT !.at = "flushExpired"])
    BY <2>1 DEF HandAhead, Visits
  <2>4. HandAhead(now, [at |-> "write", key |-> st[p].key, value |-> live[st[p].key].value,
                        expiresAt |-> st[p].expiresAt, rest |-> st[p].rest])
    BY <2>1 DEF HandAhead
  <2>5. HandAhead(now, st[p].rest)
    BY <1>3, <1>4, <2>1
  <2>6. PICK s : Goto(p, s) /\ HandAhead(now, s)
    <3>1. CASE Fresh(st[p].key)
      BY <1>7, <2>4, <3>1 DEF FlushPeek
    <3>2. CASE ~Fresh(st[p].key) /\ ttlExpired(st[p].expiresAt, now)
      BY <1>7, <2>3, <3>2 DEF FlushPeek
    <3>3. CASE ~Fresh(st[p].key) /\ ~ttlExpired(st[p].expiresAt, now)
      BY <1>7, <2>5, <3>3 DEF FlushPeek
    <3> QED
      BY <3>1, <3>2, <3>3
  <2>7. UNCHANGED <<now, store, dirty>>
    BY <1>7 DEF FlushPeek
  <2> QED
    BY <1>1, <2>2, <2>6, <2>7, StepAhead
<1>8. CASE FlushDropsExpired(p)
  <2>1. st[p] \in Visits
    BY <1>2, <1>8, LocalsByPlace DEF FlushDropsExpired, At
  <2>2. StoreAhead(now, store')
    BY <1>1, <1>8, MapsStayAhead DEF FlushDropsExpired, StoreDoes, StoreFailed
  <2>3. UNCHANGED <<now, live, dirty>> /\ Goto(p, st[p].rest) /\ HandAhead(now, st[p].rest)
    BY <1>3, <1>4, <1>8, <2>1 DEF FlushDropsExpired
  <2> QED
    BY <1>1, <2>2, <2>3, StepAhead
<1>9. CASE FlushWrites(p)
  <2>1. st[p] \in Writes /\ Ahead(now, st[p].expiresAt)
    BY <1>2, <1>9, LocalsByPlace DEF FlushWrites, At, HandAhead
  <2>2. StoreAhead(now, store')
    BY <1>1, <1>9, <2>1, flushValueAhead DEF FlushWrites, StoreDoes
  <2>3. UNCHANGED <<now, live, dirty>> /\ Goto(p, st[p].rest) /\ HandAhead(now, st[p].rest)
    BY <1>3, <1>4, <1>9, <2>1 DEF FlushWrites
  <2> QED
    BY <1>1, <2>2, <2>3, StepAhead
<1>10. CASE FlushWriteFails(p)
  <2>1. st[p] \in Writes /\ Ahead(now, st[p].expiresAt)
    BY <1>2, <1>10, LocalsByPlace DEF FlushWriteFails, At, HandAhead
  <2>2. HandAhead(now, [st[p] EXCEPT !.at = "requeue"])
    BY <2>1 DEF HandAhead, Writes
  <2>3. UNCHANGED <<now, live, store, dirty>> /\ Goto(p, [st[p] EXCEPT !.at = "requeue"])
    BY <1>10 DEF FlushWriteFails, StoreFailed
  <2> QED
    BY <1>1, <2>2, <2>3, StepAhead
<1>11. CASE FlushRequeues(p)
  <2>1. st[p] \in Writes /\ Ahead(now, st[p].expiresAt)
    BY <1>2, <1>11, LocalsByPlace DEF FlushRequeues, At, HandAhead
  <2>2. DirtyAhead(now, dirty')
    <3>1. dirty' = dirty \/ dirty' = Put(dirty, st[p].key, st[p].expiresAt)
      BY <1>11 DEF FlushRequeues, LoadOrStore
    <3> QED
      BY <1>1, <2>1, <3>1, MapsStayAhead
  <2>3. UNCHANGED <<now, live, store>> /\ Goto(p, st[p].rest) /\ HandAhead(now, st[p].rest)
    BY <1>3, <1>4, <1>11, <2>1 DEF FlushRequeues
  <2> QED
    BY <1>1, <2>2, <2>3, StepAhead
<1>12. CASE FlushDone(p)
  <2>1. st[p] \in Rests
    BY <1>2, <1>12, LocalsByPlace DEF FlushDone, At
  <2>2. st[p].then \in Afters
    BY <2>1 DEF Rests
  <2>3. HandAhead(now, st[p].then)
    BY <2>2, Places, EmptyHand
  <2>4. UNCHANGED <<now, live, store, dirty>> /\ Goto(p, st[p].then)
    BY <1>12 DEF FlushDone
  <2> QED
    BY <1>1, <2>3, <2>4, StepAhead
<1> QED
  BY <1>5, <1>6, <1>7, <1>8, <1>9, <1>10, <1>11, <1>12 DEF flushAll

(* The steps that only move a process, or empty the cache.                 *)
LEMMA OtherAhead ==
  ASSUME TypeOK, AheadInv, NEW p \in Procs,
         \/ Flush(p) \/ PurgeFlush(p) \/ CloseFlush(p) \/ PurgeInner(p) \/ CloseDone(p)
         \/ TickerFires(p) \/ TickerStops(p)
  PROVE  AheadInv'
<1>1. LiveAhead(now, live) /\ StoreAhead(now, store) /\ DirtyAhead(now, dirty)
  BY DEF AheadInv
<1>2. LiveAhead(now, Empty)
  BY DEF LiveAhead, Empty
<1>3. HandAhead(now, Idle) /\ HandAhead(now, [at |-> "stopped"])
  BY Places, EmptyHand
<1>4. \A then : HandAhead(now, Ranging(Keys, then))
  BY EmptyHand DEF Ranging
<1>5. PICK s : Goto(p, s) /\ HandAhead(now, s)
  BY <1>3, <1>4
  DEF Flush, PurgeFlush, CloseFlush, PurgeInner, CloseDone, TickerFires, TickerStops, FlushStart
<1>6. (live' = live \/ live' = Empty) /\ UNCHANGED <<now, store, dirty>>
  BY DEF Flush, PurgeFlush, CloseFlush, PurgeInner, CloseDone, TickerFires, TickerStops
<1>7. LiveAhead(now, live')
  BY <1>1, <1>2, <1>6
<1> QED
  BY <1>1, <1>5, <1>6, <1>7, StepAhead

(* When every Set has a ttl, every entry of the cache and of the backing   *)
(* store has a deadline, at most a ttl away: flushValue, the eviction      *)
(* callback, a requeue and the refill of Get hand it on, whatever          *)
(* interleaves and whatever fails.                                         *)
THEOREM DeadlinesStay == Spec => []DeadlinesKept
<1>1. CASE 0 \in TTLs
  <2>1. DeadlinesKept
    BY <1>1 DEF DeadlinesKept
  <2> QED
    BY <2>1, PTL
<1>2. CASE 0 \notin TTLs
  <2>1. Init => AheadInv
    <3> SUFFICES ASSUME Init PROVE AheadInv
      OBVIOUS
    <3>1. LiveAhead(now, live) /\ StoreAhead(now, store) /\ DirtyAhead(now, dirty)
      BY DEF Init, Empty, LiveAhead, StoreAhead, DirtyAhead
    <3>2. HandAhead(now, Idle)
      BY Places, EmptyHand
    <3> QED
      BY <3>1, <3>2 DEF Init, AheadInv
  <2>2. TypeOK /\ AheadInv /\ [Next]_vars => AheadInv'
    <3> SUFFICES ASSUME TypeOK, AheadInv, [Next]_vars PROVE AheadInv'
      OBVIOUS
    <3>1. CASE Tick
      <4>1. now \in Nat /\ LiveOK(live) /\ DirtyOK(dirty) /\ StoreOK(store) /\ st \in [Procs -> Locals]
        BY TypeParts
      <4>2. now' = now + 1 /\ UNCHANGED <<live, store, dirty, st>>
        BY <3>1 DEF Tick
      <4>3. LiveAhead(now + 1, live)
        BY <4>1, AheadLater DEF AheadInv, LiveAhead, LiveOK, CacheEntries
      <4>4. DirtyAhead(now + 1, dirty)
        BY <4>1, AheadLater DEF AheadInv, DirtyAhead, DirtyOK
      <4>5. StoreAhead(now + 1, store)
        <5>1. \A e \in Stored(Values, Nat) : decodeFromStore(e).expiresAt \in Nat
          BY DEF Stored, decodeFromStore
        <5> QED
          BY <4>1, <5>1, AheadLater DEF AheadInv, StoreAhead, StoreOK
      <4>6. ASSUME NEW p \in Procs PROVE HandAhead(now + 1, st[p])
        <5>1. st[p] \in Locals /\ HandAhead(now, st[p])
          BY <4>1 DEF AheadInv
        <5>2. st[p].at = "evict" => st[p].expiresAt \in Nat /\ st[p].new.expiresAt \in Nat
          BY <5>1, LocalsByPlace DEF Evicts
        <5>3. st[p].at \in {"remark", "take", "peek", "flushExpired", "write", "requeue"} =>
                st[p].expiresAt \in Nat
          BY <5>1, LocalsByPlace DEF Remarks, Visits, Writes
        <5> QED
          BY <4>1, <5>1, <5>2, <5>3, AheadLater DEF HandAhead
      <4> QED
        BY <4>2, <4>3, <4>4, <4>5, <4>6 DEF AheadInv
    <3>2. ASSUME NEW p \in Procs, Call(p) PROVE AheadInv'
      BY <1>2, <3>2, SetAhead, GetAhead, DeleteAhead, OtherAhead DEF Call
    <3>3. ASSUME NEW p \in Procs, Continue(p) PROVE AheadInv'
      BY <1>2, <3>3, EvictFlushAhead, SetAhead, GetAhead, DeleteAhead, flushAllAhead, OtherAhead
      DEF Continue
    <3>4. ASSUME NEW p \in Procs, TickerFires(p) \/ TickerStops(p) PROVE AheadInv'
      BY <3>4, OtherAhead
    <3>5. CASE UNCHANGED vars
      BY <3>5 DEF vars, AheadInv
    <3>6. ASSUME NEW p \in Procs, Count(p) PROVE AheadInv'
      BY <3>6 DEF Count, AheadInv
    <3> QED
      BY <3>1, <3>2, <3>3, <3>4, <3>5, <3>6 DEF Next
  <2>3. AheadInv => DeadlinesKept
    BY DEF AheadInv, DeadlinesKept, LiveAhead, StoreAhead, Ahead
  <2> QED
    BY <2>1, <2>2, <2>3, TypeCorrect, PTL DEF Spec
<1> QED
  BY <1>1, <1>2

---------------------------------------------------------------------------
(* Where a process can be in PolicyChange, and what it has in hand there.  *)
Flushing == {"take", "peek", "flushExpired", "write", "requeue"}
Serving == {"mark", "remark", "evict", "load", "loadedExpired", "fill",
            "deleteStore", "deleteInner"}
Keyed == Serving \cup Flushing
Final == {"idle", "purge", "close", "clone", "swap"}
Closing == {"close", "clone", "swap"}

FinalOK(a) ==
  /\ a.at \in Final /\ "key" \notin DOMAIN a /\ "rest" \notin DOMAIN a
  /\ a.at \in {"clone", "swap"} => a.policy \in WritePolicies
RangeOK(r) ==
  r.at = "range" /\ "key" \notin DOMAIN r /\ "rest" \notin DOMAIN r /\ FinalOK(r.then)
MarkOrIdle(a, k) ==
  /\ "rest" \notin DOMAIN a
  /\ \/ a.at = "idle" /\ "key" \notin DOMAIN a
     \/ a.at = "mark" /\ "key" \in DOMAIN a /\ a.key = k

(* The local variables of a process go with its place.                     *)
Shape(s) ==
  /\ s.at \in Final \cup {"range"} \cup Keyed
  /\ s.at \in Final => FinalOK(s)
  /\ s.at = "range" => RangeOK(s)
  /\ s.at \in Keyed => "key" \in DOMAIN s
  /\ "rest" \in DOMAIN s <=> s.at \in Flushing
  /\ s.at \in Flushing => RangeOK(s.rest) /\ {"at", "expiresAt"} \subseteq DOMAIN s
  /\ s.at = "evict" => s.victim # s.key /\ MarkOrIdle(s.then, s.key)

(* What a process does after its flush, or now, and what it has yet to     *)
(* flush.                                                                  *)
Goal(s) == IF s.at \in Flushing THEN s.rest.then ELSE IF s.at = "range" THEN s.then ELSE s
Todo(s) ==
  IF s.at \in Flushing THEN s.rest.todo \cup {s.key}
  ELSE IF s.at = "range" THEN s.todo ELSE {}

(* It is past the key in a flush that no later flush repeats.              *)
Past(s, k) == Then(s) \in {"purge", "close", "swap"} /\ k \notin Todo(s)

(* Who can be where: a change of policy, or Close, runs alone but for the  *)
(* tickers, and nothing is left of write-back under another policy.        *)
PlaceInv ==
  /\ DOMAIN st = Procs /\ \A p \in Procs : Shape(st[p])
  /\ \A p \in Tickers :
       st[p].at \in {"idle", "range"} \cup Flushing /\ Then(st[p]) = "idle"
  /\ \A p \in Procs : Then(st[p]) \in Closing =>
       gate = "closing" /\ p \in Clients /\ \A q \in Clients \ {p} : At(q, "idle")
  /\ gate = "closed" => \A q \in Clients : At(q, "idle")
  /\ writePolicy # "write-back" =>
       gate = "open" /\ DOMAIN dirty = {} /\ \A p \in Procs : At(p, "idle")
  /\ writePolicy \in WritePolicies
  /\ DOMAIN latest = Keys /\ until \in [Keys -> Nat] /\ now \in Nat

(* A deadline e that is no earlier than u, and a ttl that reaches u.       *)
NoEarlier(u, e) == e \in Nat /\ (e = 0 <=> u = 0) /\ e >= u
Lasts(u, n, ttl) == ttl \in Nat /\ (ttl = 0 <=> u = 0) /\ n + ttl >= u

(* In a cache f, dirty marks d and a store b: the value v, due at u, is    *)
(* what the cache has for k, if it has the key; what the store has for k.  *)
Held(f, k, v, u) == k \in DOMAIN f /\ f[k].value = v /\ NoEarlier(u, f[k].expiresAt)
HeldIf(f, k, v, u) == k \in DOMAIN f => Held(f, k, v, u)
Kept(b, k, v, u) ==
  IF k \in DOMAIN b THEN /\ decodeFromStore(b[k]).value = v
                         /\ NoEarlier(u, decodeFromStore(b[k]).expiresAt)
                    ELSE v = NoValue

(* With no process on the key: a dirty value is in the cache, another one  *)
(* is in the store.                                                        *)
Calm(f, d, b, k, v, u) ==
  /\ HeldIf(f, k, v, u)
  /\ k \in DOMAIN d => Held(f, k, v, u) /\ NoEarlier(u, d[k])
  /\ k \notin DOMAIN d => Kept(b, k, v, u)

(* With a process on the key: what its local variables have of it.         *)
Busy(r, f, d, b, k, v, u, n) ==
  /\ r.at = "mark" => Held(f, k, v, u) /\ Lasts(u, n, r.ttl)
  /\ r.at = "remark" => Held(f, k, v, u) /\ NoEarlier(u, r.expiresAt)
  /\ r.at = "evict" /\ r.victim = k =>
       k \notin DOMAIN f /\ k \notin DOMAIN d /\ r.old = v /\ NoEarlier(u, r.expiresAt)
  /\ r.at = "evict" /\ r.key = k /\ r.then.at = "idle" =>
       k \notin DOMAIN d /\ Kept(b, k, v, u) /\ r.new.value = v /\ NoEarlier(u, r.new.expiresAt)
  /\ r.at \in {"load", "fill"} => Calm(f, d, b, k, v, u) /\ k \notin DOMAIN d
  /\ r.at = "fill" => r.value = v /\ Lasts(u, n, r.ttl)
  /\ r.at \in {"take", "peek", "write", "requeue"} =>
       Held(f, k, v, u) /\ NoEarlier(u, r.expiresAt)
  /\ r.at = "take" => k \in DOMAIN d /\ NoEarlier(u, d[k])
  /\ r.at = "write" => r.value = v
  /\ r.at \notin {"loadedExpired", "flushExpired"}

(* The same whether the deadline has passed or not.                        *)
Safe(r, d, b, k, n) ==
  /\ r.at \in {"peek", "write", "requeue", "flushExpired", "deleteStore", "deleteInner"}
       => k \notin DOMAIN d
  /\ r.at = "deleteInner" => k \notin DOMAIN b
  /\ r.at = "evict" /\ r.key = k /\ r.then.at = "mark" =>
       r.new.expiresAt \in Nat /\ Lasts(r.new.expiresAt, n, r.then.ttl)

(* At most one process is on the key, none of a last flush or a close that *)
(* has passed it, and it is not dirty behind one.                          *)
Alone(k) ==
  /\ k \notin Late
  /\ \A p, q \in Procs : Touches(st[p], k) /\ Touches(st[q], k) => p = q
  /\ \A p \in Procs : Touches(st[p], k) => Safe(st[p], dirty, store, k, now)
  /\ \A p \in Procs : Past(st[p], k) =>
       k \notin DOMAIN dirty /\ \A q \in Procs \ {p} : ~Touches(st[q], k)
  /\ gate = "closed" => k \notin DOMAIN dirty /\ Untouched(k)

Swaps(k) == \A p \in Procs : Goal(st[p]).at = "swap" =>
              HeldIf(Goal(st[p]).clone, k, latest[k], until[k])

Traced(k) ==
  /\ Untouched(k) => Calm(live, dirty, store, k, latest[k], until[k])
  /\ \A p \in Procs : Touches(st[p], k) =>
       Busy(st[p], live, dirty, store, k, latest[k], until[k], now)
  /\ Swaps(k)

KeyOK(k) == Alone(k) /\ (~Over(k) => Traced(k))
KeyInv == \A k \in Keys \ excused : KeyOK(k)

(* What the theorems are for.                                              *)
LEMMA KeyInvMeans ==
  ASSUME PlaceInv, KeyInv
  PROVE  UndisturbedReads /\ ClosedDurably
<1>1. ASSUME NEW k \in Keys \ excused, Untouched(k), ~Over(k)
      PROVE  /\ Serves(k) = latest[k] /\ KeepsDeadline(k)
             /\ gate = "closed" => StoredValue(k) = latest[k]
  <2>1. Calm(live, dirty, store, k, latest[k], until[k]) /\ until[k] \in Nat /\ now \in Nat
        /\ (gate = "closed" => k \notin DOMAIN dirty)
    BY <1>1 DEF KeyInv, KeyOK, Alone, Traced, PlaceInv
  <2>2. until[k] = 0 \/ until[k] > now
    BY <1>1, <2>1 DEF Over
  <2>3. \A e : NoEarlier(until[k], e) => e \in Nat /\ (e = 0 \/ now < e) /\ (e = 0 <=> until[k] = 0)
    BY <2>1, <2>2 DEF NoEarlier
  <2>4. CASE k \in DOMAIN live
    <3>1. live[k].value = latest[k] /\ NoEarlier(until[k], live[k].expiresAt)
      BY <2>1, <2>4 DEF Calm, HeldIf, Held
    <3>2. Fresh(k)
      BY <2>1, <2>3, <2>4, <3>1 DEF Fresh
    <3>3. Serves(k) = latest[k] /\ KeepsDeadline(k)
      BY <2>3, <3>1, <3>2 DEF Serves, KeepsDeadline
    <3>4. gate = "closed" => StoredValue(k) = latest[k]
      BY <2>1 DEF Calm, Kept, StoredValue
    <3> QED
      BY <3>3, <3>4
  <2>5. CASE k \notin DOMAIN live
    <3>1. Kept(store, k, latest[k], until[k])
      BY <2>1, <2>5 DEF Calm, Held
    <3>2. StoredValue(k) = latest[k]
      BY <3>1 DEF Kept, StoredValue
    <3>3. k \in DOMAIN store => ~ttlExpired(decodeFromStore(store[k]).expiresAt, now)
      BY <2>1, <2>3, <3>1 DEF Kept, ttlExpired
    <3>4. Serves(k) = latest[k]
      BY <2>5, <3>1, <3>3 DEF Serves, Fresh, Kept
    <3> QED
      BY <2>5, <3>2, <3>4 DEF KeepsDeadline
  <2> QED
    BY <2>4, <2>5
<1> QED
  BY <1>1 DEF UndisturbedReads, ClosedDurably

(* The invariant at the start.                                             *)
LEMMA InitPlaces ==
  ASSUME PInit
  PROVE  PlaceInv /\ KeyInv
<1>1. \A p \in Procs : st[p] = Idle
  BY DEF PInit, Init
<1>2. Shape(Idle) /\ Then(Idle) = "idle" /\ Goal(Idle) = Idle /\ Todo(Idle) = {}
      /\ \A k : ~Touches(Idle, k)
  BY DEF Shape, FinalOK, Final, Keyed, Serving, Flushing, Idle, Then, Goal, Todo, Touches
<1>3. DOMAIN live = {} /\ DOMAIN dirty = {} /\ DOMAIN store = {} /\ Late = {}
      /\ writePolicy \in WritePolicies /\ now = 0 /\ gate = "open" /\ DOMAIN st = Procs
      /\ latest = [k \in Keys |-> NoValue] /\ until = [k \in Keys |-> 0]
  BY DEF PInit, Init, Empty, Late
<1>4. PlaceInv
  BY <1>1, <1>2, <1>3 DEF PlaceInv, At, Idle, Closing, Procs
<1>5. ASSUME NEW k \in Keys
      PROVE  KeyOK(k)
  <2>1. Alone(k)
    BY <1>1, <1>2, <1>3 DEF Alone, Past
  <2>2. Traced(k)
    BY <1>1, <1>2, <1>3 DEF Traced, Calm, HeldIf, Kept, Swaps, Idle
  <2> QED
    BY <2>1, <2>2 DEF KeyOK
<1> QED
  BY <1>4, <1>5 DEF KeyInv

---------------------------------------------------------------------------
(* Of which keys a record speaks, and what its process will do.            *)
LEMMA ShapeSays ==
  ASSUME NEW s, Shape(s)
  PROVE  /\ \A k : Touches(s, k) <=>
              s.at \in Keyed /\ (s.key = k \/ (s.at = "evict" /\ s.victim = k))
         /\ Then(s) = Goal(s).at
         /\ s.at \in Flushing => Goal(s) = s.rest.then /\ Goal(s).at \in Final
         /\ s.at = "range" => Goal(s) = s.then /\ Goal(s).at \in Final
         /\ s.at \notin Flushing \cup {"range"} => Goal(s) = s /\ Todo(s) = {}
<1>1. "key" \in DOMAIN s <=> s.at \in Keyed
  BY DEF Shape, FinalOK, RangeOK
<1>2. \A k : Touches(s, k) <=>
              s.at \in Keyed /\ (s.key = k \/ (s.at = "evict" /\ s.victim = k))
  BY <1>1 DEF Touches
<1>3. s.at \in Flushing => s.rest.then.at \in Final
  BY DEF Shape, RangeOK, FinalOK
<1>4. s.at = "range" => s.then.at \in Final
  BY DEF Shape, RangeOK, FinalOK
<1>5. "range" \notin Flushing
  BY DEF Flushing
<1> QED
  BY <1>2, <1>3, <1>4, <1>5 DEF Shape, Then, Goal, Todo

(* A process that serves a request does not flush.                         *)
LEMMA ServingSays ==
  ASSUME NEW s, Shape(s), s.at \in Serving \cup {"idle"}
  PROVE  Then(s) = s.at /\ Goal(s) = s /\ \A k : ~Past(s, k)
<1>1. s.at \notin Flushing \cup {"range"} /\ s.at \notin {"purge", "close", "swap"}
  BY DEF Serving, Flushing
<1> QED
  BY <1>1, ShapeSays DEF Past

(* The step of a process, key by key.                                      *)
LEMMA GotoIs ==
  ASSUME DOMAIN st = Procs, NEW p \in Procs, NEW s, Goto(p, s)
  PROVE  st'[p] = s /\ DOMAIN st' = Procs /\ \A q \in Procs \ {p} : st'[q] = st[q]
BY DEF Goto

(* Who serves a request is a client, and none but it and the tickers runs. *)
LEMMA Undisturbed ==
  ASSUME PlaceInv, NEW p \in Procs,
         st[p].at \in Serving \/ (p \in Clients /\ (gate = "open" \/ ~At(p, "idle")))
  PROVE  /\ gate # "closed" /\ p \in Clients
         /\ \A q \in Procs \ {p} : Then(st[q]) \notin Closing
<1>1. p \in Clients
  BY DEF PlaceInv, Serving, Flushing, Procs
<1>2. ~At(p, "idle") \/ gate = "open"
  BY DEF At, Serving
<1>3. gate # "closed"
  BY <1>1, <1>2 DEF PlaceInv
<1>4. ASSUME NEW q \in Procs \ {p}, Then(st[q]) \in Closing
      PROVE  FALSE
  BY <1>1, <1>2, <1>4 DEF PlaceInv
<1> QED
  BY <1>1, <1>3, <1>4

(* A step of one process that leaves the gate, the policy and the clock.   *)
LEMMA PlaceStep ==
  ASSUME PlaceInv, NEW p \in Procs, NEW s, Goto(p, s), Shape(s),
         UNCHANGED <<gate, now, writePolicy>>,
         DOMAIN latest' = DOMAIN latest, until' \in [Keys -> Nat],
         writePolicy = "write-back",
         p \in Clients \/ s.at \in {"idle", "range"} \cup Flushing,
         Then(s) = "idle" \/ (p \in Clients /\ (Then(s) \in Closing => Then(st[p]) \in Closing)),
         p \in Tickers \/ gate = "open" \/ ~At(p, "idle")
  PROVE  PlaceInv'
<1> USE DEF Closing
<1>1. st'[p] = s /\ DOMAIN st' = Procs /\ \A q \in Procs \ {p} : st'[q] = st[q]
  BY GotoIs DEF PlaceInv
<1>2. Clients \cap Tickers = {} /\ Procs = Clients \cup Tickers
  BY WBConstants DEF Procs
<1>3. \A q \in Procs : Shape(st'[q])
  BY <1>1 DEF PlaceInv
<1>4. \A q \in Tickers :
        st'[q].at \in {"idle", "range"} \cup Flushing /\ Then(st'[q]) = "idle"
  BY <1>1, <1>2 DEF PlaceInv
<1>5. p \in Clients => gate # "closed" /\ \A q \in Procs \ {p} : Then(st[q]) \notin Closing
  BY <1>2, Undisturbed
<1>6. ASSUME NEW q \in Procs, Then(st'[q]) \in Closing
      PROVE  gate' = "closing" /\ q \in Clients /\ \A r \in Clients \ {q} : At(r, "idle")'
  <2>1. Then(st[q]) \in Closing
    BY <1>1, <1>6
  <2>2. gate = "closing" /\ q \in Clients /\ \A r \in Clients \ {q} : At(r, "idle")
    BY <2>1, <1>6 DEF PlaceInv
  <2>3. q # p => p \notin Clients
    BY <1>5, <2>1
  <2> QED
    BY <1>1, <1>2, <2>2, <2>3 DEF At
<1>7. gate' = "closed" => \A q \in Clients : At(q, "idle")'
  <2>1. gate' = "closed" => p \notin Clients
    BY <1>5
  <2> QED
    BY <1>1, <1>2, <2>1 DEF PlaceInv, At
<1> QED
  BY <1>1, <1>3, <1>4, <1>6, <1>7 DEF PlaceInv

---------------------------------------------------------------------------
(* Two maps that have the same for a key.                                  *)
SameAt(f, g, k) ==
  (k \in DOMAIN f <=> k \in DOMAIN g) /\ (k \in DOMAIN f => f[k] = g[k])

(* What the invariant says of a key depends on what the maps have for it.  *)
LEMMA SameCells ==
  ASSUME NEW f, NEW f2, NEW d, NEW d2, NEW b, NEW b2, NEW k, NEW v, NEW u, NEW n, NEW r,
         SameAt(f, f2, k), SameAt(d, d2, k), SameAt(b, b2, k)
  PROVE  /\ Calm(f, d, b, k, v, u) => Calm(f2, d2, b2, k, v, u)
         /\ Busy(r, f, d, b, k, v, u, n) => Busy(r, f2, d2, b2, k, v, u, n)
         /\ Safe(r, d, b, k, n) => Safe(r, d2, b2, k, n)
<1>1. Held(f, k, v, u) <=> Held(f2, k, v, u)
  BY DEF SameAt, Held
<1>2. HeldIf(f, k, v, u) <=> HeldIf(f2, k, v, u)
  BY <1>1 DEF SameAt, HeldIf
<1>3. Kept(b, k, v, u) <=> Kept(b2, k, v, u)
  BY DEF SameAt, Kept
<1>4. (k \in DOMAIN f <=> k \in DOMAIN f2) /\ (k \in DOMAIN d <=> k \in DOMAIN d2)
      /\ (k \in DOMAIN b <=> k \in DOMAIN b2) /\ (k \in DOMAIN d => d[k] = d2[k])
  BY DEF SameAt
<1>5. Calm(f, d, b, k, v, u) <=> Calm(f2, d2, b2, k, v, u)
  BY <1>1, <1>2, <1>3, <1>4 DEF Calm
<1> QED
  BY <1>1, <1>3, <1>4, <1>5 DEF Busy, Safe

(* What puts and drops do to the keys they are about, and to others.       *)
LEMMA MapCells ==
  ASSUME NEW f, NEW k, NEW e
  PROVE  /\ k \notin DOMAIN Drop(f, k)
         /\ k \in DOMAIN Put(f, k, e) /\ Put(f, k, e)[k] = e
         /\ \A j : j # k => SameAt(f, Drop(f, k), j) /\ SameAt(f, Put(f, k, e), j)
BY DEF Drop, Put, SameAt

(* What a step that may drop a key does to others.                         *)
LEMMA DropCells ==
  ASSUME NEW f, NEW g, NEW k, g = f \/ g = Drop(f, k)
  PROVE  \A j : j # k => SameAt(f, g, j)
BY DEF Drop, SameAt

(* No other process is on the key, or has passed it in a last flush.       *)
Sole(p, k) == \A q \in Procs \ {p} : ~Touches(st[q], k) /\ ~Past(st[q], k)

(* A step of a process that has the key to itself.                         *)
LEMMA SoleStep ==
  ASSUME NEW k \in Keys, NEW p \in Procs, Sole(p, k),
         \A q \in Procs \ {p} : st'[q] = st[q],
         k \notin Late',
         Touches(st'[p], k) => Safe(st'[p], dirty', store', k, now'),
         Past(st'[p], k) => k \notin DOMAIN dirty',
         gate' = "closed" => ~Touches(st'[p], k) /\ k \notin DOMAIN dirty',
         ~Over(k)' => /\ ~Touches(st'[p], k) =>
                           Calm(live', dirty', store', k, latest'[k], until'[k])
                      /\ Touches(st'[p], k) =>
                           Busy(st'[p], live', dirty', store', k, latest'[k], until'[k], now')
                      /\ Swaps(k)'
  PROVE  KeyOK(k)'
<1>1. \A q \in Procs \ {p} : ~Touches(st'[q], k) /\ ~Past(st'[q], k)
  BY DEF Sole
<1>2. Alone(k)'
  <2>1. \A q, r \in Procs : Touches(st'[q], k) /\ Touches(st'[r], k) => q = r
    BY <1>1
  <2>2. \A q \in Procs : Touches(st'[q], k) => Safe(st'[q], dirty', store', k, now')
    BY <1>1
  <2>3. \A q \in Procs : Past(st'[q], k) =>
          k \notin DOMAIN dirty' /\ \A r \in Procs \ {q} : ~Touches(st'[r], k)
    BY <1>1
  <2>4. gate' = "closed" => k \notin DOMAIN dirty' /\ Untouched(k)'
    BY <1>1 DEF Untouched
  <2> QED
    BY <2>1, <2>2, <2>3, <2>4 DEF Alone
<1>3. ~Over(k)' => Traced(k)'
  BY <1>1 DEF Traced, Untouched
<1> QED
  BY <1>2, <1>3 DEF KeyOK

(* A step of a process that has nothing to do with the key.                *)
LEMMA AsideStep ==
  ASSUME NEW k \in Keys, NEW p \in Procs, KeyOK(k),
         \A q \in Procs \ {p} : st'[q] = st[q],
         ~Touches(st[p], k), ~Touches(st'[p], k),
         SameAt(live, live', k), SameAt(dirty, dirty', k), SameAt(store, store', k),
         latest'[k] = latest[k], until'[k] = until[k], now' = now, late' = late,
         Past(st'[p], k) =>
           Past(st[p], k) \/ (k \notin DOMAIN dirty /\ \A q \in Procs \ {p} : ~Touches(st[q], k)),
         gate' = "closed" => gate = "closed" \/ Past(st[p], k),
         Goal(st'[p]).at = "swap" => Goal(st'[p]) = Goal(st[p])
  PROVE  KeyOK(k)'
<1>1. k \in DOMAIN dirty <=> k \in DOMAIN dirty'
  BY DEF SameAt
<1>2. \A q \in Procs : Touches(st'[q], k) <=> Touches(st[q], k) /\ q # p
  OBVIOUS
<1>3. Alone(k)
  BY DEF KeyOK
<1>4. Alone(k)'
  <2>1. \A q, r \in Procs : Touches(st'[q], k) /\ Touches(st'[r], k) => q = r
    BY <1>2, <1>3 DEF Alone
  <2>2. \A q \in Procs : Touches(st'[q], k) => Safe(st'[q], dirty', store', k, now')
    BY <1>2, <1>3, SameCells DEF Alone
  <2>3. \A q \in Procs : Past(st'[q], k) =>
          k \notin DOMAIN dirty' /\ \A r \in Procs \ {q} : ~Touches(st'[r], k)
    BY <1>1, <1>2, <1>3 DEF Alone
  <2>4. gate' = "closed" => k \notin DOMAIN dirty' /\ Untouched(k)'
    BY <1>1, <1>2, <1>3 DEF Alone, Untouched
  <2>5. k \notin Late'
    BY <1>3 DEF Alone, Late
  <2> QED
    BY <2>1, <2>2, <2>3, <2>4, <2>5 DEF Alone
<1>5. ASSUME ~Over(k)'
      PROVE  Traced(k)'
  <2>1. Traced(k)
    BY <1>5 DEF KeyOK, Over
  <2>2. Untouched(k)' <=> Untouched(k)
    BY <1>2 DEF Untouched
  <2>3. Untouched(k)' => Calm(live', dirty', store', k, latest'[k], until'[k])
    <3>1. Untouched(k)' => Calm(live, dirty, store, k, latest'[k], until'[k])
      BY <2>1, <2>2 DEF Traced
    <3> QED
      BY <3>1, SameCells
  <2>4. \A q \in Procs : Touches(st'[q], k) =>
          Busy(st'[q], live', dirty', store', k, latest'[k], until'[k], now')
    <3>1. \A q \in Procs : Touches(st'[q], k) =>
            Busy(st'[q], live, dirty, store, k, latest'[k], until'[k], now')
      BY <1>2, <2>1 DEF Traced
    <3> QED
      BY <3>1, SameCells
  <2>5. Swaps(k)'
    <3>1. Swaps(k)
      BY <2>1 DEF Traced
    <3>2. ASSUME NEW q \in Procs, Goal(st'[q]).at = "swap"
          PROVE  HeldIf(Goal(st'[q]).clone, k, latest'[k], until'[k])
      <4>1. Goal(st'[q]) = Goal(st[q])
        BY <3>2
      <4> QED
        BY <3>1, <3>2, <4>1 DEF Swaps
    <3> QED
      BY <3>2 DEF Swaps
  <2> QED
    BY <2>3, <2>4, <2>5 DEF Traced
<1> QED
  BY <1>4, <1>5 DEF KeyOK

(* What a step of write-back shows of a key that is not excused after it.  *)
LEMMA Unexcused ==
  ASSUME PlaceInv, KeyInv, NEW p \in Procs, Observe(p), late' = late,
         NEW k \in Keys \ excused'
  PROVE  /\ ~Meets(p, k) /\ ~Loses(p, k)
         /\ KeyOK(k) \/ (At(p, "idle") /\ st'[p].at \in {"mark", "evict", "deleteStore"} /\ st'[p].key = k
                       /\ ~Disputed(p, k))
         /\ k \notin Late'
         /\ DOMAIN until' = Keys
         /\ until'[k] = IF st'[p].at = "mark" /\ st'[p].key = k /\ ~At(p, "mark")
                          THEN live'[k].expiresAt
                        ELSE IF At(p, "deleteInner") /\ st[p].key = k THEN 0
                        ELSE until[k]
<1>1. ~Meets(p, k) /\ ~Loses(p, k) /\ (k \in excused => Settles(p, k))
  BY DEF Observe
<1>2. k \notin excused => KeyOK(k)
  BY DEF KeyInv
<1>3. KeyOK(k) \/ (At(p, "idle") /\ st'[p].at \in {"mark", "evict", "deleteStore"} /\ st'[p].key = k
                       /\ ~Disputed(p, k))
  BY <1>1, <1>2 DEF Settles
<1>4. k \notin Late'
  BY <1>3 DEF KeyOK, Alone, Disputed, Late
<1>5. DOMAIN until' = Keys
      /\ until'[k] = IF st'[p].at = "mark" /\ st'[p].key = k /\ ~At(p, "mark")
                          THEN live'[k].expiresAt
                        ELSE IF At(p, "deleteInner") /\ st[p].key = k THEN 0
                        ELSE until[k]
  BY DEF Observe
<1> QED
  BY <1>1, <1>3, <1>4, <1>5

(* A process on a key has it to itself; so has one that comes to it.       *)
LEMMA SoleOn ==
  ASSUME NEW k, NEW p \in Procs, KeyOK(k), Touches(st[p], k)
  PROVE  Sole(p, k)
BY DEF KeyOK, Alone, Sole

(* A client that nobody disputes the key with has it to itself.            *)
LEMMA SoleFrom ==
  ASSUME PlaceInv, NEW k, NEW p \in Procs, p \in Clients, gate = "open" \/ ~At(p, "idle"),
         ~Disputed(p, k)
  PROVE  Sole(p, k)
<1>1. \A q \in Procs \ {p} : Then(st[q]) \notin Closing
  BY Undisturbed
<1> QED
  BY <1>1 DEF Sole, Disputed, Past, Closing

---------------------------------------------------------------------------
(* The steps of a process that serves a request.  A step is on the keys    *)
(* that its process touches before or after it, and on those it evicts.    *)
OnKey(p, k) ==
  Touches(st[p], k) \/ Touches(st'[p], k) \/ (k \in DOMAIN live /\ k \notin DOMAIN live')

KeyLeft(k) ==
  SameAt(live, live', k) /\ SameAt(dirty, dirty', k) /\ SameAt(store, store', k)
  /\ latest'[k] = latest[k]

KeyDone(p, k) ==
  /\ until'[k] \in Nat
  /\ Touches(st'[p], k) => Safe(st'[p], dirty', store', k, now')
  /\ ~Over(k)' => /\ ~Touches(st'[p], k) =>
                       Calm(live', dirty', store', k, latest'[k], until'[k])
                  /\ Touches(st'[p], k) =>
                       Busy(st'[p], live', dirty', store', k, latest'[k], until'[k], now')

(* The invariant after such a step.                                        *)
LEMMA ServeStep ==
  ASSUME PlaceInv, KeyInv, NEW p \in Procs, p \in Clients, NEW s, Goto(p, s), Shape(s),
         s.at \in Serving \cup {"idle"}, st[p].at \in Serving \cup {"idle"},
         Observe(p), writePolicy = "write-back", gate = "open" \/ ~At(p, "idle"),
         UNCHANGED <<gate, now, writePolicy, late>>, DOMAIN latest' = DOMAIN latest,
         \A k \in Keys \ excused' : OnKey(p, k) => KeyDone(p, k),
         \A k \in Keys : ~OnKey(p, k) => KeyLeft(k)
  PROVE  PlaceInv' /\ KeyInv'
<1>1. st'[p] = s /\ \A q \in Procs \ {p} : st'[q] = st[q]
  BY GotoIs DEF PlaceInv
<1>2. Shape(st[p])
  BY DEF PlaceInv
<1>3. Then(s) = s.at /\ Goal(s) = s /\ \A k : ~Past(s, k)
  BY ServingSays
<1>4. Then(s) \notin Closing /\ Goal(s).at # "swap"
  BY <1>3 DEF Closing, Serving
<1>5. gate' # "closed" /\ \A q \in Procs \ {p} : Then(st[q]) \notin Closing
  BY Undisturbed
<1>6. until' \in [Keys -> Nat]
  <2>1. ASSUME NEW k \in Keys \ excused'
        PROVE  until'[k] \in Nat
    <3>1. CASE OnKey(p, k)
      BY <3>1 DEF KeyDone
    <3>2. CASE ~OnKey(p, k)
      <4>1. until'[k] = IF st'[p].at = "mark" /\ st'[p].key = k /\ ~At(p, "mark")
                          THEN live'[k].expiresAt
                        ELSE IF At(p, "deleteInner") /\ st[p].key = k THEN 0
                        ELSE until[k]
        BY Unexcused
      <4>2. st'[p].at = "mark" => st'[p].key # k
        BY <1>1, <3>2, ShapeSays DEF OnKey, Keyed, Serving
      <4> QED
        BY <4>1, <4>2 DEF PlaceInv
    <3> QED
      BY <3>1, <3>2
  <2>2. \A k \in excused' : k \in Keys => until'[k] = 0
    BY DEF Observe
  <2>3. \A k \in Keys : until'[k] \in Nat
    BY <2>1, <2>2
  <2> QED
    BY <2>3 DEF Observe
<1>7. PlaceInv'
  <2>1. p \in Clients \/ s.at \in {"idle", "range"} \cup Flushing
    OBVIOUS
  <2>2. Then(s) = "idle" \/ (p \in Clients /\ (Then(s) \in Closing => Then(st[p]) \in Closing))
    BY <1>4
  <2>3. p \in Tickers \/ gate = "open" \/ ~At(p, "idle")
    OBVIOUS
  <2> QED
    BY <1>6, <2>1, <2>2, <2>3, PlaceStep
<1>8. \A q \in Procs : Goal(st'[q]).at # "swap"
  <2>1. ASSUME NEW q \in Procs \ {p}
        PROVE  Goal(st'[q]).at # "swap"
    <3>1. Shape(st[q])
      BY DEF PlaceInv
    <3> QED
      BY <1>1, <1>5, <3>1, ShapeSays DEF Closing
  <2> QED
    BY <1>1, <1>4, <2>1
<1>9. ASSUME NEW k \in Keys \ excused'
      PROVE  KeyOK(k)'
  <2>1. /\ ~Meets(p, k)
        /\ KeyOK(k) \/ (At(p, "idle") /\ st'[p].at \in {"mark", "evict", "deleteStore"} /\ st'[p].key = k
                         /\ ~Disputed(p, k))
        /\ k \notin Late'
        /\ until'[k] = IF st'[p].at = "mark" /\ st'[p].key = k /\ ~At(p, "mark")
                          THEN live'[k].expiresAt
                        ELSE IF At(p, "deleteInner") /\ st[p].key = k THEN 0
                        ELSE until[k]
    BY Unexcused
  <2>2. /\ \A j : Touches(st[p], j) <=> st[p].at \in Keyed /\ (st[p].key = j \/ (st[p].at = "evict" /\ st[p].victim = j))
        /\ \A j : Touches(s, j) <=> s.at \in Keyed /\ (s.key = j \/ (s.at = "evict" /\ s.victim = j))
    BY <1>2, ShapeSays
  <2>3. CASE OnKey(p, k)
    <3>1. KeyDone(p, k)
      BY <2>3
    <3>2. ASSUME Touches(st[p], k)
          PROVE  Sole(p, k)
      <4>1. ~At(p, "idle")
        BY <2>2, <3>2 DEF At, Keyed, Serving, Flushing
      <4>2. KeyOK(k)
        BY <2>1, <4>1
      <4> QED
        BY <3>2, <4>2, SoleOn
    <3>3. ASSUME ~Touches(st[p], k)
          PROVE  Sole(p, k)
      <4>1. ~Disputed(p, k)
        BY <2>1, <2>3, <3>3 DEF OnKey, Meets
      <4> QED
        BY <4>1, SoleFrom
    <3>4. Sole(p, k)
      BY <3>2, <3>3
    <3>5. Swaps(k)'
      BY <1>8 DEF Swaps
    <3> QED
      BY <1>1, <1>3, <1>5, <2>1, <3>1, <3>4, <3>5, SoleStep DEF KeyDone
  <2>4. CASE ~OnKey(p, k)
    <3>1. KeyLeft(k) /\ ~Touches(st[p], k) /\ ~Touches(s, k)
      BY <1>1, <2>4 DEF OnKey
    <3>2. KeyOK(k)
      BY <1>1, <2>1, <2>2, <3>1 DEF Keyed, Serving
    <3>3. until'[k] = until[k]
      BY <1>1, <2>1, <2>2, <3>1 DEF Keyed, Serving, At
    <3> QED
      BY <1>1, <1>3, <1>4, <1>5, <3>1, <3>2, <3>3, AsideStep DEF KeyLeft
  <2> QED
    BY <2>3, <2>4
<1> QED
  BY <1>7, <1>9 DEF KeyInv

---------------------------------------------------------------------------
(* The places of a process that serves a request.                          *)
LEMMA ServeShapes ==
  ASSUME NEW k, NEW x, NEW y
  PROVE  /\ Shape(Idle)
         /\ Shape([at |-> "mark", key |-> k, ttl |-> x])
         /\ Shape([at |-> "remark", key |-> k, expiresAt |-> x])
         /\ Shape([at |-> "load", key |-> k])
         /\ Shape([at |-> "loadedExpired", key |-> k])
         /\ Shape([at |-> "deleteStore", key |-> k])
         /\ Shape([at |-> "deleteInner", key |-> k])
         /\ Shape([at |-> "fill", key |-> k, value |-> x, ttl |-> y])
BY DEF Shape, FinalOK, Idle, Final, Keyed, Serving, Flushing

(* A process that waits for the callback to end.                           *)
LEMMA EvictShape ==
  ASSUME NEW x, NEW old, NEW exp, NEW k, NEW new, NEW then, x # k, MarkOrIdle(then, k)
  PROVE  Shape([at |-> "evict", victim |-> x, old |-> old, expiresAt |-> exp,
                key |-> k, new |-> new, then |-> then])
BY DEF Shape, Final, Keyed, Serving, Flushing

(* A ttl that lasts gives a deadline that is no earlier.                   *)
LEMMA DeadlineLasts ==
  ASSUME now \in Nat, NEW ttl \in Nat
  PROVE  /\ Deadline(ttl) \in Nat /\ Lasts(Deadline(ttl), now, ttl)
         /\ \A u \in Nat : Lasts(u, now, ttl) => NoEarlier(u, Deadline(ttl))
BY DEF Deadline, Lasts, NoEarlier

(* A deadline is no earlier than itself.                                   *)
LEMMA SameIsNoEarlier ==
  ASSUME NEW u \in Nat
  PROVE  NoEarlier(u, u)
BY DEF NoEarlier

(* A process on a key that no other one was on, to which it has come.      *)
LEMMA CameTo ==
  ASSUME PlaceInv, KeyInv, NEW p \in Procs, Observe(p), late' = late, NEW k \in Keys \ excused',
         ~Touches(st[p], k), Touches(st'[p], k) \/ (k \in DOMAIN live /\ k \notin DOMAIN live')
  PROVE  ~Disputed(p, k) /\ Untouched(k)
<1>1. ~Meets(p, k)
  BY Unexcused
<1>2. ~Disputed(p, k)
  BY <1>1 DEF Meets
<1> QED
  BY <1>2 DEF Disputed, Untouched

(* The victim of an eviction that is not dirty is in the store.            *)
LEMMA CleanVictim ==
  ASSUME NEW p \in Procs, NEW x, KeyOK(x), Untouched(x), ~Touches(st'[p], x),
         until[x] \in Nat,
         x \notin DOMAIN live', x \notin DOMAIN dirty, x \notin DOMAIN dirty',
         SameAt(store, store', x),
         latest'[x] = latest[x], until'[x] = until[x], now' = now
  PROVE  KeyDone(p, x)
<1>1. ASSUME ~Over(x)'
      PROVE  Calm(live', dirty', store', x, latest'[x], until'[x])
  <2>1. Traced(x)
    BY <1>1 DEF KeyOK, Over
  <2>2. Kept(store, x, latest[x], until[x])
    BY <2>1 DEF Traced, Calm
  <2>3. Kept(store', x, latest'[x], until'[x])
    BY <2>2 DEF Kept, SameAt
  <2> QED
    BY <2>3 DEF Calm, HeldIf
<1> QED
  BY <1>1 DEF KeyDone

(* One that is dirty is in the hands of the callback.                      *)
LEMMA DirtyVictim ==
  ASSUME NEW p \in Procs, NEW x, KeyOK(x), Untouched(x), Touches(st'[p], x),
         until[x] \in Nat,
         st'[p].at = "evict", st'[p].victim = x, st'[p].key # x,
         st'[p].old = live[x].value, st'[p].expiresAt = dirty[x],
         x \notin DOMAIN live', x \in DOMAIN dirty, x \notin DOMAIN dirty',
         latest'[x] = latest[x], until'[x] = until[x], now' = now
  PROVE  KeyDone(p, x)
<1>1. ASSUME ~Over(x)'
      PROVE  Busy(st'[p], live', dirty', store', x, latest'[x], until'[x], now')
  <2>1. Traced(x)
    BY <1>1 DEF KeyOK, Over
  <2>2. live[x].value = latest[x] /\ NoEarlier(until[x], dirty[x])
    BY <2>1 DEF Traced, Calm, Held
  <2> QED
    BY <2>2 DEF Busy
<1>2. Safe(st'[p], dirty', store', x, now')
  BY DEF Safe
<1> QED
  BY <1>1, <1>2 DEF KeyDone

(* What a call of inner.Set is to make of its own key, in one step or with *)
(* the callback in between; of the victim and the rest, InsertStep says it *)
(* for a Set and for a refill alike.                                       *)
AddsEntry(p, k, e, then) ==
  /\ st'[p] = then /\ k \in DOMAIN live' /\ live'[k] = e /\ Record(k, e.value, then)
  /\ UNCHANGED <<now, dirty, store, gate>>

EvictsFor(p, k, e, then) ==
  /\ st'[p].at = "evict" /\ st'[p].key = k /\ st'[p].victim # k /\ Touches(st'[p], k)
  /\ st'[p].new = e /\ st'[p].then = then
  /\ k \notin DOMAIN live /\ SameAt(live, live', k) /\ SameAt(dirty, dirty', k)
  /\ UNCHANGED <<now, store, gate, latest>>

(* The invariant after a step of inner.Set, the callback excepted.         *)
LEMMA InsertStep ==
  ASSUME PlaceInv, KeyInv, NEW p \in Procs, p \in Clients, Observe(p),
         gate = "open" \/ ~At(p, "idle"), st[p].at \in {"idle", "fill"},
         NEW k, NEW v, NEW ttl, NEW then,
         Insert(p, k, v, ttl, then), MarkOrIdle(then, k), Shape(then),
         \A j : Touches(st[p], j) => j = k,
         Touches(st[p], k) \/ then.at = "mark",
         writePolicy = "write-back", UNCHANGED <<writePolicy, late>>,
         k \in Keys \ excused' /\ AddsEntry(p, k, Entry(v, Deadline(ttl)), then) => KeyDone(p, k),
         k \in Keys \ excused' /\ EvictsFor(p, k, Entry(v, Deadline(ttl)), then) => KeyDone(p, k)
  PROVE  PlaceInv' /\ KeyInv'
<1> DEFINE e == Entry(v, Deadline(ttl))
<1>1. /\ e.value = v
      /\ k \in Keys \ excused' /\ AddsEntry(p, k, e, then) => KeyDone(p, k)
      /\ k \in Keys \ excused' /\ EvictsFor(p, k, e, then) => KeyDone(p, k)
  BY DEF Entry
<1> HIDE DEF e
<1>5. Shape(st[p]) /\ then.at \in {"idle", "mark"} /\ then.at \in Serving \cup {"idle"}
      /\ (then.at = "mark" => then.key = k)
  BY DEF PlaceInv, MarkOrIdle, Serving
<1>6. \A j : Touches(st[p], j) => j = k
  OBVIOUS
<1>7. \A j : Touches(then, j) => j = k
  BY <1>5, ShapeSays DEF Keyed, Serving, Flushing
<1>10. Touches(st[p], k) \/ Touches(then, k)
  BY <1>5, ShapeSays DEF Keyed, Serving
<1>8. DOMAIN latest = Keys /\ DOMAIN st = Procs /\ st[p].at \in Serving \cup {"idle"}
  BY DEF PlaceInv, Serving
<1>9. Record(k, v, then) => /\ DOMAIN latest' = DOMAIN latest
                            /\ \A j \in Keys : j # k => latest'[j] = latest[j]
  BY <1>8 DEF Record
<1>11. ASSUME NEW j \in Keys \ excused', j # k,
              st'[p].at \in {"mark", "evict"} => st'[p].key = k,
              st'[p].at \in {"idle", "mark", "evict"}
       PROVE  until'[j] = until[j] /\ until[j] \in Nat /\ KeyOK(j)
  <2>1. /\ KeyOK(j) \/ (At(p, "idle") /\ st'[p].at \in {"mark", "evict", "deleteStore"} /\ st'[p].key = j
                          /\ ~Disputed(p, j))
        /\ until'[j] = IF st'[p].at = "mark" /\ st'[p].key = j /\ ~At(p, "mark")
                          THEN live'[j].expiresAt
                        ELSE IF At(p, "deleteInner") /\ st[p].key = j THEN 0
                        ELSE until[j]
    BY Unexcused
  <2>2. ~At(p, "deleteInner")
    BY DEF At
  <2> QED
    BY <1>11, <2>1, <2>2 DEF PlaceInv
<1>14. CASE InsertFits(p, k, v, ttl, then)
  <2>1. /\ live' = Put(live, k, e) /\ Record(k, v, then) /\ Goto(p, then)
        /\ UNCHANGED <<now, lock, dirty, dirtyCount, owes, store, gate>>
    BY <1>14 DEF InsertFits, e
  <2>2. st'[p] = then
    BY <1>8, <2>1, GotoIs
  <2>3. k \in DOMAIN live' /\ live'[k] = e /\ \A j : j # k => SameAt(live, live', j)
    BY <2>1, MapCells
  <2>4. k \in Keys \ excused' => KeyDone(p, k)
    BY <1>1, <2>1, <2>2, <2>3 DEF AddsEntry
  <2>5. \A j \in Keys \ excused' : OnKey(p, j) => KeyDone(p, j)
    BY <1>6, <1>7, <2>2, <2>3, <2>4 DEF OnKey, SameAt
  <2>6. \A j \in Keys : ~OnKey(p, j) => KeyLeft(j)
    BY <1>10, <1>9, <2>1, <2>2, <2>3 DEF OnKey, KeyLeft, SameAt
  <2> QED
    BY <1>5, <1>8, <1>9, <2>1, <2>5, <2>6, ServeStep
<1>15. CASE InsertEvictsClean(p, k, v, ttl, then)
  <2>1. /\ k \notin DOMAIN live /\ Record(k, v, then) /\ Goto(p, then)
        /\ UNCHANGED <<now, lock, dirty, dirtyCount, owes, store, gate>>
    BY <1>15 DEF InsertEvictsClean, Full
  <2>2. PICK x \in DOMAIN live \ DOMAIN dirty : live' = Put(Drop(live, x), k, e)
    BY <1>15 DEF InsertEvictsClean, e
  <2>3. st'[p] = then
    BY <1>8, <2>1, GotoIs
  <2>4. k \in DOMAIN live' /\ live'[k] = e /\ x \notin DOMAIN live'
        /\ \A j : j # x /\ j # k => SameAt(live, live', j)
    BY <2>1, <2>2 DEF Put, Drop, SameAt
  <2>5. ASSUME x \in Keys \ excused'
        PROVE  KeyDone(p, x)
    <3>1. x # k /\ x \in DOMAIN live /\ x \notin DOMAIN dirty
      BY <2>1, <2>2
    <3>2. ~Touches(st[p], x) /\ ~Touches(st'[p], x)
      BY <1>6, <1>7, <2>3, <3>1
    <3>3. Untouched(x)
      BY <2>4, <2>5, <3>1, <3>2, CameTo
    <3>4. until'[x] = until[x] /\ KeyOK(x) /\ until[x] \in Nat /\ latest'[x] = latest[x]
      BY <1>5, <1>9, <1>11, <2>1, <2>3, <2>5, <3>1
    <3> QED
      BY <2>1, <2>4, <2>5, <3>1, <3>2, <3>3, <3>4, CleanVictim DEF SameAt
  <2>6. k \in Keys \ excused' => KeyDone(p, k)
    BY <1>1, <2>1, <2>3, <2>4 DEF AddsEntry
  <2>7. \A j \in Keys \ excused' : OnKey(p, j) => KeyDone(p, j)
    BY <1>6, <1>7, <2>3, <2>4, <2>5, <2>6 DEF OnKey, SameAt
  <2>8. \A j \in Keys : ~OnKey(p, j) => KeyLeft(j)
    BY <1>10, <1>9, <2>1, <2>2, <2>3, <2>4 DEF OnKey, KeyLeft, SameAt
  <2> QED
    BY <1>5, <1>8, <1>9, <2>1, <2>7, <2>8, ServeStep
<1>16. CASE InsertEvictsDirty(p, k, v, ttl, then)
  <2>1. /\ k \notin DOMAIN live
        /\ UNCHANGED <<now, store, gate, latest>>
    BY <1>16 DEF InsertEvictsDirty, Full
  <2>2. PICK x \in DOMAIN live \cap DOMAIN dirty :
          /\ live' = Drop(live, x)
          /\ dirty' = Drop(dirty, x)
          /\ Goto(p, [at |-> "evict", victim |-> x, old |-> live[x].value,
                   expiresAt |-> dirty[x], key |-> k, new |-> e, then |-> then])
    BY <1>16 DEF InsertEvictsDirty, LoadAndDelete, e
  <2>3. PICK s : s = [at |-> "evict", victim |-> x, old |-> live[x].value,
                   expiresAt |-> dirty[x], key |-> k, new |-> e, then |-> then]
    OBVIOUS
  <2>4. x # k /\ x \in DOMAIN live /\ x \in DOMAIN dirty
    BY <2>1, <2>2
  <2>5. Shape(s)
    BY <1>5, <2>3, <2>4, EvictShape
  <2>6. s.at = "evict" /\ s.victim = x /\ s.key = k /\ s.old = live[x].value
        /\ s.expiresAt = dirty[x] /\ s.new = e /\ s.then = then
    BY <2>3
  <2>7. Goto(p, s) /\ st'[p] = s
    BY <1>8, <2>2, <2>3, GotoIs
  <2>8. \A j : Touches(s, j) <=> j = k \/ j = x
    BY <2>5, <2>6, ShapeSays DEF Keyed, Serving
  <2>9. \A j : j # x => SameAt(live, live', j) /\ SameAt(dirty, dirty', j)
    BY <2>2, MapCells
  <2>10. x \notin DOMAIN live' /\ x \notin DOMAIN dirty'
    BY <2>2, MapCells
  <2>11. ASSUME x \in Keys \ excused'
         PROVE  KeyDone(p, x)
    <3>1. ~Touches(st[p], x) /\ Touches(st'[p], x)
      BY <1>6, <2>4, <2>7, <2>8
    <3>2. Untouched(x)
      BY <2>11, <3>1, CameTo
    <3>3. until'[x] = until[x] /\ KeyOK(x) /\ until[x] \in Nat
      BY <1>11, <2>4, <2>6, <2>7, <2>11
    <3> QED
      BY <2>1, <2>4, <2>6, <2>7, <2>10, <2>11, <3>1, <3>2, <3>3, DirtyVictim
  <2>12. k \in Keys \ excused' => KeyDone(p, k)
    BY <1>1, <2>1, <2>2, <2>4, <2>6, <2>7, <2>8, <2>9 DEF EvictsFor
  <2>13. \A j \in Keys \ excused' : OnKey(p, j) => KeyDone(p, j)
    BY <1>6, <2>7, <2>8, <2>9, <2>11, <2>12 DEF OnKey, SameAt
  <2>14. \A j \in Keys : ~OnKey(p, j) => KeyLeft(j)
    BY <2>1, <2>7, <2>8, <2>9 DEF OnKey, KeyLeft, SameAt
  <2> QED
    BY <1>8, <2>1, <2>5, <2>6, <2>7, <2>13, <2>14, ServeStep DEF Serving
<1> QED
  BY <1>14, <1>15, <1>16 DEF Insert

(* A process in the middle of a request.                                   *)
LEMMA InService ==
  ASSUME PlaceInv, NEW p \in Procs, st[p].at \in Serving
  PROVE  /\ p \in Clients /\ ~At(p, "idle") /\ writePolicy = "write-back"
         /\ Shape(st[p]) /\ DOMAIN st = Procs /\ DOMAIN latest = Keys
         /\ \A k : Touches(st[p], k) <=>
              st[p].key = k \/ (st[p].at = "evict" /\ st[p].victim = k)
<1>1. Shape(st[p]) /\ DOMAIN st = Procs /\ DOMAIN latest = Keys
  BY DEF PlaceInv
<1>2. p \in Clients
  BY Undisturbed
<1>3. ~At(p, "idle")
  BY DEF At, Serving
<1>4. writePolicy = "write-back"
  BY <1>3 DEF PlaceInv
<1> QED
  BY <1>1, <1>2, <1>3, <1>4, ShapeSays DEF Keyed

(* What it knows of a key it is on.                                        *)
LEMMA InHandNow ==
  ASSUME PlaceInv, KeyInv, NEW p \in Procs, Observe(p), late' = late, now' = now,
         NEW k \in Keys \ excused', Touches(st[p], k)
  PROVE  /\ KeyOK(k) /\ ~Loses(p, k)
         /\ Safe(st[p], dirty, store, k, now)
         /\ until[k] \in Nat /\ now \in Nat
         /\ ~Over(k) => /\ Busy(st[p], live, dirty, store, k, latest[k], until[k], now)
                        /\ until[k] = 0 \/ until[k] > now
         /\ ~At(p, "mark") /\ ~At(p, "deleteInner") /\ st'[p].at # "mark" => until'[k] = until[k]
         /\ At(p, "mark") => until'[k] = until[k]
         /\ until'[k] = until[k] => (Over(k)' <=> Over(k))
<1>1. /\ ~Loses(p, k)
      /\ KeyOK(k) \/ (At(p, "idle") /\ st'[p].at \in {"mark", "evict", "deleteStore"} /\ st'[p].key = k
                         /\ ~Disputed(p, k))
      /\ until'[k] = IF st'[p].at = "mark" /\ st'[p].key = k /\ ~At(p, "mark")
                          THEN live'[k].expiresAt
                        ELSE IF At(p, "deleteInner") /\ st[p].key = k THEN 0
                        ELSE until[k]
  BY Unexcused
<1>2. until[k] \in Nat /\ now \in Nat
  BY DEF PlaceInv
<1>3. ~At(p, "idle")
  <2>1. Shape(st[p])
    BY DEF PlaceInv
  <2> QED
    BY <2>1, ShapeSays DEF At, Keyed, Serving, Flushing
<1>4. KeyOK(k)
  BY <1>1, <1>3
<1>5. ~Over(k) => /\ Busy(st[p], live, dirty, store, k, latest[k], until[k], now)
                  /\ until[k] = 0 \/ until[k] > now
  BY <1>2, <1>4 DEF KeyOK, Traced, Over
<1>6. At(p, "mark") => until'[k] = until[k]
  BY <1>1 DEF At
<1>7. until'[k] = until[k] => (Over(k)' <=> Over(k))
  BY DEF Over
<1> QED
  BY <1>1, <1>2, <1>4, <1>5, <1>6, <1>7 DEF KeyOK, Alone

(* inner.Set of a Set.                                                     *)
LEMMA SetInnerStep ==
  ASSUME PlaceInv, KeyInv, NEW p \in Procs, SetInner(p), Observe(p),
         writePolicy = "write-back", UNCHANGED <<writePolicy, late>>
  PROVE  PlaceInv' /\ KeyInv'
<1>1. p \in Clients /\ At(p, "idle") /\ gate = "open"
  BY DEF SetInner, Starts
<1>2. PICK k \in Keys, v \in Values, ttl \in TTLs :
        Insert(p, k, v, ttl, [at |-> "mark", key |-> k, ttl |-> ttl])
  BY DEF SetInner
<1>3. PICK then : then = [at |-> "mark", key |-> k, ttl |-> ttl]
  OBVIOUS
<1>4. ttl \in Nat /\ now \in Nat /\ Deadline(ttl) \in Nat /\ Lasts(Deadline(ttl), now, ttl)
      /\ NoEarlier(Deadline(ttl), Deadline(ttl))
  <2>1. ttl \in Nat /\ now \in Nat
    BY WBConstants DEF PlaceInv
  <2> QED
    BY <2>1, DeadlineLasts, SameIsNoEarlier
<1>5. Shape(st[p]) /\ Shape(then) /\ then.at = "mark" /\ then.key = k /\ then.ttl = ttl
      /\ MarkOrIdle(then, k)
  BY <1>3, ServeShapes DEF PlaceInv, MarkOrIdle
<1>6. \A j : ~Touches(st[p], j)
  BY <1>1, <1>5, ShapeSays DEF At, Keyed, Serving, Flushing
<1> DEFINE e == Entry(v, Deadline(ttl))
<1>7. e.value = v /\ e.expiresAt = Deadline(ttl)
  BY DEF Entry
<1> HIDE DEF e
<1>8. ASSUME k \in Keys \ excused'
      PROVE  /\ until'[k] = IF st'[p].at = "mark" /\ st'[p].key = k /\ ~At(p, "mark")
                              THEN live'[k].expiresAt
                            ELSE IF At(p, "deleteInner") /\ st[p].key = k THEN 0
                            ELSE until[k]
             /\ until[k] \in Nat
  BY <1>8, Unexcused DEF PlaceInv
<1>9. ASSUME k \in Keys \ excused', AddsEntry(p, k, e, then)
      PROVE  KeyDone(p, k)
  <2>1. st'[p] = then /\ k \in DOMAIN live' /\ live'[k] = e /\ now' = now
    BY <1>9 DEF AddsEntry
  <2>2. until'[k] = Deadline(ttl)
    BY <1>1, <1>5, <1>7, <1>8, <1>9, <2>1 DEF At
  <2>3. latest'[k] = v
    BY <1>5, <1>7, <1>9 DEF AddsEntry, Record, PlaceInv
  <2>4. Held(live', k, latest'[k], until'[k])
    BY <1>4, <1>7, <2>1, <2>2, <2>3 DEF Held
  <2>5. Busy(st'[p], live', dirty', store', k, latest'[k], until'[k], now')
    BY <1>4, <1>5, <2>1, <2>2, <2>4 DEF Busy
  <2>6. Safe(st'[p], dirty', store', k, now') /\ Touches(st'[p], k)
    BY <1>5, <2>1, ShapeSays DEF Safe, Keyed, Serving
  <2> QED
    BY <1>4, <2>2, <2>5, <2>6 DEF KeyDone
<1>10. ASSUME k \in Keys \ excused', EvictsFor(p, k, e, then)
       PROVE  KeyDone(p, k)
  <2>1. /\ st'[p].at = "evict" /\ st'[p].key = k /\ st'[p].victim # k
        /\ st'[p].new = e /\ st'[p].then = then /\ now' = now
    BY <1>10 DEF EvictsFor
  <2>2. until'[k] \in Nat
    BY <1>1, <1>8, <1>10, <2>1 DEF At
  <2>3. Safe(st'[p], dirty', store', k, now')
    BY <1>4, <1>5, <1>7, <2>1 DEF Safe
  <2>4. Busy(st'[p], live', dirty', store', k, latest'[k], until'[k], now')
    BY <1>5, <2>1 DEF Busy
  <2> QED
    BY <1>10, <2>2, <2>3, <2>4 DEF KeyDone, EvictsFor
<1> QED
  BY <1>1, <1>2, <1>3, <1>5, <1>6, <1>9, <1>10, InsertStep DEF At, e

(* inner.Set of a refill.                                                  *)
LEMMA GetFillStep ==
  ASSUME PlaceInv, KeyInv, NEW p \in Procs, GetFill(p), Observe(p),
         UNCHANGED <<writePolicy, late>>
  PROVE  PlaceInv' /\ KeyInv'
<1>1. PICK k, v, ttl : k = st[p].key /\ v = st[p].value /\ ttl = st[p].ttl
  OBVIOUS
<1>2. st[p].at = "fill" /\ Insert(p, k, v, ttl, Idle)
  BY <1>1 DEF GetFill, At
<1>3. /\ p \in Clients /\ ~At(p, "idle") /\ writePolicy = "write-back" /\ Shape(st[p])
      /\ \A j : Touches(st[p], j) <=> j = k
  BY <1>1, <1>2, InService DEF Serving
<1>4. Shape(Idle) /\ MarkOrIdle(Idle, k) /\ Idle.at = "idle"
  BY ServeShapes DEF MarkOrIdle, Idle
<1> DEFINE e == Entry(v, Deadline(ttl))
<1>5. e.value = v /\ e.expiresAt = Deadline(ttl)
  BY DEF Entry
<1> HIDE DEF e
<1>6. ASSUME k \in Keys \ excused', now' = now, st'[p].at # "mark"
      PROVE  /\ until'[k] = until[k] /\ until[k] \in Nat
             /\ ~Over(k)' => /\ Calm(live, dirty, store, k, latest[k], until[k])
                             /\ k \notin DOMAIN dirty /\ v = latest[k]
                             /\ NoEarlier(until[k], Deadline(ttl))
  <2>1. /\ until'[k] = until[k] /\ until[k] \in Nat /\ now \in Nat /\ (Over(k)' <=> Over(k))
        /\ ~Over(k) => Busy(st[p], live, dirty, store, k, latest[k], until[k], now)
    BY <1>2, <1>3, <1>6, InHandNow DEF At
  <2>2. ~Over(k) => /\ Calm(live, dirty, store, k, latest[k], until[k]) /\ k \notin DOMAIN dirty
                    /\ v = latest[k] /\ Lasts(until[k], now, ttl)
    BY <1>1, <1>2, <2>1 DEF Busy
  <2>3. Lasts(until[k], now, ttl) => NoEarlier(until[k], Deadline(ttl))
    BY <2>1, DeadlineLasts DEF Lasts
  <2> QED
    BY <2>1, <2>2, <2>3
<1>7. ASSUME k \in Keys \ excused', AddsEntry(p, k, e, Idle)
      PROVE  KeyDone(p, k)
  <2>1. /\ st'[p] = Idle /\ k \in DOMAIN live' /\ live'[k] = e /\ now' = now
        /\ dirty' = dirty /\ store' = store /\ latest' = latest
    BY <1>4, <1>7 DEF AddsEntry, Record
  <2>2. until'[k] = until[k] /\ until[k] \in Nat
    BY <1>4, <1>6, <1>7, <2>1
  <2>3. ASSUME ~Over(k)'
        PROVE  Calm(live', dirty', store', k, latest'[k], until'[k])
    <3>1. Kept(store, k, latest[k], until[k]) /\ k \notin DOMAIN dirty
      BY <1>4, <1>6, <1>7, <2>1, <2>3 DEF Calm
    <3>2. Held(live', k, latest[k], until[k])
      BY <1>4, <1>5, <1>6, <1>7, <2>1, <2>3 DEF Held
    <3> QED
      BY <2>1, <2>2, <3>1, <3>2 DEF Calm, HeldIf
  <2>4. ~Touches(st'[p], k)
    BY <1>4, <2>1, ShapeSays DEF Keyed, Serving, Flushing
  <2> QED
    BY <2>2, <2>3, <2>4 DEF KeyDone
<1>8. ASSUME k \in Keys \ excused', EvictsFor(p, k, e, Idle)
      PROVE  KeyDone(p, k)
  <2>1. /\ st'[p].at = "evict" /\ st'[p].key = k /\ st'[p].victim # k
        /\ st'[p].new = e /\ st'[p].then = Idle
        /\ k \notin DOMAIN live /\ SameAt(live, live', k) /\ SameAt(dirty, dirty', k)
        /\ now' = now /\ store' = store /\ latest' = latest
    BY <1>8 DEF EvictsFor
  <2>2. until'[k] = until[k] /\ until[k] \in Nat
    BY <1>6, <1>8, <2>1
  <2>3. Safe(st'[p], dirty', store', k, now')
    BY <1>4, <2>1 DEF Safe
  <2>4. ASSUME ~Over(k)'
        PROVE  Busy(st'[p], live', dirty', store', k, latest'[k], until'[k], now')
    <3>1. Kept(store, k, latest[k], until[k]) /\ k \notin DOMAIN dirty /\ v = latest[k]
          /\ NoEarlier(until[k], Deadline(ttl))
      BY <1>6, <1>8, <2>1, <2>4 DEF Calm
    <3>2. k \notin DOMAIN dirty'
      BY <2>1, <3>1 DEF SameAt
    <3> QED
      BY <1>5, <2>1, <2>2, <3>1, <3>2 DEF Busy
  <2> QED
    BY <1>8, <2>2, <2>3, <2>4 DEF KeyDone, EvictsFor
<1> QED
  BY <1>2, <1>3, <1>4, <1>7, <1>8, InsertStep DEF At, e

(* A value is written to the store under its deadline, which is not over.  *)
LEMMA flushValueKeeps ==
  ASSUME NEW k, NEW v, NEW e, NEW u \in Nat, now \in Nat, NoEarlier(u, e),
         u = 0 \/ u > now, store' = flushValue(k, v, e)
  PROVE  Kept(store', k, v, u)
<1>1. ~ttlExpired(e, now)
  BY DEF NoEarlier, ttlExpired
<1>2. store' = Put(store, k, encodeForStore(v, e))
  BY <1>1 DEF flushValue
<1>3. decodeFromStore(encodeForStore(v, e)).value = v
      /\ decodeFromStore(encodeForStore(v, e)).expiresAt = e
  BY DEF decodeFromStore, encodeForStore, Raw, Envelope
<1> QED
  BY <1>2, <1>3, MapCells DEF Kept

(* It changes what the store has for its key only.                         *)
LEMMA flushValueCells ==
  ASSUME NEW k, NEW v, NEW e
  PROVE  \A j : j # k => SameAt(store, flushValue(k, v, e), j)
BY MapCells DEF flushValue

(* The callback ends and the entry is added.                               *)
LEMMA EvictFlushStep ==
  ASSUME PlaceInv, KeyInv, NEW p \in Procs, EvictFlush(p), Observe(p),
         UNCHANGED <<writePolicy, late>>
  PROVE  PlaceInv' /\ KeyInv'
<1>1. PICK k, x, e, then : k = st[p].key /\ x = st[p].victim /\ e = st[p].new /\ then = st[p].then
  OBVIOUS
<1>2. /\ st[p].at = "evict" /\ live' = Put(live, k, e) /\ Record(k, e.value, then)
      /\ Goto(p, then) /\ UNCHANGED <<now, dirty, dirtyCount, owes, gate>>
      /\ store' = flushValue(x, st[p].old, st[p].expiresAt) \/ store' = store
  BY <1>1 DEF EvictFlush, At, StoreDoes, StoreFailed
<1>3. /\ p \in Clients /\ ~At(p, "idle") /\ writePolicy = "write-back" /\ Shape(st[p])
      /\ DOMAIN st = Procs /\ DOMAIN latest = Keys
      /\ \A j : Touches(st[p], j) <=> j = k \/ j = x
  BY <1>1, <1>2, InService DEF Serving
<1>4. x # k /\ MarkOrIdle(then, k) /\ then.at \in {"idle", "mark"}
      /\ (then.at = "mark" => then.key = k)
  BY <1>1, <1>2, <1>3 DEF Shape, MarkOrIdle
<1>5. Shape(then)
  BY <1>4 DEF MarkOrIdle, Shape, FinalOK, Final, Keyed, Serving, Flushing
<1>6. st'[p] = then
  BY <1>2, <1>3, GotoIs
<1>7. \A j : Touches(then, j) <=> j = k /\ then.at = "mark"
  BY <1>4, <1>5, ShapeSays DEF Keyed, Serving, Flushing
<1>8. \A j : j # x => SameAt(store, store', j)
  <2>1. \A j : j # x => SameAt(store, flushValue(x, st[p].old, st[p].expiresAt), j)
    BY flushValueCells
  <2> QED
    BY <1>2, <2>1 DEF SameAt
<1>9. k \in DOMAIN live' /\ live'[k] = e /\ \A j : j # k => SameAt(live, live', j)
  BY <1>2, MapCells
<1>10. DOMAIN latest' = DOMAIN latest /\ \A j \in Keys : j # k => latest'[j] = latest[j]
  BY <1>2, <1>3 DEF Record
<1>11. ASSUME x \in Keys \ excused'
       PROVE  KeyDone(p, x)
  <2>1. /\ ~Loses(p, x) /\ until[x] \in Nat /\ now \in Nat
        /\ ~Over(x) => /\ Busy(st[p], live, dirty, store, x, latest[x], until[x], now)
                       /\ until[x] = 0 \/ until[x] > now
        /\ until'[x] = until[x] => (Over(x)' <=> Over(x))
    BY <1>2, <1>3, <1>11, InHandNow
  <2>2. until'[x] = until[x]
    BY <1>2, <1>4, <1>6, <1>11, Unexcused DEF At
  <2>3. store' = flushValue(x, st[p].old, st[p].expiresAt)
    BY <1>1, <1>2, <2>1 DEF Loses, At
  <2>4. ASSUME ~Over(x)'
        PROVE  Calm(live', dirty', store', x, latest'[x], until'[x])
    <3>1. /\ x \notin DOMAIN live /\ x \notin DOMAIN dirty /\ st[p].old = latest[x]
          /\ NoEarlier(until[x], st[p].expiresAt) /\ (until[x] = 0 \/ until[x] > now)
      BY <1>1, <1>2, <2>1, <2>2, <2>4 DEF Busy
    <3>2. Kept(store', x, latest[x], until[x])
      BY <2>1, <2>3, <3>1, flushValueKeeps
    <3>3. x \notin DOMAIN live' /\ x \notin DOMAIN dirty' /\ latest'[x] = latest[x]
      BY <1>2, <1>4, <1>9, <1>10, <1>11, <3>1 DEF SameAt
    <3> QED
      BY <2>2, <3>2, <3>3 DEF Calm, HeldIf
  <2> QED
    BY <1>4, <1>6, <1>7, <2>1, <2>2, <2>4 DEF KeyDone
<1>12. ASSUME k \in Keys \ excused'
       PROVE  KeyDone(p, k)
  <2>1. /\ Safe(st[p], dirty, store, k, now) /\ until[k] \in Nat /\ now \in Nat
        /\ ~Over(k) => Busy(st[p], live, dirty, store, k, latest[k], until[k], now)
        /\ until'[k] = until[k] => (Over(k)' <=> Over(k))
        /\ ~At(p, "mark") /\ ~At(p, "deleteInner") /\ st'[p].at # "mark" => until'[k] = until[k]
    BY <1>2, <1>3, <1>12, InHandNow
  <2>2. CASE then.at = "mark"
    <3>1. e.expiresAt \in Nat /\ Lasts(e.expiresAt, now, then.ttl)
      BY <1>1, <1>2, <2>1, <2>2 DEF Safe
    <3>2. until'[k] = e.expiresAt
      BY <1>2, <1>4, <1>6, <1>9, <1>12, <2>2, Unexcused DEF At
    <3>3. latest'[k] = e.value
      BY <1>2, <1>3, <1>12, <2>2 DEF Record
    <3>4. Held(live', k, latest'[k], until'[k])
      BY <1>9, <3>1, <3>2, <3>3, SameIsNoEarlier DEF Held
    <3>5. Busy(st'[p], live', dirty', store', k, latest'[k], until'[k], now')
      BY <1>2, <1>6, <2>2, <3>1, <3>2, <3>4 DEF Busy
    <3>6. Safe(st'[p], dirty', store', k, now') /\ Touches(st'[p], k)
      BY <1>6, <1>7, <2>2 DEF Safe
    <3> QED
      BY <3>1, <3>2, <3>5, <3>6 DEF KeyDone
  <2>3. CASE then.at = "idle"
    <3>1. until'[k] = until[k] /\ latest' = latest
      BY <1>2, <1>6, <2>1, <2>3 DEF At, Record
    <3>2. ASSUME ~Over(k)'
          PROVE  Calm(live', dirty', store', k, latest'[k], until'[k])
      <4>1. /\ k \notin DOMAIN dirty /\ Kept(store, k, latest[k], until[k])
            /\ e.value = latest[k] /\ NoEarlier(until[k], e.expiresAt)
        BY <1>1, <1>2, <2>1, <2>3, <3>1, <3>2 DEF Busy
      <4>2. Kept(store', k, latest[k], until[k])
        BY <1>4, <1>8, <4>1 DEF Kept, SameAt
      <4>3. Held(live', k, latest[k], until[k])
        BY <1>9, <4>1 DEF Held
      <4> QED
        BY <1>2, <3>1, <4>1, <4>2, <4>3 DEF Calm, HeldIf
    <3> QED
      BY <1>6, <1>7, <2>1, <2>3, <3>1, <3>2 DEF KeyDone
  <2> QED
    BY <1>4, <2>2, <2>3
<1>13. \A j \in Keys \ excused' : OnKey(p, j) => KeyDone(p, j)
  BY <1>3, <1>6, <1>7, <1>9, <1>11, <1>12 DEF OnKey, SameAt
<1>14. \A j \in Keys : ~OnKey(p, j) => KeyLeft(j)
  BY <1>2, <1>3, <1>8, <1>9, <1>10 DEF OnKey, KeyLeft, SameAt
<1> QED
  BY <1>2, <1>3, <1>4, <1>5, <1>10, <1>13, <1>14, ServeStep DEF Serving

(* The mark of a Set.                                                      *)
LEMMA SetMarkStep ==
  ASSUME PlaceInv, KeyInv, NEW p \in Procs, SetMark(p), Observe(p),
         UNCHANGED <<writePolicy, late>>
  PROVE  PlaceInv' /\ KeyInv'
<1>1. PICK k, ttl, e : k = st[p].key /\ ttl = st[p].ttl /\ e = Deadline(ttl)
  OBVIOUS
<1>2. PICK s : s = IF k \in DOMAIN dirty
                     THEN [at |-> "remark", key |-> k, expiresAt |-> e] ELSE Idle
  OBVIOUS
<1>3. st[p].at = "mark" /\ LoadOrStore(p, k, e) /\ Goto(p, s)
      /\ UNCHANGED <<now, live, lock, store, gate, latest>>
  BY <1>1, <1>2 DEF SetMark, At
<1>4. /\ p \in Clients /\ ~At(p, "idle") /\ writePolicy = "write-back" /\ Shape(st[p])
      /\ DOMAIN st = Procs /\ \A j : Touches(st[p], j) <=> j = k
  BY <1>1, <1>3, InService DEF Serving
<1>5. Shape(s) /\ s.at \in {"idle", "remark"}
      /\ (s.at = "remark" => k \in DOMAIN dirty /\ s.key = k /\ s.expiresAt = e)
      /\ (s.at = "idle" => k \notin DOMAIN dirty)
  BY <1>2, ServeShapes DEF Idle
<1>6. st'[p] = s
  BY <1>3, <1>4, GotoIs
<1>7. \A j : Touches(s, j) <=> j = k /\ s.at = "remark"
  BY <1>5, ShapeSays DEF Keyed, Serving, Flushing
<1>8. \A j : j # k => SameAt(dirty, dirty', j)
  BY <1>3, MapCells DEF LoadOrStore, SameAt
<1>9. ASSUME k \in Keys \ excused'
      PROVE  KeyDone(p, k)
  <2>1. /\ until[k] \in Nat /\ now \in Nat /\ until'[k] = until[k] /\ (Over(k)' <=> Over(k))
        /\ ~Over(k) => Busy(st[p], live, dirty, store, k, latest[k], until[k], now)
    BY <1>3, <1>4, <1>9, InHandNow DEF At
  <2>2. ~Over(k) => Held(live, k, latest[k], until[k]) /\ Lasts(until[k], now, ttl)
    BY <1>1, <1>3, <2>1 DEF Busy
  <2>3. ~Over(k) => NoEarlier(until[k], e)
    BY <1>1, <2>1, <2>2, DeadlineLasts DEF Lasts
  <2>4. CASE s.at = "remark"
    <3>1. ~Over(k) => Busy(st'[p], live', dirty', store', k, latest'[k], until'[k], now')
      BY <1>3, <1>5, <1>6, <2>1, <2>2, <2>3, <2>4 DEF Busy
    <3>2. Safe(st'[p], dirty', store', k, now')
      BY <1>6, <2>4 DEF Safe
    <3> QED
      BY <1>6, <1>7, <2>1, <2>4, <3>1, <3>2 DEF KeyDone
  <2>5. CASE s.at = "idle"
    <3>1. dirty' = Put(dirty, k, e)
      BY <1>3, <1>5, <2>5 DEF LoadOrStore
    <3>2. k \in DOMAIN dirty' /\ dirty'[k] = e
      BY <3>1, MapCells
    <3>3. ~Over(k) => Calm(live', dirty', store', k, latest'[k], until'[k])
      BY <1>3, <2>1, <2>2, <2>3, <3>2 DEF Calm, HeldIf
    <3> QED
      BY <1>6, <1>7, <2>1, <2>5, <3>3 DEF KeyDone
  <2> QED
    BY <1>5, <2>4, <2>5
<1>10. \A j \in Keys \ excused' : OnKey(p, j) => KeyDone(p, j)
  BY <1>3, <1>4, <1>6, <1>7, <1>9 DEF OnKey
<1>11. \A j \in Keys : ~OnKey(p, j) => KeyLeft(j)
  BY <1>3, <1>4, <1>8 DEF OnKey, KeyLeft, SameAt
<1> QED
  BY <1>3, <1>4, <1>5, <1>10, <1>11, ServeStep DEF Serving

(* The mark that was there is renewed.                                     *)
LEMMA SetRemarkStep ==
  ASSUME PlaceInv, KeyInv, NEW p \in Procs, SetRemark(p), Observe(p),
         UNCHANGED <<writePolicy, late>>
  PROVE  PlaceInv' /\ KeyInv'
<1>1. PICK k, e : k = st[p].key /\ e = st[p].expiresAt
  OBVIOUS
<1>2. st[p].at = "remark" /\ dirty' = Put(dirty, k, e) /\ Goto(p, Idle)
      /\ UNCHANGED <<now, live, lock, store, gate, latest>>
  BY <1>1 DEF SetRemark, At
<1>3. /\ p \in Clients /\ ~At(p, "idle") /\ writePolicy = "write-back" /\ Shape(st[p])
      /\ DOMAIN st = Procs /\ \A j : Touches(st[p], j) <=> j = k
  BY <1>1, <1>2, InService DEF Serving
<1>4. st'[p] = Idle /\ Idle.at = "idle" /\ Shape(Idle)
  BY <1>2, <1>3, GotoIs, ServeShapes DEF Idle
<1>5. \A j : ~Touches(Idle, j)
  BY <1>4, ShapeSays DEF Keyed, Serving, Flushing
<1>6. k \in DOMAIN dirty' /\ dirty'[k] = e /\ \A j : j # k => SameAt(dirty, dirty', j)
  BY <1>2, MapCells
<1>7. ASSUME k \in Keys \ excused'
      PROVE  KeyDone(p, k)
  <2>1. /\ until[k] \in Nat /\ until'[k] = until[k] /\ (Over(k)' <=> Over(k))
        /\ ~Over(k) => Busy(st[p], live, dirty, store, k, latest[k], until[k], now)
    BY <1>2, <1>3, <1>4, <1>7, InHandNow DEF At
  <2>2. ~Over(k) => Held(live, k, latest[k], until[k]) /\ NoEarlier(until[k], e)
    BY <1>1, <1>2, <2>1 DEF Busy
  <2>3. ~Over(k) => Calm(live', dirty', store', k, latest'[k], until'[k])
    BY <1>2, <1>6, <2>1, <2>2 DEF Calm, HeldIf
  <2> QED
    BY <1>4, <1>5, <2>1, <2>3 DEF KeyDone
<1>8. \A j \in Keys \ excused' : OnKey(p, j) => KeyDone(p, j)
  BY <1>2, <1>3, <1>4, <1>5, <1>7 DEF OnKey
<1>9. \A j \in Keys : ~OnKey(p, j) => KeyLeft(j)
  BY <1>2, <1>3, <1>6 DEF OnKey, KeyLeft, SameAt
<1> QED
  BY <1>2, <1>3, <1>4, <1>8, <1>9, ServeStep DEF Serving

(* A deadline that is no earlier than one that is not over is not over.    *)
LEMMA NotOver ==
  ASSUME now \in Nat, NEW u \in Nat, u = 0 \/ u > now, NEW e, NoEarlier(u, e)
  PROVE  /\ ~ttlExpired(e, now) /\ (e = 0 \/ now <= e)
         /\ ttlLeft(e, now) \in Nat /\ Lasts(u, now, ttlLeft(e, now))
         /\ Deadline(ttlLeft(e, now)) = e
BY DEF NoEarlier, ttlExpired, ttlLeft, Lasts, Deadline

(* Get looks in the cache.                                                 *)
LEMMA GetInnerStep ==
  ASSUME PlaceInv, KeyInv, NEW p \in Procs, GetInner(p), Observe(p),
         writePolicy = "write-back", UNCHANGED <<writePolicy, late>>
  PROVE  PlaceInv' /\ KeyInv'
<1>1. PICK k \in Keys :
        /\ live' = IF Fresh(k) THEN live ELSE Drop(live, k)
        /\ Goto(p, IF Fresh(k) THEN Idle ELSE [at |-> "load", key |-> k])
  BY DEF GetInner
<1>2. PICK s : s = IF Fresh(k) THEN Idle ELSE [at |-> "load", key |-> k]
  OBVIOUS
<1>3. /\ p \in Clients /\ At(p, "idle") /\ gate = "open" /\ Goto(p, s)
      /\ UNCHANGED <<now, lock, dirty, dirtyCount, owes, store, gate, latest>>
  BY <1>1, <1>2 DEF GetInner, Starts
<1>4. Shape(st[p]) /\ DOMAIN st = Procs
  BY DEF PlaceInv
<1>5. \A j : ~Touches(st[p], j)
  BY <1>3, <1>4, ShapeSays DEF At, Keyed, Serving, Flushing
<1>6. /\ Shape(s) /\ s.at \in {"idle", "load"} /\ (s.at = "idle" <=> Fresh(k))
      /\ (s.at = "load" => s.key = k)
  BY <1>2, ServeShapes DEF Idle
<1>7. st'[p] = s /\ \A j : Touches(s, j) <=> j = k /\ s.at = "load"
  BY <1>3, <1>4, <1>6, GotoIs, ShapeSays DEF Keyed, Serving, Flushing
<1>8. \A j : j # k => SameAt(live, live', j)
  BY <1>1, DropCells
<1>9. ASSUME k \in Keys \ excused', ~Fresh(k)
      PROVE  KeyDone(p, k)
  <2>1. s.at = "load" /\ Touches(st'[p], k)
    BY <1>6, <1>7, <1>9
  <2>2. KeyOK(k) /\ until'[k] = until[k]
    BY <1>3, <1>7, <1>9, <2>1, Unexcused DEF At
  <2>3. Untouched(k)
    BY <1>5, <1>9, <2>1, CameTo
  <2>4. until[k] \in Nat /\ now \in Nat
    BY <1>9 DEF PlaceInv
  <2>5. ASSUME ~Over(k)'
        PROVE  Busy(st'[p], live', dirty', store', k, latest'[k], until'[k], now')
    <3>1. Traced(k) /\ (until[k] = 0 \/ until[k] > now)
      BY <1>3, <2>2, <2>4, <2>5 DEF KeyOK, Over
    <3>2. Calm(live, dirty, store, k, latest[k], until[k])
      BY <2>3, <3>1 DEF Traced
    <3>3. k \notin DOMAIN live
      <4>1. k \in DOMAIN live => live[k].expiresAt = 0 \/ now <= live[k].expiresAt
        BY <2>4, <3>1, <3>2, NotOver DEF Calm, HeldIf, Held
      <4> QED
        BY <1>9, <4>1 DEF Fresh
    <3>4. k \notin DOMAIN dirty /\ Kept(store, k, latest[k], until[k])
      BY <3>2, <3>3 DEF Calm, Held
    <3>5. k \notin DOMAIN live'
      BY <1>1, <1>9, MapCells
    <3>6. Calm(live', dirty', store', k, latest'[k], until'[k]) /\ k \notin DOMAIN dirty'
      BY <1>3, <2>2, <3>4, <3>5 DEF Calm, HeldIf
    <3> QED
      BY <1>7, <2>1, <3>6 DEF Busy
  <2>6. Safe(st'[p], dirty', store', k, now')
    BY <1>7, <2>1 DEF Safe
  <2> QED
    BY <2>1, <2>2, <2>4, <2>5, <2>6 DEF KeyDone
<1>10. \A j \in Keys \ excused' : OnKey(p, j) => KeyDone(p, j)
  BY <1>1, <1>5, <1>6, <1>7, <1>8, <1>9 DEF OnKey, SameAt
<1>11. \A j \in Keys : ~OnKey(p, j) => KeyLeft(j)
  BY <1>1, <1>3, <1>6, <1>7, <1>8 DEF OnKey, KeyLeft, SameAt
<1> QED
  BY <1>3, <1>6, <1>10, <1>11, ServeStep DEF Serving, At

(* It looks in the store.                                                  *)
LEMMA GetLoadStep ==
  ASSUME PlaceInv, KeyInv, NEW p \in Procs, GetLoad(p), Observe(p),
         UNCHANGED <<writePolicy, late>>
  PROVE  PlaceInv' /\ KeyInv'
<1>1. PICK k, d : k = st[p].key /\ d = decodeFromStore(store[k])
  OBVIOUS
<1>2. PICK s :
        /\ Goto(p, s)
        /\ \/ s = Idle
           \/ /\ k \in DOMAIN store
              /\ s = IF ttlExpired(d.expiresAt, now)
                       THEN [at |-> "loadedExpired", key |-> k]
                       ELSE [at |-> "fill", key |-> k, value |-> d.value,
                             ttl |-> ttlLeft(d.expiresAt, now)]
  BY <1>1 DEF GetLoad
<1>3. st[p].at = "load" /\ UNCHANGED <<now, live, lock, dirty, dirtyCount, owes, store, gate, latest>>
  BY DEF GetLoad, At
<1>4. /\ p \in Clients /\ ~At(p, "idle") /\ writePolicy = "write-back" /\ Shape(st[p])
      /\ DOMAIN st = Procs /\ \A j : Touches(st[p], j) <=> j = k
  BY <1>1, <1>3, InService DEF Serving
<1>5. /\ Shape(s) /\ s.at \in {"idle", "loadedExpired", "fill"}
      /\ (s.at # "idle" => s.key = k /\ k \in DOMAIN store)
      /\ (s.at = "loadedExpired" => ttlExpired(d.expiresAt, now))
      /\ (s.at = "fill" => s.value = d.value /\ s.ttl = ttlLeft(d.expiresAt, now))
  <2>1. CASE s = Idle
    BY <2>1, ServeShapes DEF Idle
  <2>2. CASE k \in DOMAIN store /\ ttlExpired(d.expiresAt, now)
             /\ s = [at |-> "loadedExpired", key |-> k]
    BY <2>2, ServeShapes
  <2>3. CASE k \in DOMAIN store /\ s = [at |-> "fill", key |-> k, value |-> d.value,
                                       ttl |-> ttlLeft(d.expiresAt, now)]
    BY <2>3, ServeShapes
  <2> QED
    BY <1>2, <2>1, <2>2, <2>3
<1>6. st'[p] = s /\ \A j : Touches(s, j) <=> j = k /\ s.at # "idle"
  BY <1>2, <1>4, <1>5, GotoIs, ShapeSays DEF Keyed, Serving, Flushing
<1>7. ASSUME k \in Keys \ excused'
      PROVE  KeyDone(p, k)
  <2>1. /\ until[k] \in Nat /\ now \in Nat /\ until'[k] = until[k] /\ (Over(k)' <=> Over(k))
        /\ ~Over(k) => /\ Busy(st[p], live, dirty, store, k, latest[k], until[k], now)
                       /\ until[k] = 0 \/ until[k] > now
    BY <1>3, <1>4, <1>5, <1>6, <1>7, InHandNow DEF At
  <2>2. Safe(st'[p], dirty', store', k, now')
    BY <1>5, <1>6 DEF Safe
  <2>3. ASSUME ~Over(k)
        PROVE  /\ Calm(live', dirty', store', k, latest'[k], until'[k])
               /\ s.at # "idle" =>
                    Busy(st'[p], live', dirty', store', k, latest'[k], until'[k], now')
    <3>1. Calm(live, dirty, store, k, latest[k], until[k]) /\ k \notin DOMAIN dirty
          /\ (until[k] = 0 \/ until[k] > now)
      BY <1>3, <2>1, <2>3 DEF Busy
    <3>2. k \in DOMAIN store => d.value = latest[k] /\ NoEarlier(until[k], d.expiresAt)
      BY <1>1, <3>1 DEF Calm, Kept
    <3>3. k \in DOMAIN store =>
            ~ttlExpired(d.expiresAt, now) /\ Lasts(until[k], now, ttlLeft(d.expiresAt, now))
      BY <2>1, <3>1, <3>2, NotOver
    <3>4. Calm(live', dirty', store', k, latest'[k], until'[k]) /\ k \notin DOMAIN dirty'
      BY <1>3, <2>1, <3>1
    <3> QED
      BY <1>3, <1>5, <1>6, <2>1, <3>2, <3>3, <3>4 DEF Busy
  <2> QED
    BY <1>6, <2>1, <2>2, <2>3 DEF KeyDone
<1>8. \A j \in Keys \ excused' : OnKey(p, j) => KeyDone(p, j)
  BY <1>3, <1>4, <1>6, <1>7 DEF OnKey
<1>9. \A j \in Keys : ~OnKey(p, j) => KeyLeft(j)
  BY <1>3 DEF KeyLeft, SameAt
<1> QED
  BY <1>2, <1>3, <1>4, <1>5, <1>8, <1>9, ServeStep DEF Serving

(* It drops what is over from the store.                                   *)
LEMMA GetDropsExpiredStep ==
  ASSUME PlaceInv, KeyInv, NEW p \in Procs, GetDropsExpired(p), Observe(p),
         UNCHANGED <<writePolicy, late>>
  PROVE  PlaceInv' /\ KeyInv'
<1>1. PICK k : k = st[p].key
  OBVIOUS
<1>2. /\ st[p].at = "loadedExpired" /\ Goto(p, Idle)
      /\ store' = Drop(store, k) \/ store' = store
      /\ UNCHANGED <<now, live, lock, dirty, dirtyCount, owes, gate, latest>>
  BY <1>1 DEF GetDropsExpired, At, StoreDoes, StoreFailed
<1>3. /\ p \in Clients /\ ~At(p, "idle") /\ writePolicy = "write-back" /\ Shape(st[p])
      /\ DOMAIN st = Procs /\ \A j : Touches(st[p], j) <=> j = k
  BY <1>1, <1>2, InService DEF Serving
<1>4. st'[p] = Idle /\ Idle.at = "idle" /\ Shape(Idle)
  BY <1>2, <1>3, GotoIs, ServeShapes DEF Idle
<1>5. \A j : ~Touches(Idle, j)
  BY <1>4, ShapeSays DEF Keyed, Serving, Flushing
<1>6. \A j : j # k => SameAt(store, store', j)
  BY <1>2, DropCells
<1>7. ASSUME k \in Keys \ excused'
      PROVE  KeyDone(p, k)
  <2>1. /\ until[k] \in Nat /\ until'[k] = until[k] /\ (Over(k)' <=> Over(k))
        /\ ~Over(k) => Busy(st[p], live, dirty, store, k, latest[k], until[k], now)
    BY <1>2, <1>3, <1>4, <1>7, InHandNow DEF At
  <2>2. Over(k)
    BY <1>2, <2>1 DEF Busy
  <2> QED
    BY <1>4, <1>5, <2>1, <2>2 DEF KeyDone
<1>8. \A j \in Keys \ excused' : OnKey(p, j) => KeyDone(p, j)
  BY <1>2, <1>3, <1>4, <1>5, <1>7 DEF OnKey
<1>9. \A j \in Keys : ~OnKey(p, j) => KeyLeft(j)
  BY <1>2, <1>3, <1>6 DEF OnKey, KeyLeft, SameAt
<1> QED
  BY <1>2, <1>3, <1>4, <1>8, <1>9, ServeStep DEF Serving

(* Delete takes the mark.                                                  *)
LEMMA DeleteMarkStep ==
  ASSUME PlaceInv, KeyInv, NEW p \in Procs, DeleteMark(p), Observe(p),
         writePolicy = "write-back", UNCHANGED <<writePolicy, late>>
  PROVE  PlaceInv' /\ KeyInv'
<1>1. PICK k \in Keys : dirty' = Drop(dirty, k) /\ Goto(p, [at |-> "deleteStore", key |-> k])
  BY DEF DeleteMark, LoadAndDelete
<1>2. PICK s : s = [at |-> "deleteStore", key |-> k]
  OBVIOUS
<1>3. /\ p \in Clients /\ At(p, "idle") /\ gate = "open" /\ Goto(p, s)
      /\ UNCHANGED <<now, live, lock, store, gate, latest>>
  BY <1>1, <1>2 DEF DeleteMark, Starts
<1>4. Shape(st[p]) /\ DOMAIN st = Procs
  BY DEF PlaceInv
<1>5. \A j : ~Touches(st[p], j)
  BY <1>3, <1>4, ShapeSays DEF At, Keyed, Serving, Flushing
<1>6. Shape(s) /\ s.at = "deleteStore" /\ s.key = k
  BY <1>2, ServeShapes
<1>7. st'[p] = s /\ \A j : Touches(s, j) <=> j = k
  BY <1>3, <1>4, <1>6, GotoIs, ShapeSays DEF Keyed, Serving, Flushing
<1>8. k \notin DOMAIN dirty' /\ \A j : j # k => SameAt(dirty, dirty', j)
  BY <1>1, MapCells
<1>9. ASSUME k \in Keys \ excused'
      PROVE  KeyDone(p, k)
  <2>1. until'[k] = until[k] /\ until[k] \in Nat
    BY <1>3, <1>6, <1>7, <1>9, Unexcused DEF At, PlaceInv
  <2>2. Safe(st'[p], dirty', store', k, now')
    BY <1>6, <1>7, <1>8 DEF Safe
  <2>3. Busy(st'[p], live', dirty', store', k, latest'[k], until'[k], now')
    BY <1>6, <1>7 DEF Busy
  <2> QED
    BY <1>7, <2>1, <2>2, <2>3 DEF KeyDone
<1>10. \A j \in Keys \ excused' : OnKey(p, j) => KeyDone(p, j)
  BY <1>3, <1>5, <1>7, <1>9 DEF OnKey
<1>11. \A j \in Keys : ~OnKey(p, j) => KeyLeft(j)
  BY <1>3, <1>7, <1>8 DEF OnKey, KeyLeft, SameAt
<1> QED
  BY <1>3, <1>6, <1>10, <1>11, ServeStep DEF Serving, At

(* It deletes in the store.                                                *)
LEMMA DeleteStoreStep ==
  ASSUME PlaceInv, KeyInv, NEW p \in Procs, DeleteStore(p), Observe(p),
         UNCHANGED <<writePolicy, late>>
  PROVE  PlaceInv' /\ KeyInv'
<1>1. PICK k : k = st[p].key
  OBVIOUS
<1>2. PICK s : s = [at |-> "deleteInner", key |-> k]
  OBVIOUS
<1>3. /\ st[p].at = "deleteStore" /\ Goto(p, s)
      /\ store' = Drop(store, k) \/ store' = store
      /\ UNCHANGED <<now, live, lock, dirty, dirtyCount, owes, gate, latest>>
  BY <1>1, <1>2 DEF DeleteStore, At, StoreDoes, StoreFailed
<1>4. /\ p \in Clients /\ ~At(p, "idle") /\ writePolicy = "write-back" /\ Shape(st[p])
      /\ DOMAIN st = Procs /\ \A j : Touches(st[p], j) <=> j = k
  BY <1>1, <1>3, InService DEF Serving
<1>5. Shape(s) /\ s.at = "deleteInner" /\ s.key = k
  BY <1>2, ServeShapes
<1>6. st'[p] = s /\ \A j : Touches(s, j) <=> j = k
  BY <1>3, <1>4, <1>5, GotoIs, ShapeSays DEF Keyed, Serving, Flushing
<1>7. \A j : j # k => SameAt(store, store', j)
  BY <1>3, DropCells
<1>8. ASSUME k \in Keys \ excused'
      PROVE  KeyDone(p, k)
  <2>1. /\ until[k] \in Nat /\ until'[k] = until[k] /\ ~Loses(p, k)
        /\ Safe(st[p], dirty, store, k, now)
    BY <1>3, <1>4, <1>5, <1>6, <1>8, InHandNow DEF At
  <2>2. k \notin DOMAIN store' /\ k \notin DOMAIN dirty'
    BY <1>1, <1>3, <2>1 DEF Loses, At, Safe
  <2>3. Safe(st'[p], dirty', store', k, now')
    BY <1>5, <1>6, <2>2 DEF Safe
  <2>4. Busy(st'[p], live', dirty', store', k, latest'[k], until'[k], now')
    BY <1>5, <1>6 DEF Busy
  <2> QED
    BY <1>6, <2>1, <2>3, <2>4 DEF KeyDone
<1>9. \A j \in Keys \ excused' : OnKey(p, j) => KeyDone(p, j)
  BY <1>3, <1>4, <1>6, <1>8 DEF OnKey
<1>10. \A j \in Keys : ~OnKey(p, j) => KeyLeft(j)
  BY <1>3, <1>4, <1>7 DEF OnKey, KeyLeft, SameAt
<1> QED
  BY <1>3, <1>4, <1>5, <1>9, <1>10, ServeStep DEF Serving

(* It deletes in the cache, and returns.                                   *)
LEMMA DeleteInnerStep ==
  ASSUME PlaceInv, KeyInv, NEW p \in Procs, DeleteInner(p), Observe(p),
         UNCHANGED <<writePolicy, late>>
  PROVE  PlaceInv' /\ KeyInv'
<1>1. PICK k : k = st[p].key
  OBVIOUS
<1>2. /\ st[p].at = "deleteInner" /\ Goto(p, Idle) /\ live' = Drop(live, k)
      /\ latest' = [latest EXCEPT ![k] = NoValue]
      /\ UNCHANGED <<now, lock, dirty, dirtyCount, owes, store, gate>>
  BY <1>1 DEF DeleteInner, At
<1>3. /\ p \in Clients /\ ~At(p, "idle") /\ writePolicy = "write-back" /\ Shape(st[p])
      /\ DOMAIN st = Procs /\ DOMAIN latest = Keys /\ \A j : Touches(st[p], j) <=> j = k
  BY <1>1, <1>2, InService DEF Serving
<1>4. st'[p] = Idle /\ Idle.at = "idle" /\ Shape(Idle)
  BY <1>2, <1>3, GotoIs, ServeShapes DEF Idle
<1>5. \A j : ~Touches(Idle, j)
  BY <1>4, ShapeSays DEF Keyed, Serving, Flushing
<1>6. k \notin DOMAIN live' /\ \A j : j # k => SameAt(live, live', j)
  BY <1>2, MapCells
<1>7. DOMAIN latest' = DOMAIN latest /\ \A j \in Keys : j # k => latest'[j] = latest[j]
  BY <1>2, <1>3
<1>8. ASSUME k \in Keys \ excused'
      PROVE  KeyDone(p, k)
  <2>1. Safe(st[p], dirty, store, k, now)
    BY <1>2, <1>3, <1>8, InHandNow
  <2>2. until'[k] = 0
    BY <1>1, <1>2, <1>4, <1>8, Unexcused DEF At
  <2>3. k \notin DOMAIN store' /\ k \notin DOMAIN dirty' /\ latest'[k] = NoValue
    BY <1>2, <1>3, <1>8, <2>1 DEF Safe
  <2>4. Calm(live', dirty', store', k, latest'[k], until'[k])
    BY <1>6, <2>3 DEF Calm, HeldIf, Kept
  <2> QED
    BY <1>4, <1>5, <2>2, <2>4 DEF KeyDone
<1>9. \A j \in Keys \ excused' : OnKey(p, j) => KeyDone(p, j)
  BY <1>3, <1>4, <1>5, <1>6, <1>8 DEF OnKey, SameAt
<1>10. \A j \in Keys : ~OnKey(p, j) => KeyLeft(j)
  BY <1>2, <1>3, <1>6, <1>7 DEF OnKey, KeyLeft, SameAt
<1> QED
  BY <1>2, <1>3, <1>4, <1>7, <1>9, <1>10, ServeStep DEF Serving

---------------------------------------------------------------------------
(* A step of flushAll, which a client or a ticker runs.                    *)
LEMMA FlushStep ==
  ASSUME PlaceInv, KeyInv, NEW p \in Procs, NEW s, Goto(p, s), Shape(s),
         st[p].at \in {"range"} \cup Flushing, s.at \in {"range"} \cup Flushing \cup Final,
         Goal(s) = Goal(st[p]), Observe(p),
         UNCHANGED <<gate, now, latest, writePolicy, late>>,
         \A k \in Keys \ excused' : OnKey(p, k) => KeyDone(p, k),
         \A k \in Keys : ~OnKey(p, k) => KeyLeft(k),
         \A k \in Keys : OnKey(p, k) /\ ~Touches(st[p], k) => k \in DOMAIN dirty,
         \A k \in Keys \ excused' : OnKey(p, k) /\ Past(s, k) => k \notin DOMAIN dirty',
         \A k \in Keys \ excused' : ~OnKey(p, k) /\ Past(s, k) =>
           Past(st[p], k) \/ (k \notin DOMAIN dirty /\ \A q \in Procs \ {p} : ~Touches(st[q], k))
  PROVE  PlaceInv' /\ KeyInv'
<1>1. st'[p] = s /\ \A q \in Procs \ {p} : st'[q] = st[q]
  BY GotoIs DEF PlaceInv
<1>2. Shape(st[p]) /\ ~At(p, "idle") /\ ~At(p, "mark") /\ ~At(p, "deleteInner")
  BY DEF PlaceInv, At, Flushing
<1>3. Then(s) = Goal(s).at /\ Then(st[p]) = Goal(st[p]).at
      /\ (s.at \in Final => Goal(s) = s) /\ s.at # "mark"
  BY <1>2, ShapeSays DEF Flushing, Final
<1>4. ASSUME NEW k \in Keys \ excused'
      PROVE  KeyOK(k) /\ until'[k] = until[k] /\ k \notin Late' /\ ~Meets(p, k)
  BY <1>1, <1>2, <1>3, Unexcused
<1>5. until' \in [Keys -> Nat]
  <2>1. \A k \in excused' : k \in Keys => until'[k] = 0
    BY DEF Observe
  <2>2. \A k \in Keys : until'[k] \in Nat
    BY <1>4, <2>1 DEF PlaceInv
  <2> QED
    BY <2>2 DEF Observe
<1>6. PlaceInv'
  <2>1. writePolicy = "write-back"
    BY <1>2 DEF PlaceInv
  <2>2. p \in Tickers => Then(s) = "idle"
    BY <1>3 DEF PlaceInv
  <2>3. p \in Clients \/ s.at \in {"idle", "range"} \cup Flushing
    BY <1>3, <2>2 DEF Procs
  <2>4. Then(s) = "idle" \/ (p \in Clients /\ (Then(s) \in Closing => Then(st[p]) \in Closing))
    BY <1>3, <2>2 DEF Procs
  <2> QED
    BY <1>2, <1>5, <2>1, <2>3, <2>4, PlaceStep
<1>7. \A q \in Procs : Goal(st'[q]) = Goal(st[q])
  BY <1>1
<1>8. ASSUME NEW k \in Keys \ excused'
      PROVE  KeyOK(k)'
  <2>1. KeyOK(k) /\ until'[k] = until[k] /\ k \notin Late' /\ ~Meets(p, k)
    BY <1>4
  <2>2. CASE OnKey(p, k)
    <3>1. KeyDone(p, k)
      BY <2>2
    <3>2. ASSUME ~Touches(st[p], k)
          PROVE  Sole(p, k) /\ gate # "closed"
      <4>1. k \in DOMAIN dirty /\ ~Disputed(p, k)
        BY <2>1, <2>2, <3>2 DEF OnKey, Meets
      <4> QED
        BY <2>1, <4>1 DEF Sole, Disputed, KeyOK, Alone
    <3>3. ASSUME Touches(st[p], k)
          PROVE  Sole(p, k) /\ gate # "closed"
      BY <2>1, <3>3, SoleOn DEF KeyOK, Alone, Untouched
    <3>4. Sole(p, k) /\ gate' # "closed"
      BY <3>2, <3>3
    <3>5. Past(st'[p], k) => k \notin DOMAIN dirty'
      BY <1>1, <2>2
    <3>6. ~Over(k)' => Swaps(k)'
      <4>1. ~Over(k)' => Swaps(k)
        BY <2>1 DEF Over, KeyOK, Traced
      <4>2. ASSUME Swaps(k), NEW q \in Procs, Goal(st'[q]).at = "swap"
            PROVE  HeldIf(Goal(st'[q]).clone, k, latest'[k], until'[k])
        <5>1. Goal(st'[q]) = Goal(st[q])
          BY <1>7
        <5>2. HeldIf(Goal(st[q]).clone, k, latest[k], until[k])
          BY <4>2, <5>1 DEF Swaps
        <5> QED
          BY <2>1, <5>1, <5>2
      <4> QED
        BY <4>1, <4>2 DEF Swaps
    <3> QED
      BY <2>1, <1>1, <3>1, <3>4, <3>5, <3>6, SoleStep DEF KeyDone
  <2>3. CASE ~OnKey(p, k)
    <3>1. KeyLeft(k) /\ ~Touches(st[p], k) /\ ~Touches(st'[p], k)
      BY <2>3 DEF OnKey
    <3>2. Past(st'[p], k) =>
            Past(st[p], k) \/ (k \notin DOMAIN dirty /\ \A q \in Procs \ {p} : ~Touches(st[q], k))
      BY <1>1, <2>3
    <3> QED
      BY <1>1, <2>1, <3>1, <3>2, AsideStep DEF KeyLeft
  <2> QED
    BY <2>2, <2>3
<1> QED
  BY <1>6, <1>8 DEF KeyInv

(* The places of flushAll.                                                 *)
LEMMA FlushShapes ==
  ASSUME NEW r, RangeOK(r), NEW k, NEW e, NEW v
  PROVE  /\ Shape(r)
         /\ Shape([at |-> "take", key |-> k, expiresAt |-> e, rest |-> r])
         /\ Shape([at |-> "write", key |-> k, value |-> v, expiresAt |-> e, rest |-> r])
BY DEF Shape, RangeOK, Final, Keyed, Serving, Flushing

(* The next place with the same local variables.                           *)
LEMMA FlushOn ==
  ASSUME NEW s, Shape(s), s.at \in Flushing, NEW a \in Flushing, NEW t,
         t = [s EXCEPT !.at = a]
  PROVE  /\ Shape(t) /\ t.at = a /\ t.key = s.key /\ t.rest = s.rest
         /\ t.expiresAt = s.expiresAt
<1>1. {"at", "key", "rest", "expiresAt"} \subseteq DOMAIN s /\ RangeOK(s.rest)
  BY DEF Shape, Keyed
<1>2. t.at = a /\ t.key = s.key /\ t.rest = s.rest /\ t.expiresAt = s.expiresAt
      /\ DOMAIN t = DOMAIN s
  BY <1>1
<1>3. a # "range" /\ a \notin Final /\ a # "evict"
  BY DEF Final, Flushing
<1> QED
  BY <1>1, <1>2, <1>3 DEF Shape, Keyed

(* A process in a flush, on a key or between two.                          *)
LEMMA InFlush ==
  ASSUME PlaceInv, NEW p \in Procs, st[p].at \in Flushing
  PROVE  /\ Shape(st[p]) /\ RangeOK(st[p].rest) /\ Shape(st[p].rest)
         /\ \A j : Touches(st[p], j) <=> j = st[p].key
         /\ \A j : ~Touches(st[p].rest, j)
         /\ Goal(st[p]) = st[p].rest.then /\ Goal(st[p].rest) = st[p].rest.then
         /\ Todo(st[p]) = st[p].rest.todo \cup {st[p].key}
         /\ Todo(st[p].rest) = st[p].rest.todo
         /\ st[p].rest.at = "range"
<1>1. Shape(st[p])
  BY DEF PlaceInv
<1>2. RangeOK(st[p].rest) /\ st[p].rest.at = "range"
  BY <1>1 DEF Shape, RangeOK
<1>3. Shape(st[p].rest)
  BY <1>2, FlushShapes
<1>4. \A j : Touches(st[p], j) <=> j = st[p].key
  BY <1>1, ShapeSays DEF Keyed, Flushing
<1>5. \A j : ~Touches(st[p].rest, j)
  BY <1>2 DEF RangeOK, Touches
<1>6. Goal(st[p]) = st[p].rest.then /\ Goal(st[p].rest) = st[p].rest.then
      /\ Todo(st[p]) = st[p].rest.todo \cup {st[p].key}
      /\ Todo(st[p].rest) = st[p].rest.todo
  BY <1>2 DEF Goal, Todo, Flushing
<1> QED
  BY <1>1, <1>2, <1>3, <1>4, <1>5, <1>6

(* The flush leaves the key it is on, which is not dirty.                  *)
LEMMA PastOnLeaving ==
  ASSUME PlaceInv, NEW p \in Procs, st[p].at \in Flushing, NEW k, k # st[p].key,
         Past(st[p].rest, k)
  PROVE  Past(st[p], k)
BY InFlush, ShapeSays DEF Past

(* What every step of a flush on a key has to show of that key only.       *)
LEMMA FlushKeyStep ==
  ASSUME PlaceInv, KeyInv, NEW p \in Procs, NEW s, Goto(p, s), st[p].at \in Flushing,
         NEW k, k = st[p].key,
         s = st[p].rest \/ (Shape(s) /\ s.at \in Flushing /\ s.key = k /\ s.rest = st[p].rest),
         Observe(p), UNCHANGED <<gate, now, latest, writePolicy, late>>,
         k \in Keys \ excused' => KeyDone(p, k),
         s = st[p].rest /\ k \in Keys \ excused' /\ Past(s, k) => k \notin DOMAIN dirty',
         \A j : j # k =>
           SameAt(live, live', j) /\ SameAt(dirty, dirty', j) /\ SameAt(store, store', j)
  PROVE  PlaceInv' /\ KeyInv'
<1>1. /\ Shape(st[p]) /\ Shape(st[p].rest)
      /\ \A j : Touches(st[p], j) <=> j = k
      /\ \A j : ~Touches(st[p].rest, j)
      /\ Goal(st[p]) = st[p].rest.then /\ Goal(st[p].rest) = st[p].rest.then
      /\ Todo(st[p]) = st[p].rest.todo \cup {k}
      /\ st[p].rest.at = "range"
  BY InFlush
<1>2. st'[p] = s
  BY GotoIs DEF PlaceInv
<1>3. CASE s = st[p].rest
  <2>1. Shape(s) /\ s.at \in {"range"} \cup Flushing \cup Final /\ Goal(s) = Goal(st[p])
        /\ \A j : ~Touches(s, j)
    BY <1>1, <1>3
  <2>2. \A j \in Keys \ excused' : OnKey(p, j) => KeyDone(p, j)
    BY <1>1, <1>2, <2>1 DEF OnKey, SameAt
  <2>3. \A j \in Keys : ~OnKey(p, j) => KeyLeft(j)
    BY <1>1 DEF OnKey, KeyLeft
  <2>4. \A j \in Keys : OnKey(p, j) /\ ~Touches(st[p], j) => j \in DOMAIN dirty
    BY <1>1, <1>2, <2>1 DEF OnKey, SameAt
  <2>5. \A j \in Keys \ excused' : OnKey(p, j) /\ Past(s, j) => j \notin DOMAIN dirty'
    BY <1>1, <1>2, <1>3, <2>1 DEF OnKey, SameAt
  <2>6. \A j \in Keys : ~OnKey(p, j) /\ Past(s, j) => Past(st[p], j)
    BY <1>1, <1>3, PastOnLeaving DEF OnKey
  <2> QED
    BY <2>1, <2>2, <2>3, <2>4, <2>5, <2>6, FlushStep
<1>4. CASE Shape(s) /\ s.at \in Flushing /\ s.key = k /\ s.rest = st[p].rest
  <2>1. /\ \A j : Touches(s, j) <=> j = k
        /\ Goal(s) = Goal(st[p]) /\ Todo(s) = Todo(st[p])
    BY <1>1, <1>4, ShapeSays DEF Keyed, Goal, Todo, Flushing
  <2>2. \A j : Past(s, j) => Past(st[p], j)
    BY <1>1, <1>4, <2>1, ShapeSays DEF Past
  <2>3. \A j \in Keys \ excused' : OnKey(p, j) => KeyDone(p, j)
    BY <1>1, <1>2, <2>1 DEF OnKey, SameAt
  <2>4. \A j \in Keys : ~OnKey(p, j) => KeyLeft(j)
    BY <1>1 DEF OnKey, KeyLeft
  <2>5. \A j \in Keys : OnKey(p, j) /\ ~Touches(st[p], j) => j \in DOMAIN dirty
    BY <1>1, <1>2, <2>1 DEF OnKey, SameAt
  <2>6. \A j : Past(s, j) => j # k
    BY <1>1, <2>1 DEF Past
  <2>7. \A j \in Keys \ excused' : OnKey(p, j) /\ Past(s, j) => j \notin DOMAIN dirty'
    BY <1>1, <1>2, <2>1, <2>6 DEF OnKey, SameAt
  <2>8. Shape(s) /\ s.at \in {"range"} \cup Flushing \cup Final
    BY <1>4
  <2> QED
    BY <2>1, <2>2, <2>3, <2>4, <2>5, <2>7, <2>8, FlushStep
<1> QED
  BY <1>3, <1>4

(* dirty.Range comes to a key.                                             *)
LEMMA FlushVisitStep ==
  ASSUME PlaceInv, KeyInv, NEW p \in Procs, FlushVisit(p), Observe(p),
         UNCHANGED <<writePolicy, late>>
  PROVE  PlaceInv' /\ KeyInv'
<1>1. PICK k \in st[p].todo :
        Goto(p, IF k \in DOMAIN dirty
                  THEN [at |-> "take", key |-> k, expiresAt |-> dirty[k],
                        rest |-> Ranging(st[p].todo \ {k}, st[p].then)]
                  ELSE Ranging(st[p].todo \ {k}, st[p].then))
  BY DEF FlushVisit
<1>2. PICK r : r = Ranging(st[p].todo \ {k}, st[p].then)
  OBVIOUS
<1>3. PICK s : s = IF k \in DOMAIN dirty
                     THEN [at |-> "take", key |-> k, expiresAt |-> dirty[k], rest |-> r] ELSE r
  OBVIOUS
<1>4. Goto(p, s)
  BY <1>1, <1>2, <1>3
<1>5. /\ st[p].at = "range"
      /\ UNCHANGED <<now, live, lock, dirty, dirtyCount, owes, store, gate, latest>>
  BY DEF FlushVisit, At
<1>6. Shape(st[p]) /\ RangeOK(st[p]) /\ Goal(st[p]) = st[p].then /\ Todo(st[p]) = st[p].todo
      /\ (\A j : ~Touches(st[p], j)) /\ Then(st[p]) = st[p].then.at
  BY <1>5 DEF PlaceInv, Shape, RangeOK, Goal, Todo, Touches, Flushing, Then
<1>7. r.at = "range" /\ r.todo = st[p].todo \ {k} /\ r.then = st[p].then /\ RangeOK(r)
      /\ Shape(r) /\ (\A j : ~Touches(r, j)) /\ Goal(r) = st[p].then /\ Todo(r) = st[p].todo \ {k}
      /\ Then(r) = st[p].then.at
  <2>1. r.at = "range" /\ r.todo = st[p].todo \ {k} /\ r.then = st[p].then /\ RangeOK(r)
    BY <1>2, <1>6 DEF RangeOK, Ranging
  <2>2. Shape(r)
    BY <2>1, FlushShapes
  <2> QED
    BY <2>1, <2>2 DEF RangeOK, Touches, Goal, Todo, Flushing, Then
<1>8. st'[p] = s
  BY <1>4, GotoIs DEF PlaceInv
<1>9. \A j \in Keys : KeyLeft(j)
  BY <1>5 DEF KeyLeft, SameAt
<1>10. CASE k \in DOMAIN dirty
  <2>1. /\ Shape(s) /\ s.at = "take" /\ s.key = k /\ s.expiresAt = dirty[k] /\ s.rest = r
    BY <1>3, <1>7, <1>10, FlushShapes
  <2>2. (\A j : Touches(s, j) <=> j = k) /\ Goal(s) = st[p].then /\ Todo(s) = st[p].todo
        /\ Then(s) = st[p].then.at
    BY <1>1, <1>7, <2>1, ShapeSays DEF Keyed, Goal, Todo, Flushing
  <2>3. ASSUME k \in Keys \ excused'
        PROVE  KeyDone(p, k)
    <3>1. KeyOK(k) /\ until'[k] = until[k]
      BY <1>5, <1>8, <2>1, <2>3, Unexcused DEF At
    <3>2. Untouched(k)
      BY <1>6, <1>8, <2>2, <2>3, CameTo
    <3>3. ASSUME ~Over(k)'
          PROVE  Busy(st'[p], live', dirty', store', k, latest'[k], until'[k], now')
      <4>1. Calm(live, dirty, store, k, latest[k], until[k])
        BY <1>5, <3>1, <3>2, <3>3 DEF KeyOK, Traced, Over
      <4>2. Held(live, k, latest[k], until[k]) /\ NoEarlier(until[k], dirty[k])
        BY <1>10, <4>1 DEF Calm
      <4> QED
        BY <1>5, <1>8, <1>10, <2>1, <3>1, <4>2 DEF Busy
    <3>4. Safe(st'[p], dirty', store', k, now') /\ Touches(st'[p], k) /\ until[k] \in Nat
      BY <1>8, <2>1, <2>2, <2>3 DEF Safe, PlaceInv
    <3> QED
      BY <3>1, <3>3, <3>4 DEF KeyDone
  <2>4. \A j \in Keys : OnKey(p, j) => j = k
    BY <1>5, <1>6, <1>8, <2>2 DEF OnKey
  <2>5. \A j : Past(s, j) => Past(st[p], j) /\ j # k
    BY <1>1, <1>6, <2>2 DEF Past
  <2>6. s.at \in {"range"} \cup Flushing \cup Final /\ st[p].at \in {"range"} \cup Flushing
        /\ Goal(s) = Goal(st[p])
    BY <1>5, <1>6, <2>1, <2>2 DEF Flushing
  <2>7. /\ \A j \in Keys \ excused' : OnKey(p, j) => KeyDone(p, j)
        /\ \A j \in Keys : ~OnKey(p, j) => KeyLeft(j)
        /\ \A j \in Keys : OnKey(p, j) /\ ~Touches(st[p], j) => j \in DOMAIN dirty
        /\ \A j \in Keys \ excused' : OnKey(p, j) /\ Past(s, j) => j \notin DOMAIN dirty'
        /\ \A j \in Keys \ excused' : ~OnKey(p, j) /\ Past(s, j) => Past(st[p], j)
    BY <1>9, <1>10, <2>3, <2>4, <2>5
  <2> QED
    BY <1>4, <1>5, <2>1, <2>6, <2>7, FlushStep
<1>11. CASE k \notin DOMAIN dirty
  <2>1. s = r
    BY <1>3, <1>11
  <2>2. \A j \in Keys : ~OnKey(p, j)
    BY <1>5, <1>6, <1>7, <1>8, <2>1 DEF OnKey
  <2>3. ASSUME NEW j \in Keys \ excused', Past(s, j)
        PROVE  Past(st[p], j) \/ (j \notin DOMAIN dirty /\ \A q \in Procs \ {p} : ~Touches(st[q], j))
    <3>1. CASE j # k
      BY <1>6, <1>7, <2>1, <2>3, <3>1 DEF Past
    <3>2. CASE j = k
      <4>1. LastFlush(p)
        BY <1>6, <1>7, <2>1, <2>3 DEF Past, LastFlush
      <4>2. ~Loses(p, j)
        BY <2>3, Unexcused
      <4>3. ~Disputed(p, j)
        BY <1>1, <1>5, <3>2, <4>1, <4>2 DEF Loses, At
      <4> QED
        BY <1>11, <3>2, <4>3 DEF Disputed
    <3> QED
      BY <3>1, <3>2
  <2>4. s.at \in {"range"} \cup Flushing \cup Final /\ st[p].at \in {"range"} \cup Flushing
        /\ Goal(s) = Goal(st[p]) /\ Shape(s)
    BY <1>5, <1>6, <1>7, <2>1
  <2>5. /\ \A j \in Keys \ excused' : OnKey(p, j) => KeyDone(p, j)
        /\ \A j \in Keys : ~OnKey(p, j) => KeyLeft(j)
        /\ \A j \in Keys : OnKey(p, j) /\ ~Touches(st[p], j) => j \in DOMAIN dirty
        /\ \A j \in Keys \ excused' : OnKey(p, j) /\ Past(s, j) => j \notin DOMAIN dirty'
        /\ \A j \in Keys \ excused' : ~OnKey(p, j) /\ Past(s, j) =>
             Past(st[p], j) \/ (j \notin DOMAIN dirty /\ \A q \in Procs \ {p} : ~Touches(st[q], j))
    BY <1>9, <2>2, <2>3
  <2> QED
    BY <1>4, <1>5, <2>4, <2>5, FlushStep
<1> QED
  BY <1>10, <1>11

(* What a process in a flush knows of the key it is on.                    *)
LEMMA FlushKnows ==
  ASSUME PlaceInv, KeyInv, NEW p \in Procs, st[p].at \in Flushing, NEW s, Goto(p, s),
         s = st[p].rest \/ s.at \in Flushing,
         Observe(p), UNCHANGED <<now, latest, writePolicy, late>>,
         NEW k \in Keys \ excused', k = st[p].key
  PROVE  /\ until'[k] = until[k] /\ until[k] \in Nat /\ now \in Nat
         /\ ~Loses(p, k) /\ Safe(st[p], dirty, store, k, now)
         /\ ~Over(k)' => /\ Busy(st[p], live, dirty, store, k, latest[k], until[k], now)
                         /\ until[k] = 0 \/ until[k] > now
<1>1. Touches(st[p], k) /\ st[p].rest.at = "range"
  BY InFlush
<1>2. st'[p].at # "mark"
  BY <1>1, GotoIs DEF PlaceInv, Flushing
<1>3. ~At(p, "mark") /\ ~At(p, "deleteInner")
  BY DEF At, Flushing
<1> QED
  BY <1>1, <1>2, <1>3, InHandNow

(* Of a key whose flush goes on, and of one that the flush leaves.         *)
LEMMA FlushDoneOn ==
  ASSUME PlaceInv, NEW p \in Procs, st[p].at \in Flushing, NEW s, Goto(p, s),
         NEW k, k = st[p].key, k \in Keys,
         until'[k] = until[k],
         \/ /\ s = st[p].rest
            /\ ~Over(k)' => Calm(live', dirty', store', k, latest'[k], until'[k])
         \/ /\ Shape(s) /\ s.at \in Flushing /\ s.key = k
            /\ Safe(s, dirty', store', k, now')
            /\ ~Over(k)' => Busy(s, live', dirty', store', k, latest'[k], until'[k], now')
  PROVE  KeyDone(p, k)
<1>1. st'[p] = s /\ until[k] \in Nat
  BY GotoIs DEF PlaceInv
<1>2. CASE s = st[p].rest /\ (~Over(k)' => Calm(live', dirty', store', k, latest'[k], until'[k]))
  BY <1>1, <1>2, InFlush DEF KeyDone
<1>3. CASE /\ Shape(s) /\ s.at \in Flushing /\ s.key = k
           /\ Safe(s, dirty', store', k, now')
           /\ ~Over(k)' => Busy(s, live', dirty', store', k, latest'[k], until'[k], now')
  <2>1. Touches(s, k)
    BY <1>3, ShapeSays DEF Keyed
  <2> QED
    BY <1>1, <1>3, <2>1 DEF KeyDone
<1> QED
  BY <1>2, <1>3

(* It takes the mark of the key, if nobody else has.                       *)
LEMMA FlushTakeStep ==
  ASSUME PlaceInv, KeyInv, NEW p \in Procs, FlushTake(p), Observe(p),
         UNCHANGED <<writePolicy, late>>
  PROVE  PlaceInv' /\ KeyInv'
<1>1. PICK k, s : k = st[p].key /\ s = IF k \in DOMAIN dirty THEN [st[p] EXCEPT !.at = "peek"]
                                                           ELSE st[p].rest
  OBVIOUS
<1>2. /\ st[p].at = "take" /\ dirty' = Drop(dirty, k) /\ Goto(p, s)
      /\ UNCHANGED <<now, live, lock, store, gate, latest>>
  BY <1>1 DEF FlushTake, At, LoadAndDelete
<1>3. st[p].at \in Flushing /\ "peek" \in Flushing /\ Shape(st[p])
  BY <1>2 DEF Flushing, PlaceInv
<1>4. k \in DOMAIN dirty => Shape(s) /\ s.at = "peek" /\ s.key = k /\ s.rest = st[p].rest
                            /\ s.expiresAt = st[p].expiresAt
  BY <1>1, <1>3, FlushOn
<1>5. s = st[p].rest \/ (Shape(s) /\ s.at \in Flushing /\ s.key = st[p].key /\ s.rest = st[p].rest)
  BY <1>1, <1>3, <1>4
<1>6. k \notin DOMAIN dirty' /\ \A j : j # k => SameAt(dirty, dirty', j)
  BY <1>2, MapCells
<1>7. ASSUME k \in Keys \ excused'
      PROVE  KeyDone(p, k)
  <2>1. /\ until'[k] = until[k]
        /\ ~Over(k)' => Busy(st[p], live, dirty, store, k, latest[k], until[k], now)
    BY <1>1, <1>2, <1>3, <1>5, <1>7, FlushKnows
  <2>2. CASE k \in DOMAIN dirty
    <3>1. Safe(s, dirty', store', k, now')
      BY <1>4, <1>6, <2>2 DEF Safe
    <3>2. ~Over(k)' => Busy(s, live', dirty', store', k, latest'[k], until'[k], now')
      BY <1>2, <1>4, <2>1, <2>2 DEF Busy
    <3> QED
      BY <1>1, <1>2, <1>3, <1>4, <1>7, <2>1, <2>2, <3>1, <3>2, FlushDoneOn
  <2>3. CASE k \notin DOMAIN dirty
    <3>1. Over(k)'
      BY <1>2, <2>1, <2>3 DEF Busy
    <3> QED
      BY <1>1, <1>2, <1>3, <1>7, <2>1, <2>3, <3>1, FlushDoneOn
  <2> QED
    BY <2>2, <2>3
<1>8. \A j : j # k => SameAt(live, live', j) /\ SameAt(dirty, dirty', j) /\ SameAt(store, store', j)
  BY <1>2, <1>6 DEF SameAt
<1> QED
  BY <1>1, <1>2, <1>3, <1>5, <1>6, <1>7, <1>8, FlushKeyStep

(* It looks up the value; only a key that is over is not there.            *)
LEMMA FlushPeekStep ==
  ASSUME PlaceInv, KeyInv, NEW p \in Procs, FlushPeek(p), Observe(p),
         UNCHANGED <<writePolicy, late>>
  PROVE  PlaceInv' /\ KeyInv'
<1>1. PICK k : k = st[p].key
  OBVIOUS
<1>2. /\ st[p].at = "peek" /\ live' = IF Fresh(k) THEN live ELSE Drop(live, k)
      /\ UNCHANGED <<now, lock, dirty, dirtyCount, owes, store, gate, latest>>
  BY <1>1 DEF FlushPeek, At
<1>3. st[p].at \in Flushing /\ "flushExpired" \in Flushing /\ Shape(st[p]) /\ RangeOK(st[p].rest)
  BY <1>2, InFlush DEF Flushing
<1>4. PICK s :
        /\ Goto(p, s)
        /\ \/ Fresh(k) /\ s = [at |-> "write", key |-> k, value |-> live[k].value,
                               expiresAt |-> st[p].expiresAt, rest |-> st[p].rest]
           \/ ~Fresh(k) /\ s = [st[p] EXCEPT !.at = "flushExpired"]
           \/ ~Fresh(k) /\ s = st[p].rest
  BY <1>1 DEF FlushPeek
<1>5. \/ /\ Fresh(k) /\ Shape(s) /\ s.at = "write" /\ s.key = k /\ s.rest = st[p].rest
         /\ s.value = live[k].value /\ s.expiresAt = st[p].expiresAt
      \/ /\ ~Fresh(k) /\ Shape(s) /\ s.at = "flushExpired" /\ s.key = k /\ s.rest = st[p].rest
      \/ ~Fresh(k) /\ s = st[p].rest
  <2>1. CASE Fresh(k) /\ s = [at |-> "write", key |-> k, value |-> live[k].value,
                               expiresAt |-> st[p].expiresAt, rest |-> st[p].rest]
    BY <1>3, <2>1, FlushShapes
  <2>2. CASE ~Fresh(k) /\ s = [st[p] EXCEPT !.at = "flushExpired"]
    BY <1>1, <1>3, <2>2, FlushOn
  <2> QED
    BY <1>4, <2>1, <2>2
<1>6. s = st[p].rest \/ (Shape(s) /\ s.at \in Flushing /\ s.key = k /\ s.rest = st[p].rest)
  BY <1>5 DEF Flushing
<1>7. \A j : j # k => SameAt(live, live', j) /\ SameAt(dirty, dirty', j) /\ SameAt(store, store', j)
  <2>1. \A j : j # k => SameAt(live, live', j)
    <3>1. CASE Fresh(k)
      BY <1>2, <3>1 DEF SameAt
    <3>2. CASE ~Fresh(k)
      BY <1>2, <3>2, MapCells
    <3> QED
      BY <3>1, <3>2
  <2> QED
    BY <1>2, <2>1 DEF SameAt
<1>8. ASSUME k \in Keys \ excused'
      PROVE  KeyDone(p, k) /\ k \notin DOMAIN dirty'
  <2>1. /\ until'[k] = until[k] /\ until[k] \in Nat /\ now \in Nat
        /\ Safe(st[p], dirty, store, k, now)
        /\ ~Over(k)' => /\ Busy(st[p], live, dirty, store, k, latest[k], until[k], now)
                        /\ until[k] = 0 \/ until[k] > now
    BY <1>1, <1>2, <1>3, <1>4, <1>6, <1>8, FlushKnows
  <2>2. k \notin DOMAIN dirty'
    BY <1>2, <2>1 DEF Safe
  <2>3. ~Over(k)' => Held(live, k, latest[k], until[k]) /\ NoEarlier(until[k], st[p].expiresAt)
    BY <1>2, <2>1 DEF Busy
  <2>4. ~Over(k)' => Fresh(k)
    <3>1. ~Over(k)' => k \in DOMAIN live /\ (live[k].expiresAt = 0 \/ now <= live[k].expiresAt)
      BY <2>1, <2>3, NotOver DEF Held
    <3> QED
      BY <3>1 DEF Fresh
  <2>5. s.at \in {"write", "flushExpired"} => Safe(s, dirty', store', k, now')
    BY <2>2 DEF Safe
  <2>6. CASE Fresh(k)
    <3>1. Shape(s) /\ s.at = "write" /\ s.key = k /\ s.value = live[k].value
          /\ s.expiresAt = st[p].expiresAt /\ s.at \in Flushing
      BY <1>5, <2>6 DEF Flushing
    <3>2. live' = live
      BY <1>2, <2>6
    <3>3. ~Over(k)' => Busy(s, live', dirty', store', k, latest'[k], until'[k], now')
      BY <1>2, <2>1, <2>3, <3>1, <3>2 DEF Busy, Held
    <3> QED
      BY <1>1, <1>3, <1>4, <1>8, <2>1, <2>2, <2>5, <3>1, <3>3, FlushDoneOn
  <2>7. CASE ~Fresh(k)
    <3>1. Over(k)'
      BY <2>4, <2>7
    <3>2. s = st[p].rest \/ (Shape(s) /\ s.at \in Flushing /\ s.key = k /\ Safe(s, dirty', store', k, now'))
      BY <1>3, <1>5, <2>5, <2>7
    <3> QED
      BY <1>1, <1>3, <1>4, <1>8, <2>1, <2>2, <3>1, <3>2, FlushDoneOn
  <2> QED
    BY <2>6, <2>7
<1> QED
  BY <1>1, <1>2, <1>3, <1>4, <1>6, <1>7, <1>8, FlushKeyStep

(* It drops what is over from the store.                                   *)
LEMMA FlushDropsExpiredStep ==
  ASSUME PlaceInv, KeyInv, NEW p \in Procs, FlushDropsExpired(p), Observe(p),
         UNCHANGED <<writePolicy, late>>
  PROVE  PlaceInv' /\ KeyInv'
<1>1. PICK k, s : k = st[p].key /\ s = st[p].rest
  OBVIOUS
<1>2. /\ st[p].at = "flushExpired" /\ Goto(p, s)
      /\ store' = Drop(store, k) \/ store' = store
      /\ UNCHANGED <<now, live, lock, dirty, dirtyCount, owes, gate, latest>>
  BY <1>1 DEF FlushDropsExpired, At, StoreDoes, StoreFailed
<1>3. st[p].at \in Flushing
  BY <1>2 DEF Flushing
<1>4. \A j : j # k => SameAt(live, live', j) /\ SameAt(dirty, dirty', j) /\ SameAt(store, store', j)
  <2>1. \A j : j # k => SameAt(store, store', j)
    BY <1>2, DropCells
  <2> QED
    BY <1>2, <2>1 DEF SameAt
<1>5. ASSUME k \in Keys \ excused'
      PROVE  KeyDone(p, k) /\ k \notin DOMAIN dirty'
  <2>1. /\ until'[k] = until[k] /\ Safe(st[p], dirty, store, k, now)
        /\ ~Over(k)' => Busy(st[p], live, dirty, store, k, latest[k], until[k], now)
    BY <1>1, <1>2, <1>3, <1>5, FlushKnows
  <2>2. Over(k)'
    BY <1>2, <2>1 DEF Busy
  <2>3. k \notin DOMAIN dirty'
    BY <1>2, <2>1 DEF Safe
  <2> QED
    BY <1>1, <1>2, <1>3, <1>5, <2>1, <2>2, <2>3, FlushDoneOn
<1> QED
  BY <1>1, <1>2, <1>3, <1>4, <1>5, FlushKeyStep

(* It writes the value.                                                    *)
LEMMA FlushWritesStep ==
  ASSUME PlaceInv, KeyInv, NEW p \in Procs, FlushWrites(p), Observe(p),
         UNCHANGED <<writePolicy, late>>
  PROVE  PlaceInv' /\ KeyInv'
<1>1. PICK k, s : k = st[p].key /\ s = st[p].rest
  OBVIOUS
<1>2. /\ st[p].at = "write" /\ Goto(p, s)
      /\ store' = flushValue(k, st[p].value, st[p].expiresAt)
      /\ UNCHANGED <<now, live, lock, dirty, dirtyCount, owes, gate, latest>>
  BY <1>1 DEF FlushWrites, At, StoreDoes
<1>3. st[p].at \in Flushing
  BY <1>2 DEF Flushing
<1>4. \A j : j # k => SameAt(live, live', j) /\ SameAt(dirty, dirty', j) /\ SameAt(store, store', j)
  <2>1. \A j : j # k => SameAt(store, store', j)
    BY <1>2, flushValueCells
  <2> QED
    BY <1>2, <2>1 DEF SameAt
<1>5. ASSUME k \in Keys \ excused'
      PROVE  KeyDone(p, k) /\ k \notin DOMAIN dirty'
  <2>1. /\ until'[k] = until[k] /\ until[k] \in Nat /\ now \in Nat
        /\ Safe(st[p], dirty, store, k, now)
        /\ ~Over(k)' => /\ Busy(st[p], live, dirty, store, k, latest[k], until[k], now)
                        /\ until[k] = 0 \/ until[k] > now
    BY <1>1, <1>2, <1>3, <1>5, FlushKnows
  <2>2. k \notin DOMAIN dirty'
    BY <1>2, <2>1 DEF Safe
  <2>3. ASSUME ~Over(k)'
        PROVE  Calm(live', dirty', store', k, latest'[k], until'[k])
    <3>1. /\ Held(live, k, latest[k], until[k]) /\ NoEarlier(until[k], st[p].expiresAt)
          /\ st[p].value = latest[k] /\ (until[k] = 0 \/ until[k] > now)
      BY <1>2, <2>1, <2>3 DEF Busy
    <3>2. Kept(store', k, latest[k], until[k])
      BY <1>2, <2>1, <3>1, flushValueKeeps
    <3> QED
      BY <1>2, <2>1, <2>2, <3>1, <3>2 DEF Calm, HeldIf
  <2> QED
    BY <1>1, <1>2, <1>3, <1>5, <2>1, <2>2, <2>3, FlushDoneOn
<1> QED
  BY <1>1, <1>2, <1>3, <1>4, <1>5, FlushKeyStep

(* The store fails it.                                                     *)
LEMMA FlushWriteFailsStep ==
  ASSUME PlaceInv, KeyInv, NEW p \in Procs, FlushWriteFails(p), Observe(p),
         UNCHANGED <<writePolicy, late>>
  PROVE  PlaceInv' /\ KeyInv'
<1>1. PICK k, s : k = st[p].key /\ s = [st[p] EXCEPT !.at = "requeue"]
  OBVIOUS
<1>2. /\ st[p].at = "write" /\ Goto(p, s)
      /\ UNCHANGED <<now, live, lock, dirty, dirtyCount, owes, store, gate, latest>>
  BY <1>1 DEF FlushWriteFails, At, StoreFailed
<1>3. st[p].at \in Flushing /\ "requeue" \in Flushing /\ Shape(st[p])
  BY <1>2 DEF Flushing, PlaceInv
<1>4. Shape(s) /\ s.at = "requeue" /\ s.key = k /\ s.rest = st[p].rest
      /\ s.expiresAt = st[p].expiresAt
  BY <1>1, <1>3, FlushOn
<1>5. \A j : SameAt(live, live', j) /\ SameAt(dirty, dirty', j) /\ SameAt(store, store', j)
  BY <1>2 DEF SameAt
<1>6. ASSUME k \in Keys \ excused'
      PROVE  KeyDone(p, k) /\ k \notin DOMAIN dirty'
  <2>1. /\ until'[k] = until[k] /\ Safe(st[p], dirty, store, k, now)
        /\ ~Over(k)' => Busy(st[p], live, dirty, store, k, latest[k], until[k], now)
    BY <1>1, <1>2, <1>3, <1>4, <1>6, FlushKnows
  <2>2. k \notin DOMAIN dirty'
    BY <1>2, <2>1 DEF Safe
  <2>3. Safe(s, dirty', store', k, now')
    BY <1>4, <2>2 DEF Safe
  <2>4. ~Over(k)' => Busy(s, live', dirty', store', k, latest'[k], until'[k], now')
    BY <1>2, <1>4, <2>1 DEF Busy
  <2> QED
    BY <1>1, <1>2, <1>3, <1>4, <1>6, <2>1, <2>2, <2>3, <2>4, FlushDoneOn
<1> QED
  BY <1>1, <1>2, <1>3, <1>4, <1>5, <1>6, FlushKeyStep

(* The mark is put back, unless a Set has been faster.                     *)
LEMMA FlushRequeuesStep ==
  ASSUME PlaceInv, KeyInv, NEW p \in Procs, FlushRequeues(p), Observe(p),
         UNCHANGED <<writePolicy, late>>
  PROVE  PlaceInv' /\ KeyInv'
<1>1. PICK k, s, e : k = st[p].key /\ s = st[p].rest /\ e = st[p].expiresAt
  OBVIOUS
<1>2. /\ st[p].at = "requeue" /\ Goto(p, s) /\ LoadOrStore(p, k, e)
      /\ UNCHANGED <<now, live, lock, store, gate, latest>>
  BY <1>1 DEF FlushRequeues, At
<1>3. st[p].at \in Flushing
  BY <1>2 DEF Flushing
<1>4. \A j : j # k => SameAt(live, live', j) /\ SameAt(dirty, dirty', j) /\ SameAt(store, store', j)
  <2>1. \A j : j # k => SameAt(dirty, dirty', j)
    BY <1>2, MapCells DEF LoadOrStore, SameAt
  <2> QED
    BY <1>2, <2>1 DEF SameAt
<1>5. ASSUME k \in Keys \ excused'
      PROVE  KeyDone(p, k) /\ ~Past(s, k)
  <2>1. /\ until'[k] = until[k] /\ Safe(st[p], dirty, store, k, now) /\ ~Loses(p, k)
        /\ ~Over(k)' => Busy(st[p], live, dirty, store, k, latest[k], until[k], now)
    BY <1>1, <1>2, <1>3, <1>5, FlushKnows
  <2>2. k \notin DOMAIN dirty
    BY <1>2, <2>1 DEF Safe
  <2>3. k \in DOMAIN dirty' /\ dirty'[k] = e
    BY <1>2, <2>2, MapCells DEF LoadOrStore
  <2>4. ~Over(k)' => Held(live, k, latest[k], until[k]) /\ NoEarlier(until[k], e)
    BY <1>1, <1>2, <2>1 DEF Busy
  <2>5. ~Over(k)' => Calm(live', dirty', store', k, latest'[k], until'[k])
    BY <1>2, <2>1, <2>3, <2>4 DEF Calm, HeldIf
  <2>6. ~LastFlush(p)
    BY <1>1, <1>2, <2>1 DEF Loses, At
  <2>7. Then(s) = Then(st[p])
    <3>1. Shape(st[p]) /\ Shape(s) /\ Goal(st[p]) = Goal(s)
      BY <1>1, <1>3, InFlush
    <3> QED
      BY <3>1, ShapeSays
  <2> QED
    BY <1>1, <1>2, <1>3, <1>5, <2>1, <2>5, <2>6, <2>7, FlushDoneOn DEF LastFlush, Past
<1> QED
  BY <1>1, <1>2, <1>3, <1>4, <1>5, FlushKeyStep

(* The flush has been over all keys.                                       *)
LEMMA FlushDoneStep ==
  ASSUME PlaceInv, KeyInv, NEW p \in Procs, FlushDone(p), Observe(p),
         UNCHANGED <<writePolicy, late>>
  PROVE  PlaceInv' /\ KeyInv'
<1>1. PICK s : s = st[p].then
  OBVIOUS
<1>2. /\ st[p].at = "range" /\ st[p].todo = {} /\ Goto(p, s)
      /\ UNCHANGED <<now, live, lock, dirty, dirtyCount, owes, store, gate, latest>>
  BY <1>1 DEF FlushDone, At
<1>3. Shape(st[p]) /\ FinalOK(s) /\ Goal(st[p]) = s /\ Todo(st[p]) = {}
      /\ (\A j : ~Touches(st[p], j)) /\ Then(st[p]) = s.at
  BY <1>1, <1>2 DEF PlaceInv, Shape, RangeOK, Goal, Todo, Touches, Flushing, Then
<1>4. Shape(s) /\ s.at \in Final /\ Goal(s) = s /\ Todo(s) = {} /\ (\A j : ~Touches(s, j))
      /\ Then(s) = s.at
  BY <1>3 DEF Shape, FinalOK, Final, Keyed, Serving, Flushing, Goal, Todo, Touches, Then
<1>5. st'[p] = s
  BY <1>2, GotoIs DEF PlaceInv
<1>6. /\ \A j \in Keys : ~OnKey(p, j) /\ KeyLeft(j)
      /\ \A j : Past(s, j) => Past(st[p], j)
  BY <1>2, <1>3, <1>4, <1>5 DEF OnKey, KeyLeft, SameAt, Past
<1>7. st[p].at \in {"range"} \cup Flushing /\ s.at \in {"range"} \cup Flushing \cup Final
      /\ Goal(s) = Goal(st[p])
  BY <1>2, <1>3, <1>4
<1>8. /\ \A j \in Keys \ excused' : OnKey(p, j) => KeyDone(p, j)
      /\ \A j \in Keys : ~OnKey(p, j) => KeyLeft(j)
      /\ \A j \in Keys : OnKey(p, j) /\ ~Touches(st[p], j) => j \in DOMAIN dirty
      /\ \A j \in Keys \ excused' : OnKey(p, j) /\ Past(s, j) => j \notin DOMAIN dirty'
      /\ \A j \in Keys \ excused' : ~OnKey(p, j) /\ Past(s, j) => Past(st[p], j)
  BY <1>6
<1> QED
  BY <1>2, <1>4, <1>7, <1>8, FlushStep

---------------------------------------------------------------------------
(* Flushes begin, and calls end after one.                                 *)

(* A step to or from a place where no key is at hand, which leaves the     *)
(* maps as they are.                                                       *)
LEMMA QuietStep ==
  ASSUME PlaceInv, KeyInv, NEW p \in Procs, NEW s, Goto(p, s),
         \A j : ~Touches(st[p], j) /\ ~Touches(s, j),
         UNCHANGED <<now, live, dirty, store, latest, late>>,
         \A k \in Keys \ excused' : k \notin excused /\ until'[k] = until[k],
         \A k \in Keys : Past(s, k) => Past(st[p], k),
         gate' = gate \/ gate' = "closing" \/ \A k \in Keys : Past(st[p], k),
         \A k \in Keys \ excused' : ~Over(k) /\ Traced(k) /\ Goal(s).at = "swap" =>
           Goal(s) = Goal(st[p]) \/ HeldIf(Goal(s).clone, k, latest[k], until[k])
  PROVE  KeyInv'
<1>1. st'[p] = s /\ \A q \in Procs \ {p} : st'[q] = st[q]
  BY GotoIs DEF PlaceInv
<1>2. ASSUME NEW k \in Keys \ excused'
      PROVE  KeyOK(k)'
  <2>1. KeyOK(k) /\ until'[k] = until[k]
    BY <1>2 DEF KeyInv
  <2>2. \A q \in Procs : Touches(st'[q], k) <=> Touches(st[q], k)
    BY <1>1
  <2>3. \A q \in Procs : Past(st'[q], k) => Past(st[q], k)
    BY <1>1, <1>2
  <2>4. gate' = "closed" => gate = "closed" \/ Past(st[p], k)
    BY <1>2
  <2>5. Alone(k)
    BY <2>1 DEF KeyOK
  <2>6. Alone(k)'
    <3>1. \A q, r \in Procs : Touches(st'[q], k) /\ Touches(st'[r], k) => q = r
      BY <2>2, <2>5 DEF Alone
    <3>2. \A q \in Procs : Touches(st'[q], k) => Safe(st'[q], dirty', store', k, now')
      BY <1>1, <2>5 DEF Alone
    <3>3. \A q \in Procs : Past(st'[q], k) =>
            k \notin DOMAIN dirty' /\ \A r \in Procs \ {q} : ~Touches(st'[r], k)
      BY <2>2, <2>3, <2>5 DEF Alone
    <3>4. gate' = "closed" => k \notin DOMAIN dirty' /\ Untouched(k)'
      BY <2>2, <2>4, <2>5 DEF Alone, Untouched
    <3> QED
      BY <2>5, <3>1, <3>2, <3>3, <3>4 DEF Alone, Late
  <2>7. ASSUME ~Over(k)'
        PROVE  Traced(k)'
    <3>1. ~Over(k) /\ Traced(k)
      BY <2>1, <2>7 DEF Over, KeyOK
    <3>2. Untouched(k)' => Calm(live', dirty', store', k, latest'[k], until'[k])
      BY <2>1, <2>2, <3>1 DEF Traced, Untouched
    <3>3. \A q \in Procs : Touches(st'[q], k) =>
            Busy(st'[q], live', dirty', store', k, latest'[k], until'[k], now')
      BY <1>1, <2>1, <3>1 DEF Traced
    <3>4. ASSUME NEW q \in Procs, Goal(st'[q]).at = "swap"
          PROVE  HeldIf(Goal(st'[q]).clone, k, latest'[k], until'[k])
      <4>1. CASE Goal(st'[q]) = Goal(st[q])
        BY <2>1, <3>1, <3>4, <4>1 DEF Traced, Swaps
      <4>2. CASE Goal(st'[q]) # Goal(st[q])
        BY <1>1, <1>2, <2>1, <3>1, <3>4, <4>2
      <4> QED
        BY <4>1, <4>2
    <3>5. Swaps(k)'
      BY <3>4 DEF Swaps
    <3> QED
      BY <3>2, <3>3, <3>5 DEF Traced
  <2> QED
    BY <2>6, <2>7 DEF KeyOK
<1> QED
  BY <1>2 DEF KeyInv

(* A key that nobody is on any more.                                       *)
LEMMA UntouchedStep ==
  ASSUME NEW k \in Keys, Untouched(k)', k \notin Late',
         \/ k \notin DOMAIN dirty'
         \/ gate' # "closed" /\ \A q \in Procs : ~Past(st'[q], k),
         ~Over(k)' => Calm(live', dirty', store', k, latest'[k], until'[k]) /\ Swaps(k)'
  PROVE  KeyOK(k)'
<1>1. Alone(k)'
  BY DEF Alone, Untouched
<1>2. ~Over(k)' => Traced(k)'
  BY DEF Traced, Untouched
<1> QED
  BY <1>1, <1>2 DEF KeyOK

(* Observe when a process is on no key before or after.                    *)
LEMMA QuietObserve ==
  ASSUME PlaceInv, NEW p \in Procs, NEW s, Goto(p, s), Shape(s), Shape(st[p]), Observe(p),
         s.at \notin Keyed, st[p].at \notin Keyed
  PROVE  /\ \A j : ~Touches(st[p], j) /\ ~Touches(s, j)
         /\ \A k \in Keys \ excused' : k \notin excused /\ until'[k] = until[k]
         /\ until' \in [Keys -> Nat]
<1>1. st'[p] = s
  BY GotoIs DEF PlaceInv
<1>2. \A j : ~Touches(st[p], j) /\ ~Touches(s, j)
  BY ShapeSays
<1>3. s.at \notin {"mark", "evict", "deleteStore"} /\ ~At(p, "deleteInner")
  BY DEF Keyed, Serving, At
<1>4. \A k \in Keys \ excused' : k \notin excused /\ until'[k] = until[k]
  BY <1>1, <1>3 DEF Observe, Settles
<1>5. until' \in [Keys -> Nat]
  BY <1>1, <1>3 DEF Observe, PlaceInv
<1> QED
  BY <1>2, <1>4, <1>5

(* A flush of all keys is about to begin.                                  *)
LEMMA RangingIs ==
  ASSUME NEW a, FinalOK(a), NEW s, s = Ranging(Keys, a)
  PROVE  /\ Shape(s) /\ s.at = "range" /\ Goal(s) = a /\ Todo(s) = Keys /\ Then(s) = a.at
         /\ \A k \in Keys : ~Past(s, k)
<1>1. s.at = "range" /\ s.todo = Keys /\ s.then = a /\ RangeOK(s)
  BY DEF Ranging, RangeOK
<1>2. Shape(s)
  BY <1>1, FlushShapes
<1> QED
  BY <1>1, <1>2 DEF Goal, Todo, Then, RangeOK, Flushing, Past

(* A step of a client that is alone but for the tickers.                   *)
LEMMA PlaceMove ==
  ASSUME PlaceInv, NEW p \in Procs, p \in Clients, NEW s, Goto(p, s), Shape(s),
         \A q \in Clients \ {p} : At(q, "idle"),
         UNCHANGED <<now, writePolicy>>, writePolicy = "write-back",
         DOMAIN latest' = DOMAIN latest, until' \in [Keys -> Nat],
         Then(s) \in Closing => gate' = "closing",
         gate' = "closed" => s.at = "idle"
  PROVE  PlaceInv'
<1>1. st'[p] = s /\ DOMAIN st' = Procs /\ \A q \in Procs \ {p} : st'[q] = st[q]
  BY GotoIs DEF PlaceInv
<1>2. Clients \cap Tickers = {} /\ Procs = Clients \cup Tickers
  BY WBConstants DEF Procs
<1>3. \A q \in Procs : Shape(st'[q])
  BY <1>1 DEF PlaceInv
<1>4. \A q \in Tickers :
        st'[q].at \in {"idle", "range"} \cup Flushing /\ Then(st'[q]) = "idle"
  BY <1>1, <1>2 DEF PlaceInv
<1>5. ASSUME NEW q \in Procs \ {p}
      PROVE  Then(st'[q]) \notin Closing
  <2>1. CASE q \in Tickers
    BY <1>4, <2>1 DEF Closing
  <2>2. CASE q \in Clients
    BY <1>1, <1>3, <2>2, ServingSays DEF At, Closing
  <2> QED
    BY <1>2, <2>1, <2>2
<1>6. \A q \in Procs : Then(st'[q]) \in Closing =>
        gate' = "closing" /\ q \in Clients /\ \A r \in Clients \ {q} : At(r, "idle")'
  BY <1>1, <1>2, <1>5 DEF At
<1>7. gate' = "closed" => \A q \in Clients : At(q, "idle")'
  BY <1>1, <1>2 DEF At
<1> QED
  BY <1>1, <1>3, <1>4, <1>6, <1>7 DEF PlaceInv

(* A call that begins with a flush, and the ticker's.                      *)
LEMMA FlushBeginsStep ==
  ASSUME PlaceInv, KeyInv, NEW p \in Procs, writePolicy = "write-back",
         \/ Flush(p) \/ PurgeFlush(p) \/ CloseFlush(p) \/ TickerFires(p),
         Observe(p), UNCHANGED <<writePolicy, late>>
  PROVE  PlaceInv' /\ KeyInv'
<1>1. PICK a, s :
        /\ a.at \in {"idle", "purge", "close"} /\ FinalOK(a)
        /\ s = Ranging(Keys, a) /\ Goto(p, s)
        /\ a.at # "idle" => p \in Clients
        /\ a.at = "close" => gate' = "closing" /\ \A q \in Clients : At(q, "idle")
        /\ a.at # "close" => gate' = gate
        /\ At(p, "idle") /\ (p \in Tickers \/ gate = "open")
        /\ UNCHANGED <<now, live, dirty, store, latest>>
  <2>1. FinalOK(Idle) /\ FinalOK([at |-> "purge"]) /\ FinalOK([at |-> "close"])
    BY DEF FinalOK, Final, Idle
  <2>2. CASE Flush(p)
    BY <2>1, <2>2 DEF Flush, FlushStart, Starts, Idle
  <2>3. CASE PurgeFlush(p)
    BY <2>1, <2>3 DEF PurgeFlush, FlushStart, Starts
  <2>4. CASE CloseFlush(p)
    BY <2>1, <2>4 DEF CloseFlush, FlushStart, Starts, NoRequests
  <2>5. CASE TickerFires(p)
    BY <2>1, <2>5 DEF TickerFires, FlushStart, Idle
  <2> QED
    BY <2>2, <2>3, <2>4, <2>5
<1>2. Shape(s) /\ s.at = "range" /\ Goal(s) = a /\ Then(s) = a.at /\ \A k \in Keys : ~Past(s, k)
  BY <1>1, RangingIs
<1>3. Shape(st[p]) /\ st[p].at \notin Keyed /\ s.at \notin Keyed
  BY <1>1, <1>2 DEF PlaceInv, At, Keyed, Serving, Flushing
<1>4. /\ \A j : ~Touches(st[p], j) /\ ~Touches(s, j)
      /\ \A k \in Keys \ excused' : k \notin excused /\ until'[k] = until[k]
      /\ until' \in [Keys -> Nat]
  BY <1>1, <1>2, <1>3, QuietObserve
<1>5. KeyInv'
  <2>1. \A k \in Keys : Past(s, k) => Past(st[p], k)
    BY <1>2
  <2>2. gate' = gate \/ gate' = "closing" \/ \A k \in Keys : Past(st[p], k)
    BY <1>1
  <2>3. Goal(s).at # "swap"
    BY <1>1, <1>2
  <2> QED
    BY <1>1, <1>4, <2>1, <2>2, <2>3, QuietStep
<1>6. PlaceInv'
  <2>1. CASE a.at = "close"
    <3>1. Then(s) \in Closing => gate' = "closing"
      BY <1>1, <2>1
    <3>2. gate' = "closed" => s.at = "idle"
      BY <1>1, <2>1
    <3> QED
      BY <1>1, <1>2, <1>4, <2>1, <3>1, <3>2, PlaceMove
  <2>2. CASE a.at # "close"
    <3>1. p \in Clients \/ s.at \in {"idle", "range"} \cup Flushing
      BY <1>2
    <3>2. Then(s) = "idle" \/ (p \in Clients /\ (Then(s) \in Closing => Then(st[p]) \in Closing))
      BY <1>1, <1>2, <2>2 DEF Closing
    <3> QED
      BY <1>1, <1>2, <1>4, <2>2, <3>1, <3>2, PlaceStep
  <2> QED
    BY <2>1, <2>2
<1> QED
  BY <1>5, <1>6

(* Purge empties the cache after its flush.                                *)
LEMMA PurgeInnerStep ==
  ASSUME PlaceInv, KeyInv, NEW p \in Procs, PurgeInner(p), Observe(p),
         UNCHANGED <<writePolicy, late>>
  PROVE  PlaceInv' /\ KeyInv'
<1>1. st[p].at = "purge" /\ live' = Empty /\ Goto(p, Idle)
      /\ UNCHANGED <<now, dirty, store, gate, latest>>
  BY DEF PurgeInner, At
<1>2. Shape(st[p]) /\ st[p].at \notin Keyed /\ ~At(p, "idle") /\ writePolicy = "write-back"
  BY <1>1 DEF PlaceInv, At, Keyed, Serving, Flushing
<1>3. Shape(Idle) /\ Idle.at = "idle" /\ "idle" \notin Keyed
  BY ServeShapes DEF Idle, Keyed, Serving, Flushing
<1>4. Then(Idle) = "idle" /\ Goal(Idle).at = "idle" /\ \A k : ~Past(Idle, k)
  BY <1>3, ServingSays
<1>5. /\ \A j : ~Touches(st[p], j) /\ ~Touches(Idle, j)
      /\ \A k \in Keys \ excused' : k \notin excused /\ until'[k] = until[k]
      /\ until' \in [Keys -> Nat]
  BY <1>1, <1>2, <1>3, QuietObserve
<1>6. st'[p] = Idle /\ \A q \in Procs \ {p} : st'[q] = st[q]
  BY <1>1, GotoIs DEF PlaceInv
<1>7. p \in Clients /\ \A q \in Procs \ {p} : Then(st[q]) \notin Closing
  <2>1. p \in Clients
    BY <1>1 DEF PlaceInv, Procs, Flushing
  <2> QED
    BY <1>2, <2>1, Undisturbed
<1>8. PlaceInv'
  BY <1>1, <1>2, <1>3, <1>4, <1>5, <1>7, PlaceStep
<1>9. \A q \in Procs : Goal(st'[q]).at # "swap"
  <2>1. ASSUME NEW q \in Procs \ {p}
        PROVE  Goal(st'[q]).at # "swap"
    <3>1. Shape(st[q])
      BY DEF PlaceInv
    <3> QED
      BY <1>6, <1>7, <3>1, ShapeSays DEF Closing
  <2> QED
    BY <1>4, <1>6, <2>1
<1>10. \A k : Past(st[p], k)
  <2>1. Then(st[p]) = "purge" /\ Todo(st[p]) = {}
    BY <1>1, <1>2, ShapeSays DEF Flushing
  <2> QED
    BY <2>1 DEF Past
<1>11. ASSUME NEW k \in Keys \ excused'
       PROVE  KeyOK(k)'
  <2>1. KeyOK(k) /\ until'[k] = until[k]
    BY <1>5, <1>11 DEF KeyInv
  <2>2. k \notin DOMAIN dirty /\ k \notin Late /\ Untouched(k)
    BY <1>5, <1>10, <2>1 DEF KeyOK, Alone, Untouched
  <2>3. Untouched(k)'
    BY <1>5, <1>6, <2>2 DEF Untouched
  <2>4. ~Over(k)' => Calm(live', dirty', store', k, latest'[k], until'[k])
    <3>1. ~Over(k)' => Calm(live, dirty, store, k, latest[k], until[k])
      BY <1>1, <2>1, <2>2 DEF Over, KeyOK, Traced
    <3> QED
      BY <1>1, <2>1, <2>2, <3>1 DEF Calm, HeldIf, Empty
  <2>5. Swaps(k)'
    BY <1>9 DEF Swaps
  <2> QED
    BY <1>1, <2>2, <2>3, <2>4, <2>5, UntouchedStep DEF Late
<1> QED
  BY <1>8, <1>11 DEF KeyInv

(* Close returns after its flush.                                          *)
LEMMA CloseDoneStep ==
  ASSUME PlaceInv, KeyInv, NEW p \in Procs, CloseDone(p), Observe(p),
         UNCHANGED <<writePolicy, late>>
  PROVE  PlaceInv' /\ KeyInv'
<1>1. st[p].at = "close" /\ gate' = "closed" /\ Goto(p, Idle)
      /\ UNCHANGED <<now, live, dirty, store, latest>>
  BY DEF CloseDone, At
<1>2. Shape(st[p]) /\ st[p].at \notin Keyed /\ ~At(p, "idle") /\ writePolicy = "write-back"
  BY <1>1 DEF PlaceInv, At, Keyed, Serving, Flushing
<1>3. Shape(Idle) /\ Idle.at = "idle" /\ "idle" \notin Keyed
  BY ServeShapes DEF Idle, Keyed, Serving, Flushing
<1>4. Then(Idle) = "idle" /\ Goal(Idle).at = "idle" /\ \A k : ~Past(Idle, k)
  BY <1>3, ServingSays
<1>5. /\ \A j : ~Touches(st[p], j) /\ ~Touches(Idle, j)
      /\ \A k \in Keys \ excused' : k \notin excused /\ until'[k] = until[k]
      /\ until' \in [Keys -> Nat]
  BY <1>1, <1>2, <1>3, QuietObserve
<1>6. Then(st[p]) = "close" /\ Todo(st[p]) = {}
  BY <1>1, <1>2, ShapeSays DEF Flushing
<1>7. p \in Clients /\ \A q \in Clients \ {p} : At(q, "idle")
  BY <1>6 DEF PlaceInv, Closing
<1>8. PlaceInv'
  BY <1>1, <1>2, <1>3, <1>4, <1>5, <1>7, PlaceMove DEF Closing
<1>9. KeyInv'
  <2>1. \A k \in Keys : Past(Idle, k) => Past(st[p], k)
    BY <1>4
  <2>2. \A k \in Keys : Past(st[p], k)
    BY <1>6 DEF Past
  <2>3. Goal(Idle).at # "swap"
    BY <1>4
  <2> QED
    BY <1>1, <1>5, <2>1, <2>2, <2>3, QuietStep
<1> QED
  BY <1>8, <1>9

(* A step of the store under write-back.                                   *)
LEMMA WriteBackKeeps ==
  ASSUME PlaceInv, KeyInv, NEW p \in Procs, WriteBackStep(p)
  PROVE  PlaceInv' /\ KeyInv'
<1>1. Observe(p) /\ UNCHANGED <<writePolicy, late>>
  BY DEF WriteBackStep
<1>2. CASE writePolicy = "write-back" /\ (Call(p) \/ TickerFires(p))
  BY <1>1, <1>2, SetInnerStep, GetInnerStep, DeleteMarkStep, FlushBeginsStep DEF Call
<1>3. CASE EvictFlush(p) \/ SetMark(p) \/ SetRemark(p)
  BY <1>1, <1>3, EvictFlushStep, SetMarkStep, SetRemarkStep
<1>4. CASE GetLoad(p) \/ GetDropsExpired(p) \/ GetFill(p)
  BY <1>1, <1>4, GetLoadStep, GetDropsExpiredStep, GetFillStep
<1>5. CASE DeleteStore(p) \/ DeleteInner(p)
  BY <1>1, <1>5, DeleteStoreStep, DeleteInnerStep
<1>6. CASE flushAll(p)
  BY <1>1, <1>6, FlushVisitStep, FlushTakeStep, FlushPeekStep, FlushDropsExpiredStep,
     FlushWritesStep, FlushWriteFailsStep, FlushRequeuesStep, FlushDoneStep DEF flushAll
<1>7. CASE PurgeInner(p) \/ CloseDone(p)
  BY <1>1, <1>7, PurgeInnerStep, CloseDoneStep
<1> QED
  BY <1>2, <1>3, <1>4, <1>5, <1>6, <1>7 DEF WriteBackStep, Continue

---------------------------------------------------------------------------
(* A change of policy from write-back.                                     *)

(* When no client is on the key, the cache has what was set for it.        *)
LEMMA CacheHolds ==
  ASSUME PlaceInv, NEW k, Traced(k), \A q \in Clients : ~Touches(st[q], k)
  PROVE  HeldIf(live, k, latest[k], until[k])
<1>1. CASE Untouched(k)
  BY <1>1 DEF Traced, Calm
<1>2. CASE ~Untouched(k)
  <2>1. PICK q \in Procs : Touches(st[q], k)
    BY <1>2 DEF Untouched
  <2>2. q \in Tickers
    BY <2>1 DEF Procs
  <2>3. st[q].at \in {"idle", "range"} \cup Flushing /\ Shape(st[q])
    BY <2>1, <2>2 DEF PlaceInv
  <2>4. st[q].at \in Flushing
    BY <2>1, <2>3, ShapeSays DEF Keyed, Serving, Flushing
  <2>5. Busy(st[q], live, dirty, store, k, latest[k], until[k], now)
    BY <2>1 DEF Traced
  <2>6. Held(live, k, latest[k], until[k])
    BY <2>4, <2>5 DEF Busy, Flushing
  <2> QED
    BY <2>6 DEF HeldIf
<1> QED
  BY <1>1, <1>2

(* The clone keeps the deadlines that are not over.                        *)
LEMMA CloneCells ==
  ASSUME now \in Nat, NEW k, NEW v, NEW u \in Nat, k \notin Revived, HeldIf(live, k, v, u)
  PROVE  HeldIf(cloneEntriesIntoCache, k, v, u)
<1>1. PICK f : f = cloneEntriesIntoCache
  OBVIOUS
<1>2. DOMAIN f = DOMAIN live
  BY <1>1 DEF cloneEntriesIntoCache
<1>3. ASSUME k \in DOMAIN live
      PROVE  Held(f, k, v, u)
  <2>1. f[k].value = live[k].value /\ f[k].expiresAt = CloneExpiry(live[k].expiresAt)
    BY <1>1, <1>3 DEF cloneEntriesIntoCache, Entry
  <2>2. live[k].value = v /\ NoEarlier(u, live[k].expiresAt)
    BY <1>3 DEF HeldIf, Held
  <2>3. live[k].expiresAt \notin 1 .. now
    BY <1>3 DEF Revived
  <2>4. CloneExpiry(live[k].expiresAt) = live[k].expiresAt
    BY <2>2, <2>3 DEF CloneExpiry, NoEarlier
  <2> QED
    BY <1>2, <1>3, <2>1, <2>2, <2>4 DEF Held
<1> QED
  BY <1>1, <1>2, <1>3 DEF HeldIf

(* It begins with a flush.                                                 *)
LEMMA ReconfigureFlushStep ==
  ASSUME PlaceInv, KeyInv, NEW p \in Procs, reconfigureFlush(p)
  PROVE  PlaceInv' /\ KeyInv'
<1>1. PICK policy \in WritePolicies :
        Changes(p, policy) /\ FlushStart(p, [at |-> "clone", policy |-> policy])
  BY DEF reconfigureFlush
<1>2. PICK a, s : a = [at |-> "clone", policy |-> policy] /\ s = Ranging(Keys, a)
  OBVIOUS
<1>3. FinalOK(a) /\ a.at = "clone"
  BY <1>2 DEF FinalOK, Final
<1>4. /\ Goto(p, s) /\ p \in Clients /\ At(p, "idle") /\ \A q \in Clients : At(q, "idle")
      /\ writePolicy = "write-back" /\ gate' = "closing"
      /\ UNCHANGED <<now, live, dirty, store, latest, writePolicy, late, until, excused>>
  BY <1>1, <1>2 DEF reconfigureFlush, Changes, NoRequests, FlushStart
<1>5. Shape(s) /\ s.at = "range" /\ Goal(s) = a /\ Then(s) = a.at /\ \A k \in Keys : ~Past(s, k)
  BY <1>2, <1>3, RangingIs
<1>6. \A j : ~Touches(st[p], j) /\ ~Touches(s, j)
  <2>1. Shape(st[p]) /\ st[p].at \notin Keyed /\ s.at \notin Keyed
    BY <1>4, <1>5 DEF PlaceInv, At, Keyed, Serving, Flushing
  <2> QED
    BY <1>5, <2>1, ShapeSays
<1>7. PlaceInv'
  <2>1. until' \in [Keys -> Nat] /\ \A q \in Clients \ {p} : At(q, "idle")
    BY <1>4 DEF PlaceInv
  <2>2. DOMAIN latest' = DOMAIN latest
    BY <1>4
  <2>3. gate' = "closed" => s.at = "idle"
    BY <1>4
  <2> QED
    BY <1>4, <1>5, <2>1, <2>2, <2>3, PlaceMove
<1>8. KeyInv'
  <2>1. \A k \in Keys \ excused' : k \notin excused /\ until'[k] = until[k]
    BY <1>4
  <2>2. \A k \in Keys : Past(s, k) => Past(st[p], k)
    BY <1>5
  <2>3. Goal(s).at # "swap"
    BY <1>3, <1>5
  <2> QED
    BY <1>4, <1>6, <2>1, <2>2, <2>3, QuietStep
<1> QED
  BY <1>7, <1>8

(* It clones the cache, and closes the old one, which flushes again.       *)
LEMMA ReconfigureCloneStep ==
  ASSUME PlaceInv, KeyInv, NEW p \in Procs, reconfigureClone(p)
  PROVE  PlaceInv' /\ KeyInv'
<1>1. PICK a, s :
        /\ a = [at |-> "swap", policy |-> st[p].policy, clone |-> cloneEntriesIntoCache]
        /\ s = Ranging(Keys, a)
  OBVIOUS
<1>2. /\ st[p].at = "clone" /\ Goto(p, s) /\ excused' = excused \cup Revived
      /\ UNCHANGED <<now, live, dirty, store, gate, latest, writePolicy, late, until>>
  BY <1>1 DEF reconfigureClone, At, FlushStart
<1>3. Shape(st[p]) /\ FinalOK(st[p])
  BY <1>2 DEF PlaceInv, Shape, Final
<1>4. Then(st[p]) = "clone"
  BY <1>2, <1>3 DEF Then, FinalOK
<1>5. FinalOK(a) /\ a.at = "swap" /\ a.clone = cloneEntriesIntoCache
  BY <1>1, <1>2, <1>3 DEF FinalOK, Final
<1>6. Shape(s) /\ s.at = "range" /\ Goal(s) = a /\ Then(s) = a.at /\ \A k \in Keys : ~Past(s, k)
  BY <1>1, <1>5, RangingIs
<1>7. \A j : ~Touches(st[p], j) /\ ~Touches(s, j)
  <2>1. st[p].at \notin Keyed /\ s.at \notin Keyed
    BY <1>2, <1>6 DEF Keyed, Serving, Flushing
  <2> QED
    BY <1>3, <1>6, <2>1, ShapeSays
<1>8. p \in Clients /\ \A q \in Clients \ {p} : At(q, "idle")
  BY <1>4 DEF PlaceInv, Closing
<1>9. ~At(p, "idle") /\ writePolicy = "write-back"
  BY <1>2 DEF PlaceInv, At
<1>10. PlaceInv'
  <2>1. until' \in [Keys -> Nat] /\ DOMAIN latest' = DOMAIN latest
    BY <1>2 DEF PlaceInv
  <2>2. p \in Clients \/ s.at \in {"idle", "range"} \cup Flushing
    BY <1>8
  <2>3. Then(s) = "idle" \/ (p \in Clients /\ (Then(s) \in Closing => Then(st[p]) \in Closing))
    BY <1>4, <1>8 DEF Closing
  <2> QED
    BY <1>2, <1>6, <1>9, <2>1, <2>2, <2>3, PlaceStep
<1>11. ASSUME NEW k \in Keys \ excused', Traced(k)
       PROVE  HeldIf(a.clone, k, latest[k], until[k])
  <2>1. \A q \in Clients : ~Touches(st[q], k)
    <3>1. ASSUME NEW q \in Clients \ {p}
          PROVE  ~Touches(st[q], k)
      <4>1. Shape(st[q]) /\ st[q].at \notin Keyed
        BY <1>8 DEF PlaceInv, Procs, At, Keyed, Serving, Flushing
      <4> QED
        BY <4>1, ShapeSays
    <3> QED
      BY <1>7, <3>1
  <2>2. HeldIf(live, k, latest[k], until[k])
    BY <1>11, <2>1, CacheHolds
  <2>3. k \notin Revived /\ now \in Nat /\ until[k] \in Nat
    BY <1>2, <1>11 DEF PlaceInv
  <2> QED
    BY <1>5, <2>2, <2>3, CloneCells
<1>12. KeyInv'
  <2>1. \A k \in Keys \ excused' : k \notin excused /\ until'[k] = until[k]
    BY <1>2
  <2>2. \A k \in Keys : Past(s, k) => Past(st[p], k)
    BY <1>6
  <2>3. \A k \in Keys \ excused' : ~Over(k) /\ Traced(k) /\ Goal(s).at = "swap" =>
           HeldIf(Goal(s).clone, k, latest[k], until[k])
    BY <1>6, <1>11
  <2> QED
    BY <1>2, <1>7, <2>1, <2>2, <2>3, QuietStep
<1> QED
  BY <1>10, <1>12

(* The clone takes the place of the old cache.                             *)
LEMMA ReconfigureSwapStep ==
  ASSUME PlaceInv, KeyInv, NEW p \in Procs, reconfigureSwap(p)
  PROVE  PlaceInv' /\ KeyInv'
<1>1. /\ st[p].at = "swap" /\ live' = st[p].clone /\ dirty' = Empty /\ late' = late \cup LeftBehind
      /\ excused' = excused \cup {k \in Keys : \E t \in Tickers : InHand(t, k)}
      /\ writePolicy' = st[p].policy /\ gate' = "open" /\ st' = [q \in Procs |-> Idle]
      /\ UNCHANGED <<now, store, latest, until>>
  BY DEF reconfigureSwap, At
<1>2. Shape(st[p]) /\ FinalOK(st[p])
  BY <1>1 DEF PlaceInv, Shape, Final
<1>3. Then(st[p]) = "swap" /\ Goal(st[p]) = st[p] /\ Todo(st[p]) = {} /\ \A j : ~Touches(st[p], j)
  BY <1>1, <1>2 DEF FinalOK, Then, Goal, Todo, Touches, Flushing
<1>4. /\ Shape(Idle) /\ Idle.at = "idle" /\ Then(Idle) = "idle" /\ Goal(Idle) = Idle
      /\ \A k : ~Past(Idle, k) /\ ~Touches(Idle, k)
  <2>1. Shape(Idle) /\ Idle.at = "idle" /\ \A k : ~Touches(Idle, k)
    BY ServeShapes DEF Idle, Touches
  <2>2. Idle.at \in Serving \cup {"idle"}
    BY <2>1
  <2> QED
    BY <2>1, <2>2, ServingSays
<1>5. DOMAIN dirty' = {}
  BY <1>1 DEF Empty
<1>6. \A q \in Procs : st'[q] = Idle
  BY <1>1
<1>7. PlaceInv'
  <2>1. DOMAIN st' = Procs /\ \A q \in Procs : At(q, "idle")'
    BY <1>1, <1>4, <1>6 DEF At
  <2>2. \A q \in Procs : Shape(st'[q]) /\ Then(st'[q]) = "idle" /\ st'[q].at = "idle"
    BY <1>4, <1>6
  <2>3. writePolicy' \in WritePolicies
    BY <1>1, <1>2 DEF FinalOK
  <2>4. DOMAIN latest' = Keys /\ until' \in [Keys -> Nat] /\ now' \in Nat
    BY <1>1 DEF PlaceInv
  <2> QED
    BY <1>1, <1>5, <2>1, <2>2, <2>3, <2>4 DEF PlaceInv, Closing, Procs
<1>8. ASSUME NEW k \in Keys \ excused'
      PROVE  KeyOK(k)'
  <2>1. KeyOK(k) /\ \A t \in Tickers : ~InHand(t, k)
    BY <1>1, <1>8 DEF KeyInv
  <2>2. k \notin DOMAIN dirty /\ Untouched(k)
    <3>1. Past(st[p], k)
      BY <1>3 DEF Past
    <3> QED
      BY <1>3, <2>1, <3>1 DEF KeyOK, Alone, Untouched
  <2>3. k \notin Late'
    <3>1. k \notin Late
      BY <2>1 DEF KeyOK, Alone
    <3>2. ASSUME NEW j \in Keys, NEW e \in LeftOf(j), e.key = k
          PROVE  FALSE
      <4>1. j = k
        BY <3>2 DEF LeftOf
      <4>2. LeftOf(k) = {}
        BY <2>1, <2>2 DEF LeftOf
      <4> QED
        BY <3>2, <4>1, <4>2
    <3> QED
      BY <1>1, <3>1, <3>2 DEF Late, LeftBehind
  <2>4. Untouched(k)'
    BY <1>4, <1>6 DEF Untouched
  <2>5. Swaps(k)'
    BY <1>4, <1>6 DEF Swaps
  <2>6. ASSUME ~Over(k)'
        PROVE  Calm(live', dirty', store', k, latest'[k], until'[k])
    <3>1. Traced(k)
      BY <1>1, <2>1, <2>6 DEF KeyOK, Over
    <3>2. Kept(store, k, latest[k], until[k])
      BY <2>2, <3>1 DEF Traced, Calm
    <3>3. HeldIf(st[p].clone, k, latest[k], until[k])
      BY <1>1, <1>3, <3>1 DEF Traced, Swaps
    <3> QED
      BY <1>1, <1>5, <3>2, <3>3 DEF Calm
  <2> QED
    BY <1>5, <2>3, <2>4, <2>5, <2>6, UntouchedStep
<1> QED
  BY <1>7, <1>8 DEF KeyInv

---------------------------------------------------------------------------
(* The other policies: nothing is dirty, and no process is in the middle   *)
(* of anything.                                                            *)
InPlace(k) ==
  HeldIf(live, k, latest[k], until[k]) /\ Kept(store, k, latest[k], until[k])

(* What the invariant says under them.                                     *)
LEMMA OtherKnows ==
  ASSUME PlaceInv, KeyInv, writePolicy # "write-back", NEW k \in Keys \ excused
  PROVE  k \notin Late /\ (~Over(k) => InPlace(k))
<1>1. KeyOK(k) /\ DOMAIN dirty = {}
  BY DEF KeyInv, PlaceInv
<1>2. Untouched(k)
  <2>1. \A q \in Procs : Shape(st[q]) /\ st[q].at \notin Keyed
    BY DEF PlaceInv, At, Keyed, Serving, Flushing
  <2> QED
    BY <2>1, ShapeSays DEF Untouched
<1> QED
  BY <1>1, <1>2 DEF KeyOK, Alone, Traced, Calm, InPlace

(* How it follows for the state after a step.                              *)
LEMMA OtherStep ==
  ASSUME PlaceInv, KeyInv, writePolicy # "write-back", writePolicy' \in WritePolicies,
         UNCHANGED <<now, dirty, gate, st, late>>,
         DOMAIN latest' = Keys, until' \in [Keys -> Nat],
         \A k \in Keys \ excused' : k \notin Late /\ (~Over(k)' => InPlace(k)')
  PROVE  PlaceInv' /\ KeyInv'
<1>1. \A q \in Procs : Shape(st[q]) /\ st[q].at = "idle"
  BY DEF PlaceInv, At
<1>2. \A q \in Procs : /\ Then(st[q]) = "idle" /\ Goal(st[q]) = st[q]
                       /\ \A k : ~Past(st[q], k) /\ ~Touches(st[q], k)
  <2>1. ASSUME NEW q \in Procs
        PROVE  /\ Then(st[q]) = "idle" /\ Goal(st[q]) = st[q]
               /\ \A k : ~Past(st[q], k) /\ ~Touches(st[q], k)
    <3>1. st[q].at \in Serving \cup {"idle"} /\ st[q].at \notin Keyed
      BY <1>1 DEF Keyed, Serving, Flushing
    <3> QED
      BY <1>1, <3>1, ShapeSays, ServingSays
  <2> QED
    BY <2>1
<1>3. gate = "open" /\ DOMAIN dirty = {}
  BY DEF PlaceInv
<1>4. PlaceInv'
  <2>1. \A q \in Procs : st'[q] = st[q]
    OBVIOUS
  <2>2. \A q \in Procs : Shape(st'[q]) /\ st'[q].at = "idle" /\ Then(st'[q]) = "idle"
    BY <1>1, <1>2, <2>1
  <2>3. DOMAIN st' = Procs /\ gate' = "open" /\ DOMAIN dirty' = {} /\ now' \in Nat
    BY <1>3 DEF PlaceInv
  <2> QED
    BY <2>2, <2>3 DEF PlaceInv, At, Closing, Procs
<1>5. ASSUME NEW k \in Keys \ excused'
      PROVE  KeyOK(k)'
  <2>1. k \notin Late' /\ (~Over(k)' => InPlace(k)')
    BY DEF Late
  <2>2. Untouched(k)' /\ Swaps(k)'
    BY <1>1, <1>2 DEF Untouched, Swaps
  <2>3. k \notin DOMAIN dirty'
    BY <1>3
  <2>4. ~Over(k)' => Calm(live', dirty', store', k, latest'[k], until'[k])
    BY <2>1, <2>3 DEF InPlace, Calm
  <2> QED
    BY <2>1, <2>2, <2>3, <2>4, UntouchedStep
<1> QED
  BY <1>4, <1>5 DEF KeyInv

(* An entry is added, in the place of another one perhaps.                 *)
LEMMA CachedCells ==
  ASSUME NEW k, NEW v, NEW e, Cached(k, v, e)
  PROVE  /\ k \in DOMAIN live' /\ live'[k] = Entry(v, e)
         /\ \A j \in DOMAIN live' : j # k => j \in DOMAIN live /\ live'[j] = live[j]
<1>1. CASE live' = Put(live, k, Entry(v, e))
  BY <1>1 DEF Put
<1>2. ASSUME NEW x \in DOMAIN live, live' = Put(Drop(live, x), k, Entry(v, e))
      PROVE  /\ k \in DOMAIN live' /\ live'[k] = Entry(v, e)
             /\ \A j \in DOMAIN live' : j # k => j \in DOMAIN live /\ live'[j] = live[j]
  <2>1. PICK f : f = Drop(live, x)
    OBVIOUS
  <2>2. \A j \in DOMAIN f : j \in DOMAIN live /\ f[j] = live[j]
    BY <2>1 DEF Drop
  <2>3. live' = Put(f, k, Entry(v, e))
    BY <1>2, <2>1
  <2> QED
    BY <2>2, <2>3 DEF Put
<1> QED
  BY <1>1, <1>2 DEF Cached

(* A key that loses its entry at most, and of which nothing else changes.  *)
LEMMA AsideInPlace ==
  ASSUME NEW j \in Keys, InPlace(j),
         j \in DOMAIN live' => j \in DOMAIN live /\ live'[j] = live[j],
         SameAt(store, store', j), latest'[j] = latest[j], until'[j] = until[j]
  PROVE  InPlace(j)'
<1>1. HeldIf(live', j, latest'[j], until'[j])
  BY DEF InPlace, HeldIf, Held
<1>2. Kept(store', j, latest'[j], until'[j])
  BY DEF InPlace, Kept, SameAt
<1> QED
  BY <1>1, <1>2 DEF InPlace

(* A Set writes the store, and the cache too under write-through.          *)
LEMMA OtherSetStep ==
  ASSUME PlaceInv, KeyInv, NEW p \in Procs, OtherSet(p)
  PROVE  PlaceInv' /\ KeyInv'
<1>1. PICK k \in Keys, v \in Values, ttl \in TTLs :
        /\ Other(p)
        /\ StoreDoes(Put(store, k, encodeForStore(v, Deadline(ttl))))
        /\ IF writePolicy = "write-through" THEN Cached(k, v, Deadline(ttl)) ELSE UNCHANGED live
        /\ latest' = [latest EXCEPT ![k] = v]
        /\ until' = [until EXCEPT ![k] = Deadline(ttl)]
        /\ excused' = IF k \in Late \/ (writePolicy = "write-around" /\ k \in DOMAIN live)
                        THEN excused \cup {k} ELSE excused \ {k}
        /\ UNCHANGED <<now, lock, dirty, dirtyCount, owes, gate, st, writePolicy, late>>
  BY DEF OtherSet
<1>2. writePolicy # "write-back" /\ writePolicy \in WritePolicies /\ now \in Nat
  BY <1>1 DEF Other, PlaceInv
<1>3. PICK e : e = Deadline(ttl)
  OBVIOUS
<1>4. e \in Nat /\ NoEarlier(e, e)
  BY <1>2, <1>3, DeadlineLasts, WBConstants, SameIsNoEarlier
<1>5. DOMAIN latest' = Keys /\ until' \in [Keys -> Nat]
  BY <1>1, <1>3, <1>4 DEF PlaceInv
<1>6. ASSUME NEW j \in Keys \ excused', j # k
      PROVE  j \notin Late /\ (~Over(j)' => InPlace(j)')
  <2>1. j \notin excused /\ latest'[j] = latest[j] /\ until'[j] = until[j]
    BY <1>1, <1>6 DEF PlaceInv
  <2>2. j \notin Late /\ (~Over(j) => InPlace(j))
    BY <1>2, <2>1, OtherKnows
  <2>3. ~Over(j)' => ~Over(j)
    BY <1>1, <2>1 DEF Over
  <2>4. SameAt(store, store', j)
    BY <1>1, <1>6, MapCells DEF StoreDoes
  <2>5. j \in DOMAIN live' => j \in DOMAIN live /\ live'[j] = live[j]
    BY <1>1, <1>6, CachedCells
  <2> QED
    BY <2>1, <2>2, <2>3, <2>4, <2>5, AsideInPlace
<1>7. ASSUME k \notin excused'
      PROVE  k \notin Late /\ InPlace(k)'
  <2>1. k \notin Late /\ ~(writePolicy = "write-around" /\ k \in DOMAIN live)
    BY <1>1, <1>7
  <2>2. latest'[k] = v /\ until'[k] = e
    BY <1>1, <1>3 DEF PlaceInv
  <2>3. HeldIf(live', k, latest'[k], until'[k])
    <3>1. CASE writePolicy = "write-through"
      <4>1. live'[k] = Entry(v, e)
        BY <1>1, <1>3, <3>1, CachedCells
      <4> QED
        BY <1>4, <2>2, <4>1 DEF HeldIf, Held, Entry
    <3>2. CASE writePolicy # "write-through"
      <4>1. writePolicy = "write-around"
        BY <1>2, <3>2, PolicyConstants
      <4> QED
        BY <1>1, <2>1, <3>2, <4>1 DEF HeldIf
    <3> QED
      BY <3>1, <3>2
  <2>4. Kept(store', k, latest'[k], until'[k])
    <3>1. store'[k] = encodeForStore(v, e) /\ k \in DOMAIN store'
      BY <1>1, <1>3, MapCells DEF StoreDoes
    <3>2. decodeFromStore(store'[k]).value = v /\ decodeFromStore(store'[k]).expiresAt = e
      BY <3>1 DEF encodeForStore, decodeFromStore, Raw, Envelope
    <3> QED
      BY <1>4, <2>2, <3>1, <3>2 DEF Kept
  <2> QED
    BY <2>1, <2>3, <2>4 DEF InPlace
<1>8. \A j \in Keys \ excused' : j \notin Late /\ (~Over(j)' => InPlace(j)')
  <2>1. ASSUME NEW j \in Keys \ excused'
        PROVE  j \notin Late /\ (~Over(j)' => InPlace(j)')
    <3>1. CASE j = k
      BY <1>7, <3>1
    <3>2. CASE j # k
      BY <1>6, <3>2
    <3> QED
      BY <3>1, <3>2
  <2> QED
    BY <2>1
<1>9. writePolicy' \in WritePolicies /\ UNCHANGED <<now, dirty, gate, st, late>>
  BY <1>1, <1>2
<1> QED
  BY <1>2, <1>5, <1>8, <1>9, OtherStep

(* A Get that misses fills the cache with what the store has.              *)
LEMMA OtherGetStep ==
  ASSUME PlaceInv, KeyInv, NEW p \in Procs, OtherGet(p)
  PROVE  PlaceInv' /\ KeyInv'
<1>1. PICK k \in Keys :
    /\ Other(p) /\ ~Fresh(k)
    /\ IF k \notin DOMAIN store THEN live' = Drop(live, k) /\ UNCHANGED store
       ELSE LET d == decodeFromStore(store[k])
            IN IF ttlExpired(d.expiresAt, now) \/ writePolicy = "write-around"
                 THEN /\ live' = Drop(live, k)
                      /\ \/ ttlExpired(d.expiresAt, now) /\ StoreDoes(Drop(store, k))
                         \/ UNCHANGED store
                 ELSE /\ Cached(k, d.value, Deadline(ttlLeft(d.expiresAt, now)))
                      /\ UNCHANGED store
    /\ UNCHANGED <<now, lock, dirty, dirtyCount, owes, gate, st, latest, writePolicy, late, until, excused>>
  BY DEF OtherGet
<1>2. PICK d : d = decodeFromStore(store[k])
  OBVIOUS
<1>3. writePolicy # "write-back" /\ writePolicy \in WritePolicies /\ now \in Nat
  BY <1>1 DEF Other, PlaceInv
<1>4. \/ live' = Drop(live, k) /\ UNCHANGED store
      \/ /\ k \in DOMAIN store /\ live' = Drop(live, k)
         /\ ttlExpired(d.expiresAt, now) /\ store' = Drop(store, k)
      \/ /\ k \in DOMAIN store
         /\ Cached(k, d.value, Deadline(ttlLeft(d.expiresAt, now))) /\ UNCHANGED store
  BY <1>1, <1>2 DEF StoreDoes
<1>5. \A j : j # k => SameAt(store, store', j)
                      /\ (j \in DOMAIN live' => j \in DOMAIN live /\ live'[j] = live[j])
  <2>1. \A j : j # k => SameAt(store, store', j)
    <3>1. store' = store \/ store' = Drop(store, k)
      BY <1>4
    <3> QED
      BY <3>1, DropCells
  <2>2. \A j : j # k => (j \in DOMAIN live' => j \in DOMAIN live /\ live'[j] = live[j])
    <3>1. CASE live' = Drop(live, k)
      <4>1. \A j : j # k => SameAt(live, live', j)
        BY <3>1, DropCells
      <4> QED
        BY <4>1 DEF SameAt
    <3>2. CASE Cached(k, d.value, Deadline(ttlLeft(d.expiresAt, now)))
      BY <3>2, CachedCells
    <3> QED
      BY <1>4, <3>1, <3>2
  <2> QED
    BY <2>1, <2>2
<1>6. ASSUME NEW j \in Keys \ excused'
      PROVE  j \notin Late /\ (~Over(j)' => InPlace(j)')
  <2>1. j \notin excused /\ latest'[j] = latest[j] /\ until'[j] = until[j] /\ until[j] \in Nat
    BY <1>1, <1>6 DEF PlaceInv
  <2>2. j \notin Late /\ (~Over(j) => InPlace(j))
    BY <1>3, <2>1, OtherKnows
  <2>3. ~Over(j)' => ~Over(j)
    BY <1>1, <2>1 DEF Over
  <2>4. CASE j # k
    BY <1>5, <2>1, <2>2, <2>3, <2>4, AsideInPlace
  <2>5. ASSUME j = k, ~Over(j)'
        PROVE  InPlace(j)'
    <3>1. HeldIf(live, k, latest[k], until[k]) /\ Kept(store, k, latest[k], until[k])
          /\ (until[k] = 0 \/ until[k] > now) /\ until[k] \in Nat
      BY <1>3, <2>1, <2>2, <2>3, <2>5 DEF InPlace, Over
    <3>2. k \in DOMAIN store => d.value = latest[k] /\ NoEarlier(until[k], d.expiresAt)
      BY <1>2, <3>1 DEF Kept
    <3>3. k \in DOMAIN store => /\ ~ttlExpired(d.expiresAt, now)
                                /\ Deadline(ttlLeft(d.expiresAt, now)) = d.expiresAt
      BY <1>3, <3>1, <3>2, NotOver
    <3>4. UNCHANGED store
      BY <1>4, <3>3
    <3>5. HeldIf(live', k, latest[k], until[k])
      <4>1. CASE live' = Drop(live, k)
        BY <4>1, MapCells DEF HeldIf
      <4>2. CASE k \in DOMAIN store /\ Cached(k, d.value, Deadline(ttlLeft(d.expiresAt, now)))
        <5>1. live'[k] = Entry(d.value, d.expiresAt)
          BY <3>3, <4>2, CachedCells
        <5> QED
          BY <3>2, <4>2, <5>1 DEF HeldIf, Held, Entry
      <4> QED
        BY <1>4, <4>1, <4>2
    <3> QED
      BY <2>1, <2>5, <3>1, <3>4, <3>5 DEF InPlace
  <2> QED
    BY <2>2, <2>4, <2>5
<1>7. /\ writePolicy' \in WritePolicies /\ UNCHANGED <<now, dirty, gate, st, late>>
      /\ DOMAIN latest' = Keys /\ until' \in [Keys -> Nat]
  BY <1>1, <1>3 DEF PlaceInv
<1> QED
  BY <1>3, <1>6, <1>7, OtherStep

(* A Delete, of the store and of the cache.                                *)
LEMMA OtherDeleteStep ==
  ASSUME PlaceInv, KeyInv, NEW p \in Procs, OtherDelete(p)
  PROVE  PlaceInv' /\ KeyInv'
<1>1. PICK k \in Keys :
        /\ Other(p)
        /\ StoreDoes(Drop(store, k)) \/ StoreFailed
        /\ live' = Drop(live, k)
        /\ latest' = [latest EXCEPT ![k] = NoValue]
        /\ until' = [until EXCEPT ![k] = 0]
        /\ excused' = IF k \in Late \/ k \in DOMAIN store' THEN excused \cup {k}
                      ELSE excused \ {k}
        /\ UNCHANGED <<now, lock, dirty, dirtyCount, owes, gate, st, writePolicy, late>>
  BY DEF OtherDelete
<1>2. writePolicy # "write-back" /\ writePolicy \in WritePolicies /\ now \in Nat
  BY <1>1 DEF Other, PlaceInv
<1>3. /\ writePolicy' \in WritePolicies /\ UNCHANGED <<now, dirty, gate, st, late>>
      /\ DOMAIN latest' = Keys /\ until' \in [Keys -> Nat]
  BY <1>1, <1>2 DEF PlaceInv
<1>4. ASSUME NEW j \in Keys \ excused', j # k
      PROVE  j \notin Late /\ (~Over(j)' => InPlace(j)')
  <2>1. j \notin excused /\ latest'[j] = latest[j] /\ until'[j] = until[j]
    BY <1>1, <1>4 DEF PlaceInv
  <2>2. j \notin Late /\ (~Over(j) => InPlace(j))
    BY <1>2, <2>1, OtherKnows
  <2>3. ~Over(j)' => ~Over(j)
    BY <1>1, <2>1 DEF Over
  <2>4. SameAt(store, store', j)
    <3>1. store' = store \/ store' = Drop(store, k)
      BY <1>1 DEF StoreDoes, StoreFailed
    <3>2. \A i : i # k => SameAt(store, store', i)
      <4>1. \A i : i # k => SameAt(store, Drop(store, k), i)
        BY MapCells
      <4>2. \A i : SameAt(store, store, i)
        BY DEF SameAt
      <4> QED
        BY <3>1, <4>1, <4>2
    <3> QED
      BY <1>4, <3>2
  <2>5. j \in DOMAIN live' => j \in DOMAIN live /\ live'[j] = live[j]
    <3>1. SameAt(live, live', j)
      BY <1>1, <1>4, DropCells
    <3> QED
      BY <3>1 DEF SameAt
  <2> QED
    BY <2>1, <2>2, <2>3, <2>4, <2>5, AsideInPlace
<1>5. ASSUME k \notin excused'
      PROVE  k \notin Late /\ InPlace(k)'
  <2>1. k \notin Late /\ k \notin DOMAIN store' /\ k \notin DOMAIN live'
    BY <1>1, <1>5, MapCells
  <2>2. latest'[k] = NoValue
    BY <1>1 DEF PlaceInv
  <2> QED
    BY <2>1, <2>2 DEF InPlace, HeldIf, Kept
<1>6. \A j \in Keys \ excused' : j \notin Late /\ (~Over(j)' => InPlace(j)')
  <2>1. ASSUME NEW j \in Keys \ excused'
        PROVE  j \notin Late /\ (~Over(j)' => InPlace(j)')
    <3>1. CASE j = k
      BY <1>5, <3>1
    <3>2. CASE j # k
      BY <1>4, <3>2
    <3> QED
      BY <3>1, <3>2
  <2> QED
    BY <2>1
<1> QED
  BY <1>2, <1>3, <1>6, OtherStep

(* A Purge, and a change of policy, which clones the cache.                *)
LEMMA OtherCacheStep ==
  ASSUME PlaceInv, KeyInv, NEW p \in Procs, OtherPurge(p) \/ reconfigureOther(p)
  PROVE  PlaceInv' /\ KeyInv'
<1>1. /\ writePolicy # "write-back"
      /\ writePolicy' = writePolicy \/ writePolicy' \in WritePolicies
      /\ \/ live' = Empty /\ excused' = excused
         \/ live' = cloneEntriesIntoCache /\ excused' = excused \cup Revived
      /\ UNCHANGED <<now, dirty, store, gate, st, latest, late, until>>
  BY DEF OtherPurge, reconfigureOther, Other
<1>2. /\ writePolicy' \in WritePolicies /\ now \in Nat
      /\ DOMAIN latest' = Keys /\ until' \in [Keys -> Nat]
  BY <1>1 DEF PlaceInv
<1>3. ASSUME NEW j \in Keys \ excused'
      PROVE  j \notin Late /\ (~Over(j)' => InPlace(j)')
  <2>1. j \notin excused /\ latest'[j] = latest[j] /\ until'[j] = until[j] /\ until[j] \in Nat
    BY <1>1, <1>3 DEF PlaceInv
  <2>2. j \notin Late /\ (~Over(j) => InPlace(j))
    BY <1>1, <2>1, OtherKnows
  <2>3. ASSUME ~Over(j)'
        PROVE  InPlace(j)'
    <3>1. HeldIf(live, j, latest[j], until[j]) /\ Kept(store, j, latest[j], until[j])
      BY <1>1, <2>1, <2>2, <2>3 DEF InPlace, Over
    <3>2. HeldIf(live', j, latest[j], until[j])
      <4>1. CASE live' = Empty
        BY <4>1 DEF HeldIf, Empty
      <4>2. CASE live' = cloneEntriesIntoCache /\ excused' = excused \cup Revived
        BY <1>2, <1>3, <2>1, <3>1, <4>2, CloneCells
      <4> QED
        BY <1>1, <4>1, <4>2
    <3> QED
      BY <1>1, <2>1, <3>1, <3>2 DEF InPlace
  <2> QED
    BY <2>2, <2>3
<1>4. UNCHANGED <<now, dirty, gate, st, late>>
  BY <1>1
<1> QED
  BY <1>1, <1>2, <1>3, <1>4, OtherStep

---------------------------------------------------------------------------
(* The steps that no process of the store takes: the clock, and what the   *)
(* ticker of a closed cache has left to write.                             *)

(* Time passes, and what is said of a key stays true.                      *)
LEMMA Later ==
  ASSUME NEW n \in Nat, NEW m, m = n \/ m = n + 1, NEW r, NEW f, NEW d, NEW b, NEW k, NEW v,
         NEW u \in Nat
  PROVE  /\ Busy(r, f, d, b, k, v, u, n) => Busy(r, f, d, b, k, v, u, m)
         /\ Safe(r, d, b, k, n) => Safe(r, d, b, k, m)
<1>1. \A w \in Nat : \A ttl : Lasts(w, n, ttl) => Lasts(w, m, ttl)
  BY DEF Lasts
<1>2. Lasts(u, n, r.ttl) => Lasts(u, m, r.ttl)
  BY <1>1
<1>3. r.new.expiresAt \in Nat /\ Lasts(r.new.expiresAt, n, r.then.ttl) =>
        Lasts(r.new.expiresAt, m, r.then.ttl)
  BY <1>1
<1> QED
  BY <1>2, <1>3 DEF Busy, Safe

(* A step that leaves all there is of a key.                               *)
LEMMA StillStep ==
  ASSUME now \in Nat, NEW k \in Keys, KeyOK(k), until[k] \in Nat,
         now' = now \/ now' = now + 1,
         UNCHANGED <<live, dirty, gate, st>>, SameAt(store, store', k),
         latest'[k] = latest[k], until'[k] = until[k], k \notin Late'
  PROVE  KeyOK(k)'
<1>1. SameAt(live, live', k) /\ SameAt(dirty, dirty', k)
  BY DEF SameAt
<1>2. Alone(k)
  BY DEF KeyOK
<1>3. Alone(k)'
  <2>1. ASSUME NEW q \in Procs, Touches(st'[q], k)
        PROVE  Safe(st'[q], dirty', store', k, now')
    <3>1. Safe(st[q], dirty, store, k, now)
      BY <1>2, <2>1 DEF Alone
    <3>2. Safe(st[q], dirty, store, k, now')
      BY <3>1, Later
    <3> QED
      BY <1>1, <3>2, SameCells
  <2>2. \A p, q \in Procs : Touches(st'[p], k) /\ Touches(st'[q], k) => p = q
    BY <1>2 DEF Alone
  <2>3. \A p \in Procs : Past(st'[p], k) =>
          k \notin DOMAIN dirty' /\ \A q \in Procs \ {p} : ~Touches(st'[q], k)
    BY <1>2 DEF Alone
  <2>4. gate' = "closed" => k \notin DOMAIN dirty' /\ Untouched(k)'
    BY <1>2 DEF Alone, Untouched
  <2> QED
    BY <2>1, <2>2, <2>3, <2>4 DEF Alone
<1>4. ASSUME ~Over(k)'
      PROVE  Traced(k)'
  <2>1. Traced(k)
    BY <1>4 DEF Over, KeyOK
  <2>2. Untouched(k)' => Calm(live', dirty', store', k, latest'[k], until'[k])
    <3>1. Untouched(k)' => Calm(live, dirty, store, k, latest'[k], until'[k])
      BY <2>1 DEF Traced, Untouched
    <3> QED
      BY <1>1, <3>1, SameCells
  <2>3. ASSUME NEW q \in Procs, Touches(st'[q], k)
        PROVE  Busy(st'[q], live', dirty', store', k, latest'[k], until'[k], now')
    <3>1. Busy(st[q], live, dirty, store, k, latest[k], until[k], now)
      BY <2>1, <2>3 DEF Traced
    <3>2. Busy(st[q], live, dirty, store, k, latest[k], until[k], now')
      BY <3>1, Later
    <3> QED
      BY <1>1, <3>2, SameCells
  <2>4. Swaps(k)'
    BY <2>1 DEF Traced, Swaps
  <2> QED
    BY <2>2, <2>3, <2>4 DEF Traced
<1> QED
  BY <1>3, <1>4 DEF KeyOK

(* The clock, the late writes, a count, and a stuttering step.             *)
LEMMA OutsideKeeps ==
  ASSUME PlaceInv, KeyInv,
         \/ Tick /\ UNCHANGED <<writePolicy, late, until, excused>>
         \/ LateWrite \/ LateStops \/ UNCHANGED pvars
         \/ \E p \in Procs : CountStep(p)
  PROVE  PlaceInv' /\ KeyInv'
<1>1. /\ now' = now \/ now' = now + 1
      /\ UNCHANGED <<live, dirty, gate, st, latest, writePolicy, until, excused>>
      /\ late' \subseteq late
      /\ \A j : j \notin Late => SameAt(store, store', j)
  <2>1. CASE Tick /\ UNCHANGED <<writePolicy, late, until, excused>>
    BY <2>1 DEF Tick, SameAt
  <2>2. CASE LateWrite
    <3>1. PICK e \in late :
            /\ \/ StoreDoes(Drop(store, e.key))
               \/ StoreDoes(flushValue(e.key, e.value, e.expiresAt))
            /\ late' = late \ {e}
            /\ UNCHANGED <<now, live, lock, dirty, dirtyCount, owes, gate, st, latest,
                           writePolicy, until, excused>>
      BY <2>2 DEF LateWrite
    <3>2. PICK k : k = e.key
      OBVIOUS
    <3>3. \A j : j # k => SameAt(store, store', j)
      <4>1. PICK c : c = encodeForStore(e.value, e.expiresAt)
        OBVIOUS
      <4>2. store' = Drop(store, k) \/ store' = Put(store, k, c)
        BY <3>1, <3>2, <4>1 DEF StoreDoes, flushValue
      <4>3. CASE store' = Drop(store, k)
        BY <4>3, MapCells
      <4>4. CASE store' = Put(store, k, c)
        BY <4>4, MapCells
      <4> QED
        BY <4>2, <4>3, <4>4
    <3>4. k \in Late
      BY <3>2 DEF Late
    <3> QED
      BY <3>1, <3>3, <3>4
  <2>3. CASE LateStops
    BY <2>3 DEF LateStops, vars, SameAt
  <2>4. CASE UNCHANGED pvars
    BY <2>4 DEF pvars, vars, SameAt
  <2>5. CASE \E p \in Procs : CountStep(p)
    BY <2>5 DEF CountStep, Count, SameAt
  <2> QED
    BY <2>1, <2>2, <2>3, <2>4, <2>5
<1>2. PlaceInv'
  BY <1>1 DEF PlaceInv, At
<1>3. ASSUME NEW k \in Keys \ excused'
      PROVE  KeyOK(k)'
  <2>1. KeyOK(k) /\ until[k] \in Nat /\ now \in Nat
    BY <1>1, <1>3 DEF KeyInv, PlaceInv
  <2>2. k \notin Late
    BY <2>1 DEF KeyOK, Alone
  <2>3. k \notin Late' /\ SameAt(store, store', k)
    BY <1>1, <2>2 DEF Late
  <2> QED
    BY <1>1, <2>1, <2>3, StillStep
<1> QED
  BY <1>2, <1>3 DEF KeyInv

---------------------------------------------------------------------------
(* Every step keeps the invariant.                                         *)
LEMMA PolicyChangeKeeps ==
  ASSUME PlaceInv, KeyInv, [PNext]_pvars
  PROVE  PlaceInv' /\ KeyInv'
<1>1. CASE \/ Tick /\ UNCHANGED <<writePolicy, late, until, excused>>
           \/ LateWrite \/ LateStops \/ UNCHANGED pvars
           \/ \E p \in Procs : CountStep(p)
  BY <1>1, OutsideKeeps
<1>2. ASSUME NEW p \in Procs, WriteBackStep(p)
      PROVE  PlaceInv' /\ KeyInv'
  BY <1>2, WriteBackKeeps
<1>3. ASSUME NEW p \in Procs, OtherSet(p) \/ OtherGet(p) \/ OtherDelete(p)
      PROVE  PlaceInv' /\ KeyInv'
  BY <1>3, OtherSetStep, OtherGetStep, OtherDeleteStep
<1>4. ASSUME NEW p \in Procs, OtherPurge(p) \/ reconfigureOther(p)
      PROVE  PlaceInv' /\ KeyInv'
  BY <1>4, OtherCacheStep
<1>5. ASSUME NEW p \in Procs,
             reconfigureFlush(p) \/ reconfigureClone(p) \/ reconfigureSwap(p)
      PROVE  PlaceInv' /\ KeyInv'
  BY <1>5, ReconfigureFlushStep, ReconfigureCloneStep, ReconfigureSwapStep
<1> QED
  BY <1>1, <1>2, <1>3, <1>4, <1>5 DEF PNext

(* The invariant, in every state of every behaviour.                       *)
LEMMA PolicyChangeInv == PSpec => [](PlaceInv /\ KeyInv)
<1>1. PInit => PlaceInv /\ KeyInv
  BY InitPlaces
<1>2. (PlaceInv /\ KeyInv) /\ [PNext]_pvars => (PlaceInv /\ KeyInv)'
  BY PolicyChangeKeeps
<1> QED
  BY <1>1, <1>2, PTL DEF PSpec

(* What a clean key means (writeback.go:91, "ensuring we never permanently *)
(* lose a write"): with nobody on the key, what an undisturbed write set   *)
(* is dirty, and then in the cache, or is in the backing store.            *)
CleanKeysStored ==
  \A k \in Keys \ excused :
    Untouched(k) /\ ~Over(k) =>
      IF k \in DOMAIN dirty THEN k \in DOMAIN live /\ live[k].value = latest[k]
                            ELSE StoredValue(k) = latest[k]

(* CleanKeysStored (flushAll, the eviction callback and Set of             *)
(* writeback.go): no mark goes before its value has reached the store, for *)
(* every interleaving of Set, Get, Delete, Flush, Purge, Close, evictions, *)
(* tickers and changes of policy that leaves the key undisturbed.          *)
THEOREM CleanIsInStore == PSpec => []CleanKeysStored
<1>1. PlaceInv /\ KeyInv => CleanKeysStored
  <2> SUFFICES ASSUME KeyInv, NEW k \in Keys \ excused, Untouched(k), ~Over(k)
               PROVE  IF k \in DOMAIN dirty
                        THEN k \in DOMAIN live /\ live[k].value = latest[k]
                        ELSE StoredValue(k) = latest[k]
    BY DEF CleanKeysStored
  <2>1. Calm(live, dirty, store, k, latest[k], until[k])
    BY DEF KeyInv, KeyOK, Traced
  <2> QED
    BY <2>1 DEF Calm, Held, Kept, StoredValue
<1> QED
  BY <1>1, PolicyChangeInv, PTL

(* UndisturbedReads (reconfigureWritePolicy, writeback.go, writethrough.go *)
(* and writearound.go): whatever the number of keys, requests, tickers,    *)
(* values and ttls, with a store that may fail, what an undisturbed Set or *)
(* Delete did to a key is what Gets return until its deadline, through     *)
(* evictions, refills, flushes, purges and every change of policy.         *)
THEOREM ReadsUndisturbed == PSpec => []UndisturbedReads
<1>1. PlaceInv /\ KeyInv => UndisturbedReads
  BY KeyInvMeans
<1> QED
  BY <1>1, PolicyChangeInv, PTL

(* ClosedDurably (Close of writeback.go): when Close has returned, what    *)
(* such a Set or Delete did is in the backing store.                       *)
THEOREM ClosesDurably == PSpec => []ClosedDurably
<1>1. PlaceInv /\ KeyInv => ClosedDurably
  BY KeyInvMeans
<1> QED
  BY <1>1, PolicyChangeInv, PTL
===========================================================================
