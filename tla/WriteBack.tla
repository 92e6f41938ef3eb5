----------------------------- MODULE WriteBack -----------------------------
(***************************************************************************)
(* internal/store/writeback.go: the cache answers at once, the backing     *)
(* store is written later, by a ticker goroutine, by Flush, and by the     *)
(* eviction callback.                                                      *)
(*                                                                         *)
(* A process is an HTTP request (Clients) or the goroutine of flushLoop    *)
(* (Tickers).  A step is what is atomic in the code: one call of the inner *)
(* cache (under its mutex), one operation of the sync.Map dirty, the       *)
(* change of dirtyCount that follows it, one call of the store.            *)
(* The inner cache is any cache.Cache: it may evict any entry it holds.    *)
(* Its eviction callback runs inside Set, so it holds the cache's mutex    *)
(* while it writes the store.                                              *)
(*                                                                         *)
(* The handlers hold entry.mu for reading during a request, and for        *)
(* writing around Close, which therefore runs alone, but for the ticker.   *)
(***************************************************************************)
EXTENDS StoreCodec, FiniteSets

CONSTANTS
  Keys, Values, TTLs,
  NoValue,     \* no value: a key never set, or deleted
  Capacity,    \* of the inner cache
  Clients,     \* requests in progress at once
  Tickers,     \* the flushLoop goroutines: one, or none to leave it out
  Ops,         \* the operations these clients call
  StoreFails,  \* whether a call of the backing store may fail
  MaxTime,     \* bound: the clock stops here
  MaxDrift     \* bound: no Set starts when dirtyCount is this far below 0

ASSUME WBConstants ==
  /\ NoValue \notin Values
  /\ TTLs \subseteq Nat
  /\ Capacity \in Nat \ {0}
  /\ Clients \cap Tickers = {}
  /\ "nobody" \notin Clients \cup Tickers
  /\ Ops \subseteq {"Set", "Get", "Delete", "Flush", "Purge", "Close"}
  /\ StoreFails \in BOOLEAN
  /\ MaxTime \in Nat /\ MaxDrift \in Nat

VARIABLES
  now,         \* time.Now()
  live,        \* the inner cache: key -> value and deadline
  lock,        \* who holds the inner cache's mutex across a callback
  dirty,       \* wb.dirty: key -> deadline of the pending write
  dirtyCount,  \* wb.dirtyCount
  owes,        \* what each process is about to add to dirtyCount
  store,       \* the backing store: key -> encoded value
  gate,        \* entry.mu and wb.done: "open", "closing", "closed"
  st,          \* where each process is, with its local variables
  latest       \* history: the value last set for a key, if not deleted

vars == <<now, live, lock, dirty, dirtyCount, owes, store, gate, st, latest>>

Procs == Clients \cup Tickers
Nobody == "nobody"
Empty == [k \in {} |-> NoValue]

At(p, where) == st[p].at = where
Goto(p, s) == st' = [st EXCEPT ![p] = s]
Idle == [at |-> "idle"]

Drop(f, k) == [x \in DOMAIN f \ {k} |-> f[x]]
Put(f, k, v) == [x \in DOMAIN f \cup {k} |-> IF x = k THEN v ELSE f[x]]

Deadline(ttl) == IF ttl > 0 THEN now + ttl ELSE 0

(* The inner cache serves an entry up to its deadline, that instant too.   *)
Fresh(k) == k \in DOMAIN live /\ (live[k].expiresAt = 0 \/ now <= live[k].expiresAt)

Init ==
  /\ now = 0
  /\ live = Empty /\ lock = Nobody
  /\ dirty = Empty /\ dirtyCount = 0
  /\ owes = [p \in Procs |-> 0]
  /\ store = Empty
  /\ gate = "open"
  /\ st = [p \in Procs |-> Idle]
  /\ latest = [k \in Keys |-> NoValue]

Starts(p, op) ==
  p \in Clients /\ op \in Ops /\ At(p, "idle") /\ owes[p] = 0 /\ gate = "open"

(* Close holds entry.mu for writing: no request is in progress.            *)
NoRequests == \A c \in Clients : At(c, "idle") /\ owes[c] = 0

---------------------------------------------------------------------------
(* One call of the backing store.  It may fail, and then changes nothing.  *)
StoreDoes(new) == store' = new
StoreFailed == StoreFails /\ store' = store

(* flushValue: write the value, or delete it if its deadline has passed.   *)
flushValue(k, v, exp) ==
  IF ttlExpired(exp, now) THEN Drop(store, k)
                          ELSE Put(store, k, encodeForStore(v, exp))

Owe(p, n) == owes' = [owes EXCEPT ![p] = n] /\ UNCHANGED dirtyCount

(* dirty.LoadAndDelete(k): p has a decrement to do if the mark was there.  *)
LoadAndDelete(p, k) ==
  /\ dirty' = Drop(dirty, k)
  /\ Owe(p, IF k \in DOMAIN dirty THEN -1 ELSE 0)

(* Mutant: the increment does not look at what LoadOrStore found.          *)
LoadOrStoreCountsAll(p, k, exp) ==
  /\ dirty' = IF k \in DOMAIN dirty THEN dirty ELSE Put(dirty, k, exp)
  /\ Owe(p, 1)

(* dirty.LoadOrStore(k, exp): an increment to do if it was not there.      *)
LoadOrStore(p, k, exp) ==
  IF k \in DOMAIN dirty THEN UNCHANGED <<dirty, dirtyCount, owes>>
  ELSE dirty' = Put(dirty, k, exp) /\ Owe(p, 1)

(* dirtyCount.Add: the next thing that p does.                             *)
Count(p) ==
  /\ owes[p] # 0
  /\ dirtyCount' = dirtyCount + owes[p]
  /\ owes' = [owes EXCEPT ![p] = 0]
  /\ UNCHANGED <<now, live, lock, dirty, store, gate, st, latest>>

---------------------------------------------------------------------------
(* inner.Set(k, v, ttl), for Set and for the refill of Get; then is where  *)
(* the caller goes on.                                                     *)
Full(k) == k \notin DOMAIN live /\ Cardinality(DOMAIN live) >= Capacity

Entry(v, exp) == [value |-> v, expiresAt |-> exp]

Record(k, v, then) ==
  latest' = IF then.at = "mark" THEN [latest EXCEPT ![k] = v] ELSE latest

InsertFits(p, k, v, ttl, then) ==
  /\ lock = Nobody /\ ~Full(k)
  /\ live' = Put(live, k, Entry(v, Deadline(ttl)))
  /\ Record(k, v, then)
  /\ Goto(p, then)
  /\ UNCHANGED <<now, lock, dirty, dirtyCount, owes, store, gate>>

InsertEvictsClean(p, k, v, ttl, then) ==
  /\ lock = Nobody /\ Full(k)
  /\ \E x \in DOMAIN live \ DOMAIN dirty :
       live' = Put(Drop(live, x), k, Entry(v, Deadline(ttl)))
  /\ Record(k, v, then)
  /\ Goto(p, then)
  /\ UNCHANGED <<now, lock, dirty, dirtyCount, owes, store, gate>>

(* The callback finds the victim dirty: it takes the dirty mark and keeps  *)
(* the mutex until EvictFlush.                                             *)
InsertEvictsDirty(p, k, v, ttl, then) ==
  /\ lock = Nobody /\ Full(k)
  /\ \E x \in DOMAIN live \cap DOMAIN dirty :
       /\ live' = Drop(live, x)
       /\ LoadAndDelete(p, x)
       /\ Goto(p, [at |-> "evict", victim |-> x, old |-> live[x].value,
                   expiresAt |-> dirty[x], key |-> k,
                   new |-> Entry(v, Deadline(ttl)), then |-> then])
  /\ lock' = p
  /\ UNCHANGED <<now, store, gate, latest>>

Insert(p, k, v, ttl, then) ==
  \/ InsertFits(p, k, v, ttl, then)
  \/ InsertEvictsClean(p, k, v, ttl, then)
  \/ InsertEvictsDirty(p, k, v, ttl, then)

(* Mutant: the mutex is not released.                                      *)
EvictFlushKeepsLock(p) ==
  /\ At(p, "evict")
  /\ LET s == st[p]
     IN /\ StoreDoes(flushValue(s.victim, s.old, s.expiresAt))
        /\ live' = Put(live, s.key, s.new)
        /\ Record(s.key, s.new.value, s.then)
        /\ Goto(p, s.then)
  /\ UNCHANGED <<now, lock, dirty, dirtyCount, owes, gate>>

(* The rest of the callback and of inner.Set: the victim's last value goes *)
(* to the store, a failure is logged, and the new entry is added.          *)
EvictFlush(p) ==
  /\ At(p, "evict")
  /\ LET s == st[p]
     IN /\ \/ StoreDoes(flushValue(s.victim, s.old, s.expiresAt))
           \/ StoreFailed
        /\ live' = Put(live, s.key, s.new)
        /\ Record(s.key, s.new.value, s.then)
        /\ Goto(p, s.then)
  /\ lock' = Nobody
  /\ UNCHANGED <<now, dirty, dirtyCount, owes, gate>>

---------------------------------------------------------------------------
(* Set: inner.Set, then the dirty mark.                                    *)
SetInner(p) ==
  /\ Starts(p, "Set") /\ dirtyCount > -MaxDrift
  /\ \E k \in Keys, v \in Values, ttl \in TTLs :
       Insert(p, k, v, ttl, [at |-> "mark", key |-> k, ttl |-> ttl])

SetMark(p) ==
  /\ At(p, "mark")
  /\ LET s == st[p]
     IN /\ LoadOrStore(p, s.key, Deadline(s.ttl))
        /\ Goto(p, IF s.key \in DOMAIN dirty
                     THEN [at |-> "remark", key |-> s.key, expiresAt |-> Deadline(s.ttl)]
                     ELSE Idle)
  /\ UNCHANGED <<now, live, lock, store, gate, latest>>

(* The mark was there: dirty.Store renews it, and counts nothing.          *)
SetRemark(p) ==
  /\ At(p, "remark")
  /\ dirty' = Put(dirty, st[p].key, st[p].expiresAt)
  /\ Goto(p, Idle)
  /\ UNCHANGED <<now, live, lock, dirtyCount, owes, store, gate, latest>>

---------------------------------------------------------------------------
(* Get: a miss reads the store and fills the cache.                        *)
GetInner(p) ==
  /\ Starts(p, "Get") /\ lock = Nobody
  /\ \E k \in Keys :
       /\ live' = IF Fresh(k) THEN live ELSE Drop(live, k)
       /\ Goto(p, IF Fresh(k) THEN Idle ELSE [at |-> "load", key |-> k])
  /\ UNCHANGED <<now, lock, dirty, dirtyCount, owes, store, gate, latest>>

GetLoad(p) ==
  /\ At(p, "load")
  /\ LET k == st[p].key
     IN \/ /\ k \notin DOMAIN store \/ StoreFails
           /\ Goto(p, Idle)
        \/ /\ k \in DOMAIN store
           /\ LET d == decodeFromStore(store[k])
              IN Goto(p, IF ttlExpired(d.expiresAt, now)
                           THEN [at |-> "loadedExpired", key |-> k]
                           ELSE [at |-> "fill", key |-> k, value |-> d.value,
                                 ttl |-> ttlLeft(d.expiresAt, now)])
  /\ UNCHANGED <<now, live, lock, dirty, dirtyCount, owes, store, gate, latest>>

GetDropsExpired(p) ==
  /\ At(p, "loadedExpired")
  /\ StoreDoes(Drop(store, st[p].key)) \/ StoreFailed
  /\ Goto(p, Idle)
  /\ UNCHANGED <<now, live, lock, dirty, dirtyCount, owes, gate, latest>>

GetFill(p) ==
  /\ At(p, "fill")
  /\ Insert(p, st[p].key, st[p].value, st[p].ttl, Idle)

---------------------------------------------------------------------------
(* Delete: the dirty mark, the store, the cache.                           *)
DeleteMark(p) ==
  /\ Starts(p, "Delete")
  /\ \E k \in Keys :
       /\ LoadAndDelete(p, k)
       /\ Goto(p, [at |-> "deleteStore", key |-> k])
  /\ UNCHANGED <<now, live, lock, store, gate, latest>>

DeleteStore(p) ==
  /\ At(p, "deleteStore")
  /\ StoreDoes(Drop(store, st[p].key)) \/ StoreFailed
  /\ Goto(p, [at |-> "deleteInner", key |-> st[p].key])
  /\ UNCHANGED <<now, live, lock, dirty, dirtyCount, owes, gate, latest>>

DeleteInner(p) ==
  /\ At(p, "deleteInner") /\ lock = Nobody
  /\ live' = Drop(live, st[p].key)
  /\ latest' = [latest EXCEPT ![st[p].key] = NoValue]
  /\ Goto(p, Idle)
  /\ UNCHANGED <<now, lock, dirty, dirtyCount, owes, store, gate>>

---------------------------------------------------------------------------
(* flushAll.  dirty.Range visits every key that is there all the time, and *)
(* a key that comes or goes meanwhile or not: it looks at every key once,  *)
(* in any order, and skips the ones it does not find.                      *)
Ranging(todo, then) == [at |-> "range", todo |-> todo, then |-> then]

FlushStart(p, then) == Goto(p, Ranging(Keys, then))

FlushVisit(p) ==
  /\ At(p, "range")
  /\ \E k \in st[p].todo :
       LET rest == Ranging(st[p].todo \ {k}, st[p].then)
       IN Goto(p, IF k \in DOMAIN dirty
                    THEN [at |-> "take", key |-> k, expiresAt |-> dirty[k], rest |-> rest]
                    ELSE rest)
  /\ UNCHANGED <<now, live, lock, dirty, dirtyCount, owes, store, gate, latest>>

FlushTake(p) ==
  /\ At(p, "take")
  /\ LoadAndDelete(p, st[p].key)
  /\ Goto(p, IF st[p].key \in DOMAIN dirty THEN [st[p] EXCEPT !.at = "peek"]
                                          ELSE st[p].rest)
  /\ UNCHANGED <<now, live, lock, store, gate, latest>>

FlushPeek(p) ==
  /\ At(p, "peek") /\ lock = Nobody
  /\ LET s == st[p]
     IN /\ live' = IF Fresh(s.key) THEN live ELSE Drop(live, s.key)
        /\ Goto(p, CASE Fresh(s.key) ->
                          [at |-> "write", key |-> s.key, value |-> live[s.key].value,
                           expiresAt |-> s.expiresAt, rest |-> s.rest]
                     [] ~Fresh(s.key) /\ ttlExpired(s.expiresAt, now) ->
                          [s EXCEPT !.at = "flushExpired"]
                     [] OTHER -> s.rest)
  /\ UNCHANGED <<now, lock, dirty, dirtyCount, owes, store, gate, latest>>

FlushDropsExpired(p) ==
  /\ At(p, "flushExpired")
  /\ StoreDoes(Drop(store, st[p].key)) \/ StoreFailed
  /\ Goto(p, st[p].rest)
  /\ UNCHANGED <<now, live, lock, dirty, dirtyCount, owes, gate, latest>>

FlushWrites(p) ==
  /\ At(p, "write")
  /\ StoreDoes(flushValue(st[p].key, st[p].value, st[p].expiresAt))
  /\ Goto(p, st[p].rest)
  /\ UNCHANGED <<now, live, lock, dirty, dirtyCount, owes, gate, latest>>

FlushWriteFails(p) ==
  /\ At(p, "write")
  /\ StoreFailed
  /\ Goto(p, [st[p] EXCEPT !.at = "requeue"])
  /\ UNCHANGED <<now, live, lock, dirty, dirtyCount, owes, gate, latest>>

(* Mutant: a failed flush is not retried.                                  *)
FlushRequeuesNothing(p) ==
  /\ At(p, "requeue")
  /\ Goto(p, st[p].rest)
  /\ UNCHANGED <<now, live, lock, dirty, dirtyCount, owes, store, gate, latest>>

FlushRequeues(p) ==
  /\ At(p, "requeue")
  /\ LoadOrStore(p, st[p].key, st[p].expiresAt)
  /\ Goto(p, st[p].rest)
  /\ UNCHANGED <<now, live, lock, store, gate, latest>>

FlushDone(p) ==
  /\ At(p, "range") /\ st[p].todo = {}
  /\ Goto(p, st[p].then)
  /\ UNCHANGED <<now, live, lock, dirty, dirtyCount, owes, store, gate, latest>>

flushAll(p) ==
  \/ FlushVisit(p) \/ FlushTake(p) \/ FlushPeek(p) \/ FlushDropsExpired(p)
  \/ FlushWrites(p) \/ FlushWriteFails(p) \/ FlushRequeues(p) \/ FlushDone(p)

---------------------------------------------------------------------------
(* Who calls flushAll: Flush, Purge and Close, and the ticker.             *)
Flush(p) ==
  /\ Starts(p, "Flush")
  /\ FlushStart(p, Idle)
  /\ UNCHANGED <<now, live, lock, dirty, dirtyCount, owes, store, gate, latest>>

PurgeFlush(p) ==
  /\ Starts(p, "Purge")
  /\ FlushStart(p, [at |-> "purge"])
  /\ UNCHANGED <<now, live, lock, dirty, dirtyCount, owes, store, gate, latest>>

PurgeInner(p) ==
  /\ At(p, "purge") /\ lock = Nobody
  /\ live' = Empty
  /\ Goto(p, Idle)
  /\ UNCHANGED <<now, lock, dirty, dirtyCount, owes, store, gate, latest>>

(* Mutant: Close does not flush.                                           *)
CloseFlushNothing(p) ==
  /\ Starts(p, "Close") /\ NoRequests
  /\ gate' = "closing"
  /\ Goto(p, [at |-> "close"])
  /\ UNCHANGED <<now, live, lock, dirty, dirtyCount, owes, store, latest>>

CloseFlush(p) ==
  /\ Starts(p, "Close") /\ NoRequests
  /\ gate' = "closing"
  /\ FlushStart(p, [at |-> "close"])
  /\ UNCHANGED <<now, live, lock, dirty, dirtyCount, owes, store, latest>>

CloseDone(p) ==
  /\ At(p, "close")
  /\ gate' = "closed"
  /\ Goto(p, Idle)
  /\ UNCHANGED <<now, live, lock, dirty, dirtyCount, owes, store, latest>>

(* Mutant: no flush when dirtyCount says that there is nothing to flush.   *)
TickerFiresIfCounted(p) ==
  /\ p \in Tickers /\ At(p, "idle") /\ owes[p] = 0 /\ dirtyCount > 0
  /\ FlushStart(p, Idle)
  /\ UNCHANGED <<now, live, lock, dirty, dirtyCount, owes, store, gate, latest>>

(* flushLoop: when done is closed and the ticker has fired too, select     *)
(* takes either.                                                           *)
TickerFires(p) ==
  /\ p \in Tickers /\ At(p, "idle") /\ owes[p] = 0
  /\ FlushStart(p, Idle)
  /\ UNCHANGED <<now, live, lock, dirty, dirtyCount, owes, store, gate, latest>>

TickerStops(p) ==
  /\ p \in Tickers /\ At(p, "idle") /\ owes[p] = 0 /\ gate = "closed"
  /\ Goto(p, [at |-> "stopped"])
  /\ UNCHANGED <<now, live, lock, dirty, dirtyCount, owes, store, gate, latest>>

Tick ==
  /\ now < MaxTime
  /\ now' = now + 1
  /\ UNCHANGED <<live, lock, dirty, dirtyCount, owes, store, gate, st, latest>>

(* The steps of a process that is in the middle of something.              *)
Continue(p) ==
  /\ owes[p] = 0
  /\ \/ EvictFlush(p) \/ SetMark(p) \/ SetRemark(p)
     \/ GetLoad(p) \/ GetDropsExpired(p) \/ GetFill(p)
     \/ DeleteStore(p) \/ DeleteInner(p)
     \/ flushAll(p) \/ PurgeInner(p) \/ CloseDone(p)

Call(p) ==
  \/ SetInner(p) \/ GetInner(p) \/ DeleteMark(p)
  \/ Flush(p) \/ PurgeFlush(p) \/ CloseFlush(p)

Next ==
  \/ Tick
  \/ \E p \in Procs :
       Count(p) \/ Call(p) \/ Continue(p) \/ TickerFires(p) \/ TickerStops(p)

Spec == Init /\ [][Next]_vars

(* Goroutines run, the ticker keeps firing, and a store that is asked for  *)
(* the same key again and again does not fail every time.                  *)
FairSpec ==
  /\ Spec
  /\ \A p \in Procs :
       /\ WF_vars(Count(p)) /\ WF_vars(Continue(p))
       /\ \A k \in Keys : SF_vars(FlushWrites(p) /\ st[p].key = k)
  /\ \A p \in Tickers : WF_vars(TickerFires(p))

---------------------------------------------------------------------------
Locals ==
  LET then == {Idle} \cup [at : {"mark"}, key : Keys, ttl : TTLs]
      after == {Idle, [at |-> "purge"], [at |-> "close"]}
      rest == [at : {"range"}, todo : SUBSET Keys, then : after]
  IN after \cup {[at |-> "stopped"]} \cup then \cup rest
     \cup [at : {"evict"}, victim : Keys, old : Values, expiresAt : Nat, key : Keys,
           new : [value : Values, expiresAt : Nat], then : then]
     \cup [at : {"remark"}, key : Keys, expiresAt : Nat]
     \cup [at : {"load", "loadedExpired", "deleteStore", "deleteInner"}, key : Keys]
     \cup [at : {"fill"}, key : Keys, value : Values, ttl : Nat]
     \cup [at : {"take", "peek", "flushExpired"}, key : Keys, expiresAt : Nat, rest : rest]
     \cup [at : {"write", "requeue"}, key : Keys, value : Values, expiresAt : Nat, rest : rest]

(* Type invariant.  The write-back cache's mutex is held across a callback *)
(* by the process that is in it.                                           *)
TypeOK ==
  /\ now \in Nat
  /\ DOMAIN live \subseteq Keys
  /\ live \in [DOMAIN live -> [value : Values, expiresAt : Nat]]
  /\ DOMAIN dirty \subseteq Keys /\ dirty \in [DOMAIN dirty -> Nat]
  /\ dirtyCount \in Int /\ owes \in [Procs -> {-1, 0, 1}]
  /\ DOMAIN store \subseteq Keys /\ store \in [DOMAIN store -> Stored(Values, Nat)]
  /\ gate \in {"open", "closing", "closed"}
  /\ st \in [Procs -> Locals]
  /\ latest \in [Keys -> Values \cup {NoValue}]
  /\ lock \in Procs \cup {Nobody}
  /\ \A p \in Procs : At(p, "evict") <=> lock = p

Quiet == \A p \in Procs : At(p, "idle") \/ At(p, "stopped")

StoredValue(k) ==
  IF k \in DOMAIN store THEN decodeFromStore(store[k]).value ELSE NoValue

(* What a Get of k returns when nothing else runs and nothing expires.     *)
Reads(k) == IF k \in DOMAIN live THEN live[k].value ELSE StoredValue(k)

(* With nothing in progress a Get returns the value last set, or nothing   *)
(* for a key never set or deleted: no sequence of evictions, refills,      *)
(* flushes and purges of the write-back cache loses or revives a value.    *)
ReadsLatest == Quiet => \A k \in Keys : Reads(k) = latest[k]

Holds(p, k) == "key" \in DOMAIN st[p] /\ st[p].key = k

(* While the store is open, a cached value without a deadline that is not  *)
(* in the backing store is dirty, or some process is on its way to mark    *)
(* it, write it or requeue it: the take-peek-write-requeue of one flusher  *)
(* never drops the only trace of a write.  (writeback.go:91: "Any          *)
(* concurrent Set will re-mark dirty, ensuring we never permanently lose a *)
(* write."  With a second flusher it does not hold: the ticker may write   *)
(* what it peeked after a Flush has written what was set since.)           *)
CleanIsStored ==
  gate = "open" =>
    \A k \in DOMAIN live \ DOMAIN dirty :
      \/ live[k].expiresAt # 0
      \/ StoredValue(k) = live[k].value
      \/ \E p \in Procs : Holds(p, k)

Uncounted(n) == {p \in Procs : owes[p] = n}

(* However Set, Delete, eviction and flushes interleave: once each process *)
(* that is between an operation of the map and its count has counted,      *)
(* dirtyCount reports no dirty key that is not there, and until then it is *)
(* too high by no more than the marks taken and not yet counted.  So no    *)
(* key is counted twice, and no key that went stays counted.               *)
CountNeverAbove ==
  dirtyCount + Cardinality(Uncounted(1))
    <= Cardinality(DOMAIN dirty) + Cardinality(Uncounted(-1))

(* When every Set has a ttl, no entry outlives it by losing its deadline   *)
(* on the way from the cache to the store and back: through flushValue,    *)
(* eviction and the refill of Get, a deadline stays at most a ttl away.    *)
DeadlinesKept ==
  0 \notin TTLs =>
    LET Ahead(exp) == exp # 0 /\ \E ttl \in TTLs : exp <= now + ttl
    IN /\ \A k \in DOMAIN live : Ahead(live[k].expiresAt)
       /\ \A k \in DOMAIN store : Ahead(decodeFromStore(store[k]).expiresAt)

(* While the store is open, a value set reaches the backing store or is    *)
(* overwritten, however often the store fails in between.                  *)
EventuallyStored ==
  \A k \in Keys, v \in Values :
    latest[k] = v ~> StoredValue(k) = v \/ latest[k] # v \/ gate # "open"
===========================================================================
