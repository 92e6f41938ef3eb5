# A TLA+ model of InMemoryCache

The repository is a cache engine written in Go (`src/cache-engine`): three
eviction policies behind one interface, write policies that put a backing store
behind the cache, a coherence bus between cache nodes, and an HTTP server that
creates stores from these parts, reconfigures them and shuts them down. The
modules in this directory model its stateful core. TLC checks them on small
instances, TLAPS proves most of the invariants, the refinement of the cache
contract and the choice of victims for every instance.
`PROJECT.json` gives, for every definition, the lines of code it stands for.

## 1. The system

All paths are below `src/cache-engine`.

| Component | State | Operations | Works with |
|---|---|---|---|
| Cache contract, `internal/cache/cache.go` | - | `Get Set Delete Peek Purge Len Keys Stats SetEvictionCallback` | implemented by the three caches, by the sharded cache and by the write policies |
| LRU, `internal/cache/lru` | `items`, `head`, `tail`, pointers in the nodes, byte count | the contract | eviction callback, called under the cache's mutex |
| LFU, `internal/cache/lfu` | `items`, `freqList`, `minFreq` | the contract | as LRU, uses the generic list |
| ARC, `internal/cache/arc` | lists `t1 t2 b1 b2`, target `p`, `itemMap` | the contract; `Set` has seven cases | as LRU, uses the generic list |
| Generic list, `internal/cache/list` | head, tail and length; `prev` and `next` in the nodes | push, remove, move | LFU, ARC |
| Sharded cache, `internal/cache/sharded` | an array of caches | routes by hash; `Len Keys Stats Purge` visit all shards | wraps a base cache |
| Write-back, `internal/store/writeback.go` | `dirty` (a `sync.Map`), `dirtyCount`, ticker goroutine | `Set Get Delete Flush Purge Close` and the eviction callback | base cache below, store behind, handlers above |
| Write-through and write-around | none of their own | `Set Get Delete Purge` | the same |
| Store codec, `internal/store/codec.go` | - | a value with a deadline is put in an envelope | all write policies |
| Backing stores (memory, sqlite) | key to bytes | `Get Set Delete`, each may fail | write policies |
| Bus and coordinator, `internal/coherence` | subscribers, one buffered channel each; one goroutine per node | `Set Publish Subscribe Unsubscribe Close` | the nodes' caches, SSE clients |
| Handlers and store entries, `api/handler.go`, `api/store_factory.go` | `h.mu` around a map of entries; each entry a lock, a cache, a policy | operate on, reconfigure, check readiness, scrape metrics, shut down | everything above |
| SSE streams, `api/sse.go` | one goroutine per client | subscribe, forward, leave; read a store every tick | bus, store entries |
| Server process, `cmd/server/main.go` | the listener, the backing store | signal, drain, clean up, exit | handlers, bus, backing store |
| TTL wheel, `internal/ttl` | a heap of deadlines, a timer, a one-slot channel; one goroutine | schedule, cancel, stop | used by no cache of the server |
| Statistics, `internal/stats` | counters, a sliding window | record, snapshot | caches, handlers |
| Rate limiter, `api/rate_limiter.go` | a counter per window, in memory or sqlite | allow | middleware |
| Benchmark jobs, `api/benchmark_jobs.go` | jobs, one active, a JSON file | start, progress, finish, load | runner |
| Workloads, authentication, middleware, tracing, other commands, web | - | - | - |

### What is hard in it

* **Sequential, but with long histories.** The three caches hold one mutex
  during each call. What can go wrong takes many calls: `Delete` and expiry
  remove entries outside the policy's own algorithm, leaving `minFreq` of LFU
  stale and ARC's lists at sizes the algorithm's paper does not consider.
* **Several small atomic steps.** A write-back `Set` is a call of the cache and
  two operations of a `sync.Map`; a flush is a `Range`, a `LoadAndDelete`, a
  `Peek`, a store call and possibly a requeue. Requests, evictions and the
  ticker interleave between them, and the store may fail at any call.
* **Two copies.** Write-through and write-around change store and cache in two
  steps with no lock around both.
* **Changing the policy of a store in use.** The old cache is flushed, cloned
  and closed, which flushes again, while its ticker runs on; the clone must keep
  values and deadlines.
* **Locks and the way out.** Handlers take `h.mu` and `entry.mu` in several
  orders, some without `defer`; streams read for ever; the drain may time out
  with handlers still running when `Shutdown` takes their caches away.
* **Visits of all shards**, one after the other, while others change them.
* **Files and crashes.** Benchmark jobs are saved by a goroutine that outlives
  its request, and by `Shutdown`, through one temporary file.
* **Messages.** The bus drops an event when a channel is full, closes channels
  while others publish, and two nodes may write a key at once.
* **Deadlines**, which travel from cache to dirty map to envelope to store and
  back, and may pass between any two steps.

`PROJECT.json` lists these hazards at their lines, with the properties that
would catch them.

### What makes each part correct

* A cache never holds more than its capacity, returns the value last set,
  evicts at most one entry per `Set`, only for a new key, the one the policy
  names, and reports it. Its byte count is the size of what it holds.
* ARC: the lists and the map agree; `0 <= p <= capacity`; the size bounds hold.
* Write-back: a write is readable at once, is never lost, reaches the store in
  the end and at the latest in `Close`; `DirtyCount` is what is pending; no
  deadline gets lost.
* A change of policy loses no write and no deadline that nobody else disturbed.
* Write-through and write-around: the cache shows nothing the store refused; a
  write not raced by another is what later reads see.
* Coherence: two nodes hold a key only while an invalidation is on its way;
  nobody sends on a closed channel; nobody waits for ever.
* TTL wheel: the goroutine never sleeps past a deadline; what is due expires.
* Rate limiter: bursts are bounded wherever the windows lie; waiting as long as
  `Retry-After` says is enough.
* Sharded: the shards together keep the capacity; a visit of all of them lists
  what was there throughout and nothing that never was.
* Server: what was acknowledged is stored at exit, no lock outlives its request,
  requests end, and the shutdown ends whatever the clients do.
* Benchmark jobs: one at a time, the slot is always given back, and what a
  client was told survives a restart.

## 2. The modules

| Module | Code | State and actions |
|---|---|---|
| `CacheTypes` | `cache.go`, `stats.go` | The clock, deadlines and `ret`, the outcome of the last call: what it returned, which eviction callbacks it made, which counters it moved. |
| `BoundedCache` | `cache.go` | The contract as an abstract machine: a map of at most `Capacity` live entries. |
| `ARC` | `arc.go` | `lists` are the four linked lists (front first), `itemMap` the map to nodes. One action per branch: `SetLive`, `SetGhost1`, `SetGhost2`, `NewDropsGhost1`, `NewDropsT1`, `NewReplaces`, `NewFits`; `Get`, `Peek`, `Delete` with their expiry; `Purge`. |
| `LRU` | `lru.go` | `list` holds head, tail, `prev` and `next` as in the code; `pushFront`, `removeNode`, `moveToFront` are translated pointer by pointer. `recency` is a history variable the pointers are compared with. |
| `LinkedList` | `list.go` | `New`, `Back`, `PushFront`, `Remove` on head, tail, length, `prev` and `next`, and `IsList`, which reads the pointers from both ends. |
| `LFU` | `lfu.go` | `freqList` (lists of `LinkedList`), `minFreq`, `items`; `incrementFreq`, `removeNode`, `evictOne`. `recency` is history, as in `LRU`. |
| `BaseCache` | `newBaseCache`, `store_factory.go` | Chooses one of the three by name and composes them over the shared clock, reply and byte count; states what all of them owe. |
| `StoreCodec` | `codec.go` | Raw values and envelopes, `ttlExpired`, the ttl left on a refill. |
| `WriteBack` | `writeback.go` | Processes (requests and the ticker) with a program counter. A step is what is atomic in the code: one call of the inner cache, one operation of `dirty`, one `dirtyCount.Add`, one call of the store. Between an operation of `dirty` and its `Add` a process has a count to do (`owes`). An eviction callback holds the inner cache's mutex over its store call (`lock`). `latest` is a history variable. |
| `StoreEntry` | `writethrough.go`, `writearound.go`, `handler.go` | Requests under either policy, store failures, `reconfigureWritePolicy` with the clone it makes. |
| `PolicyChange` | `handler.go`, `writeback.go`, `writethrough.go`, `writearound.go` | Extends `WriteBack`: the store also runs under the other policies, whose requests are one step each here, and changes between all three. `reconfigureFlush`, `reconfigureClone` and `reconfigureSwap` follow the code; `late` is what the tickers of all closed caches may still write. `until` and `excused` are history. |
| `Server` | `handler.go`, `sse.go`, `metrics.go`, `main.go` | `mu` and `entryMu` are `sync.RWMutex`es with their readers, writer and waiting writer. Each request is a process; so are the tickers and `main`. A step is what happens between two points at which a goroutine may wait. `cache` is which cache object an entry has, or none; of the data there is, for each acknowledged `Set`, whether it is stored, dirty (`unsaved`), in the ticker's hand (`inHand`) or left to the ticker of a closed cache (`late`). |
| `Sharded` | `sharded.go` | `held`, the keys in the shards, and `visit`, the local variables of a call that visits them all, one shard a step; `always` and `ever` are its history. |
| `Coherence` | `bus.go`, `coordinator.go`, `sse.go` | `Publish` takes the read lock and sends or drops, one subscriber per step; a goroutine per node receives and then deletes; `Close` and leaving watchers unsubscribe and close channels. |
| `TTLWheel` | `wheel.go` | `left` is the heap with its index, as the time left to each deadline; the goroutine's reading of the heap, its `Reset`, its `select` and its callbacks are separate steps, and so is a caller's send on `trigger` after it unlocks. Time left counts down, so time needs no bound. |
| `RateLimiter` | `rate_limiter.go`, `middleware.go` | `buckets` or `rows`, and `passed`, the history bursts are measured by. |
| `BenchmarkJobs` | `handler.go`, `benchmark_jobs.go` | Extends `RateLimiter`, which a request passes first. Requests, the job's goroutine and `Shutdown` are processes; a job is stored and the oldest pruned in two steps, a save is four (marshal, open and truncate, write, rename) on `tmp` and `path`. `acked`, `ended`, `atRisk` and `most` are history variables. |
| `MC*` | - | Values for the constants, and symmetry sets. |
| `BaseCacheProofs`, `WriteBackProofs`, `StoreEntryProofs`, `ServerProofs`, `ShardedProofs`, `CoherenceProofs`, `TTLWheelProofs`, `BenchmarkJobsProofs` | - | Theorems, section 5. |

`BaseCache` composes `ARC`, `LRU` and `LFU`; `WriteBack` and `StoreEntry` use
`StoreCodec` and an inner cache that is any cache fulfilling the contract: to
make room it may evict any entry, so what holds there holds for each policy.
`PolicyChange` composes `WriteBack` with the other write policies, and `Server`
puts their flush and close between the handlers and the exit of the process.

### Abstractions

* Values are model values, or numbers of bytes where sizes matter. No value is
  empty: ARC treats an empty value differently, see section 6.
* A ttl of 0 is "no deadline"; negative ones are refused by the handlers. Time
  advances in units, and two calls may fall into the same unit.
* `hitCount`, `createdAt`, latencies and log messages are left out. So are
  `Keys`, `Len` and `Snapshot`, which read under the lock and change nothing,
  except in `Sharded`, where they hold no lock from end to end.
* In `Server` a flush is one step that gets any part of what is dirty into the
  backing store: every write may fail, and what the ticker has taken is passed by.
  The ticker takes and writes in two steps. Every `Set` has a key of its own there,
  and no key is deleted or evicted: what those do is in `WriteBack` and
  `PolicyChange`. Requests that are answered
  before they reach a store (validation, authentication, rate limit) are left
  out. "read" stands for the handlers that take `entry.mu` as `HandleSet` does
  and promise nothing.
* In `PolicyChange` a request under write-through or write-around is one step;
  their overlaps are in `StoreEntry`.
* In `Sharded` an entry has one byte, so that one sum stands for `Len` and for
  `BytesStored`.
* In `TTLWheel` the heap library is taken to do what it says: `w.h[0]` has the
  first deadline. An hour is longer than the ttls used. `Schedule` reads the clock
  before it takes the mutex: what is left of the ttl then may be anything.
* In `BenchmarkJobs` "over" stands for "done" and "error": a panic that is
  recovered writes the status and saves just as a normal return does. A save may
  be overwritten by another with the same name; writing over a file that another
  save has already filled leaves the new data, or, if that is shorter, a file
  that cannot be parsed. A limiter that is switched off is left out, and a
  failing sqlite transaction (503) changes nothing.
* In `Coherence` a node's cache is the set of keys it holds; values do not
  matter, since an invalidated copy is deleted and not updated.

## 3. The runs

Bounds are constants named in the modules: `MaxTime` stops the clock, `MaxFreq`
stops counting uses in LFU, `MaxDrift` stops new write-back `Set`s once
`dirtyCount` has fallen that far below zero, `MaxLate` is how many writes closed
caches may have left when the policy changes once more, `MaxSlip` is the time that may pass
between the wheel's reading and its `Reset`, `MaxCount` the requests of a client
in one window, and `MaxJobs` stands for the 50 of the code.

| Run | Instance | What it shows |
|---|---|---|
| `base_contract` | 3 keys, capacity 2, values of 1 and 2 bytes, ttl 0 or 1, time to 2, all policies | `ImplementsPromise`: each cache refines `BoundedCache`. `BytesStoredExact`. Three keys fill the cache and its ghost lists; with time to 2 an entry is served at its deadline and expired after it. |
| `base_structure` | 7 keys, capacity 3, all policies | `TypeOK`, `ListsMatchMap`, `ListBounds` of ARC: seven keys exceed `2 * capacity`, so every list can fill, and `Delete` empties lists behind the algorithm. `ListIsRecencyOrder`, `FrequenciesExact`, `EvictsTheRightOne` of LRU and LFU: capacity 3 has a head, a middle and a tail; frequencies to 4 allow gaps between lists. Deadlines are in `base_contract`. |
| `wb_concurrent` | 2 keys, capacity 1, one request (all operations but `Close`), the ticker, failing store, every value with a ttl, time to 2, no request in `flushAll` at the last instant (`NoLateFlush`) | `TypeOK` with the lock discipline; `CountNeverAbove`, with the map and the counter changed in separate steps; `DeadlinesKept`: no deadline is lost or put further than a ttl away (with one ttl, a deadline that is too early, or an older one, is not noticed); no deadlock. Capacity 1 makes each second key an eviction. |
| `policy_change` | 2 keys, capacity 1, one request, the ticker, all operations but `Flush`, all policies, one late write at a change, every value with a ttl, time to 1 | `UndisturbedReads`: through evictions, refills, flushes, purges, changes of policy and the late writes of old tickers, a write that met nobody on its key is what reads see until its deadline. `ClosedDurably`: and is in the store after `Close`. With time to 1 a value reaches its deadline between any two steps; times after it, failing stores and more of everything are left to the theorems. |
| `wb_ticker` | 1 key, 2 values, two requests (`Set`, `Delete`, `Close`), the ticker, failing store, no ttl | `CleanIsStored`: while two requests set and delete the key under its hands, the take-peek-write-requeue of the flusher keeps a trace of each write. `EventuallyStored`: it reaches the store, however often a flush fails. No eviction and no refill here; with them the first fails, see section 6. |
| `store_entry` | 2 keys, capacity 1, two requests, both policies, failing store | `NeverAheadOfStore`, `ReadsLastWrite`. |
| `server` | one store with a backing store, one without; a config request, a request that sets, scrapes or asks for readiness, and a stats stream; write-through or write-back at first, changed to write-through or to an unknown policy | `WritesSurvive`, with failing flushes and a ticker, but for what a closed cache left to its ticker; `PanicsOnlyIfForced`, `LocksGivenBack`; `RequestsEnd` and `ShutdownEnds`. Three requests suffice for a reader, a waiting writer and one who must wait behind it. |
| `sharded` | 5 keys in 2 shards, capacity 4, snapshots cut at 1, one caller of everything and a second who purges | `VisitsExact`, `WithinCapacity`; one shard has more keys than it can hold. |
| `coherence` | 1 key, 2 nodes, 1 watcher, 2 writers, buffer 1 | `SendsAreSafe`, `CopiesAreTransient`, `CopiesConverge`. Buffer 1 makes drops happen; two writers race on the key. Keys do not interact but through channel space. |
| `ttl_wheel` | 2 keys, 2 callers, ttl 1 or 3 | `NoLostWakeup`: a `Schedule` at any point of the goroutine's loop reaches it. `DueExpires`: though a stream of `Schedule`s keeps `trigger` ready, and however much of its ttl a `Schedule` loses before it has the mutex. |
| `benchmark_jobs` | 2 requests, 1 job kept, failing saves, crashes, `Shutdown`, one client, limit 1, both limiters, window of 2 ticks, time to 3 | `SlotIsHeld` and `SlotFreed`: one benchmark at a time, and no path leaks the slot. `AckedSurvive`. `BurstBounded` and `RetryIsEnough` at the boundary of two windows. Four start times and one job kept make pruning happen, also late. `TypeOK` bounds the jobs. |
| `wb_evict_race` | see section 6 | Expected to find its one property violated. |

`policy_change`, `server` and `wb_ticker` do not check for deadlock: after
`Close`, or once the process has exited, nothing is left to do. Symmetry is used only in runs without liveness properties, and only
over keys, values and requests that no definition tells apart. In `wb_concurrent`
states are told apart without `latest`, a history variable no step reads; of that
run's properties only `TypeOK` mentions it. In `policy_change` they are told apart without
`dirtyCount`, which only the guard with `MaxDrift` reads, out of reach there. Every property
of a passing run has a mutant, a change a slip in the code could make, under
which TLC finds it violated: the mutated definitions stand next to the ones
they replace.

What each property says precisely is in the comment above it. Some need a word:

* `ReadsLastWrite` does not promise linearizability, which the code does not
  provide: two overlapping `Set`s of a key may leave different values in cache
  and store. It says that a write which met no other request for its key is
  what reads see, until there is an overlap, a failed `Delete` or a
  write-around past a cached copy (`disturbed`).
* `CountNeverAbove` speaks of a counter that is changed after the map: between the
  two, `DirtyCount` may report a key that is dirty no more. Each mark that is taken
  and not yet counted excuses one, and each mark made and not yet counted must
  leave room for its count: when no process is between the two, the counter is at
  most the number of dirty keys.
* `WritesSurvive` leaves out what `Close` left to the ticker (`late`): a write in
  its hand, or one whose last flush failed. The process may exit before it is
  written. For such writes cache-engine/README.md:9 ("flushes dirty cache state,
  persists benchmark job metadata, and then closes shared resources") does not
  hold; section 6.
* `TypeOK` of `benchmark_jobs` holds the bound on the jobs (`FewJobs`). handler.go:600
  says "keep at most 50". A job is stored before the oldest is pruned, and a save
  of `Shutdown` in between writes one more. A restart reads them all, and since a
  start forgets one job at most, their number does not come down again: `most` is
  `MaxJobs`, or as many as the process has read. In memory there are at most
  `most` jobs, one more while a start is between storing and pruning, and in the
  file at most one more.
* `TypeOK` of `base_structure` is ARC's; the lists of LRU and LFU are the subject of
  the other properties of that run.
* `CopiesAreTransient` names the three excuses for two copies of a key: an
  invalidation that is about to be sent, is in a channel or is being handled;
  and one that was dropped (`lost`). `CopiesConverge` says that without a drop
  and while the nodes run they do not last.
* `AckedSurvive` has an exception (`atRisk`): a save that failed is only logged,
  and two saves may meet in `path.tmp`, that of `Shutdown` and that of the job's
  goroutine. The exception ends with the next save that succeeds alone.
* `CleanIsStored` is about values without deadline. With deadlines it fails, see
  section 6.
* `UndisturbedReads` and `ClosedDurably` are the same kind of promise for all
  three policies. A key is `excused` from the moment two processes work on it
  (the late write of an old ticker counts as one, for as long as it may come), or the store fails the last
  flush before an eviction, a purge, a close or a change of policy, or it is
  cloned at its deadline; until a `Set` or `Delete` that meets nobody settles it.
  Both promise nothing of a key whose deadline is `Over`: a value that reaches
  it before its flush uncovers the older one in the store, see section 6.
* `LocksGivenBack` has an exception which the code has: a panic on a cache that
  `Shutdown` took away. A stream and a scrape then keep `entry.mu` for reading,
  a change of policy keeps `h.mu`. `ShutdownEnds` shows that this never holds up
  the exit.

## 4. Fairness

* A process in the middle of a call goes on (`WF` on `Continue`, `Publish`,
  `Handle`, `Serve`): goroutines are scheduled, no step waits but for a mutex whose
  holder also goes on. Nothing obliges a client to start a request.
* The ticker keeps firing (`WF` on `TickerFires`): `flushLoop` is a `select` on
  a `time.Ticker` and `done`.
* A flush of a key tried over and over succeeds at some point (`SF` on
  `FlushWrites` for each key). This is an assumption about the environment: a
  store that fails for ever can be written by nobody.
* Time passes in `TTLWheel` (`WF` on `Tick`), and Go's `select`, which picks at
  random among the ready cases, does not for ever pass over the timer (`SF` on
  `SelectTimer`).
* `main` goes on once it has been told to stop, and the timer of the drain fires
  (`WF` on `Shutdown` in `Server`): `context.WithTimeout`. No signal need come.
  A stats stream may tick for ever and its client need not leave.
* A benchmark ends (`WF` on `RunEnds`): its duration is at most 60 s per policy.
* A watcher need not read, leave or subscribe; a closer need not close.

## 5. The proofs

Each theorem holds for every value of the constants that satisfies the `ASSUME`s
of its module. TLC checked every invariant on the instances above before it was
proved.

**`BaseCacheProofs`**, for the cache of a store, whatever its policy: `TypeCorrect`,
`ARCListsMatch`, `ARCStaysBounded`, `LRUListIsRecencyOrder`,
`LFUFrequenciesExact`, `BytesAreExact`, `VictimsAreRight` (the action property)
and `BaseImplementsPromise` (the refinement). The inductive invariant `BaseInv`
has one part for each policy.

* ARC: `Core`. The lists and the map are well formed (`WF`: every node is in the
  list it names, once, and in no other, and is a ghost iff it has no value), the
  sizes keep `Bounds`, `p` is in `0 .. Capacity`, and the types hold. Neither
  half stands alone: the sizes after a step are known only if the node removed is
  in the list it names, and a ghost hit keeps the live lists within capacity only
  if `replace` finds something to evict, for which `p` must be in range. `Bounds`
  holds three sums: `|T1|+|T2|`, `|T1|+|B1|` and `|B1|+|B2|`, each at most
  `Capacity`. The third is the strengthening: the total of `2 * Capacity` that
  the code compares with is not inductive by itself, since `Delete` may shrink
  `T1` and `T2`, and only one of the seven cases of `Set` looks at the total. The
  lemmas follow the code's helpers: `Detach` and `Attach` (unlink, push),
  `DropLast`, `Move`, `DemoteWF`, `ReplaceWF`; then one lemma per action. Lengths
  are compared through the opaque `Size`, so that the solver sees only linear
  arithmetic.
* LRU: `LRUInv`. The pointers of `list` stand for `recency` (`Chain`), which lists
  the keys of `items` once each and is no longer than `Capacity`. `PushFrontChain`
  and `RemoveChain` say what `pushFront` and `removeNode` do to any list of
  pointers and the sequence it stands for; `moveToFront` is both.
* LFU: `LFUInv`. For every frequency that some node has there is a list, no other
  list exists, and it is the part of `recency` with that frequency (`Keeps`: in
  the same order). The list of `list.go` has the pointers of the LRU list and a
  length, so the same lemmas serve it. `minFreq` is the least frequency when the
  cache is full; nothing is said of it otherwise, and nothing need be: `Delete`
  and expiry, which leave it stale, make room, and the cache fills up again only
  by a `Set` of a new key, which resets it to 1. `evictOne` looks at it only when
  the cache is full.
* The bytes: `Counts` says that the counter is the sum of the sizes of what a
  `Get` can return. Each operation changes what is held by one key at most, or
  two when `Set` evicts, and the counter by their sizes (for ARC `SetCounts`
  and `AddCounts`). The sum is `MapThenSumSet`, which chooses a function defined by
  recursion on the subsets. That there is one (`FoldExists`), and that any element
  may be taken first (`FoldTakes`), is no induction but a smallest
  counterexample: the least size of a set for which it fails.
* The contract: `ARCRefines`, `LRURefines` and `LFURefines` map each step to a
  step of `BoundedCache` with the entries a `Get` can return as its state. With
  ARC among the policies the theorem takes the values not to be empty
  (`NoEmptyValue`): `replace` does not report an empty victim, see section 6. LRU
  and LFU keep the contract for every value.

**`CoherenceProofs`**: `CoherenceTypeCorrect`, `CoherenceSendsSafe`,
`CoherenceCopies`, for any number of nodes, watchers, writers and any buffer.
The invariant adds to the three properties: subscribed ids and closed channels
are apart (`Apart`), and no node's channel, nor a publisher's list of
subscribers, leads an event back to the node that wrote it (`NoOwnEvents`).
Without the latter a node's write could be deleted by its own event, and the
invalidation that excuses two copies would be consumed with no effect.

**`WriteBackProofs`**, for any number of requests, tickers and keys, every
capacity and every pattern of failures:

* `WriteBackCount`. `CountInv` says that the dirty keys are finitely many, and so are
  the processes that owe a count. The argument is per operation of `dirty`, which changes the number of
  keys and the number of counts owed together, and per `Add`, which changes the
  count and what is owed: adding owes a count only for what was not there,
  removing owes one for what was; the second `Store` of `Set` may add a mark without
  counting it, which is why the sum may be too low and never too high.
* `TypeCorrect`: with the types, that the inner cache's mutex is held across an
  eviction callback exactly by the process in it.
* `DeadlinesStay`. `AheadInv` says of every deadline in cache, store, dirty map
  and of every one a process has in hand, at the place where it has it, that it is
  not zero and at most a ttl ahead; what a refill has in hand is a positive ttl.
* `ReadsUndisturbed` and `ClosesDurably`, of `PolicyChange`, with no restriction on
  operations, ttls, tickers or failures. `PlaceInv` says who can be where: each
  record of local variables fits its place (`Shape`), tickers only flush, a close or
  a change of policy has no request beside it, and under another policy than
  write-back nothing is dirty and nobody is in the middle of anything. `KeyInv`
  says of each key that is not excused that one process at most is on it, and that
  it is neither dirty nor in anybody's hands once a flush that nothing repeats has
  passed it (`Alone`); and, until its deadline, that what was last set is where it
  should be (`Traced`). With nobody on the key the cache has it or nothing, a dirty
  key is in the cache, and a clean one is in the store (`Calm`); with a process on
  it the process has the rest in its local variables (`Busy`); and the clone of a
  change of policy has it too (`Swaps`). A deadline may move on its way, since a
  `Set` reads the clock twice, once for the cache and once for the mark: it is
  never lost and never comes sooner (`NoEarlier`). This holds key by key: a step
  is on the keys its process touches and on the one it evicts (`ServeStep`,
  `FlushStep`), and leaves what is said of the others (`AsideStep`). The two
  properties were stated without `Over` before: TLC's bounds did not reach what
  refutes that, the attempt to prove it did.
* `CleanIsInStore`: what a mark and its absence mean. For a key that is not excused,
  with nobody on it, whatever operations, tickers, failures and changes of policy
  there were: if it is dirty the cache has what was last set, if it is clean the
  store has it, until its deadline. It follows from the same invariant. It is
  stronger than `CleanIsStored` in what it allows to happen (every operation, ttls,
  evictions and refills) and weaker in that it speaks of keys undisturbed, which
  `CleanIsStored` does not ask, and cannot do without, section 6.

**`StoreEntryProofs`**: `TypeCorrect`, `CacheBehindStore`, `LastWriteIsRead`, for
any number of requests, keys and values, any capacity and clock. `AckInv` follows
a value into the cache: what is cached, stored, or carried by a request that has
passed the store has been accepted for that key. `ReadsLastWrite` is about keys at
rest; the induction needs what holds meanwhile: while no request has done one half
of a write to a key, cache and store agree with the last write (`SettledInv`); a
request that met nobody finds, when it goes on, what it left (`PendingInv`); and
it is the only one there (`AloneInv`).

**`ServerProofs`**: `TypeCorrect`, `AcknowledgedSurvive`, `OrderlyDrainIsSafe`,
`LocksReturned`, for any stores, requests and policies. `ServerInv` says who may
hold which lock where: `h.mu` only during a request's checks or a change of policy
(`MuInv`), `entry.mu` only in a call, a swap or by `main` for a store it has still
to close (`HolderInv`), and conversely a request in a call has the lock and the
cache it read is the store's (`HoldsInv`). To these it adds how far `main` is and
what is closed by then (`PhaseInv`), that after an orderly drain nobody runs
(`DrainInv`), and that an acknowledged `Set` is stored, dirty or in the hand of the
ticker of an open cache, or late (`DataInv`: a closed cache has neither). A panic on a closed store is the only way a lock outlives its request.

**`ShardedProofs`**: `TypeCorrect`, `VisitsAreExact`, `CapacityKept`, for any
number of shards, keys and callers. What holds of a visit when it returns holds of
the shards it has passed (`SoFar`), given what its history says of the present
(`Brackets`: what was held throughout is held now, what is held now was held at
some moment). `CapacityKept` adds up the shards: each keeps its part (`Fits`),
and the parts are no more than the whole.

**`BenchmarkJobsProofs`**, for any number of requests, clients and jobs, any limit,
window and unit of `Retry-After`: `RetryAfterSuffices` needs only the shape of the
limiter's tables (`LimiterInv`) and that two ends of windows are a window apart.
`BurstsBounded` rests on `BurstInv`: for each client, what passed since the
limiter's current period began was counted and is within `Limit`, and so is what
is remembered of the time before (`Within`). When a period ends it is as long as a
window, and what came before it is forgotten, or nothing was counted in it. The
sums are treated as in `BaseCacheProofs`.
`TypeCorrect`, `SlotHeld` and `AnsweredSurvive` rest on `JobsInv`: the slot has
exactly one holder iff it is taken (`SlotInv`); the job of the holder is in the map
and will not be pruned, since pruning happens only when a job is started, and
spares the one it started (`JobInv`); the jobs are few (`FewJobs`: a step adds one
job at most, and only in a start that then prunes, and a save carries what is there); and, unless a save failed or met another, the file has what clients
were told, at most one save is under way, and what it carries, or has written to
`path.tmp`, is the jobs as they are (`SaveInv`).

**`TTLWheelProofs`**: `WheelTypeCorrect` and `WheelNoLostWakeup`, for all keys,
ttls and callers. `NoLostWakeup` speaks of the `select` only. The strengthening,
`ReadIsGood`, carries it over the unlocked stretch before: between reading the
heap and `Reset`, with no token and no caller about to send one, what was read
is at most the time left to any deadline, but for the time lost since (`slip`).

The `ASSUME`s are what the code or the reading of the model gives: a capacity, a
number of shards and a limit are at least 1; sizes and ttls are naturals;
requests, tickers and `main` are different processes, and the name for "no
holder" of a lock is none of them.

Only model-checked:

* liveness (`EventuallyStored`, `CopiesConverge`, `DueExpires`, `SlotFreed`,
  `RequestsEnd`, `ShutdownEnds`) and deadlock freedom: this prover has no
  `ENABLED` and no rules for fairness over parameters;
* `CleanIsStored`: two requests that set and delete, and one ticker. With a `Get`
  that refills, a second flusher or mixed ttls it does not hold, section 6;
  `CleanIsInStore` is the theorem that covers these.

## 6. Where code and documents disagree

One run shows a disagreement as a counterexample:

* `wb_evict_race`: `flushAll` removes the mark (writeback.go:93), the key is
  evicted as clean before `Peek` (98), and the flusher takes the miss to mean
  that the eviction flushed it (107). The write is in neither place.

Others met while modelling, which the model allows and no property forbids:

* `flushAll` uses the deadline `Range` gave it and ignores the one it removes at
  writeback.go:93. If a `Set` without ttl comes in between, the old deadline
  decides: the key is deleted from the store, and its mark is gone. (`wb_ticker`
  with ttls 0 and 1 and time to 2 finds `CleanIsStored` violated.)
* A `Get` that misses reads the store, and the ticker, which has the key in hand
  since before its eviction, writes the newer value; then the `Get` refills the
  cache with the older one, and it is clean. (`wb_ticker` with two keys, one
  request and `Get` finds `CleanIsStored` violated.) Two requests suffice, without an eviction: a `Get`
  misses, the other request sets the key and sets it again, and between the two
  flushes of that the `Get` reads the store and refills. (`wb_ticker` with `Get`
  finds it violated.)
* `replace` (arc.go:89) calls the eviction callback only if the value is not
  nil, and the copy of an empty value is nil. An entry with an empty value is
  evicted without the call that cache.go:65 promises. (`base_contract` with a
  value of size 0 finds `ImplementsPromise` violated.)
* SPEC.md:265 bounds `|T2|+|B2|`; the code keeps the bounds of `ListBounds`.
* `Evictions` is counted when a ghost is revived though nothing is evicted
  (arc.go:108). `BoundedCache` lets a `Set` count one eviction too many.
* `dirtyCount` may be too low, even negative, after a flush between the two
  operations of `Set` (writeback.go:133-136), and one too high between a
  `LoadAndDelete` and its `Add` (93-96).
* A failed flush in the eviction callback is only logged, and the value is lost
  (writeback.go:48); SPEC.md:457 asks for the flush.
* `Close` does not wait for a key the ticker has in hand, and what its flush fails
  to write is left behind. After a change of policy the ticker of the old cache may
  write it over what the new one wrote (`late` in `PolicyChange`). If the process
  exits before that, the acknowledged write is lost, which cache-engine/README.md:9
  does not say (`late` in `Server`: without it `WritesSurvive` is violated in run
  `server`).
* More than 50 benchmark jobs may be kept (handler.go:600): `Shutdown` saves between
  the storing of a job and the pruning, and the next process reads 51 (`most` in
  `BenchmarkJobs`).
* A `Purge` that runs beside a `Set` may drop the value after its flush has
  passed the key by.
* Two flushers (`Flush` or `Close` beside the ticker) may write a key in the
  wrong order and leave the older value in the store. (`wb_ticker` with `Flush`
  among the operations finds `CleanIsStored` violated.)
* A value with a ttl that expires before its flush leaves the value it replaced
  in the store until that flush, and a miss brings it back (`Over` in
  `PolicyChange`: an undisturbed write is not what reads see after its deadline,
  they may see the one before it).
* `Publish` drops the event being sent, not the oldest, and no later invalidation
  need follow: two copies may then stay (`lost` in `Coherence`).
  ARCHITECTURE.md:364 says the oldest are dropped and a later one supersedes.
* `Shutdown` does not wait for the job's goroutine, and both may save at once: a
  file that cannot be parsed, or an older one, may be renamed into place.
* A job that was running at a crash is "running" for ever after the restart. Two
  jobs started in one millisecond share an id.
* The wheel may call `onExpire` for a key after its `Cancel` or new `Schedule`.
* A change of policy clones an entry at its deadline with no deadline
  (handler.go:169, `CloneExpiry`), and inserts the most recent entry first, so
  that the clone's order of eviction is the reverse.
* A handler that runs on after a forced shutdown panics on the missing cache and
  may keep a lock (`LocksGivenBack`).
* A sharded cache smaller than its 256 shards exceeds its capacity. The minimum
  that ARCHITECTURE.md:273 mentions is checked nowhere; the server's has 10000.

## 7. Not modelled

The sliding window of the statistics (`window.go`) is created by nobody.
Authentication, CORS and the other middleware are stateless checks of one
request, the tokens of the streams signatures; tracing and the text of the
metrics format and export; workloads are random generators and the benchmark
runner measures the caches that are modelled; the admin command, the load test
and the web frontend are wiring, I/O and presentation. SQL, migrations and
simulated latency of the stores are reduced to calls that may fail. A raw stored
value that happens to begin with the envelope's prefix is left out.
`EventUpdate` of the bus is published by nobody, and `PushBack`, `MoveToFront`
and `ToSlice` of the list are called by nobody.

## 8. Plan

Every invariant and action property that a passing run checks is stated by a
theorem, but for `CleanIsStored`, which holds only where one flusher meets requests
that set and delete values without a ttl, and in whose place stands
`CleanIsInStore`. What is left is breadth: the parts listed as partly modelled, and liveness beyond the instances.

## 9. Running it

    tlc -workers 2 -config MCBaseCache_structure.cfg MCBaseCache
    tlapm BaseCacheProofs.tla

`runs` in `PROJECT.json` names the module and the configuration of each run. The
longest take about three minutes; `BaseCacheProofs` is proved in about fifteen and
`WriteBackProofs` in about five.
