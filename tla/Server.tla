------------------------------- MODULE Server -------------------------------
(***************************************************************************)
(* The life of the server: requests and stats streams (api/handler.go,     *)
(* api/sse.go, api/metrics.go), changes of a store's write policy, and the *)
(* way out (cmd/server/main.go): drain, clean up, exit.                    *)
(*                                                                         *)
(* Two kinds of lock, both sync.RWMutex: h.mu around the map of stores and *)
(* entry.mu around each store's cache.  Some handlers release a lock by    *)
(* defer and some do not, which makes a difference when they panic: after  *)
(* Shutdown entry.Cache is nil.  A step is what happens between two points *)
(* at which a handler may have to wait.                                    *)
(*                                                                         *)
(* Of the data there is only what a Set promised: whether it is in the     *)
(* backing store, which may fail at any write, or still has to be written  *)
(* by a write-back cache.  Every Set has a key of its own, and no key is   *)
(* deleted or evicted: WriteBack and PolicyChange have the rest.           *)
(***************************************************************************)
EXTENDS Naturals, FiniteSets

CONSTANTS
  Stores,
  Standard,    \* the stores with a backing store; the others are sharded
  Policies,    \* the write policies wrapCache knows
  Wanted,      \* the ones requests ask for
  Requests,    \* the requests that come in, each served by a goroutine
  Kinds,       \* what a request may be: [Requests -> SUBSET AllKinds]
  Main         \* the goroutine that shuts down

AllKinds == {"ready", "metrics", "read", "set", "config", "stream"}

ASSUME ServerConstants ==
  /\ Standard \subseteq Stores /\ IsFiniteSet(Stores)
  /\ Policies \subseteq {"none", "write-through", "write-around", "write-back"}
  /\ Kinds \in [Requests -> SUBSET AllKinds]
  /\ Main \notin Requests /\ "nobody" \notin Requests \cup {Main}

VARIABLES
  mu,          \* h.mu
  entryMu,     \* entry.mu of each store
  cache,       \* entry.Cache: the number of the cache object, or Nil
  writePolicy, \* entry.WritePolicy
  req,         \* where each request is, with its local variables
  panicked,    \* the requests recoveryMiddleware counted in panicRecoveries
  phase,       \* how far main is
  left,        \* the entries Handler.Shutdown has still to close
  backing,     \* whether the backing store is open
  forced,      \* whether handlers were running when the clean-up began
  unsaved,     \* the Sets the store's write-back cache has marked dirty
  inHand,      \* the Sets whose mark its ticker has taken, to write them
  late,        \* the Sets that caches left to their tickers when they were
               \* closed: in hand then, or put back by a flush that failed
  saved,       \* the Sets in the backing store
  promised     \* history: the Sets acknowledged by a store with a backing store

locks == <<mu, entryMu>>
entries == <<cache, writePolicy>>
data == <<unsaved, inHand, late, saved, promised>>
proc == <<phase, left, backing, forced>>
vars == <<locks, entries, req, panicked, proc, data>>

Nil == 0        \* no cache, and no store
Nobody == "nobody"
Free == [readers |-> {}, writer |-> Nobody, next |-> Nobody]

---------------------------------------------------------------------------
(* sync.RWMutex: a writer that waits for readers to leave keeps new ones   *)
(* out, and only one writer waits in that place.                           *)
CanRead(m) == m.writer = Nobody /\ m.next = Nobody
RLock(m, p) == [m EXCEPT !.readers = @ \cup {p}]
RUnlock(m, p) == [m EXCEPT !.readers = @ \ {p}]

CanAnnounce(m) == m.writer = Nobody /\ m.next = Nobody
Announce(m, p) == [m EXCEPT !.next = p]
CanLockAnyway(m, p) == m.next = p      \* mutant: readers are not waited for
CanLock(m, p) == m.next = p /\ m.readers = {}
Lock(m, p) == [m EXCEPT !.writer = p, !.next = Nobody]
Unlock(m) == [m EXCEPT !.writer = Nobody]

Entry(s, m) == entryMu' = [entryMu EXCEPT ![s] = m]

---------------------------------------------------------------------------
New == [at |-> "new"]
Over == [at |-> "over"]

At(r, where) == req[r].at = where
Is(r, kinds) == req[r].kind \in kinds
Goto(r, where) ==
  req' = [req EXCEPT ![r] = [req[r] EXCEPT !.at = where, !.object = Nil]]
Answer(r) == req' = [req EXCEPT ![r] = Over]

Running == phase # "exited"

Init ==
  /\ mu = Free /\ entryMu = [s \in Stores |-> Free]
  /\ cache = [s \in Stores |-> 1]
  /\ writePolicy \in {f \in [Stores -> Policies \cup {"none"}] :
                        \A s \in Stores : f[s] \in IF s \in Standard THEN Policies ELSE {"none"}}
  /\ req = [r \in Requests |-> New]
  /\ panicked = {}
  /\ phase = "serving" /\ left = {} /\ backing = "open" /\ forced = FALSE
  /\ unsaved = [s \in Stores |-> {}] /\ inHand = [s \in Stores |-> {}]
  /\ late = {} /\ saved = {} /\ promised = {}

(* A request has passed the middleware; after server.Shutdown or a failed  *)
(* listener none comes in.  want is the policy a config request asks for,  *)
(* which a store without policies does not even look at.                   *)
Asked ==
  [kind : {"ready", "metrics"}, store : {Nil}, want : {"same"}]
  \cup [kind : {"read", "set", "stream"}, store : Stores, want : {"same"}]
  \cup [kind : {"config"}, store : Standard, want : Wanted]
  \cup [kind : {"config"}, store : Stores \ Standard, want : {"same"}]

Arrive(r) ==
  /\ phase = "serving" /\ At(r, "new")
  /\ \E a \in Asked :
       /\ a.kind \in Kinds[r]
       /\ req' = [req EXCEPT ![r] =
                    [at |-> IF a.kind \in {"ready", "metrics"} THEN "ready" ELSE "lookup",
                     kind |-> a.kind, store |-> a.store, want |-> a.want,
                     object |-> Nil, todo |-> {}]]
  /\ UNCHANGED <<locks, entries, panicked, proc, data>>

(* getStore takes h.mu for reading and gives it back.                      *)
getStore(r) ==
  /\ At(r, "lookup") /\ CanRead(mu)
  /\ Goto(r, IF Is(r, {"stream"}) THEN "wait" ELSE "entry")
  /\ UNCHANGED <<locks, entries, panicked, proc, data>>

---------------------------------------------------------------------------
(* readyChecks holds h.mu while it looks at one store after the other.     *)
readyStart(r) ==
  /\ At(r, "ready") /\ CanRead(mu)
  /\ mu' = RLock(mu, r)
  /\ req' = [req EXCEPT ![r] = [req[r] EXCEPT !.at = "check", !.todo = Stores]]
  /\ UNCHANGED <<entryMu, entries, panicked, proc, data>>

(* The last look, or one that finds a store without its cache, ends the    *)
(* checks: HandleReady answers, metricsHandler goes on to every store.     *)
readyLook(r) ==
  /\ At(r, "check")
  /\ \E s \in req[r].todo :
       /\ CanRead(entryMu[s])
       /\ IF cache[s] # Nil /\ req[r].todo # {s}
            THEN /\ req' = [req EXCEPT ![r] = [req[r] EXCEPT !.todo = @ \ {s}]]
                 /\ UNCHANGED mu
            ELSE /\ mu' = RUnlock(mu, r)
                 /\ IF Is(r, {"ready"}) THEN Answer(r)
                    ELSE req' = [req EXCEPT ![r] = [req[r] EXCEPT !.at = "scrape", !.todo = Stores]]
  /\ UNCHANGED <<entryMu, entries, panicked, proc, data>>

scrape(r) ==
  /\ At(r, "scrape") /\ CanRead(mu)
  /\ \E s \in req[r].todo :
       req' = [req EXCEPT ![r] = [req[r] EXCEPT !.at = "entry", !.store = s, !.todo = @ \ {s}]]
  /\ UNCHANGED <<locks, entries, panicked, proc, data>>

---------------------------------------------------------------------------
(* entry.mu.RLock() and the use of entry.Cache.  The request handlers      *)
(* ("read": HandleGet, Peek, Delete, Stats, Snapshot and Purge; "set":     *)
(* HandleSet) give the lock back by defer; the stream and the metrics do   *)
(* not, and keep it when the nil cache makes them panic.                   *)
Deferred == {"read", "set"}

Panic(r) == panicked' = panicked \cup {r} /\ Answer(r)

UseNil(r) ==
  /\ At(r, "entry") /\ ~Is(r, {"config"}) /\ CanRead(entryMu[req[r].store])
  /\ cache[req[r].store] = Nil
  /\ Panic(r)
  /\ Entry(req[r].store, IF Is(r, Deferred) THEN entryMu[req[r].store]
                                            ELSE RLock(entryMu[req[r].store], r))
  /\ UNCHANGED <<mu, entries, proc, data>>

Use(r) ==
  /\ At(r, "entry") /\ ~Is(r, {"config"}) /\ CanRead(entryMu[req[r].store])
  /\ cache[req[r].store] # Nil
  /\ Entry(req[r].store, RLock(entryMu[req[r].store], r))
  /\ req' = [req EXCEPT ![r] = [req[r] EXCEPT !.at = "call", !.object = cache[req[r].store]]]
  /\ UNCHANGED <<mu, entries, panicked, proc, data>>

(* What Set leaves behind, in the cache object it was called on.  A write  *)
(* that the backing store refuses is not acknowledged.                     *)
Store(r) ==
  LET s == req[r].store
      current == req[r].object = cache[s]
  IN CASE writePolicy[s] = "none" -> UNCHANGED data
       [] writePolicy[s] = "write-back" ->
            /\ unsaved' = [unsaved EXCEPT ![s] = IF current THEN @ \cup {r} ELSE @]
            /\ promised' = promised \cup {r}
            /\ UNCHANGED <<inHand, late, saved>>
       [] OTHER ->
            /\ \/ backing = "open" /\ saved' = saved \cup {r} /\ promised' = promised \cup {r}
               \/ UNCHANGED <<saved, promised>>
            /\ UNCHANGED <<unsaved, inHand, late>>

(* The call returns and the lock is given back.                            *)
Return(r) ==
  /\ At(r, "call")
  /\ Entry(req[r].store, RUnlock(entryMu[req[r].store], r))
  /\ IF Is(r, {"set"}) THEN Store(r) ELSE UNCHANGED data
  /\ IF Is(r, {"stream"}) THEN Goto(r, "wait")
     ELSE IF req[r].todo # {} THEN Goto(r, "scrape")
     ELSE Answer(r)
  /\ UNCHANGED <<mu, entries, panicked, proc>>

(* ServeStatsSSE: every tick reads the store, until the client leaves or   *)
(* server.Close ends the connection.                                       *)
StreamTick(r) ==
  /\ At(r, "wait")
  /\ Goto(r, "entry")
  /\ UNCHANGED <<locks, entries, panicked, proc, data>>

StreamEnd(r) ==
  /\ At(r, "wait")
  /\ Answer(r)
  /\ UNCHANGED <<locks, entries, panicked, proc, data>>
---------------------------------------------------------------------------
(* Mutant: entry.mu.RUnlock() by defer, as in the other handlers.          *)
ConfigReadDeferred(r) ==
  /\ At(r, "entry") /\ Is(r, {"config"}) /\ CanRead(entryMu[req[r].store])
  /\ Goto(r, "mu") \/ Goto(r, "flushNow")
  /\ Entry(req[r].store, RLock(entryMu[req[r].store], r))
  /\ UNCHANGED <<mu, entries, panicked, proc, data>>

(* HandleConfig: the entry's backing store is read first; then, if the     *)
(* request names a policy, h.mu and entry.mu are locked, in this order,    *)
(* around its change.                                                      *)
ConfigRead(r) ==
  /\ At(r, "entry") /\ Is(r, {"config"}) /\ CanRead(entryMu[req[r].store])
  /\ Goto(r, "mu") \/ Goto(r, "flushNow")
  /\ UNCHANGED <<locks, entries, panicked, proc, data>>

ConfigLocks(r) ==
  \/ /\ At(r, "mu") /\ CanAnnounce(mu)
     /\ mu' = Announce(mu, r)
     /\ UNCHANGED <<entryMu, req>>
  \/ /\ At(r, "mu") /\ CanLock(mu, r)
     /\ mu' = Lock(mu, r)
     /\ Goto(r, "entryMu")
     /\ UNCHANGED entryMu

reconfigureLocks(r) ==
  LET s == req[r].store
  IN \/ /\ At(r, "entryMu") /\ CanAnnounce(entryMu[s])
        /\ Entry(s, Announce(entryMu[s], r))
        /\ UNCHANGED <<mu, req>>
     \/ /\ At(r, "entryMu") /\ CanLock(entryMu[s], r)
        /\ Entry(s, Lock(entryMu[s], r))
        /\ Goto(r, "swap")
        /\ UNCHANGED mu

(* What a flush of everything dirty can get into the backing store: any    *)
(* part of it, as every write may fail, and nothing once that is closed.   *)
(* What the ticker has in hand it does not see.                            *)
Flushed(s) == IF backing = "open" THEN SUBSET unsaved[s] ELSE {{}}

(* Flush: what fails is marked again.                                      *)
Flush(s) ==
  /\ \E ok \in Flushed(s) :
       saved' = saved \cup ok /\ unsaved' = [unsaved EXCEPT ![s] = @ \ ok]
  /\ UNCHANGED <<inHand, late, promised>>

(* Close flushes too, and waits for nobody: what the flush could not write *)
(* and what the ticker has in hand are left to the ticker's last round.    *)
Close(s) ==
  /\ \E ok \in Flushed(s) :
       saved' = saved \cup ok /\ late' = late \cup (unsaved[s] \ ok) \cup inHand[s]
  /\ unsaved' = [unsaved EXCEPT ![s] = {}] /\ inHand' = [inHand EXCEPT ![s] = {}]
  /\ UNCHANGED promised

(* The ticker of a write-back cache takes a mark, and then writes the      *)
(* value, or fails and puts the mark back.                                 *)
TickerTakes(s) ==
  /\ inHand[s] = {}
  /\ \E r \in unsaved[s] :
       /\ unsaved' = [unsaved EXCEPT ![s] = @ \ {r}]
       /\ inHand' = [inHand EXCEPT ![s] = {r}]
  /\ UNCHANGED <<late, saved, promised>>

TickerWrites(s) ==
  /\ inHand[s] # {}
  /\ \/ backing = "open" /\ saved' = saved \cup inHand[s] /\ UNCHANGED unsaved
     \/ unsaved' = [unsaved EXCEPT ![s] = @ \cup inHand[s]] /\ UNCHANGED saved
  /\ inHand' = [inHand EXCEPT ![s] = {}]
  /\ UNCHANGED <<late, promised>>

(* The ticker of a cache that has been closed, if it still gets to write.  *)
LateWrites ==
  /\ backing = "open"
  /\ \E r \in late : saved' = saved \cup {r}
  /\ UNCHANGED <<unsaved, inHand, late, promised>>

flushLoop ==
  /\ LateWrites \/ \E s \in Stores : TickerTakes(s) \/ TickerWrites(s)
  /\ UNCHANGED <<locks, entries, req, panicked, proc>>

(* Mutant: HandleConfig returns without giving h.mu back.                  *)
ConfigKeepsLock(s) == Entry(s, Unlock(entryMu[s])) /\ UNCHANGED mu

(* Giving both locks back is one step with what comes before it.           *)
ConfigUnlocks(s) == Entry(s, Unlock(entryMu[s])) /\ mu' = Unlock(mu)

(* The store takes no other policy, or has this one already.               *)
reconfigureKeeps(r) ==
  LET s == req[r].store
  IN /\ At(r, "swap") /\ (s \notin Standard \/ req[r].want = writePolicy[s])
     /\ ConfigUnlocks(s)
     /\ IF s \in Standard THEN Goto(r, "flushNow") ELSE Answer(r)
     /\ UNCHANGED <<entries, panicked, proc, data>>

(* The old cache is flushed and cloned.  When wrapCache knows the policy   *)
(* it is replaced and closed, otherwise the request fails.                 *)
reconfigureWritePolicy(r) ==
  LET s == req[r].store
  IN /\ At(r, "swap") /\ s \in Standard /\ req[r].want # writePolicy[s] /\ cache[s] # Nil
     /\ IF req[r].want \in Policies
          THEN /\ Close(s)
               /\ cache' = [cache EXCEPT ![s] = @ + 1]
               /\ writePolicy' = [writePolicy EXCEPT ![s] = req[r].want]
               /\ Goto(r, "flushNow")
          ELSE Flush(s) /\ UNCHANGED entries /\ Answer(r)
     /\ ConfigUnlocks(s)
     /\ UNCHANGED <<panicked, proc>>

(* entry.Cache.Snapshot() of a nil cache: entry.mu is given back by defer, *)
(* h.mu is not.                                                            *)
reconfigureNil(r) ==
  LET s == req[r].store
  IN /\ At(r, "swap") /\ s \in Standard /\ req[r].want # writePolicy[s] /\ cache[s] = Nil
     /\ Panic(r)
     /\ Entry(s, Unlock(entryMu[s]))
     /\ UNCHANGED <<mu, entries, proc, data>>

(* FlushNow, or not; entry.Cache is only asked whether it has Flush, which *)
(* nil has not.  Then the entry is read once more for the answer.          *)
ConfigFlush(r) ==
  LET s == req[r].store
  IN /\ At(r, "flushNow") /\ CanRead(entryMu[s])
     /\ Flush(s) \/ UNCHANGED data
     /\ Answer(r)
     /\ UNCHANGED <<locks, entries, panicked, proc>>

Config(r) ==
  \/ ConfigRead(r)
  \/ (ConfigLocks(r) \/ reconfigureLocks(r)) /\ UNCHANGED <<entries, panicked, proc, data>>
  \/ reconfigureKeeps(r) \/ reconfigureWritePolicy(r) \/ reconfigureNil(r)
  \/ ConfigFlush(r)

---------------------------------------------------------------------------
(* main: a signal begins the drain, server.Shutdown, which ends when no    *)
(* request is in progress, or at the timeout with server.Close.  Nothing   *)
(* stops the handlers that still run.                                      *)
Idle == \A r \in Requests : At(r, "new") \/ At(r, "over")

Signal ==
  /\ phase = "serving"
  /\ phase' = "draining"
  /\ UNCHANGED <<locks, entries, req, panicked, left, backing, forced, data>>

(* Mutant: server.Close at once, in place of server.Shutdown.              *)
DrainedAtOnce ==
  /\ phase = "draining"
  /\ phase' = "cleanup"
  /\ UNCHANGED <<locks, entries, req, panicked, left, backing, forced, data>>

Drained ==
  /\ phase = "draining" /\ Idle
  /\ phase' = "cleanup"
  /\ UNCHANGED <<locks, entries, req, panicked, left, backing, forced, data>>

DrainNeverTimesOut == FALSE      \* mutant: server.Shutdown without a deadline

DrainTimesOut ==
  /\ phase = "draining" /\ ~Idle
  /\ phase' = "cleanup" /\ forced' = TRUE
  /\ UNCHANGED <<locks, entries, req, panicked, left, backing, data>>

(* ListenAndServe returns another error than ErrServerClosed.              *)
ListenFails ==
  /\ phase = "serving"
  /\ phase' = "cleanup" /\ forced' = TRUE
  /\ UNCHANGED <<locks, entries, req, panicked, left, backing, data>>

(* Handler.Shutdown lists the entries under h.mu, then closes each one     *)
(* under its own lock.                                                     *)
ShutdownLists ==
  /\ phase = "cleanup" /\ CanRead(mu)
  /\ phase' = "closing" /\ left' = Stores
  /\ UNCHANGED <<locks, entries, req, panicked, backing, forced, data>>

ShutdownLocks(s) ==
  /\ phase = "closing" /\ s \in left
  /\ \A t \in Stores \ {s} : entryMu[t].next # Main /\ entryMu[t].writer # Main
  /\ \/ CanAnnounce(entryMu[s]) /\ Entry(s, Announce(entryMu[s], Main))
     \/ CanLock(entryMu[s], Main) /\ Entry(s, Lock(entryMu[s], Main))
  /\ UNCHANGED <<mu, entries, req, panicked, proc, data>>

ShutdownCloses(s) ==
  /\ phase = "closing" /\ entryMu[s].writer = Main
  /\ Close(s)
  /\ cache' = [cache EXCEPT ![s] = Nil]
  /\ Entry(s, Unlock(entryMu[s]))
  /\ left' = left \ {s}
  /\ UNCHANGED <<mu, writePolicy, req, panicked, phase, backing, forced>>

(* After app.Shutdown the coordinator and then the backing store are       *)
(* closed; only then does main return.                                     *)
CloseBacking ==
  /\ phase = "closing" /\ left = {} /\ backing = "open"
  /\ backing' = "closed"
  /\ UNCHANGED <<locks, entries, req, panicked, phase, left, forced, data>>

(* Mutant: main does not wait for shutdownDone; ListenAndServe returns as  *)
(* soon as server.Shutdown is called.                                      *)
ExitAtOnce ==
  /\ phase # "serving"
  /\ phase' = "exited"
  /\ UNCHANGED <<locks, entries, req, panicked, left, backing, forced, data>>

Exit ==
  /\ backing = "closed"
  /\ phase' = "exited"
  /\ UNCHANGED <<locks, entries, req, panicked, left, backing, forced, data>>

Shutdown ==
  \/ Drained \/ DrainTimesOut \/ ShutdownLists
  \/ \E s \in Stores : ShutdownLocks(s) \/ ShutdownCloses(s)
  \/ CloseBacking \/ Exit

---------------------------------------------------------------------------
(* What a handler does without waiting for its client.                     *)
Serve(r) ==
  \/ getStore(r) \/ readyStart(r) \/ readyLook(r) \/ scrape(r)
  \/ Use(r) \/ UseNil(r) \/ Return(r)
  \/ Config(r)

Next ==
  /\ Running
  /\ \/ \E r \in Requests : Arrive(r) \/ Serve(r) \/ StreamTick(r) \/ StreamEnd(r)
     \/ flushLoop
     \/ Signal \/ ListenFails \/ Shutdown

Spec == Init /\ [][Next]_vars

(* Goroutines run, and the drain's timer fires.  No client need send,      *)
(* leave or read, no signal need come, and a stream may tick for ever.     *)
FairSpec ==
  /\ Spec
  /\ \A r \in Requests : WF_vars(Running /\ Serve(r))
  /\ WF_vars(Running /\ Shutdown)

---------------------------------------------------------------------------
Places ==
  {"lookup", "ready", "check", "scrape", "entry", "call", "wait", "mu",
   "entryMu", "swap", "flushNow"}

IsLock(m) ==
  /\ m.readers \subseteq Requests
  /\ {m.writer, m.next} \subseteq Requests \cup {Main, Nobody}
  /\ m.writer # Nobody => m.readers = {} /\ m.next = Nobody

(* Type invariant.  A writer excludes readers and a second writer.         *)
TypeOK ==
  /\ IsLock(mu) /\ \A s \in Stores : IsLock(entryMu[s])
  /\ cache \in [Stores -> Nat]
  /\ writePolicy \in [Stores -> Policies \cup {"none"}]
  /\ \A r \in Requests :
       \/ req[r] \in {New, Over}
       \/ req[r] \in [at : Places, kind : Kinds[r], store : Stores \cup {Nil},
                      want : Wanted \cup {"same"}, object : Nat, todo : SUBSET Stores]
  /\ phase \in {"serving", "draining", "cleanup", "closing", "exited"}
  /\ backing \in {"open", "closed"} /\ forced \in BOOLEAN
  /\ left \subseteq Stores
  /\ UNION {panicked, saved, late, promised} \subseteq Requests
  /\ unsaved \in [Stores -> SUBSET Requests] /\ inHand \in [Stores -> SUBSET Requests]

(* What a Set of a store with a backing store acknowledged is in that      *)
(* store when the process exits, through changes of policy and though      *)
(* handlers may run on during the clean-up: but for what a cache left to   *)
(* its ticker when it was closed, because the ticker had it in hand or the *)
(* flush of Close could not write it.  Those may be lost: for them         *)
(* cache-engine/README.md:9 ("flushes dirty cache state, ... and then      *)
(* closes shared resources") does not hold.                                *)
WritesSurvive == phase = "exited" => promised \subseteq saved \cup late

(* A handler meets a cache that Shutdown closed only if the drain timed    *)
(* out or the listener failed: an orderly drain leaves nobody behind.      *)
PanicsOnlyIfForced == panicked # {} => forced

Holders(m) == m.readers \cup ({m.writer, m.next} \cap Requests)

(* Whatever the handlers' early returns and panics, a lock outlives its    *)
(* request only when the request panicked on a cache that Shutdown had     *)
(* closed, and never entry.mu for writing.                                 *)
LocksGivenBack ==
  /\ \A r \in Holders(mu) : At(r, "over") => r \in panicked
  /\ \A s \in Stores : \A r \in Holders(entryMu[s]) :
       At(r, "over") => r \in panicked /\ r \in entryMu[s].readers /\ cache[s] = Nil

(* Requests end, but for streams: h.mu and entry.mu are never waited for   *)
(* in a circle, and no writer waits for ever while streams read.           *)
RequestsEnd ==
  \A r \in Requests :
    ~At(r, "new") /\ ~At(r, "wait") ~> At(r, "over") \/ At(r, "wait") \/ ~Running

(* The server stops once it was told to: no stream, no handler that is     *)
(* stuck behind a lock a panic left, can hold Shutdown up.                 *)
ShutdownEnds == phase # "serving" ~> phase = "exited"
===========================================================================
