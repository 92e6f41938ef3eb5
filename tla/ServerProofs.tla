---------------------------- MODULE ServerProofs ----------------------------
(***************************************************************************)
(* The server's promises for any stores, requests and policies.            *)
(*                                                                         *)
(* All of them rest on who may hold which lock where.  A request holds     *)
(* h.mu for reading only during its checks, entry.mu only during its call, *)
(* and what it reads there stays as it is until it leaves; main has        *)
(* entry.mu only of a store it has still to close.  What a panic leaves    *)
(* behind is the one exception, and it happens only on a closed store.     *)
(***************************************************************************)
EXTENDS Server, TLAPS

LockType ==
  [readers : SUBSET Requests, writer : Requests \cup {Main, Nobody},
   next : Requests \cup {Main, Nobody}]

ReqType ==
  {New, Over} \cup
  [at : Places, kind : AllKinds, store : Stores \cup {Nil}, want : Wanted \cup {"same"},
   object : Nat, todo : SUBSET Stores]

(* Where a handler has looked its store up.                                *)
AtStore == {"lookup", "entry", "call", "wait", "mu", "entryMu", "swap", "flushNow"}

(* Where Sets are kept.                                                    *)
DataTypes ==
  /\ saved \in SUBSET Requests /\ late \in SUBSET Requests /\ promised \in SUBSET Requests
  /\ unsaved \in [Stores -> SUBSET Requests] /\ inHand \in [Stores -> SUBSET Requests]

(* Types.                                                                  *)
StateOK ==
  /\ mu \in LockType /\ entryMu \in [Stores -> LockType]
  /\ cache \in [Stores -> Nat]
  /\ writePolicy \in [Stores -> Policies \cup {"none"}]
  /\ req \in [Requests -> ReqType]
  /\ \A r \in Requests : req[r].at \in AtStore => req[r].store \in Stores
  /\ \A r \in Requests : req[r].at \in Places => req[r].kind \in Kinds[r]
  /\ phase \in {"serving", "draining", "cleanup", "closing", "exited"}
  /\ backing \in {"open", "closed"} /\ forced \in BOOLEAN
  /\ left \in SUBSET Stores
  /\ panicked \in SUBSET Requests /\ DataTypes

(* A writer excludes readers and the next writer.                          *)
Excludes(m) == m.writer # Nobody => m.readers = {} /\ m.next = Nobody

(* Who holds h.mu, and where.                                              *)
MuInv ==
  /\ Excludes(mu)
  /\ mu.next # Main /\ mu.writer # Main
  /\ \A r \in Requests :
       /\ r \in mu.readers => At(r, "check")
       /\ mu.next = r => At(r, "mu")
       /\ mu.writer = r => At(r, "entryMu") \/ At(r, "swap") \/ (At(r, "over") /\ r \in panicked)

(* Who holds entry.mu, and where.                                          *)
HolderInv ==
  \A s \in Stores :
    /\ Excludes(entryMu[s])
    /\ Main \in {entryMu[s].writer, entryMu[s].next} => phase = "closing" /\ s \in left
    /\ \A r \in Requests :
         /\ r \in entryMu[s].readers =>
              \/ At(r, "call") /\ req[r].store = s
              \/ At(r, "over") /\ r \in panicked /\ cache[s] = Nil
         /\ entryMu[s].next = r => At(r, "entryMu") /\ req[r].store = s
         /\ entryMu[s].writer = r => At(r, "swap") /\ req[r].store = s

(* What a request at its call or its swap can rely on.                     *)
HoldsInv ==
  \A r \in Requests :
    /\ At(r, "call") => /\ r \in entryMu[req[r].store].readers
                        /\ req[r].object = cache[req[r].store] /\ req[r].object # Nil
    /\ At(r, "swap") => entryMu[req[r].store].writer = r

(* How far main is, and what is closed by then.                            *)
PhaseInv ==
  /\ phase \in {"serving", "draining", "cleanup"} =>
       backing = "open" /\ \A s \in Stores : cache[s] # Nil
  /\ phase \in {"closing", "exited"} => \A s \in Stores \ left : cache[s] = Nil
  /\ backing = "closed" => left = {} /\ phase \in {"closing", "exited"}
  /\ phase = "exited" => backing = "closed"

(* After an orderly drain no handler runs.                                 *)
DrainInv ==
  /\ phase \in {"cleanup", "closing", "exited"} /\ ~forced => Idle
  /\ panicked # {} => forced

(* An acknowledged Set is in the backing store, or still to be written by  *)
(* a cache that is open, or was left to the ticker of one that is not.     *)
Kept(r) == r \in saved \/ r \in late \/ \E s \in Stores : r \in unsaved[s] \/ r \in inHand[s]

DataInv ==
  /\ \A r \in promised : Kept(r)
  /\ \A s \in Stores : cache[s] = Nil => unsaved[s] = {} /\ inHand[s] = {}

(* The inductive invariant.                                                *)
ServerInv ==
  StateOK /\ MuInv /\ HolderInv /\ HoldsInv /\ PhaseInv /\ DrainInv /\ DataInv

---------------------------------------------------------------------------
(* A handler moves on: only its place, and the cache it works on, change.  *)
LEMMA GotoFacts ==
  ASSUME StateOK, NEW r \in Requests, req[r].at \in Places,
         NEW where \in Places, Goto(r, where)
  PROVE  /\ req' = [req EXCEPT ![r] = req'[r]]
         /\ req'[r] \in ReqType
         /\ req'[r].at = where /\ req'[r].store = req[r].store /\ req'[r].kind = req[r].kind
<1>1. /\ req[r] \in [at : Places, kind : AllKinds, store : Stores \cup {Nil},
                     want : Wanted \cup {"same"}, object : Nat, todo : SUBSET Stores]
  BY DEF StateOK, ReqType, New, Over, Places
<1> DEFINE q == [req[r] EXCEPT !.at = where, !.object = Nil]
<1>2. /\ q \in [at : Places, kind : AllKinds, store : Stores \cup {Nil},
                want : Wanted \cup {"same"}, object : Nat, todo : SUBSET Stores]
      /\ q.at = where /\ q.store = req[r].store /\ q.kind = req[r].kind
  BY <1>1 DEF Nil
<1>3. req' = [req EXCEPT ![r] = q] /\ r \in DOMAIN req
  BY DEF Goto, StateOK
<1> QED
  BY <1>2, <1>3 DEF ReqType

(* A handler answers.                                                      *)
LEMMA AnswerFacts ==
  ASSUME StateOK, NEW r \in Requests, Answer(r)
  PROVE  req' = [req EXCEPT ![r] = req'[r]] /\ req'[r] \in ReqType /\ req'[r].at = "over"
  BY DEF StateOK, Answer, Over, ReqType

(* A request r becomes q: the others stay, and the types are kept.         *)
LEMMA ReqChange ==
  ASSUME StateOK, NEW r \in Requests, req' = [req EXCEPT ![r] = req'[r]],
         req'[r] \in ReqType,
         req'[r].at \in AtStore => req'[r].store \in Stores,
         req'[r].at \in Places => req'[r].kind \in Kinds[r]
  PROVE  /\ req' \in [Requests -> ReqType]
         /\ \A x \in Requests : req'[x].at \in AtStore => req'[x].store \in Stores
         /\ \A x \in Requests : req'[x].at \in Places => req'[x].kind \in Kinds[x]
         /\ \A x \in Requests \ {r} : req'[x] = req[x]
  BY DEF StateOK

(* A step that concerns no lock: the handler is in none of the places      *)
(* where it may hold one, neither before nor after.                        *)
Lockless == {"new", "lookup", "ready", "scrape", "entry", "wait", "flushNow"}

(* A handler moves on that holds no lock before or after.                  *)
LEMMA MoveKeeps ==
  ASSUME ServerInv, NEW r \in Requests, req[r].at \in Lockless,
         req[r].at = "new" => phase = "serving",
         req' = [req EXCEPT ![r] = req'[r]], req'[r] \in ReqType,
         req'[r].at \in AtStore => req'[r].store \in Stores,
         req'[r].at \in Places => req'[r].kind \in Kinds[r],
         req'[r].at \in Lockless \cup {"mu", "over"},
         UNCHANGED <<locks, entries, panicked, proc, data>>
  PROVE  ServerInv'
<1> USE DEF locks, entries, proc, data
<1>1. /\ req' \in [Requests -> ReqType]
      /\ \A x \in Requests : req'[x].at \in AtStore => req'[x].store \in Stores
      /\ \A x \in Requests : req'[x].at \in Places => req'[x].kind \in Kinds[x]
      /\ \A x \in Requests \ {r} : req'[x] = req[x]
  BY ReqChange DEF ServerInv
<1>2. StateOK'
  BY <1>1 DEF ServerInv, StateOK, DataTypes
<1>3. MuInv'
  BY <1>1 DEF ServerInv, MuInv, Excludes, At, Lockless
<1>4. HolderInv'
  BY <1>1 DEF ServerInv, HolderInv, Excludes, At, Lockless
<1>5. HoldsInv'
  BY <1>1 DEF ServerInv, HoldsInv, At, Lockless
<1>6. PhaseInv'
  BY DEF ServerInv, PhaseInv
<1>7. DrainInv'
  BY <1>1 DEF ServerInv, DrainInv, Idle, At, Lockless
<1>8. DataInv'
  BY DEF ServerInv, DataInv, Kept
<1> QED
  BY <1>2, <1>3, <1>4, <1>5, <1>6, <1>7, <1>8 DEF ServerInv

(* A request comes in, and holds nothing yet.                              *)
LEMMA ArriveKeeps ==
  ASSUME ServerInv, NEW r \in Requests, Arrive(r)
  PROVE  ServerInv'
<1>1. PICK a \in Asked :
        /\ a.kind \in Kinds[r]
        /\ req' = [req EXCEPT ![r] =
                     [at |-> IF a.kind \in {"ready", "metrics"} THEN "ready" ELSE "lookup",
                      kind |-> a.kind, store |-> a.store, want |-> a.want,
                      object |-> Nil, todo |-> {}]]
  BY DEF Arrive
<1>2. /\ a.kind \in AllKinds /\ a.want \in Wanted \cup {"same"} /\ a.store \in Stores \cup {Nil}
      /\ a.kind \notin {"ready", "metrics"} => a.store \in Stores
  BY ServerConstants DEF Asked, AllKinds
<1>3. r \in DOMAIN req
  BY DEF ServerInv, StateOK
<1>4. /\ req' = [req EXCEPT ![r] = req'[r]] /\ req'[r] \in ReqType
      /\ req'[r].at \in {"ready", "lookup"} /\ req'[r].kind \in Kinds[r]
      /\ req'[r].at = "lookup" => req'[r].store \in Stores
  BY <1>1, <1>2, <1>3 DEF ReqType, Places, Nil
<1> QED
  BY <1>4, MoveKeeps DEF Arrive, At, AtStore, Places, Lockless

(* The steps in which a handler only moves on.                             *)
LEMMA HandlerMovesKeep ==
  ASSUME ServerInv, NEW r \in Requests,
         getStore(r) \/ StreamTick(r) \/ StreamEnd(r) \/ ConfigRead(r)
  PROVE  ServerInv'
<1>1. /\ req[r].at \in {"lookup", "wait", "entry"} /\ req[r].at \in Places /\ req[r].at \in AtStore
      /\ UNCHANGED <<locks, entries, panicked, proc, data>>
  BY DEF getStore, StreamTick, StreamEnd, ConfigRead, At, Places, AtStore
<1>2. req[r].store \in Stores /\ req[r].kind \in Kinds[r] /\ StateOK
  BY <1>1 DEF ServerInv, StateOK
<1>3. CASE Answer(r)
  BY <1>1, <1>3, <1>2, AnswerFacts, MoveKeeps DEF Lockless, AtStore, Places
<1>4. ASSUME NEW where \in {"wait", "entry", "mu", "flushNow"}, Goto(r, where)
      PROVE  ServerInv'
  <2>1. where \in Places
    BY DEF Places
  <2> QED
    BY <1>1, <1>2, <1>4, <2>1, GotoFacts, MoveKeeps DEF Lockless
<1> QED
  BY <1>3, <1>4 DEF getStore, StreamTick, StreamEnd, ConfigRead

(* A scrape turns to the next store; h.mu it only read to list them.       *)
LEMMA scrapeKeeps ==
  ASSUME ServerInv, NEW r \in Requests, scrape(r)
  PROVE  ServerInv'
<1>1. PICK s \in req[r].todo :
        req' = [req EXCEPT ![r] = [req[r] EXCEPT !.at = "entry", !.store = s, !.todo = @ \ {s}]]
  BY DEF scrape
<1> DEFINE q == [req[r] EXCEPT !.at = "entry", !.store = s, !.todo = @ \ {s}]
<1>2. req[r].at = "scrape" /\ req[r] \in ReqType /\ r \in DOMAIN req /\ req[r].kind \in Kinds[r]
  BY DEF scrape, At, ServerInv, StateOK, Places
<1>3. /\ req[r] \in [at : Places, kind : AllKinds, store : Stores \cup {Nil},
                     want : Wanted \cup {"same"}, object : Nat, todo : SUBSET Stores]
  BY <1>2 DEF ReqType, New, Over
<1>4. q \in ReqType /\ q.at = "entry" /\ q.store \in Stores /\ q.kind = req[r].kind
  BY <1>3 DEF ReqType, Places
<1>5. req' = [req EXCEPT ![r] = req'[r]] /\ req'[r] = q
  BY <1>1, <1>2
<1> QED
  BY <1>2, <1>4, <1>5, MoveKeeps DEF scrape, Lockless

---------------------------------------------------------------------------
(* The operations of sync.RWMutex.                                         *)
LEMMA LockOps ==
  ASSUME NEW m \in LockType, NEW p \in Requests \cup {Main}
  PROVE  /\ p \in Requests => RLock(m, p) \in LockType
         /\ RLock(m, p).readers = m.readers \cup {p}
         /\ RLock(m, p).writer = m.writer /\ RLock(m, p).next = m.next
         /\ RUnlock(m, p) \in LockType /\ RUnlock(m, p).readers = m.readers \ {p}
         /\ RUnlock(m, p).writer = m.writer /\ RUnlock(m, p).next = m.next
         /\ Announce(m, p) \in LockType /\ Announce(m, p).readers = m.readers
         /\ Announce(m, p).writer = m.writer /\ Announce(m, p).next = p
         /\ Lock(m, p) \in LockType /\ Lock(m, p).readers = m.readers
         /\ Lock(m, p).writer = p /\ Lock(m, p).next = Nobody
         /\ Unlock(m) \in LockType /\ Unlock(m).readers = m.readers
         /\ Unlock(m).writer = Nobody /\ Unlock(m).next = m.next
<1>1. p \in Requests => RLock(m, p) \in LockType
  BY DEF LockType, RLock
<1>2. /\ RLock(m, p).readers = m.readers \cup {p}
      /\ RLock(m, p).writer = m.writer /\ RLock(m, p).next = m.next
  BY DEF LockType, RLock
<1>3. /\ RUnlock(m, p) \in LockType /\ RUnlock(m, p).readers = m.readers \ {p}
      /\ RUnlock(m, p).writer = m.writer /\ RUnlock(m, p).next = m.next
  BY DEF LockType, RUnlock
<1>4. /\ Announce(m, p) \in LockType /\ Announce(m, p).readers = m.readers
      /\ Announce(m, p).writer = m.writer /\ Announce(m, p).next = p
  BY DEF LockType, Announce
<1>5. /\ Lock(m, p) \in LockType /\ Lock(m, p).readers = m.readers
      /\ Lock(m, p).writer = p /\ Lock(m, p).next = Nobody
  BY DEF LockType, Lock
<1>6. /\ Unlock(m) \in LockType /\ Unlock(m).readers = m.readers
      /\ Unlock(m).writer = Nobody /\ Unlock(m).next = m.next
  BY DEF LockType, Unlock
<1> QED
  BY <1>1, <1>2, <1>3, <1>4, <1>5, <1>6

(* One store's lock changes.                                               *)
LEMMA EntryFacts ==
  ASSUME StateOK, NEW s \in Stores, NEW m \in LockType, Entry(s, m)
  PROVE  /\ entryMu' \in [Stores -> LockType] /\ entryMu'[s] = m
         /\ \A t \in Stores \ {s} : entryMu'[t] = entryMu[t]
  BY DEF StateOK, Entry

(* A handler that runs keeps the drain from being orderly, so that what it *)
(* does cannot disturb DrainInv unless it panics; and it panics only on a  *)
(* store that main has closed.                                             *)
LEMMA BusyDrain ==
  ASSUME ServerInv, NEW r \in Requests, req[r].at \in Places, UNCHANGED <<phase, forced>>,
         panicked' = panicked \/ (\E s \in Stores : cache[s] = Nil)
  PROVE  DrainInv'
<1>1. ~Idle
  BY DEF Idle, At, Places
<1>2. phase \in {"serving", "draining"} \/ forced
  BY <1>1 DEF ServerInv, StateOK, DrainInv
<1>3. (\E s \in Stores : cache[s] = Nil) => forced
  BY <1>2 DEF ServerInv, PhaseInv
<1> QED
  BY <1>2, <1>3 DEF ServerInv, DrainInv

---------------------------------------------------------------------------
(* A request that changes, and is not one at a call, nor at a swap, before *)
(* or after: entry.mu and the caches are as they were.                     *)
LEMMA EntryLocksKept ==
  ASSUME ServerInv, NEW r \in Requests,
         \A x \in Requests \ {r} : req'[x] = req[x],
         req[r].at \notin {"call", "entryMu", "swap", "over"}, req'[r].at \notin {"call", "swap"},
         UNCHANGED <<entryMu, cache, phase, left, panicked>>
  PROVE  HolderInv' /\ HoldsInv'
<1>1. HolderInv'
  BY DEF ServerInv, HolderInv, Excludes, At
<1>2. HoldsInv'
  BY DEF ServerInv, HoldsInv, At
<1> QED
  BY <1>1, <1>2

(* readyChecks locks h.mu ...                                              *)
LEMMA readyStartKeeps ==
  ASSUME ServerInv, NEW r \in Requests, readyStart(r)
  PROVE  ServerInv'
<1> USE DEF locks, entries, proc, data
<1> DEFINE q == [req[r] EXCEPT !.at = "check", !.todo = Stores]
<1>1. /\ req[r].at = "ready" /\ req[r].at \in Places /\ StateOK
      /\ UNCHANGED <<entryMu, entries, panicked, proc, data>>
  BY DEF readyStart, At, Places, ServerInv
<1>2. /\ req[r] \in ReqType /\ r \in DOMAIN req /\ req[r].kind \in Kinds[r]
      /\ mu \in LockType
  BY <1>1 DEF StateOK
<1>3. /\ req[r] \in [at : Places, kind : AllKinds, store : Stores \cup {Nil},
                     want : Wanted \cup {"same"}, object : Nat, todo : SUBSET Stores]
  BY <1>1, <1>2 DEF ReqType, New, Over
<1>4. q \in ReqType /\ q.at = "check" /\ q.kind = req[r].kind
  BY <1>3 DEF ReqType, Places
<1>5. req' = [req EXCEPT ![r] = req'[r]] /\ req'[r] = q
  BY <1>2 DEF readyStart
<1> HIDE DEF q
<1>6. /\ req' \in [Requests -> ReqType]
      /\ \A x \in Requests : req'[x].at \in AtStore => req'[x].store \in Stores
      /\ \A x \in Requests : req'[x].at \in Places => req'[x].kind \in Kinds[x]
      /\ \A x \in Requests \ {r} : req'[x] = req[x]
  BY <1>1, <1>2, <1>4, <1>5, ReqChange DEF AtStore
<1>7. /\ mu' \in LockType /\ mu'.readers = mu.readers \cup {r}
      /\ mu'.writer = mu.writer /\ mu'.next = mu.next /\ mu.writer = Nobody /\ mu.next = Nobody
  BY <1>2, LockOps DEF readyStart, CanRead
<1>8. StateOK'
  BY <1>1, <1>6, <1>7 DEF StateOK, DataTypes
<1>9. MuInv'
  BY <1>1, <1>4, <1>5, <1>6, <1>7 DEF ServerInv, MuInv, Excludes, At
<1>10. HolderInv' /\ HoldsInv'
  BY <1>1, <1>4, <1>5, <1>6, EntryLocksKept
<1>11. PhaseInv' /\ DataInv'
  BY <1>1 DEF ServerInv, PhaseInv, DataInv, Kept
<1>12. DrainInv'
  BY <1>1, BusyDrain
<1> QED
  BY <1>8, <1>9, <1>10, <1>11, <1>12 DEF ServerInv

(* ... and gives it back after the last look.                              *)
LEMMA readyLookKeeps ==
  ASSUME ServerInv, NEW r \in Requests, readyLook(r)
  PROVE  ServerInv'
<1> USE DEF locks, entries, proc, data
<1>1. /\ req[r].at = "check" /\ req[r].at \in Places /\ StateOK
      /\ UNCHANGED <<entryMu, entries, panicked, proc, data>>
  BY DEF readyLook, At, Places, ServerInv
<1>2. /\ req[r] \in ReqType /\ r \in DOMAIN req /\ req[r].kind \in Kinds[r]
      /\ mu \in LockType
  BY <1>1 DEF StateOK
<1>3. /\ req[r] \in [at : Places, kind : AllKinds, store : Stores \cup {Nil},
                     want : Wanted \cup {"same"}, object : Nat, todo : SUBSET Stores]
  BY <1>1, <1>2 DEF ReqType, New, Over
<1>4. /\ req' = [req EXCEPT ![r] = req'[r]] /\ req'[r] \in ReqType
      /\ \/ req'[r].at = "check" /\ req'[r].kind = req[r].kind /\ mu' = mu
         \/ req'[r].at = "over" /\ mu' = RUnlock(mu, r)
         \/ req'[r].at = "scrape" /\ req'[r].kind = req[r].kind /\ mu' = RUnlock(mu, r)
  <2>1. PICK s \in req[r].todo :
          IF cache[s] # Nil /\ req[r].todo # {s}
            THEN /\ req' = [req EXCEPT ![r] = [req[r] EXCEPT !.todo = @ \ {s}]]
                 /\ UNCHANGED mu
            ELSE /\ mu' = RUnlock(mu, r)
                 /\ IF Is(r, {"ready"}) THEN Answer(r)
                    ELSE req' = [req EXCEPT ![r] =
                                   [req[r] EXCEPT !.at = "scrape", !.todo = Stores]]
    BY DEF readyLook
  <2> DEFINE q1 == [req[r] EXCEPT !.todo = @ \ {s}]
             q2 == [req[r] EXCEPT !.at = "scrape", !.todo = Stores]
  <2>2. q1 \in ReqType /\ q1.at = "check" /\ q1.kind = req[r].kind
    BY <1>1, <1>3 DEF ReqType
  <2>3. q2 \in ReqType /\ q2.at = "scrape" /\ q2.kind = req[r].kind
    BY <1>3 DEF ReqType, Places
  <2>4. CASE req' = [req EXCEPT ![r] = q1] /\ UNCHANGED mu
    BY <1>2, <2>2, <2>4
  <2>5. CASE req' = [req EXCEPT ![r] = q2] /\ mu' = RUnlock(mu, r)
    BY <1>2, <2>3, <2>5
  <2>6. CASE Answer(r) /\ mu' = RUnlock(mu, r)
    BY <1>1, <2>6, AnswerFacts
  <2> QED
    BY <2>1, <2>4, <2>5, <2>6
<1>6. /\ req' \in [Requests -> ReqType]
      /\ \A x \in Requests : req'[x].at \in AtStore => req'[x].store \in Stores
      /\ \A x \in Requests : req'[x].at \in Places => req'[x].kind \in Kinds[x]
      /\ \A x \in Requests \ {r} : req'[x] = req[x]
  BY <1>1, <1>2, <1>4, ReqChange DEF AtStore, Places
<1>7. /\ mu' \in LockType /\ mu'.readers \in {mu.readers, mu.readers \ {r}}
      /\ req'[r].at # "check" => mu'.readers = mu.readers \ {r}
      /\ mu'.writer = mu.writer /\ mu'.next = mu.next
  BY <1>2, <1>4, LockOps
<1>8. StateOK'
  BY <1>1, <1>6, <1>7 DEF StateOK, DataTypes
<1>9. MuInv'
  BY <1>1, <1>4, <1>6, <1>7 DEF ServerInv, MuInv, Excludes, At
<1>10. HolderInv' /\ HoldsInv'
  BY <1>1, <1>4, <1>6, EntryLocksKept
<1>11. PhaseInv' /\ DataInv'
  BY <1>1 DEF ServerInv, PhaseInv, DataInv, Kept
<1>12. DrainInv'
  BY <1>1, BusyDrain
<1> QED
  BY <1>8, <1>9, <1>10, <1>11, <1>12 DEF ServerInv

(* HandleConfig locks h.mu: it waits for the readers, then has it.         *)
LEMMA ConfigLocksKeeps ==
  ASSUME ServerInv, NEW r \in Requests, ConfigLocks(r),
         UNCHANGED <<entries, panicked, proc, data>>
  PROVE  ServerInv'
<1> USE DEF locks, entries, proc, data
<1>1. /\ req[r].at = "mu" /\ req[r].at \in Places /\ req[r].at \in AtStore /\ StateOK
      /\ UNCHANGED entryMu
  BY DEF ConfigLocks, At, Places, AtStore, ServerInv
<1>2. req[r].kind \in Kinds[r] /\ req[r].store \in Stores /\ mu \in LockType
  BY <1>1 DEF StateOK
<1>3. PhaseInv' /\ DataInv'
  BY <1>1 DEF ServerInv, PhaseInv, DataInv, Kept
<1>4. DrainInv'
  BY <1>1, BusyDrain
<1>5. CASE CanAnnounce(mu) /\ mu' = Announce(mu, r) /\ UNCHANGED req
  <2>1. /\ mu' \in LockType /\ mu'.readers = mu.readers /\ mu'.writer = mu.writer /\ mu'.next = r
        /\ mu.writer = Nobody /\ mu.next = Nobody
    BY <1>2, <1>5, LockOps DEF CanAnnounce
  <2>2. StateOK'
    BY <1>1, <1>5, <2>1 DEF StateOK, DataTypes
  <2>3. MuInv'
    BY <1>1, <1>5, <2>1, ServerConstants DEF ServerInv, MuInv, Excludes, At
  <2>4. HolderInv' /\ HoldsInv'
    BY <1>1, <1>5, EntryLocksKept
  <2> QED
    BY <1>3, <1>4, <2>2, <2>3, <2>4 DEF ServerInv
<1>6. CASE CanLock(mu, r) /\ mu' = Lock(mu, r) /\ Goto(r, "entryMu")
  <2>1. /\ mu' \in LockType /\ mu'.readers = {} /\ mu'.writer = r /\ mu'.next = Nobody
    BY <1>2, <1>6, LockOps DEF CanLock
  <2>2. /\ req' = [req EXCEPT ![r] = req'[r]] /\ req'[r] \in ReqType
        /\ req'[r].at = "entryMu" /\ req'[r].store = req[r].store /\ req'[r].kind = req[r].kind
    BY <1>1, <1>6, GotoFacts DEF Places
  <2>3. /\ req' \in [Requests -> ReqType]
        /\ \A x \in Requests : req'[x].at \in AtStore => req'[x].store \in Stores
        /\ \A x \in Requests : req'[x].at \in Places => req'[x].kind \in Kinds[x]
        /\ \A x \in Requests \ {r} : req'[x] = req[x]
    BY <1>1, <1>2, <2>2, ReqChange
  <2>4. StateOK'
    BY <1>1, <2>1, <2>3 DEF StateOK, DataTypes
  <2>5. MuInv'
    BY <2>1, <2>2, <2>3, ServerConstants DEF ServerInv, MuInv, Excludes, At, Nobody
  <2>6. HolderInv' /\ HoldsInv'
    BY <1>1, <2>2, <2>3, EntryLocksKept
  <2> QED
    BY <1>3, <1>4, <2>4, <2>5, <2>6 DEF ServerInv
<1> QED
  BY <1>5, <1>6 DEF ConfigLocks

---------------------------------------------------------------------------
(* A handler locks entry.mu for reading and has a cache to work on.        *)
LEMMA UseKeeps ==
  ASSUME ServerInv, NEW r \in Requests, Use(r)
  PROVE  ServerInv'
<1> USE DEF locks, entries, proc, data
<1> DEFINE s == req[r].store
           q == [req[r] EXCEPT !.at = "call", !.object = cache[s]]
<1>1. /\ req[r].at = "entry" /\ req[r].at \in Places /\ req[r].at \in AtStore /\ StateOK
      /\ UNCHANGED <<mu, entries, panicked, proc, data>> /\ cache[s] # Nil
  BY DEF Use, At, Places, AtStore, ServerInv
<1>2. /\ req[r] \in ReqType /\ r \in DOMAIN req /\ req[r].kind \in Kinds[r] /\ s \in Stores
      /\ entryMu[s] \in LockType /\ cache[s] \in Nat
  BY <1>1 DEF StateOK
<1>3. /\ req[r] \in [at : Places, kind : AllKinds, store : Stores \cup {Nil},
                     want : Wanted \cup {"same"}, object : Nat, todo : SUBSET Stores]
  BY <1>1, <1>2 DEF ReqType, New, Over
<1>4. /\ q \in ReqType /\ q.at = "call" /\ q.kind = req[r].kind /\ q.store = s
      /\ q.object = cache[s]
  BY <1>2, <1>3 DEF ReqType, Places
<1>5. req' = [req EXCEPT ![r] = req'[r]] /\ req'[r] = q
  BY <1>2 DEF Use
<1>6. Entry(s, RLock(entryMu[s], r)) /\ entryMu[s].writer = Nobody /\ entryMu[s].next = Nobody
  BY DEF Use, CanRead
<1> HIDE DEF q, s
<1>7. /\ req' \in [Requests -> ReqType]
      /\ \A x \in Requests : req'[x].at \in AtStore => req'[x].store \in Stores
      /\ \A x \in Requests : req'[x].at \in Places => req'[x].kind \in Kinds[x]
      /\ \A x \in Requests \ {r} : req'[x] = req[x]
  BY <1>1, <1>2, <1>4, <1>5, ReqChange
<1>8. /\ entryMu' \in [Stores -> LockType] /\ entryMu'[s].readers = entryMu[s].readers \cup {r}
      /\ entryMu'[s].writer = Nobody /\ entryMu'[s].next = Nobody
      /\ \A t \in Stores \ {s} : entryMu'[t] = entryMu[t]
  <2>1. /\ RLock(entryMu[s], r) \in LockType
        /\ RLock(entryMu[s], r).readers = entryMu[s].readers \cup {r}
        /\ RLock(entryMu[s], r).writer = Nobody /\ RLock(entryMu[s], r).next = Nobody
    BY <1>2, <1>6, LockOps
  <2> QED
    BY <1>1, <1>2, <1>6, <2>1, EntryFacts
<1>9. StateOK'
  BY <1>1, <1>7, <1>8 DEF StateOK, DataTypes
<1>10. MuInv'
  BY <1>1, <1>4, <1>5, <1>7 DEF ServerInv, MuInv, Excludes, At
<1>11. HolderInv'
  BY <1>1, <1>2, <1>4, <1>5, <1>7, <1>8, ServerConstants DEF ServerInv, HolderInv, Excludes, At, Nobody
<1>12. HoldsInv'
  <2> SUFFICES ASSUME NEW x \in Requests
               PROVE  /\ At(x, "call")' => /\ x \in entryMu'[req'[x].store].readers
                                           /\ req'[x].object = cache'[req'[x].store]
                                           /\ req'[x].object # Nil
                      /\ At(x, "swap")' => entryMu'[req'[x].store].writer = x
    BY DEF HoldsInv
  <2>1. CASE x = r
    BY <1>1, <1>4, <1>5, <1>8, <2>1 DEF At
  <2>2. CASE x # r
    <3>1. req'[x] = req[x] /\ (req[x].at \in {"call", "swap"} => req[x].store \in Stores)
      BY <1>1, <1>7, <2>2 DEF StateOK, AtStore
    <3> QED
      BY <1>1, <1>6, <1>8, <3>1, ServerConstants DEF ServerInv, HoldsInv, At, Nobody
  <2> QED
    BY <2>1, <2>2
<1>13. PhaseInv' /\ DataInv'
  BY <1>1 DEF ServerInv, PhaseInv, DataInv, Kept
<1>14. DrainInv'
  BY <1>1, BusyDrain
<1> QED
  BY <1>9, <1>10, <1>11, <1>12, <1>13, <1>14 DEF ServerInv

(* A handler that finds no cache panics; the stream and the metrics leave  *)
(* entry.mu locked for reading behind them.                                *)
LEMMA UseNilKeeps ==
  ASSUME ServerInv, NEW r \in Requests, UseNil(r)
  PROVE  ServerInv'
<1> USE DEF locks, entries, proc, data
<1> DEFINE s == req[r].store
           m == IF Is(r, Deferred) THEN entryMu[s] ELSE RLock(entryMu[s], r)
<1>1. /\ req[r].at = "entry" /\ req[r].at \in Places /\ req[r].at \in AtStore /\ StateOK
      /\ UNCHANGED <<mu, entries, proc, data>> /\ cache[s] = Nil
      /\ panicked' = panicked \cup {r} /\ Answer(r) /\ Entry(s, m)
      /\ entryMu[s].writer = Nobody /\ entryMu[s].next = Nobody
  BY DEF UseNil, At, Places, AtStore, ServerInv, Panic, CanRead
<1>2. s \in Stores /\ entryMu[s] \in LockType
  BY <1>1 DEF StateOK
<1>3. /\ m \in LockType /\ m.readers \subseteq entryMu[s].readers \cup {r}
      /\ entryMu[s].readers \subseteq m.readers /\ m.writer = Nobody /\ m.next = Nobody
  BY <1>1, <1>2, LockOps
<1> HIDE DEF s, m
<1>4. req' = [req EXCEPT ![r] = req'[r]] /\ req'[r] \in ReqType /\ req'[r].at = "over"
  BY <1>1, AnswerFacts
<1>5. /\ req' \in [Requests -> ReqType]
      /\ \A x \in Requests : req'[x].at \in AtStore => req'[x].store \in Stores
      /\ \A x \in Requests : req'[x].at \in Places => req'[x].kind \in Kinds[x]
      /\ \A x \in Requests \ {r} : req'[x] = req[x]
  BY <1>1, <1>4, ReqChange DEF AtStore, Places
<1>6. /\ entryMu' \in [Stores -> LockType] /\ entryMu'[s] = m
      /\ \A t \in Stores \ {s} : entryMu'[t] = entryMu[t]
  BY <1>1, <1>2, <1>3, EntryFacts
<1>7. StateOK'
  BY <1>1, <1>5, <1>6 DEF StateOK, DataTypes
<1>8. MuInv'
  BY <1>1, <1>4, <1>5 DEF ServerInv, MuInv, Excludes, At
<1>9. HolderInv'
  BY <1>1, <1>2, <1>3, <1>4, <1>5, <1>6, ServerConstants
  DEF ServerInv, HolderInv, Excludes, At, Nobody
<1>10. HoldsInv'
  <2> SUFFICES ASSUME NEW x \in Requests \ {r}
               PROVE  /\ At(x, "call")' => /\ x \in entryMu'[req'[x].store].readers
                                           /\ req'[x].object = cache'[req'[x].store]
                                           /\ req'[x].object # Nil
                      /\ At(x, "swap")' => entryMu'[req'[x].store].writer = x
    BY <1>4 DEF HoldsInv, At
  <2>1. req'[x] = req[x] /\ (req[x].at \in {"call", "swap"} => req[x].store \in Stores)
    BY <1>1, <1>5 DEF StateOK, AtStore
  <2> QED
    BY <1>1, <1>3, <1>6, <2>1, ServerConstants DEF ServerInv, HoldsInv, At, Nobody
<1>11. PhaseInv' /\ DataInv'
  BY <1>1 DEF ServerInv, PhaseInv, DataInv, Kept
<1>12. DrainInv'
  BY <1>1, <1>2, BusyDrain
<1> QED
  BY <1>7, <1>8, <1>9, <1>10, <1>11, <1>12 DEF ServerInv

(* A Set that is acknowledged is in the backing store, or in the cache     *)
(* that is the store's and still open: it cannot have been replaced or     *)
(* closed while the handler had entry.mu.                                  *)
LEMMA StoreKeeps ==
  ASSUME ServerInv, NEW r \in Requests, At(r, "call"), Store(r), UNCHANGED cache
  PROVE  DataInv' /\ DataTypes'
<1> DEFINE s == req[r].store
<1>1. s \in Stores /\ DataTypes
  BY DEF ServerInv, StateOK, At, AtStore
<1>2. req[r].object = cache[s] /\ cache[s] # Nil
  BY DEF ServerInv, HoldsInv
<1>3. CASE writePolicy[s] = "none"
  BY <1>1, <1>3 DEF Store, data, ServerInv, DataInv, Kept, DataTypes
<1>4. CASE writePolicy[s] = "write-back"
  <2>1. /\ unsaved' = [unsaved EXCEPT ![s] = @ \cup {r}]
        /\ promised' = promised \cup {r} /\ UNCHANGED <<saved, late, inHand>>
    BY <1>2, <1>4 DEF Store
  <2> HIDE DEF s
  <2>2. /\ unsaved' \in [Stores -> SUBSET Requests] /\ r \in unsaved'[s]
        /\ \A t \in Stores : unsaved[t] \subseteq unsaved'[t] /\ (t # s => unsaved'[t] = unsaved[t])
    BY <1>1, <2>1 DEF DataTypes
  <2>3. DataTypes'
    BY <1>1, <2>1, <2>2 DEF DataTypes
  <2>4. \A x \in Requests : Kept(x) => Kept(x)'
    BY <2>1, <2>2 DEF Kept
  <2>5. Kept(r)'
    BY <1>1, <2>2 DEF Kept
  <2> QED
    BY <1>1, <1>2, <2>1, <2>2, <2>3, <2>4, <2>5 DEF ServerInv, DataInv, DataTypes
<1>5. CASE writePolicy[s] \notin {"none", "write-back"}
  <2>1. /\ UNCHANGED <<unsaved, inHand, late>>
        /\ \/ saved' = saved \cup {r} /\ promised' = promised \cup {r}
           \/ UNCHANGED <<saved, promised>>
    BY <1>5 DEF Store
  <2>2. \A x \in promised' : Kept(x)'
    BY <2>1 DEF ServerInv, DataInv, Kept
  <2> QED
    BY <1>1, <2>1, <2>2 DEF ServerInv, DataInv, DataTypes
<1> QED
  BY <1>3, <1>4, <1>5

(* The call returns and gives entry.mu back.                               *)
LEMMA ReturnKeeps ==
  ASSUME ServerInv, NEW r \in Requests, Return(r)
  PROVE  ServerInv'
<1> USE DEF locks, entries, proc
<1> DEFINE s == req[r].store
<1>1. /\ req[r].at = "call" /\ At(r, "call") /\ req[r].at \in Places /\ req[r].at \in AtStore
      /\ StateOK /\ UNCHANGED <<mu, entries, panicked, proc>>
      /\ Entry(s, RUnlock(entryMu[s], r))
  BY DEF Return, At, Places, AtStore, ServerInv
<1>2. /\ s \in Stores /\ entryMu[s] \in LockType /\ req[r].kind \in Kinds[r]
      /\ DataTypes
  BY <1>1 DEF StateOK
<1>3. /\ DataInv' /\ DataTypes'
  <2>1. CASE Store(r)
    BY <1>1, <2>1, StoreKeeps
  <2>2. CASE UNCHANGED data
    BY <1>1, <1>2, <2>2 DEF data, ServerInv, DataInv, Kept, DataTypes
  <2> QED
    BY <2>1, <2>2 DEF Return
<1>4. /\ req' = [req EXCEPT ![r] = req'[r]] /\ req'[r] \in ReqType
      /\ \/ req'[r].at = "over"
         \/ req'[r].at \in {"wait", "scrape"} /\ req'[r].store = s /\ req'[r].kind = req[r].kind
  <2>1. Answer(r) \/ Goto(r, "wait") \/ Goto(r, "scrape")
    BY DEF Return
  <2>2. "wait" \in Places /\ "scrape" \in Places
    BY DEF Places
  <2> QED
    BY <1>1, <2>1, <2>2, AnswerFacts, GotoFacts
<1> HIDE DEF s
<1>5. /\ req' \in [Requests -> ReqType]
      /\ \A x \in Requests : req'[x].at \in AtStore => req'[x].store \in Stores
      /\ \A x \in Requests : req'[x].at \in Places => req'[x].kind \in Kinds[x]
      /\ \A x \in Requests \ {r} : req'[x] = req[x]
  BY <1>1, <1>2, <1>4, ReqChange DEF AtStore, Places
<1>6. /\ entryMu' \in [Stores -> LockType] /\ entryMu'[s].readers = entryMu[s].readers \ {r}
      /\ entryMu'[s].writer = entryMu[s].writer /\ entryMu'[s].next = entryMu[s].next
      /\ \A t \in Stores \ {s} : entryMu'[t] = entryMu[t]
  <2>1. /\ RUnlock(entryMu[s], r) \in LockType
        /\ RUnlock(entryMu[s], r).readers = entryMu[s].readers \ {r}
        /\ RUnlock(entryMu[s], r).writer = entryMu[s].writer
        /\ RUnlock(entryMu[s], r).next = entryMu[s].next
    BY <1>2, LockOps
  <2> QED
    BY <1>1, <1>2, <2>1, EntryFacts
<1>7. StateOK'
  BY <1>1, <1>3, <1>5, <1>6 DEF StateOK
<1>8. MuInv'
  BY <1>1, <1>4, <1>5 DEF ServerInv, MuInv, Excludes, At
<1>9. HolderInv'
  BY <1>1, <1>2, <1>4, <1>5, <1>6 DEF ServerInv, HolderInv, Excludes, At, s
<1>10. HoldsInv'
  <2> SUFFICES ASSUME NEW x \in Requests \ {r}
               PROVE  /\ At(x, "call")' => /\ x \in entryMu'[req'[x].store].readers
                                           /\ req'[x].object = cache'[req'[x].store]
                                           /\ req'[x].object # Nil
                      /\ At(x, "swap")' => entryMu'[req'[x].store].writer = x
    BY <1>4 DEF HoldsInv, At
  <2>1. req'[x] = req[x] /\ (req[x].at \in {"call", "swap"} => req[x].store \in Stores)
    BY <1>1, <1>5 DEF StateOK, AtStore
  <2> QED
    BY <1>1, <1>6, <2>1 DEF ServerInv, HoldsInv, At
<1>11. PhaseInv'
  BY <1>1 DEF ServerInv, PhaseInv
<1>12. DrainInv'
  BY <1>1, BusyDrain
<1> QED
  BY <1>3, <1>7, <1>8, <1>9, <1>10, <1>11, <1>12 DEF ServerInv

---------------------------------------------------------------------------
(* reconfigureWritePolicy locks entry.mu: it waits for the readers, then   *)
(* has it.                                                                 *)
LEMMA reconfigureLocksKeeps ==
  ASSUME ServerInv, NEW r \in Requests, reconfigureLocks(r),
         UNCHANGED <<entries, panicked, proc, data>>
  PROVE  ServerInv'
<1> USE DEF locks, entries, proc, data
<1> DEFINE s == req[r].store
<1>1. /\ req[r].at = "entryMu" /\ req[r].at \in Places /\ req[r].at \in AtStore /\ StateOK
      /\ UNCHANGED mu
  BY DEF reconfigureLocks, At, Places, AtStore, ServerInv
<1>2. req[r].kind \in Kinds[r] /\ s \in Stores /\ entryMu[s] \in LockType
  BY <1>1 DEF StateOK
<1>3. PhaseInv' /\ DataInv'
  BY <1>1 DEF ServerInv, PhaseInv, DataInv, Kept
<1>4. DrainInv'
  BY <1>1, BusyDrain
<1>5. CASE CanAnnounce(entryMu[s]) /\ Entry(s, Announce(entryMu[s], r)) /\ UNCHANGED req
  <2> HIDE DEF s
  <2>1. /\ Announce(entryMu[s], r) \in LockType /\ Announce(entryMu[s], r).next = r
        /\ Announce(entryMu[s], r).readers = entryMu[s].readers
        /\ Announce(entryMu[s], r).writer = Nobody /\ entryMu[s].writer = Nobody
    BY <1>2, <1>5, LockOps DEF CanAnnounce
  <2>2. /\ entryMu' \in [Stores -> LockType] /\ entryMu'[s].readers = entryMu[s].readers
        /\ entryMu'[s].writer = Nobody /\ entryMu'[s].next = r
        /\ \A t \in Stores \ {s} : entryMu'[t] = entryMu[t]
    BY <1>1, <1>2, <1>5, <2>1, EntryFacts
  <2>3. StateOK'
    BY <1>1, <1>5, <2>2 DEF StateOK, DataTypes
  <2>4. MuInv'
    BY <1>1, <1>5 DEF ServerInv, MuInv, Excludes, At
  <2>5. HolderInv'
    BY <1>1, <1>2, <1>5, <2>2, ServerConstants DEF ServerInv, HolderInv, Excludes, At, Nobody, s
  <2>6. HoldsInv'
    <3> SUFFICES ASSUME NEW x \in Requests
                 PROVE  /\ At(x, "call") => /\ x \in entryMu'[req[x].store].readers
                                            /\ req[x].object = cache[req[x].store]
                                            /\ req[x].object # Nil
                        /\ At(x, "swap") => entryMu'[req[x].store].writer = x
      BY <1>5 DEF HoldsInv, At
    <3>1. req[x].at \in {"call", "swap"} => req[x].store \in Stores
      BY <1>1 DEF StateOK, AtStore
    <3> QED
      BY <2>1, <2>2, <3>1 DEF ServerInv, HoldsInv, At
  <2> QED
    BY <1>3, <1>4, <2>3, <2>4, <2>5, <2>6 DEF ServerInv
<1>6. CASE CanLock(entryMu[s], r) /\ Entry(s, Lock(entryMu[s], r)) /\ Goto(r, "swap")
  <2>1. /\ req' = [req EXCEPT ![r] = req'[r]] /\ req'[r] \in ReqType
        /\ req'[r].at = "swap" /\ req'[r].store = s /\ req'[r].kind = req[r].kind
    BY <1>1, <1>6, GotoFacts DEF Places
  <2> HIDE DEF s
  <2>2. /\ req' \in [Requests -> ReqType]
        /\ \A x \in Requests : req'[x].at \in AtStore => req'[x].store \in Stores
        /\ \A x \in Requests : req'[x].at \in Places => req'[x].kind \in Kinds[x]
        /\ \A x \in Requests \ {r} : req'[x] = req[x]
    BY <1>1, <1>2, <2>1, ReqChange
  <2>3. /\ Lock(entryMu[s], r) \in LockType /\ Lock(entryMu[s], r).next = Nobody
        /\ Lock(entryMu[s], r).readers = {} /\ Lock(entryMu[s], r).writer = r
        /\ entryMu[s].readers = {} /\ entryMu[s].next = r
    BY <1>2, <1>6, LockOps DEF CanLock
  <2>4. /\ entryMu' \in [Stores -> LockType] /\ entryMu'[s].readers = {}
        /\ entryMu'[s].writer = r /\ entryMu'[s].next = Nobody
        /\ \A t \in Stores \ {s} : entryMu'[t] = entryMu[t]
    BY <1>1, <1>2, <1>6, <2>3, EntryFacts
  <2>5. StateOK'
    BY <1>1, <2>2, <2>4 DEF StateOK, DataTypes
  <2>6. MuInv'
    BY <1>1, <2>1, <2>2 DEF ServerInv, MuInv, Excludes, At
  <2>7. HolderInv'
    BY <1>1, <1>2, <2>1, <2>2, <2>4, ServerConstants
    DEF ServerInv, HolderInv, Excludes, At, Nobody, s
  <2>8. HoldsInv'
    <3> SUFFICES ASSUME NEW x \in Requests
                 PROVE  /\ At(x, "call")' => /\ x \in entryMu'[req'[x].store].readers
                                             /\ req'[x].object = cache[req'[x].store]
                                             /\ req'[x].object # Nil
                        /\ At(x, "swap")' => entryMu'[req'[x].store].writer = x
      BY DEF HoldsInv, At
    <3>1. CASE x = r
      BY <2>1, <2>4, <3>1 DEF At
    <3>2. CASE x # r
      <4>1. req'[x] = req[x] /\ (req[x].at \in {"call", "swap"} => req[x].store \in Stores)
        BY <1>1, <2>2, <3>2 DEF StateOK, AtStore
      <4>2. entryMu[s].writer # x
        BY <1>2, <2>3, ServerConstants DEF ServerInv, HolderInv, Excludes, Nobody
      <4> QED
        BY <2>3, <2>4, <4>1, <4>2 DEF ServerInv, HoldsInv, At
    <3> QED
      BY <3>1, <3>2
  <2> QED
    BY <1>3, <1>4, <2>5, <2>6, <2>7, <2>8 DEF ServerInv
<1> QED
  BY <1>5, <1>6 DEF reconfigureLocks

(* Flush moves what it can to the backing store, and takes nothing away.   *)
LEMMA FlushKeeps ==
  ASSUME ServerInv, NEW s \in Stores, Flush(s)
  PROVE  /\ DataTypes' /\ (\A r \in promised : Kept(r))'
         /\ \A t \in Stores : /\ unsaved[t] = {} => unsaved'[t] = {}
                              /\ inHand[t] = {} => inHand'[t] = {}
<1>1. DataTypes /\ \A r \in promised : Kept(r)
  BY DEF ServerInv, StateOK, DataInv
<1>2. PICK ok \in Flushed(s) : saved' = saved \cup ok /\ unsaved' = [unsaved EXCEPT ![s] = @ \ ok]
  BY DEF Flush
<1>3. ok \in SUBSET unsaved[s] /\ UNCHANGED <<inHand, late, promised>>
  BY DEF Flushed, Flush
<1>4. /\ unsaved'[s] = unsaved[s] \ ok
      /\ \A t \in Stores \ {s} : unsaved'[t] = unsaved[t]
      /\ unsaved' \in [Stores -> SUBSET Requests]
  BY <1>1, <1>2 DEF DataTypes
<1>5. DataTypes'
  BY <1>1, <1>2, <1>3, <1>4 DEF DataTypes
<1>6. \A r \in promised : Kept(r) => Kept(r)'
  BY <1>2, <1>3, <1>4 DEF Kept
<1> QED
  BY <1>1, <1>3, <1>4, <1>5, <1>6

(* Close leaves nothing in the cache: what it cannot write is left to the  *)
(* ticker.                                                                 *)
LEMMA CloseKeeps ==
  ASSUME ServerInv, NEW s \in Stores, Close(s)
  PROVE  /\ DataTypes' /\ (\A r \in promised : Kept(r))'
         /\ unsaved'[s] = {} /\ inHand'[s] = {}
         /\ \A t \in Stores : /\ unsaved[t] = {} => unsaved'[t] = {}
                              /\ inHand[t] = {} => inHand'[t] = {}
<1>1. DataTypes /\ \A r \in promised : Kept(r)
  BY DEF ServerInv, StateOK, DataInv
<1>2. PICK ok \in Flushed(s) : /\ saved' = saved \cup ok
                               /\ late' = late \cup (unsaved[s] \ ok) \cup inHand[s]
  BY DEF Close
<1>3. /\ ok \in SUBSET unsaved[s] /\ promised' = promised
      /\ unsaved' = [unsaved EXCEPT ![s] = {}] /\ inHand' = [inHand EXCEPT ![s] = {}]
  BY DEF Flushed, Close
<1>4. /\ unsaved'[s] = {} /\ inHand'[s] = {}
      /\ \A t \in Stores \ {s} : unsaved'[t] = unsaved[t] /\ inHand'[t] = inHand[t]
      /\ unsaved' \in [Stores -> SUBSET Requests] /\ inHand' \in [Stores -> SUBSET Requests]
  BY <1>1, <1>3 DEF DataTypes
<1>5. DataTypes'
  BY <1>1, <1>2, <1>3, <1>4 DEF DataTypes
<1>6. \A r \in promised : Kept(r) => Kept(r)'
  BY <1>2, <1>3, <1>4 DEF Kept
<1> QED
  BY <1>1, <1>3, <1>4, <1>5, <1>6

(* The tickers, of open caches and of closed ones.                         *)
LEMMA flushLoopKeeps ==
  ASSUME ServerInv, flushLoop
  PROVE  ServerInv'
<1> USE DEF locks, entries, proc
<1>1. UNCHANGED <<locks, entries, req, panicked, proc, promised>>
  BY DEF flushLoop, LateWrites, TickerTakes, TickerWrites
<1>2. DataTypes /\ DataInv
  BY DEF ServerInv, StateOK
<1>3. DataTypes' /\ DataInv'
  <2>1. CASE LateWrites
    <3>1. PICK r \in late : saved' = saved \cup {r}
      BY <2>1 DEF LateWrites
    <3>2. UNCHANGED <<unsaved, inHand, late>>
      BY <2>1 DEF LateWrites
    <3>3. \A x \in promised : Kept(x) => Kept(x)'
      BY <3>1, <3>2 DEF Kept
    <3> QED
      BY <1>1, <1>2, <3>1, <3>2, <3>3 DEF DataTypes, DataInv
  <2>2. ASSUME NEW s \in Stores, TickerTakes(s) PROVE DataTypes' /\ DataInv'
    <3>1. PICK r \in unsaved[s] : /\ unsaved' = [unsaved EXCEPT ![s] = @ \ {r}]
                                  /\ inHand' = [inHand EXCEPT ![s] = {r}]
      BY <2>2 DEF TickerTakes
    <3>2. inHand[s] = {} /\ UNCHANGED <<late, saved>>
      BY <2>2 DEF TickerTakes
    <3>3. /\ unsaved'[s] = unsaved[s] \ {r} /\ inHand'[s] = {r}
          /\ \A t \in Stores \ {s} : unsaved'[t] = unsaved[t] /\ inHand'[t] = inHand[t]
      BY <1>2, <3>1 DEF DataTypes
    <3>4. unsaved' \in [Stores -> SUBSET Requests] /\ inHand' \in [Stores -> SUBSET Requests]
      BY <1>2, <3>1 DEF DataTypes
    <3>5. \A x \in promised : Kept(x) => Kept(x)'
      BY <3>2, <3>3 DEF Kept
    <3>6. cache[s] # Nil
      BY <1>2, <3>1 DEF DataInv
    <3> QED
      BY <1>1, <1>2, <3>2, <3>3, <3>4, <3>5, <3>6 DEF DataTypes, DataInv
  <2>3. ASSUME NEW s \in Stores, TickerWrites(s) PROVE DataTypes' /\ DataInv'
    <3>1. /\ inHand[s] # {} /\ inHand' = [inHand EXCEPT ![s] = {}] /\ late' = late
          /\ \/ saved' = saved \cup inHand[s] /\ unsaved' = unsaved
             \/ unsaved' = [unsaved EXCEPT ![s] = @ \cup inHand[s]] /\ saved' = saved
      BY <2>3 DEF TickerWrites
    <3>2. /\ inHand'[s] = {} /\ \A t \in Stores \ {s} : inHand'[t] = inHand[t]
          /\ inHand' \in [Stores -> SUBSET Requests]
      BY <1>2, <3>1 DEF DataTypes
    <3>3. cache[s] # Nil
      BY <1>2, <3>1 DEF DataInv
    <3>4. CASE saved' = saved \cup inHand[s] /\ unsaved' = unsaved
      <4>1. \A x \in promised : Kept(x) => Kept(x)'
        BY <3>1, <3>2, <3>4 DEF Kept
      <4>2. saved' \in SUBSET Requests
        BY <1>2, <3>4 DEF DataTypes
      <4> QED
        BY <1>1, <1>2, <3>1, <3>2, <3>3, <3>4, <4>1, <4>2 DEF DataTypes, DataInv
    <3>5. CASE unsaved' = [unsaved EXCEPT ![s] = @ \cup inHand[s]] /\ saved' = saved
      <4>1. /\ unsaved'[s] = unsaved[s] \cup inHand[s]
            /\ \A t \in Stores \ {s} : unsaved'[t] = unsaved[t]
            /\ unsaved' \in [Stores -> SUBSET Requests]
        BY <1>2, <3>5 DEF DataTypes
      <4>2. \A x \in promised : Kept(x) => Kept(x)'
        BY <3>1, <3>2, <3>5, <4>1 DEF Kept
      <4> QED
        BY <1>1, <1>2, <3>1, <3>2, <3>3, <3>5, <4>1, <4>2 DEF DataTypes, DataInv
    <3> QED
      BY <3>1, <3>4, <3>5
  <2> QED
    BY <2>1, <2>2, <2>3 DEF flushLoop
<1>4. StateOK'
  BY <1>1, <1>3 DEF ServerInv, StateOK
<1>5. MuInv' /\ HolderInv' /\ HoldsInv'
  BY <1>1 DEF ServerInv, MuInv, HolderInv, HoldsInv, Excludes, At
<1>6. PhaseInv' /\ DrainInv'
  BY <1>1 DEF ServerInv, PhaseInv, DrainInv, Idle, At
<1> QED
  BY <1>3, <1>4, <1>5, <1>6 DEF ServerInv

(* FlushNow and the answer of HandleConfig.                                *)
LEMMA ConfigFlushKeeps ==
  ASSUME ServerInv, NEW r \in Requests, ConfigFlush(r)
  PROVE  ServerInv'
<1> USE DEF locks, entries, proc
<1> DEFINE s == req[r].store
<1>1. /\ req[r].at = "flushNow" /\ req[r].at \in Places /\ req[r].at \in AtStore /\ StateOK
      /\ UNCHANGED <<locks, entries, panicked, proc>> /\ Answer(r)
  BY DEF ConfigFlush, At, Places, AtStore, ServerInv
<1>2. s \in Stores
  BY <1>1 DEF StateOK
<1>3. /\ DataTypes' /\ DataInv'
  <2>1. CASE Flush(s)
    <3>1. /\ DataTypes' /\ (\A x \in promised : Kept(x))'
          /\ \A t \in Stores : /\ unsaved[t] = {} => unsaved'[t] = {}
                               /\ inHand[t] = {} => inHand'[t] = {}
      BY <1>2, <2>1, FlushKeeps
    <3>2. ASSUME NEW t \in Stores, cache'[t] = Nil
          PROVE  unsaved'[t] = {} /\ inHand'[t] = {}
      <4>1. unsaved[t] = {} /\ inHand[t] = {}
        BY <1>1, <3>2 DEF ServerInv, DataInv
      <4> QED
        BY <3>1, <4>1
    <3> QED
      BY <3>1, <3>2 DEF DataInv
  <2>2. CASE UNCHANGED data
    BY <1>1, <2>2 DEF data, ServerInv, DataInv, StateOK, DataTypes, Kept
  <2> QED
    BY <2>1, <2>2 DEF ConfigFlush
<1>4. req' = [req EXCEPT ![r] = req'[r]] /\ req'[r] \in ReqType /\ req'[r].at = "over"
  BY <1>1, AnswerFacts
<1>5. /\ req' \in [Requests -> ReqType]
      /\ \A x \in Requests : req'[x].at \in AtStore => req'[x].store \in Stores
      /\ \A x \in Requests : req'[x].at \in Places => req'[x].kind \in Kinds[x]
      /\ \A x \in Requests \ {r} : req'[x] = req[x]
  BY <1>1, <1>4, ReqChange DEF AtStore, Places
<1>6. StateOK'
  BY <1>1, <1>3, <1>5 DEF StateOK
<1>7. MuInv'
  BY <1>1, <1>4, <1>5 DEF ServerInv, MuInv, Excludes, At
<1>8. HolderInv' /\ HoldsInv'
  BY <1>1, <1>4, <1>5, EntryLocksKept
<1>9. PhaseInv'
  BY <1>1 DEF ServerInv, PhaseInv
<1>10. DrainInv'
  BY <1>1, BusyDrain
<1> QED
  BY <1>3, <1>6, <1>7, <1>8, <1>9, <1>10 DEF ServerInv

---------------------------------------------------------------------------
(* A request at its swap gives entry.mu back, and h.mu unless it panics.   *)
(* It may have replaced the cache: nobody reads, since it had entry.mu.    *)
LEMMA SwapKeeps ==
  ASSUME ServerInv, NEW r \in Requests, req[r].at = "swap", NEW s \in Stores, s = req[r].store,
         Entry(s, Unlock(entryMu[s])),
         mu' = Unlock(mu) \/ (mu' = mu /\ req'[r].at = "over" /\ r \in panicked'),
         req' = [req EXCEPT ![r] = req'[r]], req'[r] \in ReqType,
         \/ req'[r].at = "over"
         \/ req'[r].at = "flushNow" /\ req'[r].store = s /\ req'[r].kind = req[r].kind,
         panicked \in SUBSET panicked', panicked' \in SUBSET Requests,
         cache' \in [Stores -> Nat], \A t \in Stores \ {s} : cache'[t] = cache[t],
         cache'[s] = Nil <=> cache[s] = Nil,
         writePolicy' \in [Stores -> Policies \cup {"none"}],
         DataTypes',
         UNCHANGED proc
  PROVE  StateOK' /\ MuInv' /\ HolderInv' /\ HoldsInv' /\ PhaseInv'
<1> USE DEF proc
<1>1. /\ StateOK /\ req[r].at \in Places /\ req[r].at \in AtStore
      /\ mu \in LockType /\ entryMu[s] \in LockType
      /\ req[r].kind \in Kinds[r]
  BY DEF ServerInv, StateOK, Places, AtStore
<1>2. entryMu[s].writer = r /\ entryMu[s].readers = {} /\ entryMu[s].next = Nobody
  BY ServerConstants DEF ServerInv, HoldsInv, HolderInv, Excludes, At, Nobody
<1>3. /\ req' \in [Requests -> ReqType]
      /\ \A x \in Requests : req'[x].at \in AtStore => req'[x].store \in Stores
      /\ \A x \in Requests : req'[x].at \in Places => req'[x].kind \in Kinds[x]
      /\ \A x \in Requests \ {r} : req'[x] = req[x]
  BY <1>1, ReqChange DEF AtStore, Places
<1>4. /\ Unlock(entryMu[s]) \in LockType /\ Unlock(entryMu[s]).readers = {}
      /\ Unlock(entryMu[s]).writer = Nobody /\ Unlock(entryMu[s]).next = Nobody
  BY <1>1, <1>2, LockOps
<1>5. /\ entryMu' \in [Stores -> LockType] /\ entryMu'[s].readers = {}
      /\ entryMu'[s].writer = Nobody /\ entryMu'[s].next = Nobody
      /\ \A t \in Stores \ {s} : entryMu'[t] = entryMu[t]
  BY <1>1, <1>4, EntryFacts
<1>6. /\ mu' \in LockType /\ mu'.readers = mu.readers /\ mu'.next = mu.next
      /\ \/ mu'.writer = Nobody
         \/ mu'.writer = mu.writer /\ req'[r].at = "over" /\ r \in panicked'
  BY <1>1, LockOps
<1>7. StateOK'
  BY <1>1, <1>3, <1>5, <1>6 DEF StateOK
<1>8. MuInv'
  BY <1>3, <1>6, ServerConstants DEF ServerInv, MuInv, Excludes, At, Nobody
<1>9. HolderInv'
  <2> SUFFICES ASSUME NEW t \in Stores
               PROVE  /\ Excludes(entryMu'[t])
                      /\ Main \in {entryMu'[t].writer, entryMu'[t].next} =>
                           phase' = "closing" /\ t \in left'
                      /\ \A x \in Requests :
                           /\ x \in entryMu'[t].readers =>
                                \/ At(x, "call")' /\ req'[x].store = t
                                \/ At(x, "over")' /\ x \in panicked' /\ cache'[t] = Nil
                           /\ entryMu'[t].next = x => At(x, "entryMu")' /\ req'[x].store = t
                           /\ entryMu'[t].writer = x => At(x, "swap")' /\ req'[x].store = t
    BY DEF HolderInv, Excludes
  <2>1. CASE t = s
    BY <1>5, <2>1, ServerConstants DEF Excludes, Nobody
  <2>2. CASE t # s
    BY <1>3, <1>5, <2>2 DEF ServerInv, HolderInv, Excludes, At
  <2> QED
    BY <2>1, <2>2
<1>10. HoldsInv'
  <2> SUFFICES ASSUME NEW x \in Requests \ {r}
               PROVE  /\ At(x, "call")' => /\ x \in entryMu'[req'[x].store].readers
                                           /\ req'[x].object = cache'[req'[x].store]
                                           /\ req'[x].object # Nil
                      /\ At(x, "swap")' => entryMu'[req'[x].store].writer = x
    BY DEF HoldsInv, At
  <2>1. req'[x] = req[x] /\ (req[x].at \in {"call", "swap"} => req[x].store \in Stores)
    BY <1>1, <1>3 DEF StateOK, AtStore
  <2>2. req[x].at \in {"call", "swap"} => req[x].store # s
    BY <1>2 DEF ServerInv, HoldsInv, At
  <2> QED
    BY <1>5, <2>1, <2>2 DEF ServerInv, HoldsInv, At
<1>11. PhaseInv'
  BY DEF ServerInv, PhaseInv
<1> QED
  BY <1>7, <1>8, <1>9, <1>10, <1>11

(* A change to the policy the store has: the locks are given back.         *)
LEMMA reconfigureKeepsKeeps ==
  ASSUME ServerInv, NEW r \in Requests, reconfigureKeeps(r)
  PROVE  ServerInv'
<1> DEFINE s == req[r].store
<1>1. /\ req[r].at = "swap" /\ req[r].at \in Places /\ req[r].at \in AtStore /\ StateOK
      /\ Entry(s, Unlock(entryMu[s])) /\ mu' = Unlock(mu)
      /\ UNCHANGED <<entries, panicked, proc, data>>
      /\ Goto(r, "flushNow") \/ Answer(r)
  BY DEF reconfigureKeeps, At, Places, AtStore, ServerInv, ConfigUnlocks
<1>2. s \in Stores
  BY <1>1 DEF StateOK
<1>3. /\ req' = [req EXCEPT ![r] = req'[r]] /\ req'[r] \in ReqType
      /\ \/ req'[r].at = "over"
         \/ req'[r].at = "flushNow" /\ req'[r].store = s /\ req'[r].kind = req[r].kind
  BY <1>1, GotoFacts, AnswerFacts DEF Places
<1>4. StateOK' /\ MuInv' /\ HolderInv' /\ HoldsInv' /\ PhaseInv'
  <2>1. /\ panicked' = panicked /\ panicked \in SUBSET Requests
        /\ cache' = cache /\ cache \in [Stores -> Nat]
        /\ writePolicy' \in [Stores -> Policies \cup {"none"}]
        /\ DataTypes'
    BY <1>1 DEF StateOK, entries, data, DataTypes
  <2> HIDE DEF s
  <2> QED
    BY <1>1, <1>2, <1>3, <2>1, SwapKeeps DEF s
<1>5. DrainInv'
  BY <1>1, BusyDrain DEF proc
<1>6. DataInv'
  BY <1>1 DEF ServerInv, DataInv, entries, data, Kept
<1> QED
  BY <1>4, <1>5, <1>6 DEF ServerInv

(* The cache is replaced after its flush, so that nothing is lost with it. *)
LEMMA reconfigureWritePolicyKeeps ==
  ASSUME ServerInv, NEW r \in Requests, reconfigureWritePolicy(r)
  PROVE  ServerInv'
<1> DEFINE s == req[r].store
<1>1. /\ req[r].at = "swap" /\ req[r].at \in Places /\ req[r].at \in AtStore /\ StateOK
      /\ Entry(s, Unlock(entryMu[s])) /\ mu' = Unlock(mu) /\ (Flush(s) \/ Close(s)) /\ cache[s] # Nil
      /\ UNCHANGED <<panicked, proc>>
      /\ \/ /\ req[r].want \in Policies /\ cache' = [cache EXCEPT ![s] = @ + 1]
            /\ writePolicy' = [writePolicy EXCEPT ![s] = req[r].want] /\ Goto(r, "flushNow")
         \/ UNCHANGED entries /\ Answer(r)
  BY DEF reconfigureWritePolicy, At, Places, AtStore, ServerInv, ConfigUnlocks
<1>2. /\ s \in Stores /\ cache \in [Stores -> Nat]
      /\ writePolicy \in [Stores -> Policies \cup {"none"}] /\ panicked \in SUBSET Requests
  BY <1>1 DEF StateOK
<1>3. /\ req' = [req EXCEPT ![r] = req'[r]] /\ req'[r] \in ReqType
      /\ \/ req'[r].at = "over"
         \/ req'[r].at = "flushNow" /\ req'[r].store = s /\ req'[r].kind = req[r].kind
  BY <1>1, GotoFacts, AnswerFacts DEF Places
<1> HIDE DEF s
<1>4. /\ cache' \in [Stores -> Nat] /\ \A t \in Stores \ {s} : cache'[t] = cache[t]
      /\ cache'[s] # Nil /\ writePolicy' \in [Stores -> Policies \cup {"none"}]
  BY <1>1, <1>2 DEF Nil, entries
<1>5. /\ DataTypes'
      /\ (\A x \in promised : Kept(x))'
      /\ \A t \in Stores : /\ unsaved[t] = {} => unsaved'[t] = {}
                           /\ inHand[t] = {} => inHand'[t] = {}
  BY <1>1, <1>2, FlushKeeps, CloseKeeps
<1>6. StateOK' /\ MuInv' /\ HolderInv' /\ HoldsInv' /\ PhaseInv'
  BY <1>1, <1>2, <1>3, <1>4, <1>5, SwapKeeps DEF s
<1>7. DrainInv'
  BY <1>1, BusyDrain DEF proc
<1>8. DataInv'
  <2>1. ASSUME NEW t \in Stores, cache'[t] = Nil
        PROVE  unsaved'[t] = {} /\ inHand'[t] = {}
    <3>1. unsaved[t] = {} /\ inHand[t] = {}
      BY <1>4, <2>1 DEF ServerInv, DataInv
    <3> QED
      BY <1>5, <3>1
  <2> QED
    BY <1>5, <2>1 DEF DataInv
<1> QED
  BY <1>6, <1>7, <1>8 DEF ServerInv

(* The swap of a store that main has closed panics with h.mu locked.       *)
LEMMA reconfigureNilKeeps ==
  ASSUME ServerInv, NEW r \in Requests, reconfigureNil(r)
  PROVE  ServerInv'
<1> DEFINE s == req[r].store
<1>1. /\ req[r].at = "swap" /\ req[r].at \in Places /\ req[r].at \in AtStore /\ StateOK
      /\ Entry(s, Unlock(entryMu[s])) /\ mu' = mu /\ cache[s] = Nil
      /\ panicked' = panicked \cup {r} /\ Answer(r)
      /\ UNCHANGED <<entries, proc, data>>
  BY DEF reconfigureNil, At, Places, AtStore, ServerInv, Panic
<1>2. s \in Stores
  BY <1>1 DEF StateOK
<1>3. req' = [req EXCEPT ![r] = req'[r]] /\ req'[r] \in ReqType /\ req'[r].at = "over"
  BY <1>1, AnswerFacts
<1>4. StateOK' /\ MuInv' /\ HolderInv' /\ HoldsInv' /\ PhaseInv'
  <2>1. /\ r \in panicked' /\ panicked \in SUBSET panicked' /\ panicked' \in SUBSET Requests
        /\ cache' = cache /\ cache \in [Stores -> Nat]
        /\ writePolicy' \in [Stores -> Policies \cup {"none"}]
        /\ DataTypes'
    BY <1>1 DEF StateOK, entries, data, DataTypes
  <2> HIDE DEF s
  <2> QED
    BY <1>1, <1>2, <1>3, <2>1, SwapKeeps DEF s
<1>5. DrainInv'
  BY <1>1, <1>2, BusyDrain DEF proc
<1>6. DataInv'
  BY <1>1 DEF ServerInv, DataInv, entries, data, Kept
<1> QED
  BY <1>4, <1>5, <1>6 DEF ServerInv

---------------------------------------------------------------------------
(* main goes on, before it touches a store.  That a drain is orderly only  *)
(* when no handler runs is what keeps them from panicking later.           *)
LEMMA DrainKeeps ==
  ASSUME ServerInv, Signal \/ ListenFails \/ Drained \/ DrainTimesOut
  PROVE  ServerInv'
<1>1. /\ UNCHANGED <<locks, entries, req, panicked, left, backing, data>>
      /\ phase \in {"serving", "draining"} /\ phase' \in {"draining", "cleanup"}
      /\ \/ UNCHANGED forced /\ (phase' = "cleanup" => Idle)
         \/ forced' = TRUE
  BY DEF Signal, ListenFails, Drained, DrainTimesOut
<1> USE DEF locks, entries, data
<1>2. StateOK'
  <2>1. forced' \in BOOLEAN
    BY <1>1 DEF ServerInv, StateOK
  <2> QED
    BY <1>1, <2>1 DEF ServerInv, StateOK, DataTypes
<1>3. MuInv' /\ HoldsInv' /\ DataInv'
  BY <1>1 DEF ServerInv, MuInv, HoldsInv, DataInv, Excludes, At, Kept
<1>4. HolderInv'
  BY <1>1 DEF ServerInv, HolderInv, Excludes, At
<1>5. PhaseInv'
  BY <1>1 DEF ServerInv, PhaseInv
<1>6. DrainInv'
  BY <1>1 DEF ServerInv, DrainInv, Idle, At
<1> QED
  BY <1>2, <1>3, <1>4, <1>5, <1>6 DEF ServerInv

(* Shutdown lists the stores it has to close.                              *)
LEMMA ShutdownListsKeeps ==
  ASSUME ServerInv, ShutdownLists
  PROVE  ServerInv'
<1>1. /\ UNCHANGED <<locks, entries, req, panicked, backing, forced, data>>
      /\ phase = "cleanup" /\ phase' = "closing" /\ left' = Stores
  BY DEF ShutdownLists
<1> USE DEF locks, entries, data
<1>2. StateOK'
  BY <1>1 DEF ServerInv, StateOK, DataTypes
<1>3. MuInv' /\ HoldsInv' /\ DataInv'
  BY <1>1 DEF ServerInv, MuInv, HoldsInv, DataInv, Excludes, At, Kept
<1>4. HolderInv'
  BY <1>1 DEF ServerInv, HolderInv, Excludes, At
<1>5. PhaseInv'
  BY <1>1 DEF ServerInv, PhaseInv
<1>6. DrainInv'
  BY <1>1 DEF ServerInv, DrainInv, Idle, At
<1> QED
  BY <1>2, <1>3, <1>4, <1>5, <1>6 DEF ServerInv

(* Shutdown locks the entry of a store it has still to close.              *)
LEMMA ShutdownLocksKeeps ==
  ASSUME ServerInv, NEW s \in Stores, ShutdownLocks(s)
  PROVE  ServerInv'
<1> USE DEF locks, entries, proc, data
<1>1. /\ phase = "closing" /\ s \in left /\ StateOK
      /\ UNCHANGED <<mu, entries, req, panicked, proc, data>>
      /\ \/ CanAnnounce(entryMu[s]) /\ Entry(s, Announce(entryMu[s], Main))
         \/ CanLock(entryMu[s], Main) /\ Entry(s, Lock(entryMu[s], Main))
  BY DEF ShutdownLocks, ServerInv
<1>2. entryMu[s] \in LockType
  BY <1>1 DEF StateOK
<1>3. /\ entryMu' \in [Stores -> LockType] /\ entryMu'[s].readers = entryMu[s].readers
      /\ \/ entryMu'[s].writer = entryMu[s].writer /\ entryMu'[s].next = Main
            /\ entryMu[s].writer = Nobody
         \/ entryMu'[s].writer = Main /\ entryMu'[s].next = Nobody
            /\ entryMu[s].readers = {} /\ entryMu[s].next = Main
      /\ \A t \in Stores \ {s} : entryMu'[t] = entryMu[t]
  <2>1. CASE CanAnnounce(entryMu[s]) /\ Entry(s, Announce(entryMu[s], Main))
    <3>1. /\ Announce(entryMu[s], Main) \in LockType /\ Announce(entryMu[s], Main).next = Main
          /\ Announce(entryMu[s], Main).readers = entryMu[s].readers
          /\ Announce(entryMu[s], Main).writer = entryMu[s].writer /\ entryMu[s].writer = Nobody
      BY <1>2, <2>1, LockOps DEF CanAnnounce
    <3> QED
      BY <1>1, <2>1, <3>1, EntryFacts
  <2>2. CASE CanLock(entryMu[s], Main) /\ Entry(s, Lock(entryMu[s], Main))
    <3>1. /\ Lock(entryMu[s], Main) \in LockType /\ Lock(entryMu[s], Main).next = Nobody
          /\ Lock(entryMu[s], Main).readers = entryMu[s].readers
          /\ Lock(entryMu[s], Main).writer = Main
      BY <1>2, LockOps
    <3>2. entryMu[s].next = Main /\ entryMu[s].readers = {}
      BY <2>2 DEF CanLock
    <3> QED
      BY <1>1, <2>2, <3>1, <3>2, EntryFacts
  <2> QED
    BY <1>1, <2>1, <2>2
<1>4. entryMu[s].next = Main => entryMu[s].writer = Nobody
  BY ServerConstants DEF ServerInv, HolderInv, Excludes, Nobody
<1>5. StateOK'
  BY <1>1, <1>3 DEF StateOK, DataTypes
<1>6. MuInv'
  BY <1>1 DEF ServerInv, MuInv, Excludes, At
<1>7. HolderInv'
  BY <1>1, <1>3, <1>4, ServerConstants DEF ServerInv, HolderInv, Excludes, At, Nobody
<1>8. HoldsInv'
  <2> SUFFICES ASSUME NEW x \in Requests
               PROVE  /\ At(x, "call") => /\ x \in entryMu'[req[x].store].readers
                                          /\ req[x].object = cache[req[x].store]
                                          /\ req[x].object # Nil
                      /\ At(x, "swap") => entryMu'[req[x].store].writer = x
    BY <1>1 DEF HoldsInv, At
  <2>1. req[x].at \in {"call", "swap"} => req[x].store \in Stores
    BY <1>1 DEF StateOK, AtStore
  <2> QED
    BY <1>3, <1>4, <2>1, ServerConstants DEF ServerInv, HoldsInv, At, Nobody
<1>9. PhaseInv' /\ DataInv'
  BY <1>1 DEF ServerInv, PhaseInv, DataInv, Kept
<1>10. DrainInv'
  BY <1>1 DEF ServerInv, DrainInv, Idle, At
<1> QED
  BY <1>5, <1>6, <1>7, <1>8, <1>9, <1>10 DEF ServerInv

(* A store is closed under its lock: no handler is in the middle of a call *)
(* there, and the backing store is open for the last flush.                *)
LEMMA ShutdownClosesKeeps ==
  ASSUME ServerInv, NEW s \in Stores, ShutdownCloses(s)
  PROVE  ServerInv'
<1> USE DEF entries, proc
<1>1. /\ phase = "closing" /\ StateOK /\ entryMu[s].writer = Main
      /\ UNCHANGED <<mu, writePolicy, req, panicked, phase, backing, forced>>
      /\ Close(s) /\ cache' = [cache EXCEPT ![s] = Nil] /\ left' = left \ {s}
      /\ Entry(s, Unlock(entryMu[s]))
  BY DEF ShutdownCloses, ServerInv
<1>2. entryMu[s] \in LockType /\ cache \in [Stores -> Nat] /\ left \in SUBSET Stores
  BY <1>1 DEF StateOK
<1>3. /\ entryMu[s].readers = {} /\ entryMu[s].next = Nobody /\ s \in left
      /\ backing = "open"
  <2>1. entryMu[s].readers = {} /\ entryMu[s].next = Nobody /\ s \in left
    BY <1>1, ServerConstants DEF ServerInv, HolderInv, Excludes, Nobody
  <2> QED
    BY <1>1, <2>1 DEF ServerInv, PhaseInv, StateOK
<1>4. /\ Unlock(entryMu[s]) \in LockType /\ Unlock(entryMu[s]).readers = {}
      /\ Unlock(entryMu[s]).writer = Nobody /\ Unlock(entryMu[s]).next = Nobody
  BY <1>2, <1>3, LockOps
<1>5. /\ entryMu' \in [Stores -> LockType] /\ entryMu'[s].readers = {}
      /\ entryMu'[s].writer = Nobody /\ entryMu'[s].next = Nobody
      /\ \A t \in Stores \ {s} : entryMu'[t] = entryMu[t]
  BY <1>1, <1>4, EntryFacts
<1>6. /\ cache' \in [Stores -> Nat] /\ cache'[s] = Nil
      /\ \A t \in Stores \ {s} : cache'[t] = cache[t]
  BY <1>1, <1>2 DEF Nil
<1>7. /\ DataTypes' /\ unsaved'[s] = {} /\ inHand'[s] = {}
      /\ (\A x \in promised : Kept(x))'
      /\ \A t \in Stores : /\ unsaved[t] = {} => unsaved'[t] = {}
                           /\ inHand[t] = {} => inHand'[t] = {}
  BY <1>1, <1>3, CloseKeeps
<1>8. StateOK'
  BY <1>1, <1>2, <1>5, <1>6, <1>7 DEF StateOK
<1>9. MuInv'
  BY <1>1 DEF ServerInv, MuInv, Excludes, At
<1>10. HolderInv'
  <2> SUFFICES ASSUME NEW t \in Stores
               PROVE  /\ Excludes(entryMu'[t])
                      /\ Main \in {entryMu'[t].writer, entryMu'[t].next} =>
                           phase' = "closing" /\ t \in left'
                      /\ \A x \in Requests :
                           /\ x \in entryMu'[t].readers =>
                                \/ At(x, "call")' /\ req'[x].store = t
                                \/ At(x, "over")' /\ x \in panicked' /\ cache'[t] = Nil
                           /\ entryMu'[t].next = x => At(x, "entryMu")' /\ req'[x].store = t
                           /\ entryMu'[t].writer = x => At(x, "swap")' /\ req'[x].store = t
    BY DEF HolderInv, Excludes
  <2>1. CASE t = s
    BY <1>5, <2>1, ServerConstants DEF Excludes, Nobody
  <2>2. CASE t # s
    BY <1>1, <1>5, <1>6, <2>2 DEF ServerInv, HolderInv, Excludes, At
  <2> QED
    BY <2>1, <2>2
<1>11. HoldsInv'
  <2> SUFFICES ASSUME NEW x \in Requests
               PROVE  /\ At(x, "call") => /\ x \in entryMu'[req[x].store].readers
                                          /\ req[x].object = cache'[req[x].store]
                                          /\ req[x].object # Nil
                      /\ At(x, "swap") => entryMu'[req[x].store].writer = x
    BY <1>1 DEF HoldsInv, At
  <2>1. req[x].at \in {"call", "swap"} => req[x].store \in Stores
    BY <1>1 DEF StateOK, AtStore
  <2>2. req[x].at \in {"call", "swap"} => req[x].store # s
    BY <1>1, <1>3, ServerConstants DEF ServerInv, HoldsInv, At
  <2> QED
    BY <1>5, <1>6, <2>1, <2>2 DEF ServerInv, HoldsInv, At
<1>12. PhaseInv'
  BY <1>1, <1>2, <1>3, <1>6 DEF ServerInv, PhaseInv
<1>13. DrainInv'
  BY <1>1 DEF ServerInv, DrainInv, Idle, At
<1>14. DataInv'
  <2>1. ASSUME NEW t \in Stores, cache'[t] = Nil
        PROVE  unsaved'[t] = {} /\ inHand'[t] = {}
    <3>1. CASE t = s
      BY <1>7, <3>1
    <3>2. CASE t # s
      <4>1. unsaved[t] = {} /\ inHand[t] = {}
        BY <1>6, <2>1, <3>2 DEF ServerInv, DataInv
      <4> QED
        BY <1>7, <4>1
    <3> QED
      BY <3>1, <3>2
  <2> QED
    BY <1>7, <2>1 DEF DataInv
<1> QED
  BY <1>8, <1>9, <1>10, <1>11, <1>12, <1>13, <1>14 DEF ServerInv

(* The backing store is closed when every store is, and then main returns. *)
LEMMA ExitKeeps ==
  ASSUME ServerInv, CloseBacking \/ Exit
  PROVE  ServerInv'
<1> USE DEF locks, entries, data
<1>1. /\ UNCHANGED <<locks, entries, req, panicked, left, forced, data>>
      /\ left = {} /\ phase \in {"closing", "exited"} /\ phase' \in {"closing", "exited"}
      /\ backing' = "closed" /\ (phase = "closing" \/ phase' = "exited")
  BY DEF CloseBacking, Exit, ServerInv, PhaseInv
<1>2. StateOK'
  BY <1>1 DEF ServerInv, StateOK, DataTypes
<1>3. MuInv' /\ HoldsInv' /\ DataInv'
  BY <1>1 DEF ServerInv, MuInv, HoldsInv, DataInv, Excludes, At, Kept
<1>4. HolderInv'
  BY <1>1 DEF ServerInv, HolderInv, Excludes, At
<1>5. PhaseInv'
  BY <1>1 DEF ServerInv, PhaseInv
<1>6. DrainInv'
  BY <1>1 DEF ServerInv, DrainInv, Idle, At
<1> QED
  BY <1>2, <1>3, <1>4, <1>5, <1>6 DEF ServerInv

---------------------------------------------------------------------------
(* The server starts with open stores and free locks.                      *)
LEMMA InitInv ==
  ASSUME Init
  PROVE  ServerInv
<1>1. /\ Free \in LockType /\ Free.readers = {} /\ Free.writer = Nobody /\ Free.next = Nobody
  BY DEF Free, LockType
<1>2. /\ mu = Free /\ entryMu = [s \in Stores |-> Free] /\ cache = [s \in Stores |-> 1]
      /\ writePolicy \in [Stores -> Policies \cup {"none"}]
      /\ req = [r \in Requests |-> New] /\ panicked = {} /\ phase = "serving" /\ left = {}
      /\ backing = "open" /\ forced = FALSE
      /\ unsaved = [s \in Stores |-> {}] /\ inHand = [s \in Stores |-> {}]
      /\ late = {} /\ saved = {} /\ promised = {}
  BY DEF Init
<1>3. \A r \in Requests : req[r] = New /\ req[r].at = "new"
  BY <1>2 DEF New
<1>4. StateOK
  <2>1. forced \in BOOLEAN
    BY <1>2
  <2> QED
    BY <1>1, <1>2, <1>3, <2>1 DEF StateOK, ReqType, AtStore, Places, DataTypes
<1>5. MuInv /\ HolderInv /\ HoldsInv
  BY <1>1, <1>2, <1>3, ServerConstants DEF MuInv, HolderInv, HoldsInv, Excludes, At, Nobody
<1>6. PhaseInv /\ DrainInv /\ DataInv
  BY <1>2 DEF PhaseInv, DrainInv, DataInv, Nil
<1> QED
  BY <1>4, <1>5, <1>6 DEF ServerInv

(* Every step keeps the invariant.                                         *)
LEMMA NextInv ==
  ASSUME ServerInv, [Next]_vars
  PROVE  ServerInv'
<1>1. ASSUME NEW r \in Requests, Arrive(r) \/ Serve(r) \/ StreamTick(r) \/ StreamEnd(r)
      PROVE  ServerInv'
  <2>1. CASE Config(r)
    BY <2>1, HandlerMovesKeep, ConfigLocksKeeps, reconfigureLocksKeeps, reconfigureKeepsKeeps,
       reconfigureWritePolicyKeeps, reconfigureNilKeeps, ConfigFlushKeeps DEF Config
  <2>2. CASE Serve(r) /\ ~Config(r)
    BY <2>2, HandlerMovesKeep, readyStartKeeps, readyLookKeeps, scrapeKeeps, UseKeeps,
       UseNilKeeps, ReturnKeeps DEF Serve
  <2> QED
    BY <1>1, <2>1, <2>2, ArriveKeeps, HandlerMovesKeep
<1>2. CASE flushLoop
  BY <1>2, flushLoopKeeps
<1>3. CASE Signal \/ ListenFails \/ Shutdown
  BY <1>3, DrainKeeps, ShutdownListsKeeps, ShutdownLocksKeeps, ShutdownClosesKeeps, ExitKeeps
  DEF Shutdown
<1>4. CASE UNCHANGED vars
  <2> USE <1>4 DEF vars, locks, entries, proc, data
  <2>1. StateOK'
    BY DEF ServerInv, StateOK, DataTypes
  <2>2. MuInv' /\ HolderInv' /\ HoldsInv'
    BY DEF ServerInv, MuInv, HolderInv, HoldsInv, Excludes, At
  <2>3. PhaseInv' /\ DrainInv' /\ DataInv'
    BY DEF ServerInv, PhaseInv, DrainInv, DataInv, Idle, At, Kept
  <2> QED
    BY <2>1, <2>2, <2>3 DEF ServerInv
<1> QED
  BY <1>1, <1>2, <1>3, <1>4 DEF Next

(* Types, and that a writer of either lock is alone.                       *)
THEOREM TypeCorrect == Spec => []TypeOK
<1>1. ServerInv => TypeOK
  <2> SUFFICES ASSUME ServerInv PROVE TypeOK
    OBVIOUS
  <2>1. IsLock(mu)
    BY DEF ServerInv, StateOK, MuInv, LockType, IsLock, Excludes
  <2>2. \A s \in Stores : IsLock(entryMu[s])
    BY DEF ServerInv, StateOK, HolderInv, LockType, IsLock, Excludes
  <2>3. ASSUME NEW r \in Requests
        PROVE  \/ req[r] \in {New, Over}
               \/ req[r] \in [at : Places, kind : Kinds[r], store : Stores \cup {Nil},
                              want : Wanted \cup {"same"}, object : Nat, todo : SUBSET Stores]
    BY DEF ServerInv, StateOK, ReqType
  <2>4. forced \in BOOLEAN
    BY DEF ServerInv, StateOK
  <2> QED
    BY <2>1, <2>2, <2>3, <2>4 DEF ServerInv, StateOK, TypeOK, DataTypes
<1> QED
  BY <1>1, InitInv, NextInv, PTL DEF Spec

(* A Set that was acknowledged by a store with a backing store is in it    *)
(* when the process has ended (main.go: app.Shutdown before store.Close),  *)
(* whatever changes of policy, failing flushes and late handlers there     *)
(* were, unless a cache left it to its ticker when it was closed.          *)
THEOREM AcknowledgedSurvive == Spec => []WritesSurvive
<1>1. ServerInv => WritesSurvive
  <2> SUFFICES ASSUME ServerInv, phase = "exited", NEW r \in promised
               PROVE  r \in saved \cup late
    BY DEF WritesSurvive
  <2>1. \A s \in Stores : cache[s] = Nil
    BY DEF ServerInv, PhaseInv
  <2> QED
    BY <2>1 DEF ServerInv, DataInv, Kept
<1> QED
  BY <1>1, InitInv, NextInv, PTL DEF Spec

(* No handler panics on a closed cache after an orderly drain.             *)
THEOREM OrderlyDrainIsSafe == Spec => []PanicsOnlyIfForced
<1>1. ServerInv => PanicsOnlyIfForced
  BY DEF ServerInv, DrainInv, PanicsOnlyIfForced
<1> QED
  BY <1>1, InitInv, NextInv, PTL DEF Spec

(* Neither h.mu nor entry.mu outlives its request, on any path through the *)
(* handlers, unless the request panicked on a store main had closed; and   *)
(* entry.mu is then left locked for reading only.                          *)
THEOREM LocksReturned == Spec => []LocksGivenBack
<1>1. ServerInv => LocksGivenBack
  <2> SUFFICES ASSUME ServerInv PROVE LocksGivenBack
    OBVIOUS
  <2>1. \A r \in Holders(mu) : At(r, "over") => r \in panicked
    BY DEF ServerInv, StateOK, LockType, MuInv, Holders, At
  <2>2. ASSUME NEW s \in Stores, NEW r \in Holders(entryMu[s]), At(r, "over")
        PROVE  r \in panicked /\ r \in entryMu[s].readers /\ cache[s] = Nil
    <3>1. r \in Requests
      BY DEF ServerInv, StateOK, LockType, Holders
    <3> QED
      BY <2>2, <3>1 DEF ServerInv, HolderInv, Holders, At
  <2> QED
    BY <2>1, <2>2 DEF LocksGivenBack
<1> QED
  BY <1>1, InitInv, NextInv, PTL DEF Spec
===========================================================================
