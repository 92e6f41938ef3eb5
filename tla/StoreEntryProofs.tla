-------------------------- MODULE StoreEntryProofs --------------------------
(***************************************************************************)
(* Write-through and write-around for any keys, values, requests, capacity *)
(* and clock.                                                              *)
(*                                                                         *)
(* NeverAheadOfStore needs to know where a value that enters the cache     *)
(* comes from: AckInv follows it through the store and the requests.       *)
(* ReadsLastWrite is about keys at rest; what holds of a key while         *)
(* requests are at work on it is SettledInv and PendingInv.                *)
(***************************************************************************)
EXTENDS StoreEntry, FiniteSetTheorems, TLAPS

StReq ==
  [at : Places, key : Keys, value : Values \cup {NoValue}, exp : Nat, ttl : Nat,
   alone : BOOLEAN, failed : BOOLEAN]

(* Where a request carries a value that is to enter the cache or the store.*)
Carries == {"setStore", "setInner", "fill"}

StateOK ==
  /\ now \in Nat /\ writePolicy \in WritePolicies
  /\ DOMAIN live \in SUBSET Keys /\ IsFiniteSet(DOMAIN live)
  /\ Cardinality(DOMAIN live) <= Capacity
  /\ live \in [DOMAIN live -> [value : Values, expiresAt : Nat]]
  /\ DOMAIN store \in SUBSET Keys /\ store \in [DOMAIN store -> Stored(Values, Nat)]
  /\ st \in [Clients -> {Idle} \cup StReq]
  /\ \A c \in Clients : st[c].at \in Carries => st[c].value \in Values
  /\ latest \in [Keys -> [value : Values \cup {NoValue}, expiresAt : Nat]]
  /\ acked \in [Keys -> SUBSET Values]
  /\ disturbed \in SUBSET Keys

(* Every value in the cache, in the store or on its way from the store to  *)
(* the cache is one the store has accepted for its key.                    *)
AckInv ==
  /\ \A k \in DOMAIN live : live[k].value \in acked[k]
  /\ \A k \in DOMAIN store : store[k].value \in acked[k]
  /\ \A c \in Clients : st[c].at \in {"setInner", "fill"} => st[c].value \in acked[st[c].key]

(* A request that is alone on its key is the only one there.               *)
AloneInv ==
  \A c, d \in Clients :
    st[c].at \in Places /\ st[d].at \in Places /\ st[c].alone /\ st[c].key = st[d].key => c = d

(* Cache and store agree with the last write of k.                         *)
Settled(k) ==
  /\ k \in DOMAIN live => live[k].value = latest[k].value
  /\ k \in DOMAIN store => decodeFromStore(store[k]) = latest[k]
  /\ k \notin DOMAIN store => latest[k].value = NoValue \/ latest[k].expiresAt \in 1 .. now

(* A write of k has changed the store and not yet the cache.               *)
HalfDone(c, k) == st[c].at \in {"setInner", "deleteInner"} /\ st[c].key = k

SettledInv ==
  \A k \in Keys \ disturbed : (\A c \in Clients : ~HalfDone(c, k)) => Settled(k)

(* What a request that is alone on its key finds when it goes on.          *)
Pending(c) ==
  /\ st[c].at = "setInner" =>
       /\ st[c].key \in DOMAIN store /\ st[c].value = latest[st[c].key].value
       /\ decodeFromStore(store[st[c].key]) = latest[st[c].key]
  /\ st[c].at = "deleteInner" /\ ~st[c].failed => st[c].key \notin DOMAIN store
  /\ st[c].at = "fill" /\ st[c].key \notin disturbed => st[c].value = latest[st[c].key].value
  /\ st[c].at = "loadedExpired" /\ st[c].key \notin disturbed =>
       latest[st[c].key].expiresAt \in 1 .. now

PendingInv == \A c \in Clients : st[c].at \in Places /\ st[c].alone => Pending(c)

(* The inductive invariant.                                                *)
EntryInv == StateOK /\ AckInv /\ AloneInv /\ SettledInv /\ PendingInv

---------------------------------------------------------------------------
(* What encodeForStore wrote decodeFromStore gives back.                   *)
LEMMA CodecRoundTrip ==
  ASSUME NEW v \in Values, NEW exp \in Nat
  PROVE  /\ encodeForStore(v, exp) \in Stored(Values, Nat)
         /\ encodeForStore(v, exp).value = v
         /\ decodeFromStore(encodeForStore(v, exp)) = Entry(v, exp)
  BY DEF encodeForStore, decodeFromStore, Raw, Envelope, Stored, Entry

(* What is read from the store.                                            *)
LEMMA DecodeFacts ==
  ASSUME NEW raw \in Stored(Values, Nat)
  PROVE  /\ decodeFromStore(raw).value = raw.value /\ raw.value \in Values
         /\ decodeFromStore(raw).expiresAt \in Nat
  BY DEF decodeFromStore, Stored

(* A deadline is a time, or 0.                                             *)
LEMMA DeadlineType ==
  ASSUME now \in Nat, NEW ttl \in Nat
  PROVE  Deadline(ttl) \in Nat
  BY DEF Deadline

(* A cache with fewer entries is within its capacity too.                  *)
LEMMA FewerFit ==
  ASSUME NEW D, IsFiniteSet(D), Cardinality(D) <= Capacity, NEW E \in SUBSET D
  PROVE  IsFiniteSet(E) /\ Cardinality(E) <= Capacity
<1>1. IsFiniteSet(E) /\ Cardinality(E) <= Cardinality(D)
  BY FS_Subset
<1>2. Cardinality(E) \in Nat /\ Cardinality(D) \in Nat /\ Capacity \in Nat
  BY <1>1, FS_CardinalityType, EntryConstants
<1> QED
  BY <1>1, <1>2

(* inner.Set: the key is there with its value, the cache is within its     *)
(* capacity, and every other entry is as it was or gone.                   *)
LEMMA InsertFacts ==
  ASSUME StateOK, NEW k \in Keys, NEW v \in Values, NEW ttl \in Nat, Insert(k, v, ttl)
  PROVE  /\ DOMAIN live' \in SUBSET Keys /\ IsFiniteSet(DOMAIN live')
         /\ Cardinality(DOMAIN live') <= Capacity
         /\ live' \in [DOMAIN live' -> [value : Values, expiresAt : Nat]]
         /\ k \in DOMAIN live' /\ live'[k].value = v
         /\ \A x \in DOMAIN live' \ {k} : x \in DOMAIN live /\ live'[x] = live[x]
<1> DEFINE e == Entry(v, Deadline(ttl))
           ET == [value : Values, expiresAt : Nat]
           D == DOMAIN live
<1>1. /\ D \in SUBSET Keys /\ IsFiniteSet(D) /\ Cardinality(D) <= Capacity
      /\ live \in [D -> ET] /\ now \in Nat /\ Capacity \in Nat \ {0} /\ Cardinality(D) \in Nat
  BY FS_CardinalityType, EntryConstants DEF StateOK
<1>2. e \in ET /\ e.value = v
  BY <1>1, DeadlineType DEF Entry
<1> HIDE DEF e, ET
<1>3. CASE k \in D \/ Cardinality(D) < Capacity
  <2>1. live' = Put(live, k, e)
    BY <1>3 DEF Insert, e
  <2>2. DOMAIN live' = D \cup {k} /\ live' \in [D \cup {k} -> ET] /\ live'[k] = e
        /\ \A x \in D \ {k} : live'[x] = live[x]
    BY <1>1, <1>2, <2>1 DEF Put
  <2>3. IsFiniteSet(D \cup {k})
        /\ Cardinality(D \cup {k}) = IF k \in D THEN Cardinality(D) ELSE Cardinality(D) + 1
    BY <1>1, FS_AddElement
  <2>4. Cardinality(DOMAIN live') <= Capacity
    BY <1>1, <1>3, <2>2, <2>3
  <2> QED
    BY <1>1, <1>2, <2>2, <2>3, <2>4 DEF ET
<1>4. CASE ~(k \in D \/ Cardinality(D) < Capacity)
  <2>1. PICK x \in D : live' = Put(Drop(live, x), k, e)
    BY <1>4 DEF Insert, e
  <2> DEFINE f == Drop(live, x)
  <2>2. DOMAIN f = D \ {x} /\ f \in [D \ {x} -> ET] /\ \A y \in D \ {x} : f[y] = live[y]
    BY <1>1 DEF Drop
  <2> HIDE DEF f
  <2>3. /\ DOMAIN live' = (D \ {x}) \cup {k} /\ live' \in [(D \ {x}) \cup {k} -> ET]
        /\ live'[k] = e /\ \A y \in (D \ {x}) \ {k} : live'[y] = f[y]
    BY <1>2, <2>1, <2>2 DEF Put, f
  <2>4. IsFiniteSet(D \ {x}) /\ Cardinality(D \ {x}) = Cardinality(D) - 1
    BY <1>1, FS_RemoveElement
  <2>5. IsFiniteSet((D \ {x}) \cup {k})
        /\ Cardinality((D \ {x}) \cup {k}) = Cardinality(D \ {x}) + 1
    BY <1>4, <2>4, FS_AddElement
  <2>6. Cardinality(DOMAIN live') <= Capacity
    BY <1>1, <2>3, <2>4, <2>5
  <2> QED
    BY <1>1, <1>2, <2>2, <2>3, <2>5, <2>6 DEF ET
<1> QED
  BY <1>3, <1>4

---------------------------------------------------------------------------
(* A request is over.                                                      *)
LEMMA EndFacts ==
  ASSUME StateOK, NEW c \in Clients, End(c)
  PROVE  /\ st' \in [Clients -> {Idle} \cup StReq] /\ st'[c].at = "idle"
         /\ \A x \in Clients \ {c} : st'[x] = st[x]
         /\ \A x \in Clients : st'[x].at \in Carries => st'[x].value \in Values
  BY DEF StateOK, End, Idle, Carries

(* A request goes on.                                                      *)
LEMMA GotoFacts ==
  ASSUME StateOK, NEW c \in Clients, st[c].at \in Places, NEW where \in Places, Goto(c, where)
  PROVE  /\ st' \in [Clients -> {Idle} \cup StReq] /\ st'[c].at = where
         /\ st'[c].key = st[c].key /\ st'[c].value = st[c].value
         /\ st'[c].alone = st[c].alone /\ st'[c].failed = st[c].failed
         /\ \A x \in Clients \ {c} : st'[x] = st[x]
<1>1. st[c] \in StReq /\ st \in [Clients -> {Idle} \cup StReq]
  BY DEF StateOK, Idle, Places
<1> DEFINE q == [st[c] EXCEPT !.at = where]
<1>2. /\ q \in StReq /\ q.at = where /\ q.key = st[c].key /\ q.value = st[c].value
      /\ q.alone = st[c].alone /\ q.failed = st[c].failed
  BY <1>1 DEF StReq
<1>3. st' = [st EXCEPT ![c] = q]
  BY DEF Goto
<1> QED
  BY <1>1, <1>2, <1>3

(* A request that is not idle is a whole record.                           *)
LEMMA StFacts ==
  ASSUME StateOK, NEW c \in Clients
  PROVE  /\ st[c].at \in Places \cup {"idle"}
         /\ st[c].at \in Places => st[c] \in StReq
         /\ ~At(c, "idle") <=> st[c].at \in Places
  BY DEF StateOK, Idle, StReq, Places, At

(* A request begins: it is alone only if no other is at work on the key,   *)
(* and then no other stays alone there.                                    *)
LEMMA BeginFacts ==
  ASSUME StateOK, NEW c \in Clients, st[c].at = "idle", NEW k \in Keys, NEW where \in Places,
         NEW value \in Values \cup {NoValue}, NEW ttl \in Nat, NEW failed \in BOOLEAN,
         where \in Carries => value \in Values, Begin(c, k, where, value, ttl, failed)
  PROVE  /\ st' \in [Clients -> {Idle} \cup StReq]
         /\ st'[c].at = where /\ st'[c].key = k /\ st'[c].value = value /\ st'[c].failed = failed
         /\ st'[c].alone => \A x \in Clients : st[x].at \in Places => st[x].key # k
         /\ \A x \in Clients \ {c} :
              /\ st'[x].at = st[x].at
              /\ st[x].at \in Places =>
                   /\ st'[x].key = st[x].key /\ st'[x].value = st[x].value
                   /\ st'[x].failed = st[x].failed
                   /\ st'[x].alone => st[x].alone /\ st[x].key # k
         /\ \A x \in Clients : st'[x].at \in Carries => st'[x].value \in Values
<1> DEFINE none == (Busy(k) = {})
           new == [at |-> where, key |-> k, value |-> value, exp |-> Deadline(ttl),
                   ttl |-> ttl, alone |-> none, failed |-> failed]
<1>1. st \in [Clients -> {Idle} \cup StReq] /\ now \in Nat /\ Deadline(ttl) \in Nat
  BY DeadlineType DEF StateOK
<1>2. \A x \in Clients : x \in Busy(k) <=> st[x].at \in Places /\ st[x].key = k
  BY StFacts DEF Busy
<1>3. none => \A x \in Clients : st[x].at \in Places => st[x].key # k
  BY <1>2
<1>4. none \in BOOLEAN
  OBVIOUS
<1>5. /\ st' = [x \in Clients |-> IF x = c THEN new
                                  ELSE IF x \in Busy(k) THEN [st[x] EXCEPT !.alone = FALSE]
                                  ELSE st[x]]
  BY DEF Begin
<1> HIDE DEF none
<1>6. /\ new \in StReq /\ new.at = where /\ new.key = k /\ new.value = value
      /\ new.failed = failed /\ new.alone = none
  BY <1>1, <1>4 DEF StReq
<1> HIDE DEF new
<1>7. st'[c] = new
  BY <1>5
<1>8. ASSUME NEW x \in Clients \ {c}
      PROVE  /\ st'[x] \in {Idle} \cup StReq /\ st'[x].at = st[x].at
             /\ st[x].at \in Places =>
                  /\ st'[x].key = st[x].key /\ st'[x].value = st[x].value
                  /\ st'[x].failed = st[x].failed
                  /\ st'[x].alone => st[x].alone /\ st[x].key # k
  <2>1. CASE x \in Busy(k)
    <3>1. st'[x] = [st[x] EXCEPT !.alone = FALSE] /\ st[x] \in StReq
      BY <1>2, <1>5, <2>1, StFacts
    <3> QED
      BY <3>1 DEF StReq
  <2>2. CASE x \notin Busy(k)
    <3>1. st'[x] = st[x]
      BY <1>5, <2>2
    <3> QED
      BY <1>1, <1>2, <2>2, <3>1
  <2> QED
    BY <2>1, <2>2
<1>9. st' \in [Clients -> {Idle} \cup StReq]
  BY <1>5, <1>6, <1>7, <1>8
<1>10. \A x \in Clients : st'[x].at \in Carries => st'[x].value \in Values
  BY <1>6, <1>7, <1>8 DEF StateOK, Carries, Places
<1> QED
  BY <1>3, <1>6, <1>7, <1>8, <1>9, <1>10

---------------------------------------------------------------------------
(* A request for k begins.  A Delete has changed the store with its first  *)
(* step, so that k is half done; a Get that misses drops what is past its  *)
(* deadline.                                                               *)
LEMMA BeginKeeps ==
  ASSUME EntryInv, NEW c \in Clients, st[c].at = "idle", NEW k \in Keys,
         NEW where \in {"setStore", "load", "deleteInner"},
         NEW value \in Values \cup {NoValue}, NEW ttl \in Nat, NEW failed \in BOOLEAN,
         where = "setStore" => value \in Values, Begin(c, k, where, value, ttl, failed),
         live' = live \/ live' = Drop(live, k),
         store' = store \/ (where = "deleteInner" /\ store' = Drop(store, k)),
         where = "deleteInner" /\ ~failed => store' = Drop(store, k),
         UNCHANGED <<now, writePolicy, latest, acked, disturbed>>
  PROVE  EntryInv'
<1>1. StateOK /\ where \in Places /\ (where \in Carries => value \in Values)
  BY DEF EntryInv, Places, Carries
<1>2. /\ st' \in [Clients -> {Idle} \cup StReq]
      /\ st'[c].at = where /\ st'[c].key = k /\ st'[c].value = value /\ st'[c].failed = failed
      /\ st'[c].alone => \A x \in Clients : st[x].at \in Places => st[x].key # k
      /\ \A x \in Clients \ {c} :
           /\ st'[x].at = st[x].at
           /\ st[x].at \in Places =>
                /\ st'[x].key = st[x].key /\ st'[x].value = st[x].value
                /\ st'[x].failed = st[x].failed
                /\ st'[x].alone => st[x].alone /\ st[x].key # k
      /\ \A x \in Clients : st'[x].at \in Carries => st'[x].value \in Values
  BY <1>1, BeginFacts
<1>3. /\ DOMAIN live' \in {DOMAIN live, DOMAIN live \ {k}}
      /\ \A x \in DOMAIN live' : live'[x] = live[x]
      /\ live' \in [DOMAIN live' -> [value : Values, expiresAt : Nat]]
  BY <1>1 DEF StateOK, Drop
<1>4. /\ DOMAIN store' \in {DOMAIN store, DOMAIN store \ {k}}
      /\ where # "deleteInner" => DOMAIN store' = DOMAIN store
      /\ where = "deleteInner" /\ ~failed => k \notin DOMAIN store'
      /\ \A x \in DOMAIN store' : store'[x] = store[x]
      /\ store' \in [DOMAIN store' -> Stored(Values, Nat)]
  BY <1>1 DEF StateOK, Drop
<1>5. IsFiniteSet(DOMAIN live') /\ Cardinality(DOMAIN live') <= Capacity
  <2>1. DOMAIN live' \in SUBSET DOMAIN live
    BY <1>3
  <2> QED
    BY <1>1, <2>1, FewerFit DEF StateOK
<1>6. StateOK'
  BY <1>1, <1>2, <1>3, <1>4, <1>5 DEF StateOK
<1>7. AckInv'
  BY <1>2, <1>3, <1>4 DEF EntryInv, AckInv, Places
<1>8. AloneInv'
  BY <1>1, <1>2 DEF EntryInv, AloneInv
<1>9. SettledInv'
  <2> SUFFICES ASSUME NEW j \in Keys \ disturbed, \A x \in Clients : ~HalfDone(x, j)'
               PROVE  Settled(j)'
    BY DEF SettledInv
  <2>1. \A x \in Clients : ~HalfDone(x, j)
    BY <1>2 DEF HalfDone, Places
  <2>2. Settled(j)
    BY <2>1 DEF EntryInv, SettledInv
  <2>3. j = k => where # "deleteInner"
    BY <1>2 DEF HalfDone
  <2>4. j \in DOMAIN store' <=> j \in DOMAIN store
    BY <1>4, <2>3
  <2> QED
    BY <1>3, <1>4, <2>2, <2>4 DEF Settled
<1>10. PendingInv'
  <2> SUFFICES ASSUME NEW x \in Clients, st'[x].at \in Places, st'[x].alone
               PROVE  Pending(x)'
    BY DEF PendingInv
  <2>1. CASE x = c
    BY <1>2, <1>4, <2>1 DEF Pending
  <2>2. CASE x # c
    <3>1. /\ st'[x].at = st[x].at /\ st'[x].key = st[x].key /\ st'[x].value = st[x].value
          /\ st'[x].failed = st[x].failed /\ st[x].alone /\ st[x].key # k /\ st[x].at \in Places
      BY <1>2, <2>2
    <3> QED
      BY <1>4, <3>1 DEF EntryInv, PendingInv, Pending
  <2> QED
    BY <2>1, <2>2
<1> QED
  BY <1>6, <1>7, <1>8, <1>9, <1>10 DEF EntryInv

(* A request that has changed nothing is over.                             *)
LEMMA EndKeeps ==
  ASSUME EntryInv, NEW c \in Clients, st[c].at \in {"setStore", "load"}, End(c),
         UNCHANGED <<now, writePolicy, live, store, latest, acked, disturbed>>
  PROVE  EntryInv'
<1>1. /\ st' \in [Clients -> {Idle} \cup StReq] /\ st'[c].at = "idle"
      /\ \A x \in Clients \ {c} : st'[x] = st[x]
      /\ \A x \in Clients : st'[x].at \in Carries => st'[x].value \in Values
  BY EndFacts DEF EntryInv
<1>2. StateOK'
  BY <1>1 DEF EntryInv, StateOK
<1>3. AckInv'
  BY <1>1 DEF EntryInv, AckInv
<1>4. AloneInv'
  BY <1>1 DEF EntryInv, AloneInv, Places
<1>5. SettledInv'
  BY <1>1 DEF EntryInv, SettledInv, Settled, HalfDone
<1>6. PendingInv'
  BY <1>1 DEF EntryInv, PendingInv, Pending, Places
<1> QED
  BY <1>2, <1>3, <1>4, <1>5, <1>6 DEF EntryInv

---------------------------------------------------------------------------
(* A request c takes a step on its key k.  Of the other keys at most cache *)
(* entries go; what is left to show is about k alone.                      *)
LEMMA StepKeeps ==
  ASSUME EntryInv, NEW c \in Clients, st[c].at \in Places, NEW k \in Keys, k = st[c].key,
         \A x \in Clients \ {c} : st'[x] = st[x],
         \/ st'[c].at = "idle"
         \/ st'[c].at \in Places /\ st'[c].key = k /\ (st'[c].alone => st[c].alone),
         UNCHANGED now,
         \A j \in Keys \ {k} :
           /\ j \in DOMAIN live' => j \in DOMAIN live /\ live'[j] = live[j]
           /\ j \in DOMAIN store' <=> j \in DOMAIN store
           /\ j \in DOMAIN store => store'[j] = store[j]
           /\ latest'[j] = latest[j]
           /\ j \in disturbed' <=> j \in disturbed,
         k \notin disturbed' /\ (\A x \in Clients : ~HalfDone(x, k)') => Settled(k)',
         st'[c].at \in Places /\ st'[c].alone => Pending(c)'
  PROVE  AloneInv' /\ SettledInv' /\ PendingInv'
<1>1. AloneInv'
  BY DEF EntryInv, AloneInv, Places
<1>2. SettledInv'
  <2> SUFFICES ASSUME NEW j \in Keys, j \notin disturbed', \A x \in Clients : ~HalfDone(x, j)'
               PROVE  Settled(j)'
    BY DEF SettledInv
  <2>1. CASE j = k
    BY <2>1
  <2>2. CASE j # k
    <3>1. \A x \in Clients : ~HalfDone(x, j)
      BY <2>2 DEF HalfDone
    <3>2. Settled(j) /\ j \notin disturbed
      BY <2>2, <3>1 DEF EntryInv, SettledInv
    <3> QED
      BY <2>2, <3>2 DEF Settled
  <2> QED
    BY <2>1, <2>2
<1>3. PendingInv'
  <2> SUFFICES ASSUME NEW x \in Clients, st'[x].at \in Places, st'[x].alone
               PROVE  Pending(x)'
    BY DEF PendingInv
  <2>1. CASE x = c
    BY <2>1
  <2>2. CASE x # c
    <3>1. st'[x] = st[x] /\ st[x].at \in Places /\ st[x].alone
      BY <2>2
    <3>2. st[x].key \in Keys /\ st[x].key # k
      BY <2>2, <3>1, StFacts DEF EntryInv, AloneInv, StReq
    <3> QED
      BY <3>1, <3>2 DEF EntryInv, PendingInv, Pending
  <2> QED
    BY <2>1, <2>2
<1> QED
  BY <1>1, <1>2, <1>3

(* What a Set writes: store and history agree about the key from then on.  *)
LEMMA StoresFacts ==
  ASSUME EntryInv, NEW c \in Clients, st[c].at = "setStore", Stores(c)
  PROVE  /\ st[c].key \in Keys /\ st[c].value \in Values /\ st[c] \in StReq
         /\ DOMAIN store' = DOMAIN store \cup {st[c].key}
         /\ store' \in [DOMAIN store' -> Stored(Values, Nat)]
         /\ store'[st[c].key].value = st[c].value
         /\ decodeFromStore(store'[st[c].key]) = latest'[st[c].key]
         /\ \A j \in DOMAIN store \ {st[c].key} : store'[j] = store[j]
         /\ latest' \in [Keys -> [value : Values \cup {NoValue}, expiresAt : Nat]]
         /\ latest'[st[c].key].value = st[c].value
         /\ \A j \in Keys \ {st[c].key} : latest'[j] = latest[j] /\ acked'[j] = acked[j]
         /\ acked' \in [Keys -> SUBSET Values] /\ \A j \in Keys : acked[j] \in SUBSET acked'[j]
         /\ st[c].value \in acked'[st[c].key]
<1> DEFINE k == st[c].key
           v == st[c].value
           e == st[c].exp
           raw == encodeForStore(v, e)
<1>1. st[c] \in StReq /\ k \in Keys /\ v \in Values /\ e \in Nat /\ StateOK
  BY StFacts DEF EntryInv, StateOK, StReq, Places, Carries
<1>2. raw \in Stored(Values, Nat) /\ raw.value = v /\ decodeFromStore(raw) = Entry(v, e)
  BY <1>1, CodecRoundTrip
<1>3. /\ store' = Put(store, k, raw)
      /\ latest' = [latest EXCEPT ![k] = Entry(v, e)]
      /\ acked' = [acked EXCEPT ![k] = @ \cup {v}]
  BY DEF Stores
<1>4. Entry(v, e) \in [value : Values \cup {NoValue}, expiresAt : Nat] /\ Entry(v, e).value = v
  BY <1>1 DEF Entry
<1> HIDE DEF raw, k, v, e
<1>5. /\ DOMAIN store' = DOMAIN store \cup {k} /\ store' \in [DOMAIN store' -> Stored(Values, Nat)]
      /\ store'[k] = raw /\ \A j \in DOMAIN store \ {k} : store'[j] = store[j]
  BY <1>1, <1>2, <1>3 DEF Put, StateOK
<1>6. /\ latest' \in [Keys -> [value : Values \cup {NoValue}, expiresAt : Nat]]
      /\ latest'[k] = Entry(v, e) /\ \A j \in Keys \ {k} : latest'[j] = latest[j]
  BY <1>1, <1>3, <1>4 DEF StateOK
<1>7. /\ acked' \in [Keys -> SUBSET Values] /\ acked'[k] = acked[k] \cup {v}
      /\ \A j \in Keys \ {k} : acked'[j] = acked[j]
  BY <1>1, <1>3 DEF StateOK
<1> QED
  BY <1>1, <1>2, <1>4, <1>5, <1>6, <1>7 DEF k, v

(* The store takes the value of a Set, before the cache does.              *)
LEMMA SetStoreKeeps ==
  ASSUME EntryInv, NEW c \in Clients, SetStore(c)
  PROVE  EntryInv'
<1>1. /\ st[c].at = "setStore" /\ st[c].at \in Places /\ Stores(c) /\ Goto(c, "setInner")
      /\ UNCHANGED <<now, writePolicy, live, disturbed>> /\ StateOK
  BY DEF SetStore, At, Places, EntryInv
<1>k. PICK k \in Keys : k = st[c].key
  BY <1>1, StFacts DEF StReq
<1>2. /\ k \in Keys /\ st[c].value \in Values /\ st[c] \in StReq
      /\ DOMAIN store' = DOMAIN store \cup {k}
      /\ store' \in [DOMAIN store' -> Stored(Values, Nat)]
      /\ store'[k].value = st[c].value
      /\ decodeFromStore(store'[k]) = latest'[k]
      /\ \A j \in DOMAIN store \ {k} : store'[j] = store[j]
      /\ latest' \in [Keys -> [value : Values \cup {NoValue}, expiresAt : Nat]]
      /\ latest'[k].value = st[c].value
      /\ \A j \in Keys \ {k} : latest'[j] = latest[j] /\ acked'[j] = acked[j]
      /\ acked' \in [Keys -> SUBSET Values] /\ \A j \in Keys : acked[j] \in SUBSET acked'[j]
      /\ st[c].value \in acked'[k]
  BY <1>1, <1>k, StoresFacts
<1>3. /\ st' \in [Clients -> {Idle} \cup StReq] /\ st'[c].at = "setInner"
      /\ st'[c].key = k /\ st'[c].value = st[c].value /\ st'[c].alone = st[c].alone
      /\ \A x \in Clients \ {c} : st'[x] = st[x]
  BY <1>1, <1>k, GotoFacts DEF Places
<1>4. StateOK'
  BY <1>1, <1>2, <1>3 DEF StateOK
<1>5. AckInv'
  <2>1. \A j \in DOMAIN live' : live'[j].value \in acked'[j]
    BY <1>1, <1>2 DEF EntryInv, AckInv, StateOK
  <2>2. \A j \in DOMAIN store' : store'[j].value \in acked'[j]
    BY <1>1, <1>2 DEF EntryInv, AckInv, StateOK
  <2>3. ASSUME NEW x \in Clients, st'[x].at \in {"setInner", "fill"}
        PROVE  st'[x].value \in acked'[st'[x].key]
    <3>1. CASE x = c
      BY <1>2, <1>3, <3>1
    <3>2. CASE x # c
      <4>1. st'[x] = st[x] /\ st[x].key \in Keys
        BY <1>1, <1>3, <2>3, <3>2, StFacts DEF StReq, Places
      <4> QED
        BY <1>2, <2>3, <4>1 DEF EntryInv, AckInv
    <3> QED
      BY <3>1, <3>2
  <2> QED
    BY <2>1, <2>2, <2>3 DEF AckInv
<1>6. AloneInv' /\ SettledInv' /\ PendingInv'
  <2>1. HalfDone(c, k)'
    BY <1>3 DEF HalfDone
  <2>2. Pending(c)'
    BY <1>2, <1>3 DEF Pending
  <2> QED
    BY <1>1, <1>2, <1>3, <2>1, <2>2, <1>k, StepKeeps DEF Places
<1> QED
  BY <1>4, <1>5, <1>6 DEF EntryInv

(* Write-around: done with one call of the store, unless a copy of the key *)
(* stays in the cache.                                                     *)
LEMMA SetAroundKeeps ==
  ASSUME EntryInv, NEW c \in Clients, SetAround(c)
  PROVE  EntryInv'
<1>1. /\ st[c].at = "setStore" /\ st[c].at \in Places /\ Stores(c) /\ End(c)
      /\ UNCHANGED <<now, writePolicy, live>> /\ StateOK
  BY DEF SetAround, At, Places, EntryInv
<1>k. PICK k \in Keys : k = st[c].key
  BY <1>1, StFacts DEF StReq
<1>2. /\ DOMAIN store' = DOMAIN store \cup {k}
      /\ store' \in [DOMAIN store' -> Stored(Values, Nat)]
      /\ store'[k].value \in acked'[k]
      /\ decodeFromStore(store'[k]) = latest'[k]
      /\ \A j \in DOMAIN store \ {k} : store'[j] = store[j]
      /\ latest' \in [Keys -> [value : Values \cup {NoValue}, expiresAt : Nat]]
      /\ \A j \in Keys \ {k} : latest'[j] = latest[j] /\ acked'[j] = acked[j]
      /\ acked' \in [Keys -> SUBSET Values] /\ \A j \in Keys : acked[j] \in SUBSET acked'[j]
  BY <1>1, <1>k, StoresFacts
<1>3. /\ st' \in [Clients -> {Idle} \cup StReq] /\ st'[c].at = "idle"
      /\ \A x \in Clients \ {c} : st'[x] = st[x]
      /\ \A x \in Clients : st'[x].at \in Carries => st'[x].value \in Values
  BY <1>1, EndFacts
<1>4. \/ disturbed' = disturbed \ {k} /\ k \notin DOMAIN live
      \/ disturbed' = disturbed \cup {k}
  BY <1>k DEF SetAround, Settle
<1>5. StateOK'
  BY <1>1, <1>2, <1>3, <1>4 DEF StateOK
<1>6. AckInv'
  <2>1. \A j \in DOMAIN live' : live'[j].value \in acked'[j]
    BY <1>1, <1>2 DEF EntryInv, AckInv, StateOK
  <2>2. \A j \in DOMAIN store' : store'[j].value \in acked'[j]
    BY <1>1, <1>2 DEF EntryInv, AckInv, StateOK
  <2>3. ASSUME NEW x \in Clients, st'[x].at \in {"setInner", "fill"}
        PROVE  st'[x].value \in acked'[st'[x].key]
    <3>1. st'[x] = st[x] /\ st[x].key \in Keys
      BY <1>1, <1>3, <2>3, StFacts DEF StReq, Places
    <3> QED
      BY <1>2, <2>3, <3>1 DEF EntryInv, AckInv
  <2> QED
    BY <2>1, <2>2, <2>3 DEF AckInv
<1>7. AloneInv' /\ SettledInv' /\ PendingInv'
  <2>1. k \notin disturbed' => Settled(k)'
    BY <1>1, <1>2, <1>4 DEF Settled
  <2> QED
    BY <1>1, <1>k, <1>2, <1>3, <1>4, <2>1, StepKeeps DEF Places
<1> QED
  BY <1>5, <1>6, <1>7 DEF EntryInv

(* The inner cache gets a value: of a Set, whose store call is done, or of *)
(* a Get that fills it.                                                    *)
LEMMA InsertKeeps ==
  ASSUME EntryInv, NEW c \in Clients, NEW k \in Keys, k = st[c].key,
         st[c].at \in {"setInner", "fill"}, Insert(st[c].key, st[c].value, st[c].ttl), End(c),
         disturbed' \in {disturbed, disturbed \ {k}, disturbed \cup {k}},
         k \notin disturbed' => st[c].alone /\ (st[c].at = "setInner" \/ k \notin disturbed),
         UNCHANGED <<now, writePolicy, store, latest, acked>>
  PROVE  EntryInv'
<1>1. st[c].at \in Places /\ StateOK /\ st[c].at \in Carries
  BY DEF EntryInv, Places, Carries
<1>2. st[c].value \in Values /\ st[c].ttl \in Nat /\ st[c].value \in acked[k]
  BY <1>1, StFacts DEF StateOK, StReq, EntryInv, AckInv
<1>3. /\ DOMAIN live' \in SUBSET Keys /\ IsFiniteSet(DOMAIN live')
      /\ Cardinality(DOMAIN live') <= Capacity
      /\ live' \in [DOMAIN live' -> [value : Values, expiresAt : Nat]]
      /\ k \in DOMAIN live' /\ live'[k].value = st[c].value
      /\ \A x \in DOMAIN live' \ {k} : x \in DOMAIN live /\ live'[x] = live[x]
  BY <1>1, <1>2, InsertFacts
<1>4. /\ st' \in [Clients -> {Idle} \cup StReq] /\ st'[c].at = "idle"
      /\ \A x \in Clients \ {c} : st'[x] = st[x]
      /\ \A x \in Clients : st'[x].at \in Carries => st'[x].value \in Values
  BY <1>1, EndFacts
<1>5. StateOK'
  BY <1>1, <1>3, <1>4 DEF StateOK
<1>6. AckInv'
  <2>1. \A j \in DOMAIN live' : live'[j].value \in acked[j]
    BY <1>2, <1>3 DEF EntryInv, AckInv
  <2>2. \A x \in Clients : st'[x].at \in {"setInner", "fill"} => st'[x].value \in acked[st'[x].key]
    BY <1>4 DEF EntryInv, AckInv
  <2> QED
    BY <2>1, <2>2 DEF EntryInv, AckInv
<1>7. AloneInv' /\ SettledInv' /\ PendingInv'
  <2>1. ASSUME k \notin disturbed' PROVE Settled(k)'
    <3>1. Pending(c) /\ st[c].alone
      BY <1>1, <2>1 DEF EntryInv, PendingInv
    <3>2. CASE st[c].at = "setInner"
      <4>1. /\ k \in DOMAIN store /\ st[c].value = latest[k].value
            /\ decodeFromStore(store[k]) = latest[k]
        BY <3>1, <3>2 DEF Pending
      <4> QED
        BY <1>3, <4>1 DEF Settled
    <3>3. CASE st[c].at = "fill"
      <4>1. k \notin disturbed /\ st[c].value = latest[k].value
        BY <2>1, <3>1, <3>3 DEF Pending
      <4>2. ASSUME NEW x \in Clients, HalfDone(x, k) PROVE FALSE
        BY <1>1, <3>1, <3>3, <4>2 DEF EntryInv, AloneInv, HalfDone, Places
      <4>3. Settled(k)
        BY <4>1, <4>2 DEF EntryInv, SettledInv
      <4> QED
        BY <1>3, <4>1, <4>3 DEF Settled
    <3> QED
      BY <3>2, <3>3
  <2> QED
    BY <1>1, <1>3, <1>4, <2>1, StepKeeps DEF Places
<1> QED
  BY <1>5, <1>6, <1>7 DEF EntryInv

(* The cache takes the value of a Set that the store has.                  *)
LEMMA SetInnerKeeps ==
  ASSUME EntryInv, NEW c \in Clients, SetInner(c)
  PROVE  EntryInv'
<1>1. st[c].at = "setInner" /\ st[c].at \in Places /\ StateOK
  BY DEF SetInner, At, Places, EntryInv
<1>k. PICK k \in Keys : k = st[c].key
  BY <1>1, StFacts DEF StReq
<1>2. \/ disturbed' = disturbed \ {k} /\ st[c].alone
      \/ disturbed' = disturbed \cup {k}
  BY <1>k DEF SetInner, Settle
<1> QED
  BY <1>1, <1>k, <1>2, InsertKeeps DEF SetInner

(* The cache takes what a Get has read from the store.                     *)
LEMMA GetFillKeeps ==
  ASSUME EntryInv, NEW c \in Clients, GetFill(c)
  PROVE  EntryInv'
<1>1. st[c].at = "fill" /\ st[c].at \in Places /\ StateOK
  BY DEF GetFill, At, Places, EntryInv
<1>k. PICK k \in Keys : k = st[c].key
  BY <1>1, StFacts DEF StReq
<1>2. \/ disturbed' = disturbed /\ st[c].alone
      \/ disturbed' = disturbed \cup {k}
  BY <1>k DEF GetFill, Leave
<1> QED
  BY <1>1, <1>k, <1>2, InsertKeeps DEF GetFill

(* A key that is not disturbed is settled for a request that is alone on   *)
(* it and has not written.                                                 *)
LEMMA AloneFindsSettled ==
  ASSUME EntryInv, NEW c \in Clients, st[c].at \in {"load", "fill", "loadedExpired"},
         NEW k \in Keys \ disturbed, k = st[c].key, st[c].alone
  PROVE  Settled(k)
<1>1. ASSUME NEW x \in Clients, HalfDone(x, k) PROVE FALSE
  BY <1>1 DEF EntryInv, AloneInv, HalfDone, Places
<1> QED
  BY <1>1 DEF EntryInv, SettledInv

(* Get has read the store: the entry is past its deadline, or goes to the  *)
(* cache, or, with write-around, only to the caller.                       *)
LEMMA GetLoadKeeps ==
  ASSUME EntryInv, NEW c \in Clients, GetLoad(c)
  PROVE  EntryInv'
<1> DEFINE d == decodeFromStore(store[st[c].key])
           q == [st[c] EXCEPT !.at = "fill", !.value = d.value, !.ttl = ttlLeft(d.expiresAt, now)]
<1>1. /\ st[c].at = "load" /\ st[c].at \in Places /\ StateOK /\ st[c].key \in DOMAIN store
      /\ UNCHANGED <<now, writePolicy, live, store, latest, acked, disturbed>>
      /\ \/ ttlExpired(d.expiresAt, now) /\ Goto(c, "loadedExpired")
         \/ End(c)
         \/ ~ttlExpired(d.expiresAt, now) /\ st' = [st EXCEPT ![c] = q]
  BY DEF GetLoad, At, Places, EntryInv
<1>k. PICK k \in Keys : k = st[c].key
  BY <1>1, StFacts DEF StReq
<1>2. d.value = store[k].value /\ d.value \in Values /\ d.expiresAt \in Nat /\ now \in Nat
  BY <1>1, <1>k, DecodeFacts DEF StateOK
<1>3. st[c].alone /\ k \notin disturbed => Settled(k)
  BY <1>1, <1>k, AloneFindsSettled
<1>4. st[c].alone /\ k \notin disturbed => d = latest[k]
  BY <1>1, <1>k, <1>3 DEF Settled
<1> HIDE DEF d
<1>5. CASE ttlExpired(d.expiresAt, now) /\ Goto(c, "loadedExpired")
  <2>1. /\ st' \in [Clients -> {Idle} \cup StReq] /\ st'[c].at = "loadedExpired"
        /\ st'[c].key = k /\ st'[c].alone = st[c].alone
        /\ \A x \in Clients \ {c} : st'[x] = st[x]
    BY <1>1, <1>k, <1>5, GotoFacts DEF Places
  <2>2. StateOK'
    BY <1>1, <2>1 DEF StateOK, Carries
  <2>3. AckInv'
    BY <1>1, <2>1 DEF EntryInv, AckInv
  <2>4. AloneInv' /\ SettledInv' /\ PendingInv'
    <3>1. d.expiresAt \in 1 .. now
      BY <1>2, <1>5 DEF ttlExpired
    <3>2. st'[c].alone => Pending(c)'
      BY <1>1, <1>4, <2>1, <3>1 DEF Pending
    <3>3. k \notin disturbed /\ (\A x \in Clients : ~HalfDone(x, k)') => Settled(k)'
      <4>1. (\A x \in Clients : ~HalfDone(x, k)') => (\A x \in Clients : ~HalfDone(x, k))
        BY <1>1, <2>1 DEF HalfDone
      <4> QED
        BY <1>1, <4>1 DEF EntryInv, SettledInv, Settled
    <3> QED
      BY <1>1, <1>k, <2>1, <3>2, <3>3, StepKeeps DEF Places
  <2> QED
    BY <2>2, <2>3, <2>4 DEF EntryInv
<1>6. CASE End(c)
  BY <1>1, <1>6, EndKeeps
<1>7. CASE ~ttlExpired(d.expiresAt, now) /\ st' = [st EXCEPT ![c] = q]
  <2>1. ttlLeft(d.expiresAt, now) \in Nat
    BY <1>2, <1>7 DEF ttlLeft, ttlExpired
  <2>2. st[c] \in StReq
    BY <1>1, StFacts
  <2>3. /\ q \in StReq /\ q.at = "fill" /\ q.key = st[c].key /\ q.alone = st[c].alone
        /\ q.value = d.value
    BY <1>2, <2>1, <2>2 DEF StReq, Places
  <2> HIDE DEF q
  <2>4. /\ st' \in [Clients -> {Idle} \cup StReq] /\ st'[c].at = "fill"
        /\ st'[c].key = k /\ st'[c].alone = st[c].alone /\ st'[c].value = d.value
        /\ \A x \in Clients \ {c} : st'[x] = st[x]
    BY <1>1, <1>k, <1>7, <2>3 DEF StateOK
  <2>5. StateOK'
    BY <1>1, <1>2, <2>4 DEF StateOK
  <2>6. AckInv'
    <3>1. d.value \in acked[k]
      BY <1>1, <1>k, <1>2 DEF EntryInv, AckInv
    <3> QED
      BY <1>1, <2>4, <3>1 DEF EntryInv, AckInv
  <2>7. AloneInv' /\ SettledInv' /\ PendingInv'
    <3>1. st'[c].alone => Pending(c)'
      BY <1>1, <1>4, <2>4 DEF Pending
    <3>2. k \notin disturbed /\ (\A x \in Clients : ~HalfDone(x, k)') => Settled(k)'
      <4>1. (\A x \in Clients : ~HalfDone(x, k)') => (\A x \in Clients : ~HalfDone(x, k))
        BY <1>1, <2>4 DEF HalfDone
      <4> QED
        BY <1>1, <4>1 DEF EntryInv, SettledInv, Settled
    <3> QED
      BY <1>1, <1>k, <2>4, <3>1, <3>2, StepKeeps DEF Places
  <2> QED
    BY <2>5, <2>6, <2>7 DEF EntryInv
<1> QED
  BY <1>1, <1>5, <1>6, <1>7

(* An entry past its deadline leaves the store; if another request wrote   *)
(* the key in between, its value goes in its place, and the key counts as  *)
(* disturbed.                                                              *)
LEMMA GetDropsExpiredKeeps ==
  ASSUME EntryInv, NEW c \in Clients, GetDropsExpired(c)
  PROVE  EntryInv'
<1>1. /\ st[c].at = "loadedExpired" /\ st[c].at \in Places /\ StateOK /\ End(c)
      /\ UNCHANGED <<now, writePolicy, live, latest, acked>>
      /\ store' = Drop(store, st[c].key) \/ store' = store
  BY DEF GetDropsExpired, At, Places, EntryInv
<1>k. PICK k \in Keys : k = st[c].key
  BY <1>1, StFacts DEF StReq
<1>2. \/ disturbed' = disturbed /\ st[c].alone
      \/ disturbed' = disturbed \cup {k}
  BY <1>k DEF GetDropsExpired, Leave
<1>3. /\ DOMAIN store' \in {DOMAIN store, DOMAIN store \ {k}}
      /\ \A x \in DOMAIN store' : store'[x] = store[x]
      /\ store' \in [DOMAIN store' -> Stored(Values, Nat)]
  BY <1>1, <1>k DEF StateOK, Drop
<1>4. /\ st' \in [Clients -> {Idle} \cup StReq] /\ st'[c].at = "idle"
      /\ \A x \in Clients \ {c} : st'[x] = st[x]
      /\ \A x \in Clients : st'[x].at \in Carries => st'[x].value \in Values
  BY <1>1, EndFacts
<1>5. StateOK'
  BY <1>1, <1>2, <1>3, <1>4 DEF StateOK
<1>6. AckInv'
  BY <1>1, <1>3, <1>4 DEF EntryInv, AckInv
<1>7. AloneInv' /\ SettledInv' /\ PendingInv'
  <2>1. ASSUME k \notin disturbed' PROVE Settled(k)'
    <3>1. st[c].alone /\ k \notin disturbed
      BY <1>2, <2>1
    <3>2. Settled(k) /\ latest[k].expiresAt \in 1 .. now
      BY <1>1, <1>k, <3>1, AloneFindsSettled DEF EntryInv, PendingInv, Pending
    <3> QED
      BY <1>1, <1>3, <3>2 DEF Settled
  <2> QED
    BY <1>1, <1>k, <1>2, <1>3, <1>4, <2>1, StepKeeps DEF Places
<1> QED
  BY <1>5, <1>6, <1>7 DEF EntryInv

(* The cache forgets the deleted key; the store has, if it did not fail.   *)
LEMMA DeleteInnerKeeps ==
  ASSUME EntryInv, NEW c \in Clients, DeleteInner(c)
  PROVE  EntryInv'
<1>1. /\ st[c].at = "deleteInner" /\ st[c].at \in Places /\ StateOK /\ End(c)
      /\ UNCHANGED <<now, writePolicy, store, acked>>
      /\ live' = Drop(live, st[c].key)
      /\ latest' = [latest EXCEPT ![st[c].key] = Entry(NoValue, 0)]
  BY DEF DeleteInner, At, Places, EntryInv
<1>k. PICK k \in Keys : k = st[c].key
  BY <1>1, StFacts DEF StReq
<1>2. \/ disturbed' = disturbed \ {k} /\ st[c].alone /\ ~st[c].failed
      \/ disturbed' = disturbed \cup {k}
  BY <1>k DEF DeleteInner, Settle
<1>3. /\ DOMAIN live' = DOMAIN live \ {k} /\ \A x \in DOMAIN live' : live'[x] = live[x]
      /\ live' \in [DOMAIN live' -> [value : Values, expiresAt : Nat]]
  BY <1>1, <1>k DEF StateOK, Drop
<1>4. IsFiniteSet(DOMAIN live') /\ Cardinality(DOMAIN live') <= Capacity
  <2>1. DOMAIN live' \in SUBSET DOMAIN live
    BY <1>3
  <2> QED
    BY <1>1, <2>1, FewerFit DEF StateOK
<1>5. /\ latest' \in [Keys -> [value : Values \cup {NoValue}, expiresAt : Nat]]
      /\ latest'[k].value = NoValue /\ \A j \in Keys \ {k} : latest'[j] = latest[j]
  BY <1>1, <1>k DEF StateOK, Entry
<1>6. /\ st' \in [Clients -> {Idle} \cup StReq] /\ st'[c].at = "idle"
      /\ \A x \in Clients \ {c} : st'[x] = st[x]
      /\ \A x \in Clients : st'[x].at \in Carries => st'[x].value \in Values
  BY <1>1, EndFacts
<1>7. StateOK'
  BY <1>1, <1>2, <1>3, <1>4, <1>5, <1>6 DEF StateOK
<1>8. AckInv'
  BY <1>1, <1>3, <1>6 DEF EntryInv, AckInv
<1>9. AloneInv' /\ SettledInv' /\ PendingInv'
  <2>1. ASSUME k \notin disturbed' PROVE Settled(k)'
    <3>1. k \notin DOMAIN store
      BY <1>1, <1>k, <1>2, <2>1 DEF EntryInv, PendingInv, Pending
    <3> QED
      BY <1>1, <1>3, <1>5, <3>1 DEF Settled
  <2> QED
    BY <1>1, <1>k, <1>2, <1>3, <1>5, <1>6, <2>1, StepKeeps DEF Places
<1> QED
  BY <1>7, <1>8, <1>9 DEF EntryInv

---------------------------------------------------------------------------
(* The first steps of the requests.                                        *)
LEMMA FirstStepsKeep ==
  ASSUME EntryInv, NEW c \in Clients,
         SetBegin(c) \/ (\E k \in Keys : GetMiss(c, k)) \/ DeleteStore(c)
  PROVE  EntryInv'
<1>1. CASE SetBegin(c)
  <2>1. PICK k \in Keys, v \in Values, ttl \in TTLs : Begin(c, k, "setStore", v, ttl, FALSE)
    BY <1>1 DEF SetBegin
  <2>2. ttl \in Nat /\ v \in Values \cup {NoValue}
    BY EntryConstants
  <2> QED
    BY <1>1, <2>1, <2>2, BeginKeeps DEF SetBegin, At
<1>2. ASSUME NEW k \in Keys, GetMiss(c, k) PROVE EntryInv'
  BY <1>2, BeginKeeps DEF GetMiss, At
<1>3. CASE DeleteStore(c)
  <2>1. /\ st[c].at = "idle" /\ UNCHANGED <<now, writePolicy, live, latest, acked, disturbed>>
    BY <1>3 DEF DeleteStore, At
  <2>2. PICK k \in Keys :
          \/ store' = Drop(store, k) /\ Begin(c, k, "deleteInner", NoValue, 0, FALSE)
          \/ store' = store /\ Begin(c, k, "deleteInner", NoValue, 0, TRUE)
    BY <1>3 DEF DeleteStore
  <2>3. CASE store' = Drop(store, k) /\ Begin(c, k, "deleteInner", NoValue, 0, FALSE)
    BY <2>1, <2>3, BeginKeeps
  <2>4. CASE store' = store /\ Begin(c, k, "deleteInner", NoValue, 0, TRUE)
    BY <2>1, <2>4, BeginKeeps
  <2> QED
    BY <2>2, <2>3, <2>4
<1> QED
  BY <1>1, <1>2, <1>3

(* Steps after which every cache entry is an old one with its value:       *)
(* Purge, a change of policy, and the clock.                               *)
LEMMA CacheShrinks ==
  ASSUME EntryInv, DOMAIN live' \in SUBSET DOMAIN live,
         live' \in [DOMAIN live' -> [value : Values, expiresAt : Nat]],
         \A k \in DOMAIN live' : live'[k].value = live[k].value,
         now' \in Nat, now <= now', writePolicy' \in WritePolicies,
         UNCHANGED <<store, st, latest, acked, disturbed>>
  PROVE  EntryInv'
<1>1. IsFiniteSet(DOMAIN live') /\ Cardinality(DOMAIN live') <= Capacity
  BY FewerFit DEF EntryInv, StateOK
<1>2. StateOK'
  BY <1>1 DEF EntryInv, StateOK
<1>3. AckInv' /\ AloneInv'
  BY DEF EntryInv, AckInv, AloneInv
<1>4. \A i \in 1 .. now : i \in 1 .. now'
  BY DEF EntryInv, StateOK
<1>5. SettledInv'
  BY <1>4 DEF EntryInv, SettledInv, Settled, HalfDone
<1>6. PendingInv'
  BY <1>4 DEF EntryInv, PendingInv, Pending
<1> QED
  BY <1>2, <1>3, <1>5, <1>6 DEF EntryInv

(* cloneEntriesIntoCache changes deadlines, and no value.                  *)
LEMMA OtherStepsKeep ==
  ASSUME EntryInv,
         \/ Tick
         \/ \E c \in Clients : Purge(c)
         \/ \E policy \in WritePolicies : reconfigureWritePolicy(policy)
  PROVE  EntryInv'
<1>1. now \in Nat /\ now <= now /\ live \in [DOMAIN live -> [value : Values, expiresAt : Nat]]
      /\ writePolicy \in WritePolicies
  BY DEF EntryInv, StateOK
<1>2. CASE Tick
  <2>1. now' \in Nat /\ now <= now' /\ live' = live
        /\ UNCHANGED <<writePolicy, store, st, latest, acked, disturbed>>
    BY <1>1, <1>2 DEF Tick
  <2> QED
    BY <1>1, <2>1, CacheShrinks
<1>3. ASSUME NEW c \in Clients, Purge(c) PROVE EntryInv'
  <2>1. /\ DOMAIN live' = {} /\ live' \in [DOMAIN live' -> [value : Values, expiresAt : Nat]]
        /\ UNCHANGED <<now, writePolicy, store, st, latest, acked, disturbed>>
    BY <1>3 DEF Purge, Empty
  <2> QED
    BY <1>1, <2>1, CacheShrinks
<1>4. ASSUME NEW policy \in WritePolicies, reconfigureWritePolicy(policy) PROVE EntryInv'
  <2>1. /\ live' = [k \in DOMAIN live |-> Entry(live[k].value, CloneExpiry(live[k].expiresAt))]
        /\ writePolicy' \in WritePolicies /\ UNCHANGED <<now, store, st, latest, acked, disturbed>>
    BY <1>4 DEF reconfigureWritePolicy
  <2>2. \A k \in DOMAIN live : live[k].value \in Values /\ CloneExpiry(live[k].expiresAt) \in Nat
    BY <1>1 DEF CloneExpiry
  <2>3. /\ DOMAIN live' = DOMAIN live
        /\ live' \in [DOMAIN live' -> [value : Values, expiresAt : Nat]]
        /\ \A k \in DOMAIN live' : live'[k].value = live[k].value
    BY <2>1, <2>2 DEF Entry
  <2> QED
    BY <1>1, <2>1, <2>3, CacheShrinks
<1> QED
  BY <1>2, <1>3, <1>4

---------------------------------------------------------------------------
(* Cache and store are empty, and nobody is at work.                       *)
LEMMA InitInv ==
  ASSUME Init
  PROVE  EntryInv
<1>1. /\ now = 0 /\ writePolicy \in WritePolicies /\ DOMAIN live = {} /\ DOMAIN store = {}
      /\ live \in [{} -> [value : Values, expiresAt : Nat]]
      /\ store \in [{} -> Stored(Values, Nat)]
      /\ st = [c \in Clients |-> Idle] /\ latest = [k \in Keys |-> Entry(NoValue, 0)]
      /\ acked = [k \in Keys |-> {}] /\ disturbed = {}
  BY DEF Init, Empty
<1>2. \A c \in Clients : st[c].at = "idle"
  BY <1>1 DEF Idle
<1>3. IsFiniteSet(DOMAIN live) /\ Cardinality(DOMAIN live) <= Capacity
  BY <1>1, FS_EmptySet, EntryConstants
<1>4. \A k \in Keys : latest[k] \in [value : Values \cup {NoValue}, expiresAt : Nat]
                      /\ latest[k].value = NoValue
  BY <1>1 DEF Entry
<1>5. StateOK
  BY <1>1, <1>2, <1>3, <1>4 DEF StateOK, Carries
<1>6. AckInv /\ AloneInv /\ PendingInv
  BY <1>1, <1>2 DEF AckInv, AloneInv, PendingInv, Places
<1>7. SettledInv
  BY <1>1, <1>4 DEF SettledInv, Settled
<1> QED
  BY <1>5, <1>6, <1>7 DEF EntryInv

(* Every step keeps the invariant.                                         *)
LEMMA NextInv ==
  ASSUME EntryInv, [Next]_vars
  PROVE  EntryInv'
<1>1. ASSUME NEW c \in Clients, Set(c) PROVE EntryInv'
  BY <1>1, FirstStepsKeep, EndKeeps, SetStoreKeeps, SetInnerKeeps, SetAroundKeeps
  DEF Set, SetStoreFails, At
<1>2. ASSUME NEW c \in Clients, Get(c) PROVE EntryInv'
  BY <1>2, FirstStepsKeep, EndKeeps, GetLoadKeeps, GetDropsExpiredKeeps, GetFillKeeps
  DEF Get, GetNotFound, At
<1>3. ASSUME NEW c \in Clients, Delete(c) PROVE EntryInv'
  BY <1>3, FirstStepsKeep, DeleteInnerKeeps DEF Delete
<1>4. CASE UNCHANGED vars
  <2>1. /\ DOMAIN live' = DOMAIN live /\ live' = live /\ now' = now
        /\ UNCHANGED <<writePolicy, store, st, latest, acked, disturbed>>
    BY <1>4 DEF vars
  <2>2. /\ now \in Nat /\ now <= now /\ writePolicy \in WritePolicies
        /\ live \in [DOMAIN live -> [value : Values, expiresAt : Nat]]
    BY DEF EntryInv, StateOK
  <2> QED
    BY <2>1, <2>2, CacheShrinks
<1> QED
  BY <1>1, <1>2, <1>3, <1>4, OtherStepsKeep DEF Next

(* Types, and the inner cache within its capacity.                         *)
THEOREM TypeCorrect == Spec => []TypeOK
<1>1. EntryInv => TypeOK
  BY DEF EntryInv, StateOK, TypeOK, StReq
<1> QED
  BY <1>1, InitInv, NextInv, PTL DEF Spec

(* The cache never serves a value that the backing store has not accepted, *)
(* whatever requests overlap, calls fail and policies change               *)
(* (writethrough.go: Set writes the store first and returns if it fails).  *)
THEOREM CacheBehindStore == Spec => []NeverAheadOfStore
<1>1. EntryInv => NeverAheadOfStore
  BY DEF EntryInv, AckInv, NeverAheadOfStore
<1> QED
  BY <1>1, InitInv, NextInv, PTL DEF Spec

(* A Get returns what the last undisturbed write of its key left, or       *)
(* nothing once the deadline of that write has come.                       *)
THEOREM LastWriteIsRead == Spec => []ReadsLastWrite
<1>1. EntryInv => ReadsLastWrite
  <2> SUFFICES ASSUME EntryInv, NEW k \in Keys \ disturbed, Busy(k) = {}
               PROVE  \/ Reads(k) = latest[k].value
                      \/ Reads(k) = NoValue /\ latest[k].expiresAt \in 1 .. now
    BY DEF ReadsLastWrite
  <2>1. \A c \in Clients : ~HalfDone(c, k)
    BY DEF Busy, HalfDone, At
  <2>2. Settled(k)
    BY <2>1 DEF EntryInv, SettledInv
  <2>3. now \in Nat /\ latest[k].expiresAt \in Nat
    BY DEF EntryInv, StateOK
  <2>4. CASE Fresh(k)
    BY <2>2, <2>4 DEF Reads, Fresh, Settled
  <2>5. CASE ~Fresh(k) /\ k \in DOMAIN store
    <3>1. decodeFromStore(store[k]) = latest[k]
      BY <2>2, <2>5 DEF Settled
    <3> QED
      BY <2>3, <2>5, <3>1 DEF Reads, ttlExpired
  <2>6. CASE ~Fresh(k) /\ k \notin DOMAIN store
    BY <2>2, <2>6 DEF Reads, Settled
  <2> QED
    BY <2>4, <2>5, <2>6
<1> QED
  BY <1>1, InitInv, NextInv, PTL DEF Spec
===========================================================================
