------------------------------ MODULE Sharded ------------------------------
(***************************************************************************)
(* ShardedCache (internal/cache/sharded): NumShards caches, each behind a  *)
(* mutex of its own, and a hash that sends a key to its shard.  Get, Set,  *)
(* Delete and Peek lock one shard.  Keys, Len, Stats, Snapshot and Purge   *)
(* lock one shard after the other, so that other requests change shards    *)
(* before and behind them: what they return need not have been true at any *)
(* moment.                                                                 *)
(*                                                                         *)
(* A shard keeps the promise of BoundedCache, of which only the keys held  *)
(* matter here.  One shard visited is one step.                            *)
(***************************************************************************)
EXTENDS Naturals, FiniteSets

CONSTANTS
  Keys,
  NumShards,
  shardFor,    \* the shard of each key
  Total,       \* totalCapacity
  SnapLimit,   \* a snapshot shows at most so many entries of a shard
  Visitors,    \* the goroutines in a call that visits every shard
  Calls        \* the calls each of them makes: [Visitors -> SUBSET AllCalls]

AllCalls == {"keys", "len", "stats", "snapshot", "purge"}
Shards == 1..NumShards

ASSUME ShardedConstants ==
  /\ NumShards \in Nat \ {0} /\ Total \in Nat /\ SnapLimit \in Nat
  /\ shardFor \in [Keys -> Shards] /\ IsFiniteSet(Keys)
  /\ Calls \in [Visitors -> SUBSET AllCalls]

VARIABLES
  held,        \* the keys in the shards
  visit        \* the call of each visitor and its local variables

vars == <<held, visit>>

perShardAndOne == Total \div NumShards + 1      \* mutant: rounded up, even when exact
perShard == IF Total \div NumShards < 1 THEN 1 ELSE Total \div NumShards

InShard(K, i) == {k \in K : shardFor[k] = i}
In(i) == InShard(held, i)

(* next is the shard to visit; got and count are what the call collected.  *)
(* always and ever are history: the keys held during the whole call, and   *)
(* those held at some moment of it.                                        *)
Returned(v) == v.next > NumShards

Began(call) ==
  [call |-> call, next |-> 1, got |-> {}, count |-> 0, truncated |-> FALSE,
   always |-> held, ever |-> held]

Init ==
  /\ held = {}
  /\ visit = [c \in Visitors |-> [call |-> "none", next |-> NumShards + 1, got |-> {},
                                  count |-> 0, truncated |-> FALSE,
                                  always |-> {}, ever |-> {}]]

(* The shards' content becomes K; every call under way lives through it.   *)
Saw(v, K) ==
  IF Returned(v) THEN v
  ELSE [v EXCEPT !.always = @ \cap K, !.ever = @ \cup K]

Change(K) ==
  /\ held' = K
  /\ visit' = [c \in Visitors |-> Saw(visit[c], K)]

(* Mutant: the shard evicts, but not for the key it adds.                  *)
SetOverfills(k) == Change(held \cup {k})

(* A shard that is full makes room by evicting an entry of its own.        *)
Set(k) ==
  \E gone \in {{}} \cup (IF k \in held THEN {} ELSE {{x} : x \in In(shardFor[k])}) :
    /\ Cardinality(InShard((held \ gone) \cup {k}, shardFor[k])) <= perShard
    /\ Change((held \ gone) \cup {k})

(* An entry past its deadline is removed when it is looked up.             *)
Get(k) == \E expired \in SUBSET {k} : Change(held \ expired)

Peek(k) == Get(k)

Delete(k) == Change(held \ {k})

---------------------------------------------------------------------------
Start(c) ==
  /\ Returned(visit[c])
  /\ \E call \in Calls[c] : visit' = [visit EXCEPT ![c] = Began(call)]
  /\ UNCHANGED held

Visiting(c, calls) == ~Returned(visit[c]) /\ visit[c].call \in calls

KeysStep(c) ==
  /\ Visiting(c, {"keys"})
  /\ visit' = [visit EXCEPT ![c] = [visit[c] EXCEPT !.next = @ + 1, !.got = @ \cup In(visit[c].next)]]
  /\ UNCHANGED held

(* Len adds up the entries; Stats the shards' BytesStored, here one byte   *)
(* an entry, and in the same way their counters.                           *)
LenStep(c) ==
  /\ Visiting(c, {"len", "stats"})
  /\ visit' = [visit EXCEPT ![c] = [visit[c] EXCEPT !.next = @ + 1,
                                             !.count = @ + Cardinality(In(visit[c].next))]]
  /\ UNCHANGED held

(* Mutant: the entries are cut, and the caller is not told.                *)
SnapshotSilently(c) ==
  /\ Visiting(c, {"snapshot"})
  /\ \E shown \in SUBSET In(visit[c].next) :
       /\ Cardinality(shown) = IF Cardinality(In(visit[c].next)) > SnapLimit THEN SnapLimit
                               ELSE Cardinality(In(visit[c].next))
       /\ visit' = [visit EXCEPT ![c] = [visit[c] EXCEPT !.next = @ + 1, !.got = @ \cup shown]]
  /\ UNCHANGED held

SnapshotStep(c) ==
  LET entries == In(visit[c].next)
      cut == Cardinality(entries) > SnapLimit
  IN /\ Visiting(c, {"snapshot"})
     /\ \E shown \in SUBSET entries :
          /\ IF cut THEN Cardinality(shown) = SnapLimit ELSE shown = entries
          /\ visit' = [visit EXCEPT ![c] =
                         [visit[c] EXCEPT !.next = @ + 1, !.got = @ \cup shown,
                                   !.truncated = @ \/ cut]]
     /\ UNCHANGED held

PurgeStep(c) ==
  LET K == held \ In(visit[c].next)
  IN /\ Visiting(c, {"purge"})
     /\ held' = K
     /\ visit' = [d \in Visitors |->
                    IF d = c THEN [Saw(visit[c], K) EXCEPT !.next = @ + 1] ELSE Saw(visit[d], K)]

Next ==
  \/ \E k \in Keys : Get(k) \/ Set(k) \/ Delete(k) \/ Peek(k)
  \/ \E c \in Visitors :
       Start(c) \/ KeysStep(c) \/ LenStep(c) \/ SnapshotStep(c) \/ PurgeStep(c)

Spec == Init /\ [][Next]_vars

---------------------------------------------------------------------------
(* Type invariant.  No shard outgrows its part.                            *)
TypeOK ==
  /\ held \subseteq Keys
  /\ \A i \in Shards : Cardinality(In(i)) <= perShard
  /\ \A c \in Visitors :
       /\ visit[c].call \in AllCalls \cup {"none"}
       /\ visit[c].next \in 1..(NumShards + 1)
       /\ visit[c].count \in Nat /\ visit[c].truncated \in BOOLEAN
       /\ UNION {visit[c].got, visit[c].always, visit[c].ever} \subseteq Keys

(* The cache holds no more than Capacity() reports, if that is not less    *)
(* than one entry for each shard.                                          *)
WithinCapacity == NumShards <= Total => Cardinality(held) <= Total

(* What a visit of all shards means though they change under it: no key is *)
(* listed that was not there during the call, and a key that was there all *)
(* the time is listed, unless the caller is told that entries were cut     *)
(* off; a count lies between those two; and after a purge no key is left   *)
(* that was there all the time.                                            *)
KeysExact(v) == v.call = "keys" => v.always \subseteq v.got /\ v.got \subseteq v.ever
SnapshotExact(v) ==
  v.call = "snapshot" => v.got \subseteq v.ever /\ (v.truncated \/ v.always \subseteq v.got)
CountExact(v) ==
  v.call \in {"len", "stats"} => Cardinality(v.always) <= v.count /\ v.count <= Cardinality(v.ever)
PurgeExact(v) == v.call = "purge" => v.always = {}

VisitsExact ==
  \A c \in Visitors : Returned(visit[c]) =>
    KeysExact(visit[c]) /\ SnapshotExact(visit[c]) /\ CountExact(visit[c]) /\ PurgeExact(visit[c])
===========================================================================
