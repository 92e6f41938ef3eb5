----------------------------- MODULE BaseCache -----------------------------
(***************************************************************************)
(* newBaseCache of api/store_factory.go: the cache of a store is an LRU,   *)
(* an LFU or an ARC cache, chosen by name when the store is made.  The     *)
(* rest of the system only sees the cache.Cache interface, so whatever the *)
(* name, the cache must keep the same contract.                            *)
(*                                                                         *)
(* The variables of the caches that were not chosen keep their initial     *)
(* values.                                                                 *)
(***************************************************************************)
EXTENDS ARC

CONSTANTS
  Policies,   \* the names newBaseCache is called with
  Nil,        \* LRU: the nil pointer
  MaxFreq     \* LFU, bound: no node is used more often than this

ASSUME BaseConstants ==
  /\ Policies \subseteq {"lru", "lfu", "arc"}
  /\ Nil \notin Keys
  /\ MaxFreq \in Nat

VARIABLES
  policy,                     \* the name
  items, recency,             \* LRU and LFU
  list,                       \* LRU
  freqList, minFreq           \* LFU

R == INSTANCE LRU
F == INSTANCE LFU

baseVars == <<policy, items, recency, list, freqList, minFreq, vars>>

newBaseCache == policy \in Policies /\ R!Init /\ F!Init /\ Init

LRUStep == R!Next /\ UNCHANGED <<freqList, minFreq, lists, p, itemMap>>
LFUStep == F!Next /\ UNCHANGED <<list, lists, p, itemMap>>
ARCStep == Next /\ UNCHANGED <<items, recency, list, freqList, minFreq>>

BaseNext ==
  /\ UNCHANGED policy
  /\ \/ policy = "lru" /\ LRUStep
     \/ policy = "lfu" /\ LFUStep
     \/ policy = "arc" /\ ARCStep

BaseSpec == newBaseCache /\ [][BaseNext]_baseVars

---------------------------------------------------------------------------
(* What a Get can return.                                                  *)
BaseEntries ==
  CASE policy = "lru" -> R!LiveEntries
    [] policy = "lfu" -> F!LiveEntries
    [] policy = "arc" -> LiveEntries

Promise == INSTANCE BoundedCache WITH live <- BaseEntries

(* Whatever newBaseCache returns implements the cache.Cache contract: at   *)
(* most Capacity entries, the value last set, at most one eviction per     *)
(* Set, only for a new key, counted and reported to the callback.          *)
ImplementsPromise == Promise!Spec

(* BytesStored is the size of the values that can be read, through every   *)
(* update, eviction, ghost hit, expiry, delete and purge.                  *)
BytesStoredExact ==
  bytes = MapThenSumSet(LAMBDA k : SizeOf[BaseEntries[k].value], DOMAIN BaseEntries)

(* The pointers of the LRU list, read from either end, give the order of   *)
(* last use: pushFront, removeNode and moveToFront never lose, duplicate   *)
(* or misorder a node.                                                     *)
ListIsRecencyOrder == policy = "lru" => R!ListIsRecencyOrder

(* The LFU frequency lists and items agree, and minFreq, which Delete and  *)
(* expiry leave stale, is right whenever the cache is full and evictOne    *)
(* relies on it.                                                           *)
FrequenciesExact == policy = "lfu" => F!ListsMatchItems /\ F!MinFreqExactWhenFull

(* The entry a Set evicts is the least recently used one (LRU), or the     *)
(* least frequently and then least recently used one (LFU), by the history *)
(* of uses.                                                                *)
EvictsTheRightOne ==
  [][/\ policy = "lru" => R!VictimIsLeastRecent
     /\ policy = "lfu" => F!VictimIsLeastFrequent]_baseVars
===========================================================================
