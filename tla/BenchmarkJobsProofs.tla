------------------------ MODULE BenchmarkJobsProofs ------------------------
(***************************************************************************)
(* Theorems about BenchmarkJobs and its rate limiter, for any number of    *)
(* requests, clients and jobs and any limit and window:                    *)
(*   RetryAfterSuffices  who waits as long as he is told is allowed        *)
(*   BurstsBounded       no more than two windows' requests in a window    *)
(*   TypeCorrect         the types, and how many jobs are kept             *)
(*   SlotHeld            one benchmark at a time, and no leak              *)
(*   AnsweredSurvive     what clients were told is in the file             *)
(*                                                                         *)
(* The first needs LimiterInv only.  The second rests on BurstInv: what    *)
(* passed since the limiter's current period began was counted, and what   *)
(* is remembered of earlier times passed in one period (Within).  The      *)
(* others rest on JobsInv: who holds the slot decides who can be in a      *)
(* save, but for Shutdown (SlotInv); the job of whoever holds it cannot be *)
(* pruned meanwhile (JobInv); and a save that meets no other carries the   *)
(* jobs as they are now (SaveInv).  TypeCorrect needs FewInv too: a start  *)
(* that has not pruned yet is alone and has the latest job, and whoever is *)
(* about to rename path.tmp has emptied it since the process began.        *)
(***************************************************************************)
EXTENDS BenchmarkJobs, FiniteSetTheorems, TLAPS

(* The least of some numbers.                                              *)
LEMMA MinIsLeast ==
  ASSUME NEW S, S \subseteq Nat, S # {}
  PROVE  Min(S) \in S /\ \A y \in S : Min(S) <= y
<1>1. PICK x \in S : \A y \in S : ~(<<y, x>> \in OpToRel(<, Nat))
  BY WFMin, NatLessThanWellFounded
<1>2. \A y \in S : ~(y < x)
  BY <1>1 DEF OpToRel
<1>3. x \in S /\ \A y \in S : x <= y
  BY <1>2
<1> QED
  BY <1>3 DEF Min

(* Division with remainder.                                                *)
LEMMA DivMod ==
  ASSUME NEW a \in Nat, NEW b \in Nat \ {0}
  PROVE  /\ a \div b \in Nat /\ a % b \in 0 .. b - 1
         /\ a = b * (a \div b) + (a % b)
BY SMT

(* Two multiples of w that differ are w apart.                             *)
LEMMA MultiplesApart ==
  ASSUME NEW w \in Nat \ {0}, NEW m \in Nat, NEW q \in Nat, w * m > w * q
  PROVE  w * m >= w * q + w
<1>1. m > q
  BY SMT
<1>2. m - q - 1 \in Nat
  BY <1>1
<1>3. PICK d \in Nat : m = q + 1 + d
  BY <1>2
<1>4. w * m = w * q + w + w * d
  BY <1>3, SMT
<1>5. w * d >= 0
  BY SMT
<1> QED
  BY <1>4, <1>5

(* The window a time is in begins at or before it.                         *)
LEMMA WindowStartBefore ==
  ASSUME NEW t \in Nat
  PROVE  /\ WindowStart(t) \in Nat /\ WindowStart(t) <= t /\ t < WindowStart(t) + Window
         /\ WindowStart(t) = Window * (t \div Window)
<1>1. Window \in Nat \ {0}
  BY LimiterConstants
<1>2. t % Window \in 0 .. Window - 1 /\ t \div Window \in Nat
      /\ t = Window * (t \div Window) + (t % Window)
  BY <1>1, DivMod
<1>3. PICK m \in Nat : m = Window * (t \div Window)
  <2>1. Window * (t \div Window) \in Nat
    BY <1>1, <1>2, SMT
  <2> QED
    BY <2>1
<1> QED
  BY <1>1, <1>2, <1>3 DEF WindowStart

(* After the end of the window n is in, the window begins later than n.    *)
LEMMA LaterWindow ==
  ASSUME NEW n \in Nat, NEW t \in Nat, t >= WindowStart(n) + Window
  PROVE  WindowStart(t) > n
<1>1. Window \in Nat \ {0}
  BY LimiterConstants
<1> DEFINE q == n \div Window
           m == t \div Window
<1>2. q \in Nat /\ m \in Nat
  BY <1>1, DivMod
<1>3. /\ WindowStart(n) \in Nat /\ n < WindowStart(n) + Window /\ WindowStart(n) = Window * q
      /\ WindowStart(t) \in Nat /\ t < WindowStart(t) + Window /\ WindowStart(t) = Window * m
  BY WindowStartBefore
<1> HIDE DEF q, m
<1>4. WindowStart(t) > WindowStart(n)
  BY <1>1, <1>3
<1>5. WindowStart(t) >= WindowStart(n) + Window
  BY <1>1, <1>2, <1>3, <1>4, MultiplesApart
<1> QED
  BY <1>1, <1>3, <1>5

(* The whole seconds of a time, and one more, are longer than it.          *)
LEMMA RoundedUp ==
  ASSUME NEW left \in Nat
  PROVE  (left \div Second + 1) * Second \in Nat /\ (left \div Second + 1) * Second > left
<1>1. Second \in Nat \ {0}
  BY LimiterConstants
<1>2. /\ left \div Second \in Nat /\ left % Second \in 0 .. Second - 1
      /\ left = Second * (left \div Second) + (left % Second)
  BY <1>1, DivMod
<1>3. PICK d \in Nat : d = left \div Second
  BY <1>2
<1>4. (d + 1) * Second = Second * d + Second /\ Second * d \in Nat
  BY <1>1, SMT
<1> QED
  BY <1>1, <1>2, <1>3, <1>4

(* What RetryIsEnough needs of the limiters' state: a bucket ends at some  *)
(* time, and no row counts a window that has not begun.                    *)
LimiterInv ==
  /\ now \in Nat /\ limiter \in {"memory", "sqlite"}
  /\ \A id \in DOMAIN buckets : buckets[id].resetAt \in Nat
  /\ \A row \in DOMAIN rows : row[2] \in Nat /\ row[2] <= now

(* Allow counts the request and forgets what is over.                      *)
LEMMA AllowKeeps ==
  ASSUME LimiterInv, NEW id \in Ids, Allow(id), now' = now
  PROVE  LimiterInv'
<1>1. Window \in Nat \ {0} /\ now \in Nat /\ limiter' = limiter
  BY LimiterConstants DEF LimiterInv, Allow
<1>2. CASE limiter = "memory"
  <2>1. PICK b : b = Bucket(id, now)
    OBVIOUS
  <2>2. b.resetAt \in Nat
    <3>1. CASE id \notin DOMAIN buckets \/ now > buckets[id].resetAt
      BY <1>1, <2>1, <3>1 DEF Bucket
    <3>2. CASE ~(id \notin DOMAIN buckets \/ now > buckets[id].resetAt)
      <4>1. b = [buckets[id] EXCEPT !.count = buckets[id].count + 1]
        BY <2>1, <3>2 DEF Bucket
      <4>2. b.resetAt = buckets[id].resetAt
        BY <4>1
      <4> QED
        BY <3>2, <4>2 DEF LimiterInv
    <3> QED
      BY <3>1, <3>2
  <2>3. PICK counted : counted = Update(buckets, id, b)
    OBVIOUS
  <2>4. \A x \in DOMAIN counted : counted[x].resetAt \in Nat
    BY <2>2, <2>3 DEF LimiterInv, Update
  <2>5. buckets' = Keep(counted, LAMBDA x : now <= counted[x].resetAt) /\ rows' = rows
    BY <1>2, <2>1, <2>3 DEF Allow
  <2>6. \A x \in DOMAIN buckets' : x \in DOMAIN counted /\ buckets'[x] = counted[x]
    BY <2>5 DEF Keep
  <2> QED
    BY <1>1, <2>4, <2>5, <2>6 DEF LimiterInv
<1>3. CASE limiter # "memory"
  <2>1. PICK counted : counted = Update(rows, <<id, WindowStart(now)>>, Row(id, now))
    OBVIOUS
  <2>2. \A x \in DOMAIN counted : x[2] \in Nat /\ x[2] <= now
    BY <1>1, <2>1, WindowStartBefore DEF LimiterInv, Update
  <2>3. rows' = Keep(counted, LAMBDA x : x[2] >= WindowStart(now) - 2 * Window)
        /\ buckets' = buckets
    BY <1>3, <2>1 DEF Allow
  <2>4. \A x \in DOMAIN rows' : x \in DOMAIN counted
    BY <2>3 DEF Keep
  <2> QED
    BY <1>1, <2>2, <2>3, <2>4 DEF LimiterInv
<1> QED
  BY <1>2, <1>3

(* Retry-After, in every state that the limiters' code can be in.          *)
LEMMA RetryHolds ==
  ASSUME LimiterInv
  PROVE  RetryIsEnough
<1> SUFFICES ASSUME NEW id \in Ids, ~Allowed(id)
             PROVE  Count(id, now + RetryAfter(id) * Second) <= Limit
  BY DEF RetryIsEnough
<1>1. Limit \in Nat \ {0} /\ Window \in Nat \ {0} /\ now \in Nat
  BY LimiterConstants DEF LimiterInv
<1>2. PICK t : t = now + RetryAfter(id) * Second
  OBVIOUS
<1>3. ASSUME Left(id) \in Nat PROVE t \in Nat /\ t > now + Left(id)
  BY <1>1, <1>2, <1>3, RoundedUp DEF RetryAfter
<1>4. CASE limiter = "memory"
  <2>1. id \in DOMAIN buckets /\ ~(now > buckets[id].resetAt)
    <3> SUFFICES ASSUME id \notin DOMAIN buckets \/ now > buckets[id].resetAt PROVE FALSE
      OBVIOUS
    <3>1. Bucket(id, now).count = 1
      BY DEF Bucket
    <3> QED
      BY <1>1, <1>4, <3>1 DEF Allowed, Count
  <2>2. buckets[id].resetAt \in Nat
    BY <2>1 DEF LimiterInv
  <2>3. Bucket(id, now).resetAt = buckets[id].resetAt
    <3>1. Bucket(id, now) = [buckets[id] EXCEPT !.count = buckets[id].count + 1]
      BY <2>1 DEF Bucket
    <3> QED
      BY <3>1
  <2>4. Left(id) = buckets[id].resetAt - now
    BY <1>4, <2>3 DEF Left
  <2>5. t > buckets[id].resetAt
    BY <1>1, <1>3, <2>1, <2>2, <2>4
  <2>6. Bucket(id, t).count = 1
    BY <2>5 DEF Bucket
  <2> QED
    BY <1>1, <1>2, <1>4, <2>6 DEF Count
<1>5. CASE limiter = "sqlite"
  <2>1. Left(id) = Window - (now - WindowStart(now))
    BY <1>5 DEF Left
  <2>2. /\ WindowStart(now) \in Nat /\ WindowStart(now) <= now
        /\ now < WindowStart(now) + Window
    BY <1>1, WindowStartBefore
  <2>3. t \in Nat /\ t >= WindowStart(now) + Window
    BY <1>1, <1>3, <2>1, <2>2
  <2>4. WindowStart(t) > now
    BY <1>1, <2>3, LaterWindow
  <2>5. WindowStart(t) \in Nat
    BY <2>3, WindowStartBefore
  <2>6. <<id, WindowStart(t)>> \notin DOMAIN rows
    <3> SUFFICES ASSUME <<id, WindowStart(t)>> \in DOMAIN rows PROVE FALSE
      OBVIOUS
    <3>1. <<id, WindowStart(t)>>[2] <= now
      BY DEF LimiterInv
    <3> QED
      BY <1>1, <2>4, <2>5, <3>1
  <2>7. Row(id, t) = 1
    BY <2>6 DEF Row
  <2> QED
    BY <1>1, <1>2, <1>5, <2>7 DEF Count
<1> QED
  BY <1>4, <1>5 DEF LimiterInv

(* What a step does to the limiters.                                       *)
LEMMA LimiterSteps ==
  ASSUME [Next]_vars
  PROVE  \/ UNCHANGED <<now, limiterVars>>
         \/ \E id \in Ids : Allow(id) /\ now' = now
         \/ LimiterRestart /\ now' = now
         \/ Tick
<1>1. ASSUME NEW r \in Requests, NEW id \in Ids, Post(r, id) PROVE Allow(id) /\ now' = now
  BY <1>1 DEF Post
<1>2. ASSUME NEW r \in Requests, Request(r) PROVE UNCHANGED <<now, limiterVars>>
  BY <1>2 DEF Request, Refuse, StoreJob, PruneJobs
<1>3. RunEnds \/ Shutdown => UNCHANGED <<now, limiterVars>>
  BY DEF RunEnds, Shutdown
<1>4. ASSUME NEW p \in Procs, Save(p) PROVE UNCHANGED <<now, limiterVars>>
  BY <1>4 DEF Save, SaveMarshal, SaveOpen, SaveWrite, SaveRename, SaveErrs, Saved
<1>5. Restart => LimiterRestart /\ now' = now
  BY DEF Restart
<1>6. Wait => Tick
  BY DEF Wait
<1>7. UNCHANGED vars => UNCHANGED <<now, limiterVars>>
  BY DEF vars
<1> QED
  BY <1>1, <1>2, <1>3, <1>4, <1>5, <1>6, <1>7 DEF Next

(* A client that is refused, by either limiter, and waits as long as the   *)
(* Retry-After header says is allowed then, whatever the limit, the window *)
(* and the rounding to seconds.                                            *)
THEOREM RetryAfterSuffices == Spec => []RetryIsEnough
<1>1. Init => LimiterInv
  BY LimiterConstants DEF Init, LimiterInit, LimiterInv
<1>2. LimiterInv /\ [Next]_vars => LimiterInv'
  <2> SUFFICES ASSUME LimiterInv, [Next]_vars PROVE LimiterInv'
    OBVIOUS
  <2>1. CASE UNCHANGED <<now, limiterVars>>
    BY <2>1 DEF limiterVars, LimiterInv
  <2>2. CASE LimiterRestart /\ now' = now
    <3>1. /\ now' = now /\ limiter' = limiter /\ rows' = rows
          /\ buckets' = buckets \/ buckets' = [x \in {} |-> 0]
      BY <2>2 DEF LimiterRestart
    <3> QED
      BY <3>1 DEF LimiterInv
  <2>3. CASE Tick
    BY <2>3 DEF Tick, LimiterInv
  <2> QED
    BY <2>1, <2>2, <2>3, LimiterSteps, AllowKeeps
<1> QED
  BY <1>1, <1>2, RetryHolds, PTL DEF Spec

---------------------------------------------------------------------------
(* Sums.  MapThenSumSet takes the elements of a set in an order that       *)
(* CHOOSE gives, through a function defined by recursion on the subsets;   *)
(* that there is one, and that the order does not matter, is shown by      *)
(* looking at a smallest set for which it fails.                           *)
Pick(s) == CHOOSE x \in s : TRUE

IsFold(f, w, U) ==
  f = [s \in SUBSET U |-> IF s = {} THEN 0 ELSE w[Pick(s)] + f[s \ {Pick(s)}]]

(* Taking an element out of a finite set.                                  *)
LEMMA OneLess ==
  ASSUME NEW U, IsFiniteSet(U), NEW s \in SUBSET U
  PROVE  /\ IsFiniteSet(s) /\ Cardinality(s) \in Nat /\ Cardinality(s) <= Cardinality(U)
         /\ Cardinality(s) = 0 <=> s = {}
         /\ \A x \in s : /\ Cardinality(s \ {x}) = Cardinality(s) - 1
                         /\ Cardinality(s) - 1 \in Nat
<1>1. IsFiniteSet(s) /\ Cardinality(s) \in Nat /\ Cardinality(s) <= Cardinality(U)
  BY FS_Subset, FS_CardinalityType
<1>2. Cardinality(s) = 0 <=> s = {}
  BY <1>1, FS_EmptySet
<1>3. \A x \in s : Cardinality(s \ {x}) = Cardinality(s) - 1
  BY <1>1, FS_RemoveElement
<1> QED
  BY <1>1, <1>2, <1>3

(* The function MapThenSumSet chooses exists.                              *)
LEMMA FoldExists ==
  ASSUME NEW w, NEW U, IsFiniteSet(U)
  PROVE  \E f : IsFold(f, w, U)
<1> DEFINE Small(n) == {t \in SUBSET U : Cardinality(t) <= n}
           Part(f, n) == f = [s \in Small(n) |-> IF s = {} THEN 0
                                                 ELSE w[Pick(s)] + f[s \ {Pick(s)}]]
<1>0. \A s \in SUBSET U : s # {} => Pick(s) \in s
  BY DEF Pick
<1>1. \A n \in Nat : \E f : Part(f, n)
  <2> SUFFICES ASSUME \E n \in Nat : ~\E f : Part(f, n) PROVE FALSE
    OBVIOUS
  <2>1. PICK T : T = {n \in Nat : ~\E f : Part(f, n)}
    OBVIOUS
  <2>2. PICK n \in T : \A m \in T : n <= m
    <3>1. T \subseteq Nat /\ T # {}
      BY <2>1
    <3> QED
      BY <3>1, MinIsLeast
  <2>3. n \in Nat /\ ~\E f : Part(f, n)
    BY <2>1, <2>2
  <2>4. CASE n = 0
    <3>1. PICK g : g = [s \in Small(n) |-> 0]
      OBVIOUS
    <3>2. \A s \in Small(n) : s = {}
      BY <2>4, OneLess
    <3>3. Part(g, n)
      BY <3>1, <3>2
    <3> QED
      BY <2>3, <3>3
  <2>5. CASE n # 0
    <3>1. n - 1 \in Nat
      BY <2>3, <2>5
    <3>2. n - 1 \notin T
      BY <2>2, <2>3, <3>1
    <3>3. PICK f : Part(f, n - 1)
      BY <2>1, <3>1, <3>2
    <3>4. PICK g : g = [s \in Small(n) |-> IF s = {} THEN 0
                                            ELSE w[Pick(s)] + f[s \ {Pick(s)}]]
      OBVIOUS
    <3>5. \A s \in Small(n) : s # {} => s \ {Pick(s)} \in Small(n - 1)
      <4> SUFFICES ASSUME NEW s \in Small(n), s # {} PROVE s \ {Pick(s)} \in Small(n - 1)
        OBVIOUS
      <4>1. s \in SUBSET U /\ Cardinality(s) <= n /\ Pick(s) \in s
        BY <1>0
      <4>2. Cardinality(s \ {Pick(s)}) = Cardinality(s) - 1 /\ Cardinality(s) \in Nat
        BY <4>1, OneLess
      <4>3. Cardinality(s \ {Pick(s)}) <= n - 1
        BY <2>3, <4>1, <4>2
      <4> QED
        BY <4>1, <4>3
    <3>6. \A t \in Small(n - 1) : t \in Small(n) /\ g[t] = f[t]
      <4> SUFFICES ASSUME NEW t \in Small(n - 1) PROVE t \in Small(n) /\ g[t] = f[t]
        OBVIOUS
      <4>1. Cardinality(t) \in Nat /\ Cardinality(t) <= n - 1
        BY OneLess
      <4>2. Cardinality(t) <= n
        BY <2>3, <4>1
      <4>3. t \in Small(n)
        BY <4>2
      <4>4. g[t] = IF t = {} THEN 0 ELSE w[Pick(t)] + f[t \ {Pick(t)}]
        BY <3>4, <4>3
      <4>5. f[t] = IF t = {} THEN 0 ELSE w[Pick(t)] + f[t \ {Pick(t)}]
        BY <3>3
      <4> QED
        BY <4>3, <4>4, <4>5
    <3>7. \A s \in Small(n) : s # {} => f[s \ {Pick(s)}] = g[s \ {Pick(s)}]
      BY <3>5, <3>6
    <3> HIDE DEF Small
    <3>8. Part(g, n)
      BY <3>4, <3>7
    <3> QED
      BY <2>3, <3>8
  <2> QED
    BY <2>4, <2>5
<1>2. PICK n : n = Cardinality(U)
  OBVIOUS
<1>3. n \in Nat /\ Small(n) = SUBSET U
  BY <1>2, OneLess, FS_CardinalityType
<1>4. PICK f : Part(f, n)
  <2> HIDE DEF Part
  <2> QED
    BY <1>1, <1>3
<1>5. IsFold(f, w, U)
  BY <1>3, <1>4 DEF IsFold
<1> QED
  BY <1>5

(* The order in which elements are taken does not matter.                  *)
LEMMA FoldTakes ==
  ASSUME NEW f, NEW w, NEW U, IsFiniteSet(U), IsFold(f, w, U), \A x \in U : w[x] \in Nat,
         NEW s \in SUBSET U
  PROVE  f[s] \in Nat /\ \A x \in s : f[s] = w[x] + f[s \ {x}]
<1> DEFINE Good(t) == f[t] \in Nat /\ \A x \in t : f[t] = w[x] + f[t \ {x}]
<1>0. \A t \in SUBSET U : /\ t # {} => Pick(t) \in t
                          /\ f[t] = IF t = {} THEN 0 ELSE w[Pick(t)] + f[t \ {Pick(t)}]
  BY DEF IsFold, Pick
<1> SUFFICES ASSUME \E t \in SUBSET U : ~Good(t) PROVE FALSE
  OBVIOUS
<1>1. PICK T : T = {n \in Nat : \E t \in SUBSET U : Cardinality(t) = n /\ ~Good(t)}
  OBVIOUS
<1>2. PICK n \in T : \A m \in T : n <= m
  <2>1. T \subseteq Nat /\ T # {}
    <3> HIDE DEF Good
    <3> QED
      BY <1>1, OneLess
  <2> QED
    BY <2>1, MinIsLeast
<1>3. PICK t \in SUBSET U : Cardinality(t) = n /\ ~Good(t)
  <2> HIDE DEF Good
  <2> QED
    BY <1>1, <1>2
<1>4. n \in Nat /\ Cardinality(t) = n
  BY <1>1, <1>2, <1>3
<1>5. \A x \in t : t \ {x} \in SUBSET U /\ Good(t \ {x})
  <2> SUFFICES ASSUME NEW x \in t PROVE t \ {x} \in SUBSET U /\ Good(t \ {x})
    OBVIOUS
  <2>1. t \ {x} \in SUBSET U /\ Cardinality(t \ {x}) = n - 1 /\ n - 1 \in Nat
    BY <1>4, OneLess
  <2>2. n - 1 \notin T
    BY <1>2, <1>4, <2>1
  <2> HIDE DEF Good
  <2> QED
    BY <1>1, <2>1, <2>2
<1>6. t # {}
  <2>1. ASSUME t = {} PROVE Good(t)
    <3>1. t \in SUBSET U /\ f[t] = 0
      BY <1>0, <2>1
    <3> QED
      BY <2>1, <3>1
  <2> HIDE DEF Good
  <2> QED
    BY <1>3, <2>1
<1>7. PICK y \in t : y = Pick(t) /\ f[t] = w[y] + f[t \ {y}]
  BY <1>0, <1>6
<1>8. f[t \ {y}] \in Nat /\ w[y] \in Nat
  BY <1>5, <1>7
<1>9. f[t] \in Nat
  BY <1>7, <1>8
<1>10. ASSUME NEW x \in t, x # y PROVE f[t] = w[x] + f[t \ {x}]
  <2>1. x \in t \ {y} /\ y \in t \ {x}
    BY <1>10
  <2>2. f[t \ {y}] = w[x] + f[(t \ {y}) \ {x}]
    BY <1>5, <2>1
  <2>3. f[t \ {x}] = w[y] + f[(t \ {x}) \ {y}]
    BY <1>5, <2>1
  <2>4. (t \ {y}) \ {x} = (t \ {x}) \ {y}
    OBVIOUS
  <2>5. PICK a, b, c, d : a = f[t \ {y}] /\ b = f[(t \ {y}) \ {x}] /\ c = w[x] /\ d = w[y]
    OBVIOUS
  <2>6. (t \ {y}) \ {x} \in SUBSET U /\ b \in Nat
    <3>1. \A z \in t \ {y} : f[(t \ {y}) \ {z}] \in Nat
      <4> SUFFICES ASSUME NEW z \in t \ {y} PROVE f[(t \ {y}) \ {z}] \in Nat
        OBVIOUS
      <4>1. PICK u : u = (t \ {y}) \ {z}
        OBVIOUS
      <4>2. u \in SUBSET U /\ t \ {y} \in SUBSET U
        BY <4>1
      <4>3. Cardinality(t \ {y}) = n - 1 /\ n - 1 \in Nat
        BY <1>4, <1>7, OneLess
      <4>4. Cardinality(u) = (n - 1) - 1 /\ (n - 1) - 1 \in Nat
        BY <4>1, <4>2, <4>3, OneLess
      <4>5. (n - 1) - 1 \notin T
        BY <1>2, <1>4, <4>4
      <4>6. Good(u)
        <5> HIDE DEF Good
        <5> QED
          BY <1>1, <4>2, <4>4, <4>5
      <4> QED
        BY <4>1, <4>6
    <3> QED
      BY <2>1, <2>5, <3>1
  <2>7. c \in Nat /\ d \in Nat
    BY <1>10, <2>5
  <2>8. f[t] = d + a /\ a = c + b /\ f[t \ {x}] = d + b
    BY <1>7, <2>2, <2>3, <2>4, <2>5
  <2>9. f[t] = c + f[t \ {x}]
    BY <2>6, <2>7, <2>8
  <2> QED
    BY <2>5, <2>9
<1> QED
  BY <1>3, <1>7, <1>9, <1>10

(* Nor does the set the function was defined over, or the weight of what   *)
(* is not summed.                                                          *)
LEMMA FoldSame ==
  ASSUME NEW f, NEW w, NEW U, IsFiniteSet(U), IsFold(f, w, U),
         NEW g, NEW v, NEW V, IsFold(g, v, V), V \subseteq U, \A x \in V : w[x] = v[x]
  PROVE  f[V] = g[V]
<1>0. \A t \in SUBSET V : /\ t # {} => Pick(t) \in t
                          /\ f[t] = IF t = {} THEN 0 ELSE w[Pick(t)] + f[t \ {Pick(t)}]
                          /\ g[t] = IF t = {} THEN 0 ELSE v[Pick(t)] + g[t \ {Pick(t)}]
  BY DEF IsFold, Pick
<1> SUFFICES ASSUME \E t \in SUBSET V : f[t] # g[t] PROVE FALSE
  OBVIOUS
<1>1. PICK T : T = {n \in Nat : \E t \in SUBSET V : Cardinality(t) = n /\ f[t] # g[t]}
  OBVIOUS
<1>2. PICK n \in T : \A m \in T : n <= m
  <2>1. T \subseteq Nat /\ T # {}
    BY <1>1, OneLess
  <2> QED
    BY <2>1, MinIsLeast
<1>3. PICK t \in SUBSET V : Cardinality(t) = n /\ f[t] # g[t]
  BY <1>1, <1>2
<1>4. n \in Nat /\ t \in SUBSET U
  BY <1>1, <1>2, <1>3
<1>5. t # {} /\ Pick(t) \in t
  BY <1>0, <1>3
<1>6. PICK u : u = t \ {Pick(t)}
  OBVIOUS
<1>7. u \in SUBSET V /\ Cardinality(u) = n - 1 /\ n - 1 \in Nat
  BY <1>3, <1>4, <1>5, <1>6, OneLess
<1>8. f[u] = g[u]
  <2>1. n - 1 \notin T
    BY <1>2, <1>4, <1>7
  <2> QED
    BY <1>1, <1>7, <2>1
<1>9. w[Pick(t)] = v[Pick(t)]
  BY <1>3, <1>5
<1> QED
  BY <1>0, <1>3, <1>5, <1>6, <1>8, <1>9

---------------------------------------------------------------------------
(* The burst bound.  passed[id] counts by time; what passed in some of the *)
(* times is the sum over them.                                             *)
Times == 0 .. MaxTime

Sum(f, S) == MapThenSumSet(LAMBDA t : f[t], S)

PerTime(f) == f \in [Times -> Nat]

(* There are finitely many times.                                          *)
LEMMA TimesFinite == IsFiniteSet(Times) /\ \A S \in SUBSET Times : IsFiniteSet(S)
<1>1. MaxTime \in Nat
  BY LimiterConstants
<1>2. IsFiniteSet(Times)
  BY <1>1, FS_Interval DEF Times
<1> QED
  BY <1>2, FS_Subset

(* Sum is such a fold, for all the sets of times at once.                  *)
LEMMA SumFolds ==
  ASSUME NEW f, PerTime(f)
  PROVE  \E F : IsFold(F, f, Times) /\ \A S \in SUBSET Times : Sum(f, S) = F[S]
<1>1. IsFiniteSet(Times)
  BY TimesFinite
<1>2. PICK F : IsFold(F, f, Times)
  BY <1>1, FoldExists
<1>3. ASSUME NEW S \in SUBSET Times PROVE Sum(f, S) = F[S]
  <2>1. IsFiniteSet(S)
    BY <1>1, FS_Subset
  <2> DEFINE P(g) == g = [s \in SUBSET S |-> IF s = {} THEN 0
                                             ELSE f[CHOOSE x \in s : TRUE]
                                                    + g[s \ {CHOOSE x \in s : TRUE}]]
  <2>2. Sum(f, S) = (CHOOSE g : P(g))[S]
    BY DEF Sum, MapThenSumSet, MapThenFoldSet
  <2>3. \A g : P(g) <=> IsFold(g, f, S)
    BY DEF IsFold, Pick
  <2>4. \E g : P(g)
    <3>1. PICK g : IsFold(g, f, S)
      BY <2>1, FoldExists
    <3> HIDE DEF P
    <3> QED
      BY <2>3, <3>1
  <2>5. PICK g : g = CHOOSE h : P(h)
    OBVIOUS
  <2>6. IsFold(g, f, S)
    <3> HIDE DEF P
    <3> QED
      BY <2>3, <2>4, <2>5
  <2>7. F[S] = g[S]
    BY <1>1, <1>2, <2>6, FoldSame
  <2> QED
    BY <2>2, <2>5, <2>7
<1> QED
  BY <1>2, <1>3

(* One time and the others.                                                *)
LEMMA SumTakes ==
  ASSUME NEW f, PerTime(f), NEW S \in SUBSET Times
  PROVE  /\ Sum(f, S) \in Nat /\ (S = {} => Sum(f, S) = 0)
         /\ \A t \in S : Sum(f, S) = f[t] + Sum(f, S \ {t})
<1>1. IsFiniteSet(Times) /\ \A t \in Times : f[t] \in Nat
  BY TimesFinite DEF PerTime
<1>2. PICK F : IsFold(F, f, Times) /\ \A T \in SUBSET Times : Sum(f, T) = F[T]
  BY SumFolds
<1>3. F[S] \in Nat /\ \A t \in S : F[S] = f[t] + F[S \ {t}]
  BY <1>1, <1>2, FoldTakes
<1>4. S = {} => F[S] = 0
  BY <1>2 DEF IsFold
<1>5. Sum(f, S) = F[S] /\ \A t \in S : Sum(f, S \ {t}) = F[S \ {t}]
  BY <1>2
<1> QED
  BY <1>3, <1>4, <1>5

(* Fewer requests at every time are fewer in all.                          *)
LEMMA SumLess ==
  ASSUME NEW f, PerTime(f), NEW g, PerTime(g), NEW S \in SUBSET Times, \A t \in S : f[t] <= g[t]
  PROVE  Sum(f, S) <= Sum(g, S)
<1> DEFINE Good(R) == Sum(f, R) <= Sum(g, R)
<1> SUFFICES ASSUME ~Good(S) PROVE FALSE
  OBVIOUS
<1>0. IsFiniteSet(S)
  BY TimesFinite
<1>1. PICK T : T = {n \in Nat : \E R \in SUBSET S : Cardinality(R) = n /\ ~Good(R)}
  OBVIOUS
<1>2. PICK n \in T : \A m \in T : n <= m
  <2>1. T \subseteq Nat /\ T # {}
    <3> HIDE DEF Good
    <3> QED
      BY <1>0, <1>1, OneLess
  <2> QED
    BY <2>1, MinIsLeast
<1>3. PICK R \in SUBSET S : Cardinality(R) = n /\ ~Good(R)
  <2> HIDE DEF Good
  <2> QED
    BY <1>1, <1>2
<1>4. n \in Nat /\ R \in SUBSET Times
  BY <1>1, <1>2, <1>3
<1>5. R # {}
  <2>1. R = {} => Sum(f, R) = 0 /\ Sum(g, R) = 0
    BY <1>4, SumTakes
  <2> QED
    BY <1>3, <2>1
<1>6. PICK t \in R : TRUE
  BY <1>5
<1>7. PICK Q : Q = R \ {t}
  OBVIOUS
<1>8. Q \in SUBSET S /\ Q \in SUBSET Times /\ Cardinality(Q) = n - 1 /\ n - 1 \in Nat
  BY <1>0, <1>3, <1>4, <1>7, OneLess
<1>9. Good(Q)
  <2>1. n - 1 \notin T
    BY <1>2, <1>4, <1>8
  <2> HIDE DEF Good
  <2> QED
    BY <1>1, <1>8, <2>1
<1>10. Sum(f, R) = f[t] + Sum(f, Q) /\ Sum(g, R) = g[t] + Sum(g, Q)
  BY <1>4, <1>6, <1>7, SumTakes
<1>11. /\ f[t] \in Nat /\ g[t] \in Nat /\ f[t] <= g[t]
       /\ Sum(f, Q) \in Nat /\ Sum(g, Q) \in Nat
  <2>1. t \in Times
    BY <1>4, <1>6
  <2> QED
    BY <1>3, <1>6, <1>8, <2>1, SumTakes DEF PerTime
<1> QED
  BY <1>3, <1>9, <1>10, <1>11

(* Two stretches of time together.                                         *)
LEMMA SumSplits ==
  ASSUME NEW f, PerTime(f), NEW A \in SUBSET Times, NEW B \in SUBSET Times, A \cap B = {}
  PROVE  Sum(f, A \cup B) = Sum(f, A) + Sum(f, B)
<1> DEFINE Good(R) == Sum(f, R \cup B) = Sum(f, R) + Sum(f, B)
<1> SUFFICES ASSUME ~Good(A) PROVE FALSE
  OBVIOUS
<1>0. IsFiniteSet(A)
  BY TimesFinite
<1>1. PICK T : T = {n \in Nat : \E R \in SUBSET A : Cardinality(R) = n /\ ~Good(R)}
  OBVIOUS
<1>2. PICK n \in T : \A m \in T : n <= m
  <2>1. T \subseteq Nat /\ T # {}
    <3> HIDE DEF Good
    <3> QED
      BY <1>0, <1>1, OneLess
  <2> QED
    BY <2>1, MinIsLeast
<1>3. PICK R \in SUBSET A : Cardinality(R) = n /\ ~Good(R)
  <2> HIDE DEF Good
  <2> QED
    BY <1>1, <1>2
<1>4. n \in Nat /\ R \in SUBSET Times /\ Sum(f, B) \in Nat
  BY <1>1, <1>2, <1>3, SumTakes
<1>5. R # {}
  <2>1. R = {} => Sum(f, R) = 0 /\ R \cup B = B
    BY <1>4, SumTakes
  <2> QED
    BY <1>3, <1>4, <2>1
<1>6. PICK t \in R : TRUE
  BY <1>5
<1>7. PICK Q : Q = R \ {t}
  OBVIOUS
<1>8. Q \in SUBSET A /\ Q \in SUBSET Times /\ Cardinality(Q) = n - 1 /\ n - 1 \in Nat
  BY <1>0, <1>3, <1>4, <1>7, OneLess
<1>9. Good(Q)
  <2>1. n - 1 \notin T
    BY <1>2, <1>4, <1>8
  <2> HIDE DEF Good
  <2> QED
    BY <1>1, <1>8, <2>1
<1>10. Sum(f, R) = f[t] + Sum(f, Q)
  BY <1>4, <1>6, <1>7, SumTakes
<1>11. Sum(f, R \cup B) = f[t] + Sum(f, Q \cup B)
  <2>1. PICK V, W : V = R \cup B /\ W = Q \cup B
    OBVIOUS
  <2>2. t \in V /\ W = V \ {t} /\ V \in SUBSET Times
    BY <1>3, <1>4, <1>6, <1>7, <2>1
  <2>3. Sum(f, V) = f[t] + Sum(f, V \ {t})
    BY <2>2, SumTakes
  <2> QED
    BY <2>1, <2>2, <2>3
<1>12. f[t] \in Nat /\ Sum(f, Q) \in Nat
  <2>1. t \in Times
    BY <1>4, <1>6
  <2> QED
    BY <1>8, <2>1, SumTakes DEF PerTime
<1> QED
  BY <1>3, <1>4, <1>9, <1>10, <1>11, <1>12

(* No requests at any of the times.                                        *)
LEMMA SumNothing ==
  ASSUME NEW f, PerTime(f), NEW S \in SUBSET Times, \A t \in S : f[t] = 0
  PROVE  Sum(f, S) = 0
<1>1. IsFiniteSet(S) /\ IsFiniteSet(Times)
  BY TimesFinite
<1>2. PICK F : IsFold(F, f, Times) /\ \A T \in SUBSET Times : Sum(f, T) = F[T]
  BY SumFolds
<1>3. PICK z, g : z = [t \in S |-> 0] /\ g = [s \in SUBSET S |-> 0]
  OBVIOUS
<1>4. \A s \in SUBSET S : g[s] = IF s = {} THEN 0 ELSE z[Pick(s)] + g[s \ {Pick(s)}]
  <2> SUFFICES ASSUME NEW s \in SUBSET S
               PROVE  g[s] = IF s = {} THEN 0 ELSE z[Pick(s)] + g[s \ {Pick(s)}]
    OBVIOUS
  <2>1. s # {} => Pick(s) \in s
    BY DEF Pick
  <2>2. g[s] = 0 /\ g[s \ {Pick(s)}] = 0 /\ (s # {} => z[Pick(s)] = 0)
    BY <1>3, <2>1
  <2> QED
    BY <2>2
<1>5. IsFold(g, z, S)
  BY <1>3, <1>4 DEF IsFold
<1>6. F[S] = g[S]
  BY <1>1, <1>2, <1>3, <1>5, FoldSame
<1> QED
  BY <1>2, <1>3, <1>6

(* One more request at t.                                                  *)
LEMMA SumMore ==
  ASSUME NEW f, PerTime(f), NEW g, PerTime(g), NEW t \in Times, g[t] = f[t] + 1,
         \A x \in Times \ {t} : g[x] = f[x],
         NEW S \in SUBSET Times
  PROVE  /\ t \in S => Sum(g, S) = Sum(f, S) + 1
         /\ t \notin S => Sum(g, S) = Sum(f, S)
<1>1. ASSUME NEW Q \in SUBSET Times, t \notin Q PROVE Sum(g, Q) = Sum(f, Q)
  <2>1. \A x \in Q : g[x] = f[x] /\ f[x] \in Nat
    BY <1>1 DEF PerTime
  <2>2. \A x \in Q : g[x] <= f[x] /\ f[x] <= g[x]
    BY <2>1
  <2>3. Sum(g, Q) <= Sum(f, Q) /\ Sum(f, Q) <= Sum(g, Q)
    BY <2>2, SumLess
  <2>4. Sum(g, Q) \in Nat /\ Sum(f, Q) \in Nat
    BY SumTakes
  <2> QED
    BY <2>3, <2>4
<1>2. CASE t \in S
  <2>1. PICK Q : Q = S \ {t}
    OBVIOUS
  <2>2. Q \in SUBSET Times /\ t \notin Q
    BY <2>1
  <2>3. Sum(g, Q) = Sum(f, Q) /\ Sum(f, Q) \in Nat /\ f[t] \in Nat
    BY <1>1, <2>2, SumTakes DEF PerTime
  <2>4. Sum(f, S) = f[t] + Sum(f, Q) /\ Sum(g, S) = g[t] + Sum(g, Q)
    BY <1>2, <2>1, SumTakes
  <2> QED
    BY <1>2, <2>3, <2>4
<1> QED
  BY <1>1, <1>2

(* A client's requests by time, f, at the time n, in a period of the       *)
(* limiter that began at s and in which it counts its next request as c:   *)
(* what passed in the period was counted, and no more than Limit passed in *)
(* it, nor before it in the times still remembered.                        *)
From(s) == {t \in Times : t >= s}
Before(s) == {t \in Times : t < s}

Within(f, s, c, n) ==
  /\ PerTime(f) /\ s \in 0 .. n
  /\ \A t \in Times : t > n => f[t] = 0
  /\ Sum(f, From(s)) < c /\ Sum(f, From(s)) <= Limit
  /\ Sum(f, Before(s)) <= Limit

(* The times before s and the others.                                      *)
LEMMA BeforeOrFrom ==
  ASSUME NEW s \in Nat
  PROVE  /\ From(s) \in SUBSET Times /\ Before(s) \in SUBSET Times
         /\ From(s) \cap Before(s) = {} /\ From(s) \cup Before(s) = Times
<1>1. \A t \in Times : t \in Nat
  BY LimiterConstants DEF Times
<1>2. From(s) \in SUBSET Times /\ Before(s) \in SUBSET Times
  BY DEF From, Before
<1>3. From(s) \cap Before(s) = {}
  BY <1>1 DEF From, Before
<1>4. \A t \in Times : t \in From(s) \/ t \in Before(s)
  BY <1>1 DEF From, Before
<1> QED
  BY <1>2, <1>3, <1>4

(* Nothing is known of the client,                                         *)
LEMMA WithinStart ==
  ASSUME NEW n \in Nat, NEW s \in 0 .. n, NEW c \in Nat \ {0},
         NEW f, f = [t \in Times |-> 0]
  PROVE  Within(f, s, c, n)
<1>1. PerTime(f) /\ \A t \in Times : f[t] = 0
  BY DEF PerTime
<1>2. From(s) \in SUBSET Times /\ Before(s) \in SUBSET Times
  BY DEF From, Before
<1>3. Sum(f, From(s)) = 0 /\ Sum(f, Before(s)) = 0
  BY <1>1, <1>2, SumNothing
<1>4. Limit \in Nat
  BY LimiterConstants
<1> QED
  BY <1>1, <1>3, <1>4 DEF Within

(* its request is counted and passes, or is refused,                       *)
LEMMA WithinCounted ==
  ASSUME NEW n \in Times, NEW s, NEW c \in Nat \ {0}, NEW f, Within(f, s, c, n),
         NEW g, \/ c <= Limit /\ g = [f EXCEPT ![n] = f[n] + 1]
                \/ g = f
  PROVE  Within(g, s, c + 1, n)
<1>1. PerTime(f) /\ s \in 0 .. n /\ n \in Nat /\ Limit \in Nat
  BY LimiterConstants DEF Within, Times
<1>2. From(s) \in SUBSET Times /\ Before(s) \in SUBSET Times /\ n \in From(s) /\ n \notin Before(s)
  BY <1>1 DEF From, Before
<1>3. Sum(f, From(s)) \in Nat /\ Sum(f, Before(s)) \in Nat
  BY <1>1, <1>2, SumTakes
<1>4. Sum(f, From(s)) < c /\ Sum(f, From(s)) <= Limit /\ Sum(f, Before(s)) <= Limit
      /\ \A t \in Times : t > n => f[t] = 0
  BY DEF Within
<1>5. CASE c <= Limit /\ g = [f EXCEPT ![n] = f[n] + 1]
  <2>1. PerTime(g) /\ g[n] = f[n] + 1 /\ \A t \in Times \ {n} : g[t] = f[t]
    BY <1>1, <1>5 DEF PerTime
  <2>2. Sum(g, From(s)) = Sum(f, From(s)) + 1 /\ Sum(g, Before(s)) = Sum(f, Before(s))
    BY ONLY <1>1, <1>2, <2>1, n \in Times, SumMore
  <2>3. Sum(g, From(s)) < c + 1 /\ Sum(g, From(s)) <= Limit
    BY <1>1, <1>3, <1>4, <1>5, <2>2
  <2>4. Sum(g, Before(s)) <= Limit
    BY <1>3, <1>4, <2>2
  <2>5. \A t \in Times : t > n => g[t] = 0
    <3> SUFFICES ASSUME NEW t \in Times, t > n PROVE g[t] = 0
      OBVIOUS
    <3>1. t # n /\ f[t] = 0
      BY <1>1, <1>4
    <3> QED
      BY <1>1, <1>5, <3>1 DEF PerTime
  <2> QED
    BY <1>1, <2>1, <2>3, <2>4, <2>5 DEF Within
<1>6. CASE g = f
  <2>1. Sum(f, From(s)) < c + 1
    BY <1>3, <1>4
  <2> QED
    BY <1>1, <1>4, <1>6, <2>1 DEF Within
<1> QED
  BY <1>5, <1>6

(* or time passes: in the same period, or into one that begins now, when   *)
(* nothing passed in the old one or it was as long as a window.            *)
LEMMA WithinLater ==
  ASSUME NEW n \in Nat, NEW m \in Times, m = n + 1,
         NEW s, NEW c \in Nat \ {0}, NEW f, Within(f, s, c, n),
         NEW g, DOMAIN g = Times, g = [t \in DOMAIN g |-> g[t]],
         \A t \in Times : g[t] = IF t <= m - Window THEN 0 ELSE f[t],
         NEW r, NEW d,
         \/ r = s /\ d = c
         \/ r = m /\ d = 1 /\ (c = 1 \/ m >= s + Window)
  PROVE  Within(g, r, d, m)
<1>1. PerTime(f) /\ s \in 0 .. n /\ Limit \in Nat /\ Window \in Nat \ {0}
  BY LimiterConstants DEF Within
<1>2. Sum(f, From(s)) < c /\ Sum(f, From(s)) <= Limit /\ Sum(f, Before(s)) <= Limit
      /\ \A t \in Times : t > n => f[t] = 0
  BY DEF Within
<1>3. \A t \in Times : t \in Nat /\ f[t] \in Nat
  BY <1>1, LimiterConstants DEF PerTime, Times
<1>4. PerTime(g) /\ \A t \in Times : g[t] \in Nat /\ g[t] <= f[t]
  BY <1>3 DEF PerTime
<1>5. \A t \in Times : t > m => g[t] = 0
  BY <1>2, <1>3
<1>6. From(s) \in SUBSET Times /\ Before(s) \in SUBSET Times
      /\ From(r) \in SUBSET Times /\ Before(r) \in SUBSET Times
  BY DEF From, Before
<1>7. /\ Sum(f, From(s)) \in Nat /\ Sum(f, Before(s)) \in Nat
      /\ Sum(g, From(s)) \in Nat /\ Sum(g, Before(s)) \in Nat
      /\ Sum(g, From(r)) \in Nat /\ Sum(g, Before(r)) \in Nat
  BY <1>1, <1>4, <1>6, SumTakes
<1>8. Sum(g, From(s)) <= Sum(f, From(s)) /\ Sum(g, Before(s)) <= Sum(f, Before(s))
  BY <1>1, <1>4, <1>6, SumLess
<1>9. CASE r = s /\ d = c
  <2>1. Sum(g, From(r)) < d /\ Sum(g, From(r)) <= Limit /\ Sum(g, Before(r)) <= Limit
    BY <1>1, <1>2, <1>7, <1>8, <1>9
  <2>2. r \in 0 .. m
    BY <1>1, <1>9
  <2> QED
    BY <1>4, <1>5, <2>1, <2>2 DEF Within
<1>10. CASE r = m /\ d = 1 /\ (c = 1 \/ m >= s + Window)
  <2>1. Sum(g, From(r)) = 0
    <3>1. \A t \in From(r) : g[t] = 0
      <4> SUFFICES ASSUME NEW t \in From(r) PROVE g[t] = 0
        OBVIOUS
      <4>1. t \in Times /\ t > n
        BY <1>3, <1>10 DEF From
      <4> QED
        BY <1>2, <4>1
    <3> QED
      BY <1>4, <1>6, <3>1, SumNothing
  <2>2. Sum(g, Before(r)) <= Limit
    <3>1. Sum(g, Before(r)) <= Sum(g, Times)
      <4>1. From(r) \cap Before(r) = {} /\ From(r) \cup Before(r) = Times
        BY <1>1, <1>10, BeforeOrFrom
      <4>2. Sum(g, From(r) \cup Before(r)) = Sum(g, From(r)) + Sum(g, Before(r))
        BY <1>4, <1>6, <4>1, SumSplits
      <4>3. Sum(g, Times) = Sum(g, From(r)) + Sum(g, Before(r))
        BY <4>1, <4>2
      <4> QED
        BY <1>7, <2>1, <4>3
    <3>2. Sum(g, Times) = Sum(g, From(s)) + Sum(g, Before(s))
      <4>1. From(s) \cap Before(s) = {} /\ From(s) \cup Before(s) = Times
        BY <1>1, BeforeOrFrom
      <4>2. Sum(g, From(s) \cup Before(s)) = Sum(g, From(s)) + Sum(g, Before(s))
        BY <1>4, <1>6, <4>1, SumSplits
      <4> QED
        BY <4>1, <4>2
    <3>3. CASE c = 1
      <4>1. Sum(g, From(s)) = 0
        BY <1>2, <1>7, <1>8, <3>3
      <4> QED
        BY <1>1, <1>2, <1>7, <1>8, <3>1, <3>2, <4>1
    <3>4. CASE m >= s + Window
      <4>1. \A t \in Before(s) : g[t] = 0
        <5> SUFFICES ASSUME NEW t \in Before(s) PROVE g[t] = 0
          OBVIOUS
        <5>1. t \in Times /\ t \in Nat /\ t < s
          BY <1>3 DEF Before
        <5>2. t <= m - Window
          BY <1>1, <3>4, <5>1
        <5> QED
          BY <5>1, <5>2
      <4>2. Sum(g, Before(s)) = 0
        BY <1>4, <1>6, <4>1, SumNothing
      <4> QED
        BY <1>1, <1>2, <1>7, <1>8, <3>1, <3>2, <4>2
    <3> QED
      BY <1>10, <3>3, <3>4
  <2>3. r \in 0 .. m
    BY <1>10
  <2>4. Sum(g, From(r)) < d /\ Sum(g, From(r)) <= Limit
    BY <1>1, <1>10, <2>1
  <2> QED
    BY <1>4, <1>5, <2>2, <2>3, <2>4 DEF Within
<1> QED
  BY <1>9, <1>10

(* All that is remembered is at most two periods' requests.                *)
LEMMA WithinTwice ==
  ASSUME NEW f, NEW s, NEW c, NEW n \in Nat, Within(f, s, c, n)
  PROVE  Sum(f, Times) <= 2 * Limit
<1>1. PerTime(f) /\ s \in 0 .. n /\ Limit \in Nat
      /\ Sum(f, From(s)) <= Limit /\ Sum(f, Before(s)) <= Limit
  BY LimiterConstants DEF Within
<1>2. From(s) \in SUBSET Times /\ Before(s) \in SUBSET Times /\ From(s) \cap Before(s) = {}
      /\ From(s) \cup Before(s) = Times
  BY <1>1, BeforeOrFrom
<1>3. Sum(f, From(s) \cup Before(s)) = Sum(f, From(s)) + Sum(f, Before(s))
  BY <1>1, <1>2, SumSplits
<1>4. Sum(f, From(s)) \in Nat /\ Sum(f, Before(s)) \in Nat
  BY <1>1, <1>2, SumTakes
<1>5. Sum(f, Times) = Sum(f, From(s)) + Sum(f, Before(s))
  BY <1>2, <1>3
<1> QED
  BY <1>1, <1>4, <1>5

---------------------------------------------------------------------------
(* When the period began in which a request of id would be counted now.    *)
Began(id) == IF limiter = "memory" THEN Bucket(id, now).resetAt - Window
                                   ELSE WindowStart(now)

(* The limiters count from one, in buckets that began in the past.         *)
CountsInv ==
  /\ now \in Times
  /\ \A id \in DOMAIN buckets : /\ buckets[id] \in [count : Nat \ {0}, resetAt : Nat]
                                /\ buckets[id].resetAt - Window \in 0 .. now
  /\ \A row \in DOMAIN rows : rows[row] \in Nat \ {0}

(* For every client, what passed fits what is counted.                     *)
BurstInv ==
  /\ LimiterInv /\ CountsInv
  /\ passed = [id \in Ids |-> passed[id]]
  /\ \A id \in Ids : Within(passed[id], Began(id), Count(id, now), now)

(* A bucket, before and after its end.                                     *)
LEMMA BucketIs ==
  ASSUME CountsInv, NEW id, NEW t \in Nat, t >= now, NEW b, b = Bucket(id, t)
  PROVE  /\ b \in [count : Nat \ {0}, resetAt : Nat] /\ b.resetAt >= t
         /\ b.resetAt - Window \in 0 .. t
         /\ id \notin DOMAIN buckets \/ t > buckets[id].resetAt =>
              b.count = 1 /\ b.resetAt = t + Window
         /\ ~(id \notin DOMAIN buckets \/ t > buckets[id].resetAt) =>
              b.count = buckets[id].count + 1 /\ b.resetAt = buckets[id].resetAt
<1>1. Window \in Nat \ {0} /\ now \in Nat
  BY LimiterConstants DEF CountsInv, Times
<1>2. CASE id \notin DOMAIN buckets \/ t > buckets[id].resetAt
  <2>1. b = [count |-> 1, resetAt |-> t + Window]
    BY <1>2 DEF Bucket
  <2>2. b.count = 1 /\ b.resetAt = t + Window
    BY <2>1
  <2>3. b.resetAt >= t /\ b.resetAt - Window \in 0 .. t
    BY <1>1, <2>2
  <2>4. b \in [count : Nat \ {0}, resetAt : Nat]
    BY <1>1, <2>1
  <2> QED
    BY <1>2, <2>2, <2>3, <2>4
<1>3. CASE ~(id \notin DOMAIN buckets \/ t > buckets[id].resetAt)
  <2>1. b = [buckets[id] EXCEPT !.count = buckets[id].count + 1]
    BY <1>3 DEF Bucket
  <2>2. /\ buckets[id] \in [count : Nat \ {0}, resetAt : Nat]
        /\ buckets[id].resetAt - Window \in 0 .. now /\ ~(t > buckets[id].resetAt)
    BY <1>3 DEF CountsInv
  <2>3. b.count = buckets[id].count + 1 /\ b.resetAt = buckets[id].resetAt
    BY <2>1, <2>2
  <2>4. b \in [count : Nat \ {0}, resetAt : Nat]
    BY <2>1, <2>2
  <2>5. b.resetAt >= t /\ b.resetAt - Window \in 0 .. t
    BY <1>1, <2>2, <2>3
  <2> QED
    BY <1>3, <2>3, <2>4, <2>5
<1> QED
  BY <1>2, <1>3

(* What Allow would answer, and about which period.                        *)
LEMMA CountIs ==
  LimiterInv /\ CountsInv =>
    \A id \in Ids : Count(id, now) \in Nat \ {0} /\ Began(id) \in 0 .. now
<1> SUFFICES ASSUME LimiterInv, CountsInv, NEW id \in Ids
             PROVE  Count(id, now) \in Nat \ {0} /\ Began(id) \in 0 .. now
  OBVIOUS
<1>1. now \in Nat
  BY DEF LimiterInv
<1>2. CASE limiter = "memory"
  <2>1. PICK b : b = Bucket(id, now)
    OBVIOUS
  <2>2. b.count \in Nat \ {0} /\ b.resetAt - Window \in 0 .. now
    BY <1>1, <2>1, BucketIs
  <2> QED
    BY <1>2, <2>1, <2>2 DEF Count, Began
<1>3. CASE limiter = "sqlite"
  <2>1. WindowStart(now) \in 0 .. now
    BY <1>1, WindowStartBefore
  <2>2. Row(id, now) \in Nat \ {0}
    BY DEF CountsInv, Row
  <2> QED
    BY <1>3, <2>1, <2>2 DEF Count, Began
<1> QED
  BY <1>2, <1>3 DEF LimiterInv

(* Allow counts the request, in the period it is in, and nobody else's.    *)
LEMMA AllowCounts ==
  ASSUME LimiterInv, CountsInv, NEW id \in Ids, Allow(id), now' = now
  PROVE  /\ CountsInv'
         /\ Count(id, now)' = Count(id, now) + 1 /\ Began(id)' = Began(id)
         /\ \A x \in Ids \ {id} : Count(x, now)' = Count(x, now) /\ Began(x)' = Began(x)
<1>1. now \in Nat /\ now \in Times /\ Window \in Nat \ {0} /\ limiter' = limiter
  BY LimiterConstants DEF LimiterInv, CountsInv, Allow
<1>2. CASE limiter = "memory"
  <2>1. PICK b : b = Bucket(id, now)
    OBVIOUS
  <2>2. PICK counted : counted = Update(buckets, id, b)
    OBVIOUS
  <2>3. buckets' = Keep(counted, LAMBDA x : now <= counted[x].resetAt) /\ rows' = rows
    BY <1>2, <2>1, <2>2 DEF Allow
  <2>4. /\ DOMAIN counted = DOMAIN buckets \cup {id} /\ counted[id] = b
        /\ \A x \in DOMAIN buckets \ {id} : counted[x] = buckets[x]
    BY <2>2 DEF Update
  <2>5. /\ DOMAIN buckets' = {x \in DOMAIN counted : now <= counted[x].resetAt}
        /\ \A x \in DOMAIN buckets' : buckets'[x] = counted[x]
    BY <2>3 DEF Keep
  <2>6. /\ b \in [count : Nat \ {0}, resetAt : Nat] /\ b.resetAt >= now
        /\ b.resetAt - Window \in 0 .. now
    BY <1>1, <2>1, BucketIs
  <2>7. \A x \in DOMAIN buckets : /\ buckets[x] \in [count : Nat \ {0}, resetAt : Nat]
                                  /\ buckets[x].resetAt - Window \in 0 .. now
    BY DEF CountsInv
  <2>8. id \in DOMAIN buckets' /\ buckets'[id] = b
    BY <1>1, <2>4, <2>5, <2>6
  <2>9. CountsInv'
    <3>1. \A x \in DOMAIN buckets' : /\ buckets'[x] \in [count : Nat \ {0}, resetAt : Nat]
                                     /\ buckets'[x].resetAt - Window \in 0 .. now
      BY <2>4, <2>5, <2>6, <2>7
    <3> QED
      BY <1>1, <2>3, <3>1 DEF CountsInv
  <2>10. PICK bb : bb = Bucket(id, now)'
    OBVIOUS
  <2>11. bb.count = b.count + 1 /\ bb.resetAt = b.resetAt
    <3>1. bb = [b EXCEPT !.count = b.count + 1]
      BY <1>1, <2>6, <2>8, <2>10 DEF Bucket
    <3> QED
      BY <2>6, <3>1
  <2>12. Count(id, now)' = Count(id, now) + 1 /\ Began(id)' = Began(id)
    BY <1>1, <1>2, <2>1, <2>10, <2>11 DEF Count, Began
  <2>13. ASSUME NEW x \in Ids \ {id} PROVE Bucket(x, now)' = Bucket(x, now)
    <3>1. x \in DOMAIN buckets' <=> x \in DOMAIN buckets /\ ~(now > buckets[x].resetAt)
      BY <1>1, <2>4, <2>5, <2>7
    <3>2. x \in DOMAIN buckets' => buckets'[x] = buckets[x]
      BY <2>4, <2>5
    <3> QED
      BY <1>1, <3>1, <3>2 DEF Bucket
  <2>14. \A x \in Ids \ {id} : Count(x, now)' = Count(x, now) /\ Began(x)' = Began(x)
    BY <1>1, <1>2, <2>13 DEF Count, Began
  <2> QED
    BY <2>9, <2>12, <2>14
<1>3. CASE limiter # "memory"
  <2>1. PICK ws : ws = WindowStart(now)
    OBVIOUS
  <2>2. PICK counted : counted = Update(rows, <<id, ws>>, Row(id, now))
    OBVIOUS
  <2>3. rows' = Keep(counted, LAMBDA x : x[2] >= ws - 2 * Window) /\ buckets' = buckets
    BY <1>3, <2>1, <2>2 DEF Allow
  <2>4. /\ DOMAIN counted = DOMAIN rows \cup {<<id, ws>>} /\ counted[<<id, ws>>] = Row(id, now)
        /\ \A x \in DOMAIN rows \ {<<id, ws>>} : counted[x] = rows[x]
    BY <2>2 DEF Update
  <2>5. /\ DOMAIN rows' = {x \in DOMAIN counted : x[2] >= ws - 2 * Window}
        /\ \A x \in DOMAIN rows' : rows'[x] = counted[x]
    BY <2>3 DEF Keep
  <2>6. ws \in Nat /\ ws >= ws - 2 * Window /\ WindowStart(now)' = ws
    <3>1. ws \in Nat
      BY <1>1, <2>1, WindowStartBefore
    <3> QED
      BY <1>1, <2>1, <3>1 DEF WindowStart
  <2>7. Row(id, now) \in Nat \ {0}
    BY DEF CountsInv, Row
  <2>8. <<id, ws>> \in DOMAIN rows' /\ rows'[<<id, ws>>] = Row(id, now)
    <3>1. <<id, ws>>[2] = ws
      OBVIOUS
    <3> QED
      BY <2>4, <2>5, <2>6, <3>1
  <2>9. CountsInv'
    <3>1. \A x \in DOMAIN rows' : rows'[x] \in Nat \ {0}
      BY <2>4, <2>5, <2>7 DEF CountsInv
    <3> QED
      BY <1>1, <2>3, <3>1 DEF CountsInv
  <2>10. Row(id, now)' = Row(id, now) + 1
    BY <2>6, <2>8 DEF Row
  <2>11. ASSUME NEW x \in Ids \ {id} PROVE Row(x, now)' = Row(x, now)
    <3>1. <<x, ws>> # <<id, ws>> /\ <<x, ws>>[2] = ws
      OBVIOUS
    <3>2. <<x, ws>> \in DOMAIN rows' <=> <<x, ws>> \in DOMAIN rows
      BY <2>4, <2>5, <2>6, <3>1
    <3>3. <<x, ws>> \in DOMAIN rows' => rows'[<<x, ws>>] = rows[<<x, ws>>]
      BY <2>4, <2>5, <3>1, <3>2
    <3> QED
      BY <2>1, <2>6, <3>2, <3>3 DEF Row
  <2>12. \A x \in Ids : Began(x)' = Began(x)
    BY <1>1, <1>3, <2>1, <2>6 DEF Began
  <2>13. Count(id, now)' = Count(id, now) + 1
    BY <1>1, <1>3, <2>10 DEF Count
  <2>14. \A x \in Ids \ {id} : Count(x, now)' = Count(x, now)
    BY <1>1, <1>3, <2>11 DEF Count
  <2> QED
    BY <2>9, <2>12, <2>13, <2>14
<1> QED
  BY <1>2, <1>3

(* As time passes a period goes on, or another begins now: after a window, *)
(* or because nothing was counted.                                         *)
LEMMA TickCounts ==
  ASSUME LimiterInv, CountsInv, NEW id \in Ids, Tick
  PROVE  /\ CountsInv'
         /\ \/ Began(id)' = Began(id) /\ Count(id, now)' = Count(id, now)
            \/ /\ Began(id)' = now + 1 /\ Count(id, now)' = 1
               /\ Count(id, now) = 1 \/ now + 1 >= Began(id) + Window
<1>1. /\ now \in Nat /\ now' = now + 1 /\ now' \in Nat /\ now' \in Times /\ Window \in Nat \ {0}
      /\ limiter' = limiter /\ buckets' = buckets /\ rows' = rows
  BY LimiterConstants DEF LimiterInv, Tick, Times
<1>2. CountsInv'
  <2>1. \A x \in DOMAIN buckets : /\ buckets[x] \in [count : Nat \ {0}, resetAt : Nat]
                                  /\ buckets[x].resetAt - Window \in 0 .. now'
    <3> SUFFICES ASSUME NEW x \in DOMAIN buckets
                 PROVE  buckets[x].resetAt - Window \in 0 .. now'
      BY DEF CountsInv
    <3>1. buckets[x].resetAt - Window \in 0 .. now
      BY DEF CountsInv
    <3> QED
      BY <1>1, <3>1
  <2> QED
    BY <1>1, <2>1 DEF CountsInv
<1>3. CASE limiter = "memory"
  <2>1. PICK b, bb : b = Bucket(id, now) /\ bb = Bucket(id, now')
    OBVIOUS
  <2>2. Bucket(id, now)' = bb
    BY <1>1, <2>1 DEF Bucket
  <2>3. CASE id \notin DOMAIN buckets \/ now > buckets[id].resetAt
    <3>1. b.count = 1
      BY <1>1, <2>1, <2>3, BucketIs
    <3>2. id \notin DOMAIN buckets \/ now' > buckets[id].resetAt
      BY <1>1, <2>3 DEF CountsInv
    <3>3. bb.count = 1 /\ bb.resetAt = now' + Window
      BY <1>1, <2>1, <3>2, BucketIs
    <3>4. bb.resetAt - Window = now + 1
      BY <1>1, <3>3
    <3> QED
      BY <1>1, <1>2, <1>3, <2>1, <2>2, <3>1, <3>3, <3>4 DEF Count, Began
  <2>4. CASE ~(id \notin DOMAIN buckets \/ now > buckets[id].resetAt)
    <3>1. b.count = buckets[id].count + 1 /\ b.resetAt = buckets[id].resetAt
      BY <1>1, <2>1, <2>4, BucketIs
    <3>2. buckets[id].resetAt \in Nat
      BY <2>4 DEF LimiterInv
    <3>3. CASE now' > buckets[id].resetAt
      <4>1. bb.count = 1 /\ bb.resetAt = now' + Window
        BY <1>1, <2>1, <3>3, BucketIs
      <4>2. bb.resetAt - Window = now + 1 /\ now + 1 >= b.resetAt - Window + Window
        BY <1>1, <3>1, <3>2, <3>3, <4>1
      <4> QED
        BY <1>1, <1>2, <1>3, <2>1, <2>2, <4>1, <4>2 DEF Count, Began
    <3>4. CASE ~(now' > buckets[id].resetAt)
      <4>1. bb = b
        BY <2>1, <2>4, <3>4 DEF Bucket
      <4> QED
        BY <1>1, <1>2, <1>3, <2>1, <2>2, <4>1 DEF Count, Began
    <3> QED
      BY <3>3, <3>4
  <2> QED
    BY <2>3, <2>4
<1>4. CASE limiter = "sqlite"
  <2>1. PICK ws, wt : ws = WindowStart(now) /\ wt = WindowStart(now')
    OBVIOUS
  <2>2. WindowStart(now)' = wt /\ Row(id, now)' = Row(id, now')
    BY <1>1, <2>1 DEF WindowStart, Row
  <2>3. /\ ws \in Nat /\ ws <= now /\ now < ws + Window /\ ws = Window * (now \div Window)
        /\ wt \in Nat /\ wt <= now' /\ now' < wt + Window /\ wt = Window * (now' \div Window)
    BY <1>1, <2>1, WindowStartBefore
  <2>4. Began(id) = ws /\ Began(id)' = wt
    BY <1>1, <1>4, <2>1, <2>2 DEF Began
  <2>5. CASE wt = ws
    <3>1. Row(id, now') = Row(id, now)
      BY <2>1, <2>5 DEF Row
    <3>2. Count(id, now)' = Count(id, now)
      BY <1>1, <1>4, <2>2, <3>1 DEF Count
    <3> QED
      BY <1>2, <2>4, <2>5, <3>2
  <2>6. CASE wt # ws
    <3>1. now \div Window \in Nat /\ now' \div Window \in Nat
      BY <1>1, DivMod
    <3>2. wt > ws
      <4> SUFFICES ASSUME ws > wt PROVE FALSE
        BY <2>3, <2>6
      <4>1. ws >= wt + Window
        BY <1>1, <2>3, <3>1, MultiplesApart
      <4> QED
        BY <1>1, <2>3, <4>1
    <3>3. wt >= ws + Window
      BY <1>1, <2>3, <3>1, <3>2, MultiplesApart
    <3>4. wt = now + 1 /\ now + 1 >= ws + Window
      BY <1>1, <2>3, <3>3
    <3>5. <<id, wt>> \notin DOMAIN rows
      <4> SUFFICES ASSUME <<id, wt>> \in DOMAIN rows PROVE FALSE
        OBVIOUS
      <4>1. <<id, wt>>[2] <= now
        BY DEF LimiterInv
      <4> QED
        BY <1>1, <3>4, <4>1
    <3>6. Row(id, now') = 1
      BY <2>1, <3>5 DEF Row
    <3>7. Count(id, now)' = 1
      BY <1>1, <1>4, <2>2, <3>6 DEF Count
    <3> QED
      BY <1>2, <2>4, <3>4, <3>7
  <2> QED
    BY <2>5, <2>6
<1> QED
  BY <1>3, <1>4 DEF LimiterInv

(* Allow,                                                                  *)
LEMMA AllowBounds ==
  ASSUME BurstInv, NEW id \in Ids, Allow(id), now' = now
  PROVE  BurstInv'
<1>1. LimiterInv /\ CountsInv /\ LimiterInv' /\ now \in Times
  BY AllowKeeps DEF BurstInv, CountsInv
<1>2. /\ CountsInv'
      /\ Count(id, now)' = Count(id, now) + 1 /\ Began(id)' = Began(id)
      /\ \A x \in Ids \ {id} : Count(x, now)' = Count(x, now) /\ Began(x)' = Began(x)
  BY <1>1, AllowCounts
<1>3. \A x \in Ids : Within(passed[x], Began(x), Count(x, now), now)
  BY DEF BurstInv
<1>4. passed = [x \in Ids |-> passed[x]]
  BY DEF BurstInv
<1>5. PICK c : c = Count(id, now)
  OBVIOUS
<1>6. c \in Nat \ {0}
  BY <1>1, <1>5, CountIs
<1>7. PICK g : g = passed'[id]
  OBVIOUS
<1>8. \/ c <= Limit /\ g = [passed[id] EXCEPT ![now] = passed[id][now] + 1]
      \/ g = passed[id]
  BY <1>4, <1>5, <1>7 DEF Allow, Allowed
<1>9. passed' = [x \in Ids |-> passed'[x]] /\ \A x \in Ids \ {id} : passed'[x] = passed[x]
  BY <1>4 DEF Allow
<1>10. PICK s : s = Began(id)
  OBVIOUS
<1>11. Within(g, s, c + 1, now)
  <2>1. Within(passed[id], s, c, now)
    BY <1>3, <1>5, <1>10
  <2> QED
    BY ONLY <1>1, <1>6, <1>8, <2>1, WithinCounted
<1>12. Within(passed[id], Began(id), Count(id, now), now)'
  <2>1. passed'[id] = g /\ Began(id)' = s /\ Count(id, now)' = c + 1
    BY <1>2, <1>5, <1>7, <1>10
  <2> QED
    BY <1>11, <2>1
<1>13. ASSUME NEW x \in Ids \ {id}
       PROVE  Within(passed[x], Began(x), Count(x, now), now)'
  <2>1. passed'[x] = passed[x] /\ Began(x)' = Began(x) /\ Count(x, now)' = Count(x, now)
    BY <1>2, <1>9
  <2>2. Within(passed[x], Began(x), Count(x, now), now)
    BY <1>3
  <2> QED
    BY <2>1, <2>2
<1>14. \A x \in Ids : Within(passed[x], Began(x), Count(x, now), now)'
  BY <1>12, <1>13
<1> QED
  BY <1>1, <1>2, <1>9, <1>14 DEF BurstInv

(* time passing,                                                           *)
LEMMA TickBounds ==
  ASSUME BurstInv, Tick
  PROVE  BurstInv'
<1>1. LimiterInv /\ CountsInv /\ now \in Nat /\ now' = now + 1 /\ now + 1 \in Times
  BY LimiterConstants DEF BurstInv, LimiterInv, Tick, Times
<1>2. LimiterInv'
  BY <1>1 DEF LimiterInv, Tick
<1>3. PICK n : n = now'
  OBVIOUS
<1>4. passed' = [x \in Ids |-> [t \in Times |-> IF t <= n - Window THEN 0 ELSE passed[x][t]]]
  BY <1>3 DEF Tick, Times
<1>5. ASSUME NEW x \in Ids
      PROVE  CountsInv' /\ Within(passed[x], Began(x), Count(x, now), now)'
  <2>1. PICK s, c, f, g : s = Began(x) /\ c = Count(x, now) /\ f = passed[x] /\ g = passed'[x]
    OBVIOUS
  <2>2. PICK r, d : r = Began(x)' /\ d = Count(x, now)'
    OBVIOUS
  <2>3. CountsInv' /\ \/ r = s /\ d = c
                      \/ r = now + 1 /\ d = 1 /\ (c = 1 \/ now + 1 >= s + Window)
    BY <1>1, <2>1, <2>2, TickCounts
  <2>4. c \in Nat \ {0} /\ Within(f, s, c, now)
    BY <1>1, <2>1, CountIs DEF BurstInv
  <2>5. /\ DOMAIN g = Times /\ g = [t \in DOMAIN g |-> g[t]]
        /\ \A t \in Times : g[t] = IF t <= n - Window THEN 0 ELSE f[t]
    BY <1>4, <2>1
  <2>6. n \in Times /\ n = now + 1
    BY <1>1, <1>3
  <2>7. now \in Nat
    BY <1>1
  <2>8. \/ r = s /\ d = c
        \/ r = n /\ d = 1 /\ (c = 1 \/ n >= s + Window)
    BY <2>3, <2>6
  <2>9. Within(g, r, d, n)
    BY ONLY <2>4, <2>5, <2>6, <2>7, <2>8, WithinLater
  <2> QED
    BY <1>3, <2>1, <2>2, <2>3, <2>9
<1>6. CountsInv'
  <2>1. CASE Ids = {}
    BY <1>1, <2>1 DEF CountsInv, Tick
  <2> QED
    BY <1>5, <2>1
<1> QED
  BY <1>2, <1>4, <1>5, <1>6 DEF BurstInv

(* and a new process.                                                      *)
LEMMA RestartBounds ==
  ASSUME BurstInv, LimiterRestart, now' = now
  PROVE  BurstInv'
<1>1. LimiterInv /\ CountsInv /\ now \in Nat /\ limiter' = limiter /\ rows' = rows
  BY DEF BurstInv, LimiterInv, LimiterRestart
<1>2. CASE limiter # "memory"
  <2>1. buckets' = buckets /\ passed' = passed
    BY <1>2 DEF LimiterRestart
  <2>2. LimiterInv' /\ CountsInv'
    BY <1>1, <2>1 DEF LimiterInv, CountsInv
  <2>3. \A x \in Ids : Began(x)' = Began(x) /\ Count(x, now)' = Count(x, now)
    BY <1>1, <2>1 DEF Began, Count, Bucket, Row, WindowStart
  <2>4. \A x \in Ids : Within(passed[x], Began(x), Count(x, now), now)'
    BY <2>1, <2>3 DEF BurstInv
  <2> QED
    BY <2>1, <2>2, <2>4 DEF BurstInv
<1>3. CASE limiter = "memory"
  <2>1. buckets' = [x \in {} |-> 0] /\ passed' = [x \in Ids |-> [t \in Times |-> 0]]
    BY <1>3 DEF LimiterRestart, Times
  <2>2. LimiterInv' /\ CountsInv'
    BY <1>1, <2>1 DEF LimiterInv, CountsInv
  <2>3. ASSUME NEW x \in Ids PROVE Within(passed[x], Began(x), Count(x, now), now)'
    <3>1. PICK f, s, c : f = passed'[x] /\ s = Began(x)' /\ c = Count(x, now)'
      OBVIOUS
    <3>2. (LimiterInv /\ CountsInv =>
             \A id \in Ids : Count(id, now) \in Nat \ {0} /\ Began(id) \in 0 .. now)'
      BY CountIs, PTL
    <3>3. c \in Nat \ {0} /\ s \in 0 .. now /\ f = [t \in Times |-> 0]
      BY <2>1, <2>2, <3>1, <3>2
    <3>4. Within(f, s, c, now)
      BY ONLY <1>1, <3>3, WithinStart
    <3> QED
      BY <3>1, <3>4
  <2> QED
    BY <2>1, <2>2, <2>3 DEF BurstInv
<1> QED
  BY <1>2, <1>3

(* The limiters start with nothing counted.                                *)
LEMMA BurstInit == Init => BurstInv
<1> SUFFICES ASSUME Init PROVE BurstInv
  OBVIOUS
<1>1. /\ now = 0 /\ buckets = [x \in {} |-> 0] /\ rows = [x \in {} |-> 0]
      /\ limiter \in {"memory", "sqlite"} /\ passed = [x \in Ids |-> [t \in Times |-> 0]]
      /\ now \in Nat /\ now \in Times
  BY LimiterConstants DEF Init, LimiterInit, Times
<1>2. LimiterInv /\ CountsInv
  BY <1>1 DEF LimiterInv, CountsInv
<1>3. ASSUME NEW x \in Ids PROVE Within(passed[x], Began(x), Count(x, now), now)
  <2>1. PICK f, s, c : f = passed[x] /\ s = Began(x) /\ c = Count(x, now)
    OBVIOUS
  <2>2. c \in Nat \ {0} /\ s \in 0 .. now /\ f = [t \in Times |-> 0]
    BY <1>1, <1>2, <2>1, CountIs
  <2>3. Within(f, s, c, now)
    BY ONLY <1>1, <2>2, WithinStart
  <2> QED
    BY <2>1, <2>3
<1> QED
  BY <1>1, <1>2, <1>3 DEF BurstInv

(* In no stretch of time as long as a window do more than twice the limit  *)
(* of a client's requests pass, with either limiter and any limit and      *)
(* window, restarts of a server that shares its counts included.           *)
THEOREM BurstsBounded == Spec => []BurstBounded
<1>1. BurstInv /\ [Next]_vars => BurstInv'
  <2> SUFFICES ASSUME BurstInv, [Next]_vars PROVE BurstInv'
    OBVIOUS
  <2>1. CASE UNCHANGED <<now, limiterVars>>
    <3>1. UNCHANGED <<now, limiter, buckets, rows, passed>>
      BY <2>1 DEF limiterVars
    <3>2. LimiterInv' /\ CountsInv'
      BY <3>1 DEF BurstInv, LimiterInv, CountsInv
    <3>3. \A x \in Ids : Began(x)' = Began(x) /\ Count(x, now)' = Count(x, now)
      BY <3>1 DEF Began, Count, Bucket, Row, WindowStart
    <3>4. \A x \in Ids : Within(passed[x], Began(x), Count(x, now), now)'
      BY <3>1, <3>3 DEF BurstInv
    <3> QED
      BY <3>1, <3>2, <3>4 DEF BurstInv
  <2> QED
    BY <2>1, LimiterSteps, AllowBounds, TickBounds, RestartBounds
<1>2. BurstInv => BurstBounded
  <2> SUFFICES ASSUME BurstInv, NEW id \in Ids PROVE Sum(passed[id], Times) <= 2 * Limit
    BY DEF BurstBounded, Sum, Times
  <2>1. Within(passed[id], Began(id), Count(id, now), now) /\ now \in Nat
    BY DEF BurstInv, LimiterInv
  <2> QED
    BY <2>1, WithinTwice
<1> QED
  BY <1>1, <1>2, BurstInit, PTL DEF Spec

---------------------------------------------------------------------------
(* A map of jobs, as it may be at the time t: its ids are times past.      *)
JobsOK(js, t) == IsJobs(js) /\ DOMAIN js \subseteq 0 .. t

FileOK(f, t) ==
  \/ f \in {NoFile, Cut}
  \/ f = Full(f.jobs) /\ JobsOK(f.jobs, t)

Saves == {"marshal", "open", "write", "rename"}

(* The local variables a process may have at the time t.                   *)
LocalOK(s, t) ==
  \/ s \in {Idle, [at |-> "validate"], [at |-> "down"]}
  \/ s.at \in {"prune", "run", "marshal", "rename"} /\ s = [at |-> s.at, id |-> s.id]
  \/ s = [at |-> "open", data |-> s.data, id |-> s.id] /\ JobsOK(s.data, t)
  \/ /\ s = [at |-> "write", data |-> s.data, id |-> s.id, file |-> s.file]
     /\ JobsOK(s.data, t) /\ s.file \in {"tmp", "path"}

(* Where it may be: requests validate, the goroutine runs, Shutdown ends.  *)
PlaceOK(p, at) ==
  \/ at = "idle" \/ at \in Saves
  \/ at \in {"validate", "prune"} /\ p \in Requests
  \/ at = "run" /\ p = Runner
  \/ at = "down" /\ p = Closer

StateOK ==
  /\ now \in 0 .. MaxTime
  /\ benchActive \in BOOLEAN /\ closing \in BOOLEAN /\ atRisk \in BOOLEAN
  /\ JobsOK(jobs, now) /\ FileOK(path, now) /\ FileOK(tmp, now)
  /\ st = [p \in Procs |-> st[p]]
  /\ \A p \in Procs : LocalOK(st[p], now) /\ PlaceOK(p, st[p].at)
  /\ acked \subseteq DOMAIN jobs /\ ended \subseteq acked

(* The slot belongs to one request or to the goroutine, or to nobody.      *)
SlotInv ==
  \/ ~benchActive /\ Holders = {}
  \/ benchActive /\ \E h \in Requests \cup {Runner} : Holders = {h}

(* Who has the slot and is past validation has its job in the map: no      *)
(* other job is started meanwhile, so none is pruned.                      *)
JobInv ==
  /\ \A h \in Holders : st[h].at # "validate" => st[h].id \in DOMAIN jobs
  /\ st[Runner].at \in Saves => jobs[st[Runner].id] = "over"
  /\ \A id \in ended : jobs[id] = "over"

(* The file holds what clients were told.                                  *)
Survive(f) ==
  \A id \in acked : /\ f.is = "full" /\ id \in DOMAIN f.jobs
                    /\ id \in ended => f.jobs[id] # "running"

(* What a save has in hand: the jobs as they are, but for one Shutdown     *)
(* began before a job was stored that is not pruned yet.                   *)
Carries(js) ==
  js = jobs \/ (Survive(Full(js)) /\ \E r \in Requests : st[r].at = "prune")

(* While no save has failed or met another, at most one is in progress,    *)
(* and it carries the jobs.                                                *)
SaveInv ==
  ~atRisk =>
    /\ Survive(path)
    /\ \A p, q \in Savers : p = q
    /\ \A p \in Savers :
         /\ st[p].at \in {"open", "write"} => Carries(st[p].data)
         /\ st[p].at = "write" => st[p].file = "tmp" /\ tmp = Cut
         /\ st[p].at = "rename" => \E js : tmp = Full(js) /\ Carries(js)

JobsInv == StateOK /\ SlotInv /\ JobInv /\ SaveInv

(* A map of jobs is finite.                                                *)
LEMMA JobsFinite ==
  ASSUME NEW t \in Nat, NEW js, JobsOK(js, t)
  PROVE  IsFiniteSet(DOMAIN js) /\ Cardinality(DOMAIN js) \in Nat
<1>1. IsFiniteSet(0 .. t)
  BY FS_Interval
<1>2. IsFiniteSet(DOMAIN js)
  BY <1>1, FS_Subset DEF JobsOK
<1> QED
  BY <1>2, FS_CardinalityType

(* Time passes: what was well-formed is.                                   *)
LEMMA Later ==
  ASSUME NEW t \in Nat
  PROVE  /\ \A js : JobsOK(js, t) => JobsOK(js, t + 1)
         /\ \A f : FileOK(f, t) => FileOK(f, t + 1)
         /\ \A s : LocalOK(s, t) => LocalOK(s, t + 1)
<1>1. \A js : JobsOK(js, t) => JobsOK(js, t + 1)
  BY DEF JobsOK
<1>2. \A f : FileOK(f, t) => FileOK(f, t + 1)
  BY <1>1 DEF FileOK
<1>3. \A s : LocalOK(s, t) => LocalOK(s, t + 1)
  BY <1>1 DEF LocalOK
<1> QED
  BY <1>1, <1>2, <1>3

(* What a place says of the local variables there.                         *)
LEMMA LocalByPlace ==
  ASSUME NEW t, NEW s, LocalOK(s, t)
  PROVE  /\ s.at = "idle" => s = Idle
         /\ s.at \in {"open", "write"} => JobsOK(s.data, t)
         /\ s.at = "write" =>
              /\ s = [at |-> "write", data |-> s.data, id |-> s.id, file |-> s.file]
              /\ s.file \in {"tmp", "path"}
<1>1. CASE s \in {Idle, [at |-> "validate"], [at |-> "down"]}
  BY <1>1 DEF Idle
<1>2. CASE s.at \in {"prune", "run", "marshal", "rename"}
  BY <1>2
<1>3. CASE s = [at |-> "open", data |-> s.data, id |-> s.id] /\ JobsOK(s.data, t)
  <2>1. s.at = "open"
    BY <1>3
  <2> QED
    BY <1>3, <2>1
<1>4. CASE /\ s = [at |-> "write", data |-> s.data, id |-> s.id, file |-> s.file]
           /\ JobsOK(s.data, t) /\ s.file \in {"tmp", "path"}
  <2>1. s.at = "write"
    BY <1>4
  <2> QED
    BY <1>4, <2>1
<1> QED
  BY <1>1, <1>2, <1>3, <1>4 DEF LocalOK

(* Where everybody is after a step of one process.                         *)
LEMMA AfterGoto ==
  ASSUME StateOK, NEW p \in Procs, NEW s, Goto(p, s)
  PROVE  /\ st' = [q \in Procs |-> st'[q]]
         /\ \A q \in Procs : st'[q] = IF q = p THEN s ELSE st[q]
         /\ Holders' = (Holders \ {p})
              \cup (IF p \in Requests \cup {Runner} /\ s # Idle THEN {p} ELSE {})
         /\ Savers' = (Savers \ {p}) \cup (IF s.at \in Saves THEN {p} ELSE {})
<1>1. st' = [st EXCEPT ![p] = s] /\ st = [q \in Procs |-> st[q]]
  BY DEF StateOK, Goto
<1>2. st' = [q \in Procs |-> st'[q]] /\ \A q \in Procs : st'[q] = IF q = p THEN s ELSE st[q]
  BY <1>1
<1>3. Requests \cup {Runner} \subseteq Procs
  BY DEF Procs
<1>4. Holders' = {r \in Requests \cup {Runner} : st'[r] # Idle}
  BY DEF Holders
<1>5. Savers' = {q \in Procs : st'[q].at \in Saves}
  BY DEF Savers, Saves
<1>6. Savers = {q \in Procs : st[q].at \in Saves}
  BY DEF Savers, Saves
<1>7. Holders' = (Holders \ {p})
              \cup (IF p \in Requests \cup {Runner} /\ s # Idle THEN {p} ELSE {})
  BY <1>2, <1>3, <1>4 DEF Holders
<1> QED
  BY <1>2, <1>5, <1>6, <1>7

(* StateOK after such a step.                                              *)
LEMMA GotoState ==
  ASSUME StateOK, NEW p \in Procs, NEW s, Goto(p, s), LocalOK(s, now), PlaceOK(p, s.at),
         now' = now, benchActive' \in BOOLEAN, closing' \in BOOLEAN, atRisk' \in BOOLEAN,
         JobsOK(jobs', now), FileOK(path', now), FileOK(tmp', now),
         acked' \subseteq DOMAIN jobs', ended' \subseteq acked'
  PROVE  StateOK'
<1>1. /\ st' = [q \in Procs |-> st'[q]]
      /\ \A q \in Procs : st'[q] = IF q = p THEN s ELSE st[q]
  BY AfterGoto
<1>2. \A q \in Procs : LocalOK(st'[q], now) /\ PlaceOK(q, st'[q].at)
  BY <1>1 DEF StateOK
<1>3. now' \in 0 .. MaxTime
  BY DEF StateOK
<1> QED
  BY <1>1, <1>2, <1>3 DEF StateOK

(* A step that leaves the jobs, the files and who is saving alone.         *)
LEMMA SaveSame ==
  ASSUME SaveInv, UNCHANGED <<jobs, path, tmp, acked, ended, atRisk>>,
         \A q \in Procs : \/ st'[q] = st[q]
                           \/ /\ st[q].at \notin Saves \cup {"prune"}
                              /\ st'[q].at \notin Saves \cup {"prune"}
  PROVE  SaveInv'
<1>1. Savers' = Savers /\ \A q \in Savers : st'[q] = st[q]
  BY DEF Savers, Saves
<1>2. Survive(path)' <=> Survive(path)
  BY DEF Survive
<1>3. \A js : Carries(js) => Carries(js)'
  <2>1. \A js : Survive(Full(js))' <=> Survive(Full(js))
    BY DEF Survive, Full
  <2>2. \A r \in Requests : st[r].at = "prune" => st'[r].at = "prune"
    BY DEF Procs
  <2> QED
    BY <2>1, <2>2 DEF Carries
<1>4. CASE atRisk
  BY <1>4 DEF SaveInv
<1>5. CASE ~atRisk
  BY <1>1, <1>2, <1>3, <1>5 DEF SaveInv
<1> QED
  BY <1>4, <1>5

(* A save begins.                                                          *)
LEMMA SaveStarts ==
  ASSUME StateOK, SaveInv, NEW p \in Procs, NEW id, Saving(p, id), Meets, UNCHANGED files,
         acked' \subseteq acked, ended' \subseteq ended
  PROVE  SaveInv'
<1> SUFFICES ASSUME ~atRisk' PROVE (SaveInv!2)'
  BY DEF SaveInv
<1>1. ~atRisk /\ Savers = {}
  BY DEF Meets, StateOK
<1>2. PICK s : s = [at |-> "marshal", id |-> id]
  OBVIOUS
<1>3. s.at = "marshal" /\ Goto(p, s)
  BY <1>2 DEF Saving
<1>4. Savers' = {p} /\ st'[p] = s
  BY <1>1, <1>3, AfterGoto DEF Saves
<1>5. path' = path
  BY DEF files
<1>6. Survive(path)'
  BY <1>1, <1>5 DEF SaveInv, Survive
<1> QED
  BY <1>3, <1>4, <1>6

(* The request takes the slot, if it is free.                              *)
LEMMA PostKeeps ==
  ASSUME JobsInv, NEW r \in Requests, NEW id \in Ids, Post(r, id)
  PROVE  JobsInv'
<1>1. StateOK /\ SlotInv /\ JobInv /\ SaveInv /\ r \in Procs
  BY DEF JobsInv, Procs
<1>2. UNCHANGED <<now, jobs, path, tmp, closing, acked, ended, atRisk>>
  BY DEF Post, files, history
<1>3. CASE UNCHANGED <<benchActive, st>>
  <2>1. StateOK'
    BY <1>1, <1>2, <1>3 DEF StateOK
  <2>2. Holders' = Holders
    BY <1>3 DEF Holders
  <2>3. SlotInv' /\ JobInv'
    BY <1>1, <1>2, <1>3, <2>2 DEF SlotInv, JobInv
  <2>4. SaveInv'
    BY <1>1, <1>2, <1>3, SaveSame
  <2> QED
    BY <2>1, <2>3, <2>4 DEF JobsInv
<1>4. CASE ~benchActive /\ benchActive' = TRUE /\ Goto(r, [at |-> "validate"])
  <2>1. PICK s : s = [at |-> "validate"]
    OBVIOUS
  <2>2. s.at = "validate" /\ s # Idle /\ Goto(r, s)
    BY <1>4, <2>1 DEF Idle
  <2>3. LocalOK(s, now) /\ PlaceOK(r, s.at)
    BY <2>1, <2>2 DEF LocalOK, PlaceOK
  <2>4. StateOK'
    <3>1. benchActive' \in BOOLEAN
      BY <1>4
    <3>2. /\ closing' \in BOOLEAN /\ atRisk' \in BOOLEAN /\ now' = now
          /\ JobsOK(jobs', now) /\ FileOK(path', now) /\ FileOK(tmp', now)
          /\ acked' \subseteq DOMAIN jobs' /\ ended' \subseteq acked'
      BY <1>1, <1>2 DEF StateOK
    <3> QED
      BY <1>1, <2>2, <2>3, <3>1, <3>2, GotoState
  <2>5. Holders = {}
    BY <1>1, <1>4 DEF SlotInv
  <2>6. /\ Holders' = {r} /\ Savers' = Savers \ {r}
        /\ \A q \in Procs : st'[q] = IF q = r THEN s ELSE st[q]
    BY <1>1, <2>2, <2>5, AfterGoto DEF Saves
  <2>7. SlotInv'
    BY <1>4, <2>6 DEF SlotInv
  <2>8. JobInv'
    <3>1. r # Runner /\ Runner \in Procs
      BY JobConstants DEF Procs
    <3> QED
      BY <1>1, <1>2, <2>2, <2>6, <3>1 DEF JobInv
  <2>9. SaveInv'
    <3>1. st[r] = Idle /\ Idle.at \notin Saves
      BY DEF Post, Idle, Saves
    <3>2. \A q \in Procs : \/ st'[q] = st[q]
                            \/ /\ st[q].at \notin Saves \cup {"prune"}
                               /\ st'[q].at \notin Saves \cup {"prune"}
      BY <2>2, <2>6, <3>1 DEF Saves, Idle
    <3> QED
      BY <1>1, <1>2, <3>2, SaveSame
  <2> QED
    BY <2>4, <2>7, <2>8, <2>9 DEF JobsInv
<1> QED
  BY <1>3, <1>4 DEF Post

(* A request that is in the middle of something has the slot.              *)
LEMMA RequestHolds ==
  ASSUME StateOK, SlotInv, NEW h \in Requests \cup {Runner}, st[h].at # "idle"
  PROVE  Holders = {h} /\ benchActive = TRUE
<1>1. h \in Holders
  BY DEF Holders, Idle
<1> QED
  BY <1>1 DEF SlotInv, StateOK

(* An early return gives the slot back.                                    *)
LEMMA RefuseKeeps ==
  ASSUME JobsInv, NEW r \in Requests, Refuse(r)
  PROVE  JobsInv'
<1>1. StateOK /\ SlotInv /\ JobInv /\ SaveInv /\ r \in Procs
  BY DEF JobsInv, Procs
<1>2. UNCHANGED <<now, jobs, path, tmp, closing, acked, ended, atRisk>>
      /\ st[r].at = "validate" /\ benchActive' = FALSE /\ Goto(r, Idle)
  BY DEF Refuse, files, history
<1>3. LocalOK(Idle, now) /\ PlaceOK(r, Idle.at) /\ Idle.at = "idle"
  BY DEF LocalOK, PlaceOK, Idle
<1>4. StateOK'
  <2>1. /\ closing' \in BOOLEAN /\ atRisk' \in BOOLEAN /\ now' = now
        /\ JobsOK(jobs', now) /\ FileOK(path', now) /\ FileOK(tmp', now)
        /\ acked' \subseteq DOMAIN jobs' /\ ended' \subseteq acked'
    BY <1>1, <1>2 DEF StateOK
  <2>2. benchActive' \in BOOLEAN
    BY <1>2
  <2> QED
    BY <1>1, <1>2, <1>3, <2>1, <2>2, GotoState
<1>5. Holders = {r}
  BY <1>1, <1>2, RequestHolds
<1>6. Holders' = {} /\ \A q \in Procs : st'[q] = IF q = r THEN Idle ELSE st[q]
  BY <1>1, <1>2, <1>5, AfterGoto
<1>7. SlotInv'
  BY <1>2, <1>6 DEF SlotInv
<1>8. JobInv'
  <2>1. r # Runner /\ Runner \in Procs
    BY JobConstants DEF Procs
  <2> QED
    BY <1>1, <1>2, <1>6, <2>1 DEF JobInv
<1>9. SaveInv'
  <2>1. \A q \in Procs : \/ st'[q] = st[q]
                          \/ /\ st[q].at \notin Saves \cup {"prune"}
                             /\ st'[q].at \notin Saves \cup {"prune"}
    BY <1>2, <1>3, <1>6 DEF Saves
  <2> QED
    BY <1>1, <1>2, <2>1, SaveSame
<1> QED
  BY <1>4, <1>7, <1>8, <1>9 DEF JobsInv

(* The job is in the map before it is saved, and before its goroutine.     *)
LEMMA StoreJobKeeps ==
  ASSUME JobsInv, NEW r \in Requests, StoreJob(r)
  PROVE  JobsInv'
<1>1. StateOK /\ SlotInv /\ JobInv /\ SaveInv /\ r \in Procs /\ r # Runner
  BY JobConstants DEF JobsInv, Procs
<1>2. PICK s : s = [at |-> "prune", id |-> now]
  OBVIOUS
<1>3. /\ jobs' = Update(jobs, now, "running") /\ Goto(r, s)
      /\ acked' = acked \ {now} /\ ended' = ended \ {now}
      /\ st[r].at = "validate"
      /\ UNCHANGED <<now, benchActive, closing, atRisk, path, tmp>>
  BY <1>2 DEF StoreJob, files
<1>4. s.at = "prune" /\ s.id = now /\ s # Idle
  BY <1>2 DEF Idle
<1>5. /\ DOMAIN jobs' = DOMAIN jobs \cup {now}
      /\ \A x \in DOMAIN jobs' : jobs'[x] = IF x = now THEN "running" ELSE jobs[x]
      /\ jobs' = [x \in DOMAIN jobs' |-> jobs'[x]]
  BY <1>3 DEF Update
<1>6. JobsOK(jobs', now)
  <2>1. now \in 0 .. MaxTime /\ now \in 0 .. now /\ JobsOK(jobs, now)
    BY <1>1, LimiterConstants DEF StateOK
  <2>2. DOMAIN jobs' \subseteq 0 .. now /\ DOMAIN jobs' \subseteq 0 .. MaxTime
    BY <1>5, <2>1 DEF JobsOK, IsJobs
  <2>3. jobs' \in [DOMAIN jobs' -> {"running", "over"}]
    BY <1>5, <2>1 DEF JobsOK, IsJobs
  <2> QED
    BY <2>2, <2>3 DEF JobsOK, IsJobs
<1>7. acked' \subseteq DOMAIN jobs' /\ ended' \subseteq acked'
  BY <1>1, <1>3, <1>5 DEF StateOK
<1>8. StateOK'
  <2>1. LocalOK(s, now) /\ PlaceOK(r, s.at)
    BY <1>2, <1>4 DEF LocalOK, PlaceOK
  <2>2. /\ closing' \in BOOLEAN /\ benchActive' \in BOOLEAN /\ atRisk' \in BOOLEAN
        /\ now' = now /\ FileOK(path', now) /\ FileOK(tmp', now)
    BY <1>1, <1>3 DEF StateOK
  <2> QED
    BY <1>1, <1>3, <1>6, <1>7, <2>1, <2>2, GotoState
<1>9. Holders = {r} /\ benchActive = TRUE
  BY <1>1, <1>3, RequestHolds
<1>10. /\ Holders' = {r} /\ Savers' = Savers \ {r}
       /\ \A q \in Procs : st'[q] = IF q = r THEN s ELSE st[q]
  BY <1>1, <1>3, <1>4, <1>9, AfterGoto DEF Saves
<1>11. SlotInv'
  BY <1>3, <1>9, <1>10 DEF SlotInv
<1>12. st'[Runner] = st[Runner] /\ st[Runner].at \notin Saves
  <2>1. Runner \notin Holders /\ Runner \in Procs
    BY <1>1, <1>9 DEF Procs
  <2>2. st[Runner] = Idle
    BY <2>1 DEF Holders
  <2> QED
    BY <1>1, <1>10, <2>1, <2>2 DEF Idle, Saves
<1>13. JobInv'
  <2>1. \A id \in ended' : jobs'[id] = "over"
    BY <1>1, <1>3, <1>5 DEF JobInv, StateOK
  <2> QED
    BY <1>1, <1>3, <1>4, <1>5, <1>10, <1>12, <2>1 DEF JobInv
<1>14. SaveInv'
  <2> SUFFICES ASSUME ~atRisk' PROVE (SaveInv!2)'
    BY DEF SaveInv
  <2>1. ~atRisk /\ Savers' = Savers /\ \A q \in Savers : st'[q] = st[q]
    BY <1>3, <1>10 DEF Savers, Saves
  <2>2. ASSUME NEW js, Carries(js) PROVE Carries(js)'
    <3>1. js = jobs
      <4>1. \A q \in Requests : st[q].at # "prune"
        BY <1>1, <1>3, <1>9 DEF Holders, Idle
      <4> QED
        BY <2>2, <4>1 DEF Carries
    <3>2. Full(js).is = "full" /\ Full(js).jobs = jobs
      BY <3>1 DEF Full
    <3>3. Survive(Full(js))'
      BY <1>1, <1>3, <3>2 DEF Survive, StateOK, JobInv
    <3>4. st'[r].at = "prune"
      BY <1>1, <1>4, <1>10
    <3> QED
      BY <3>3, <3>4 DEF Carries
  <2>3. Survive(path)'
    BY <1>1, <1>3, <2>1 DEF SaveInv, Survive
  <2> QED
    BY <1>1, <1>3, <2>1, <2>2, <2>3 DEF SaveInv
<1> QED
  BY <1>8, <1>11, <1>13, <1>14 DEF JobsInv

(* At most one job is forgotten, and not the new one.                      *)
LEMMA PruneJobsKeeps ==
  ASSUME JobsInv, NEW r \in Requests, PruneJobs(r)
  PROVE  JobsInv'
<1>1. StateOK /\ SlotInv /\ JobInv /\ SaveInv /\ r \in Procs /\ r # Runner
  BY JobConstants DEF JobsInv, Procs
<1>2. PICK id, old : id = st[r].id /\ old = Prune(jobs, id)
  OBVIOUS
<1>3. /\ jobs' = [x \in DOMAIN jobs \ old |-> jobs[x]] /\ Saving(r, id)
      /\ acked' = acked \ old /\ ended' = ended \ old
      /\ st[r].at = "prune" /\ Meets
      /\ UNCHANGED <<now, benchActive, closing, files>>
  <2>1. {x \in DOMAIN jobs : x \notin old} = DOMAIN jobs \ old
    OBVIOUS
  <2>2. jobs' = Keep(jobs, LAMBDA x : x \notin old)
    BY <1>2 DEF PruneJobs
  <2>3. jobs' = [x \in DOMAIN jobs \ old |-> jobs[x]]
    BY <2>1, <2>2 DEF Keep
  <2> QED
    BY <1>2, <2>3 DEF PruneJobs
<1>4. UNCHANGED <<path, tmp>>
  BY <1>3 DEF files
<1>5. Holders = {r} /\ benchActive = TRUE
  BY <1>1, <1>3, RequestHolds
<1>6. id \in DOMAIN jobs' /\ \A x \in DOMAIN jobs' : x \in DOMAIN jobs /\ jobs'[x] = jobs[x]
  <2>1. id \in DOMAIN jobs
    BY <1>1, <1>2, <1>3, <1>5 DEF JobInv
  <2>2. id \notin old
    BY <1>2 DEF Prune
  <2> QED
    BY <1>3, <2>1, <2>2
<1>7. JobsOK(jobs', now)
  <2>1. jobs' \in [DOMAIN jobs' -> {"running", "over"}]
    BY <1>1, <1>3, <1>6 DEF StateOK, JobsOK, IsJobs
  <2> QED
    BY <1>1, <1>6, <2>1 DEF StateOK, JobsOK, IsJobs
<1>8. acked' \subseteq DOMAIN jobs' /\ ended' \subseteq acked'
  BY <1>1, <1>3 DEF StateOK
<1>9. PICK s : s = [at |-> "marshal", id |-> id]
  OBVIOUS
<1>10. s.at = "marshal" /\ s.id = id /\ s # Idle /\ Goto(r, s)
  BY <1>3, <1>9 DEF Idle, Saving
<1>11. StateOK'
  <2>1. LocalOK(s, now) /\ PlaceOK(r, s.at)
    BY <1>9, <1>10 DEF LocalOK, PlaceOK, Saves
  <2>2. /\ closing' \in BOOLEAN /\ benchActive' \in BOOLEAN /\ now' = now
        /\ FileOK(path', now) /\ FileOK(tmp', now)
    BY <1>1, <1>3, <1>4 DEF StateOK
  <2>3. atRisk' \in BOOLEAN
    BY <1>3 DEF Meets
  <2> QED
    BY <1>1, <1>7, <1>8, <1>10, <2>1, <2>2, <2>3, GotoState
<1>12. Holders' = {r} /\ \A q \in Procs : st'[q] = IF q = r THEN s ELSE st[q]
  BY <1>1, <1>5, <1>10, AfterGoto
<1>13. SlotInv'
  BY <1>3, <1>5, <1>12 DEF SlotInv
<1>14. JobInv'
  <2>1. st'[Runner] = st[Runner] /\ st[Runner].at \notin Saves
    <3>1. Runner \notin Holders /\ Runner \in Procs
      BY <1>1, <1>5 DEF Procs
    <3>2. st[Runner] = Idle
      BY <3>1 DEF Holders
    <3> QED
      BY <1>1, <1>12, <3>1, <3>2 DEF Idle, Saves
  <2>2. \A x \in ended' : jobs'[x] = "over"
    BY <1>1, <1>3, <1>6, <1>8 DEF JobInv
  <2> QED
    BY <1>1, <1>6, <1>10, <1>12, <2>1, <2>2 DEF JobInv
<1>15. SaveInv'
  <2>1. acked' \subseteq acked /\ ended' \subseteq ended
    BY <1>3
  <2> QED
    BY <1>1, <1>3, <2>1, SaveStarts
<1> QED
  BY <1>11, <1>13, <1>14, <1>15 DEF JobsInv

(* The goroutine's job is over, and is saved.                              *)
LEMMA RunEndsKeeps ==
  ASSUME JobsInv, RunEnds
  PROVE  JobsInv'
<1>1. StateOK /\ SlotInv /\ JobInv /\ SaveInv /\ Runner \in Procs
  BY DEF JobsInv, Procs
<1>2. PICK id : id = st[Runner].id
  OBVIOUS
<1>3. /\ st[Runner].at = "run" /\ Saving(Runner, id) /\ Meets
      /\ UNCHANGED <<now, benchActive, files, closing, acked, ended>>
  BY <1>2 DEF RunEnds
<1>4. Holders = {Runner} /\ benchActive = TRUE
  BY <1>1, <1>3, RequestHolds
<1>5. id \in DOMAIN jobs
  BY <1>1, <1>2, <1>3, <1>4 DEF JobInv
<1>6. jobs' = [jobs EXCEPT ![id] = "over"]
  BY <1>2, <1>5 DEF RunEnds
<1>7. jobs \in [DOMAIN jobs -> {"running", "over"}]
  BY <1>1 DEF StateOK, JobsOK, IsJobs
<1>8. /\ DOMAIN jobs' = DOMAIN jobs /\ jobs'[id] = "over"
      /\ \A x \in DOMAIN jobs : jobs'[x] \in {jobs[x], "over"}
  BY <1>5, <1>6, <1>7
<1>9. JobsOK(jobs', now)
  <2>1. jobs' \in [DOMAIN jobs -> {"running", "over"}]
    BY <1>6, <1>7
  <2> QED
    BY <1>1, <1>8, <2>1 DEF StateOK, JobsOK, IsJobs
<1>10. PICK s : s = [at |-> "marshal", id |-> id]
  OBVIOUS
<1>11. s.at = "marshal" /\ s.id = id /\ s # Idle /\ Goto(Runner, s)
  BY <1>3, <1>10 DEF Idle, Saving
<1>12. StateOK'
  <2>1. LocalOK(s, now) /\ PlaceOK(Runner, s.at)
    BY <1>10, <1>11 DEF LocalOK, PlaceOK, Saves
  <2>2. /\ closing' \in BOOLEAN /\ benchActive' \in BOOLEAN /\ now' = now
        /\ FileOK(path', now) /\ FileOK(tmp', now)
        /\ acked' \subseteq DOMAIN jobs' /\ ended' \subseteq acked'
    BY <1>1, <1>3, <1>8 DEF StateOK, files
  <2>3. atRisk' \in BOOLEAN
    BY <1>3 DEF Meets
  <2> QED
    BY <1>1, <1>9, <1>11, <2>1, <2>2, <2>3, GotoState
<1>13. Holders' = {Runner} /\ st'[Runner] = s
  BY <1>1, <1>4, <1>11, AfterGoto
<1>14. SlotInv'
  BY <1>3, <1>4, <1>13 DEF SlotInv
<1>15. JobInv'
  <2>1. \A x \in ended : x \in DOMAIN jobs /\ jobs[x] = "over"
    BY <1>1 DEF StateOK, JobInv
  <2> QED
    BY <1>3, <1>5, <1>8, <1>11, <1>13, <2>1 DEF JobInv
<1>16. SaveInv'
  <2>1. acked' \subseteq acked /\ ended' \subseteq ended
    BY <1>3
  <2> QED
    BY <1>1, <1>3, <2>1, SaveStarts
<1> QED
  BY <1>12, <1>14, <1>15, <1>16 DEF JobsInv

(* Shutdown saves beside whoever is saving.                                *)
LEMMA ShutdownKeeps ==
  ASSUME JobsInv, Shutdown
  PROVE  JobsInv'
<1>1. StateOK /\ SlotInv /\ JobInv /\ SaveInv /\ Closer \in Procs
      /\ Closer \notin Requests \cup {Runner}
  BY JobConstants DEF JobsInv, Procs
<1>2. /\ Saving(Closer, 0) /\ Meets /\ closing' = TRUE
      /\ UNCHANGED <<now, benchActive, jobs, files, acked, ended>>
  BY DEF Shutdown
<1>3. PICK s : s = [at |-> "marshal", id |-> 0]
  OBVIOUS
<1>4. s.at = "marshal" /\ Goto(Closer, s)
  BY <1>2, <1>3 DEF Saving
<1>5. StateOK'
  <2>1. LocalOK(s, now) /\ PlaceOK(Closer, s.at)
    BY <1>3, <1>4 DEF LocalOK, PlaceOK, Saves
  <2>2. /\ closing' \in BOOLEAN /\ benchActive' \in BOOLEAN /\ now' = now
        /\ JobsOK(jobs', now) /\ FileOK(path', now) /\ FileOK(tmp', now)
        /\ acked' \subseteq DOMAIN jobs' /\ ended' \subseteq acked'
    BY <1>1, <1>2 DEF StateOK, files
  <2>3. atRisk' \in BOOLEAN
    BY <1>2 DEF Meets
  <2> QED
    BY <1>1, <1>4, <2>1, <2>2, <2>3, GotoState
<1>6. /\ Holders' = Holders
      /\ \A q \in Requests \cup {Runner} : st'[q] = st[q]
  <2>1. Closer \notin Holders
    BY <1>1 DEF Holders
  <2> QED
    BY <1>1, <1>4, <2>1, AfterGoto DEF Procs
<1>7. SlotInv' /\ JobInv'
  <2>1. Holders \subseteq Requests \cup {Runner}
    BY DEF Holders
  <2> QED
    BY <1>1, <1>2, <1>6, <2>1 DEF SlotInv, JobInv
<1>8. SaveInv'
  <2>1. acked' \subseteq acked /\ ended' \subseteq ended
    BY <1>2
  <2> QED
    BY <1>1, <1>2, <2>1, SaveStarts
<1> QED
  BY <1>5, <1>7, <1>8 DEF JobsInv

(* A step inside a save: the process keeps its job, and stays in its save. *)
LEMMA SaveStep ==
  ASSUME JobsInv, NEW p \in Procs, st[p].at \in Saves,
         NEW s, Goto(p, s), s.at \in Saves, s.id = st[p].id, LocalOK(s, now),
         UNCHANGED <<now, benchActive, jobs, closing, acked, ended, atRisk>>,
         FileOK(path', now), FileOK(tmp', now)
  PROVE  /\ StateOK' /\ SlotInv' /\ JobInv'
         /\ p \in Savers /\ Savers' = Savers
         /\ \A q \in Procs : st'[q] = IF q = p THEN s ELSE st[q]
         /\ \A js : Carries(js) => Carries(js)'
<1>1. StateOK /\ SlotInv /\ JobInv
  BY DEF JobsInv
<1>2. s # Idle /\ st[p] # Idle
  BY DEF Idle, Saves
<1>3. StateOK'
  <2>1. /\ closing' \in BOOLEAN /\ benchActive' \in BOOLEAN /\ atRisk' \in BOOLEAN /\ now' = now
        /\ JobsOK(jobs', now) /\ acked' \subseteq DOMAIN jobs' /\ ended' \subseteq acked'
    BY <1>1 DEF StateOK
  <2>2. PlaceOK(p, s.at)
    BY DEF PlaceOK
  <2> QED
    BY <1>1, <2>1, <2>2, GotoState
<1>4. p \in Savers
  BY DEF Savers, Saves
<1>5. \A q \in Procs : st'[q] = IF q = p THEN s ELSE st[q]
  BY <1>1, AfterGoto
<1>6. Savers' = Savers
  BY <1>1, <1>4, AfterGoto
<1>7. Holders' = Holders
  BY <1>2, <1>5 DEF Holders, Procs
<1>8. SlotInv'
  BY <1>1, <1>7 DEF SlotInv
<1>9. JobInv'
  <2>1. Holders \subseteq Procs /\ Runner \in Procs /\ (p \in Holders \/ p = Closer)
    BY <1>2 DEF Holders, Procs
  <2>2. s.at # "validate" /\ st[p].at # "validate"
    BY DEF Saves
  <2>3. \A h \in Holders : st'[h].at # "validate" => st'[h].id \in DOMAIN jobs
    BY <1>1, <1>5, <2>1, <2>2 DEF JobInv
  <2>4. st'[Runner].at \in Saves => jobs[st'[Runner].id] = "over"
    BY <1>1, <1>5, <2>1 DEF JobInv
  <2> QED
    BY <1>1, <1>7, <2>3, <2>4 DEF JobInv
<1>10. \A js : Carries(js) => Carries(js)'
  <2>1. \A js : Survive(Full(js))' <=> Survive(Full(js))
    BY DEF Survive, Full
  <2>2. \A r \in Requests : st[r].at = "prune" => st'[r].at = "prune"
    BY <1>5 DEF Procs, Saves
  <2> QED
    BY <2>1, <2>2 DEF Carries
<1> QED
  BY <1>3, <1>4, <1>5, <1>6, <1>8, <1>9, <1>10

(* The jobs are read,                                                      *)
LEMMA MarshalKeeps ==
  ASSUME JobsInv, NEW p \in Procs, SaveMarshal(p)
  PROVE  JobsInv'
<1>1. PICK s : s = [at |-> "open", data |-> jobs, id |-> st[p].id]
  OBVIOUS
<1>2. /\ st[p].at = "marshal" /\ Goto(p, s)
      /\ s.at = "open" /\ s.id = st[p].id /\ s.data = jobs
  BY <1>1 DEF SaveMarshal
<1>3. UNCHANGED <<now, benchActive, jobs, path, tmp, closing, acked, ended, atRisk>>
  BY DEF SaveMarshal, files, history
<1>4. StateOK /\ SaveInv
  BY DEF JobsInv
<1>5. LocalOK(s, now) /\ FileOK(path', now) /\ FileOK(tmp', now)
  BY <1>1, <1>2, <1>3, <1>4 DEF StateOK, LocalOK
<1>6. /\ StateOK' /\ SlotInv' /\ JobInv'
      /\ p \in Savers /\ Savers' = Savers
      /\ \A q \in Procs : st'[q] = IF q = p THEN s ELSE st[q]
      /\ \A js : Carries(js) => Carries(js)'
  BY <1>2, <1>3, <1>5, SaveStep DEF Saves
<1>7. SaveInv'
  <2> SUFFICES ASSUME ~atRisk' PROVE (SaveInv!2)'
    BY DEF SaveInv
  <2>1. Savers' = {p} /\ Survive(path)
    BY <1>3, <1>4, <1>6 DEF SaveInv
  <2>2. Survive(path)'
    BY <1>3, <2>1 DEF Survive
  <2>3. Carries(s.data)'
    BY <1>2, <1>6 DEF Carries
  <2> QED
    BY <1>2, <1>3, <1>6, <2>1, <2>2, <2>3
<1> QED
  BY <1>6, <1>7 DEF JobsInv

(* path.tmp is emptied,                                                    *)
LEMMA OpenKeeps ==
  ASSUME JobsInv, NEW p \in Procs, SaveOpen(p)
  PROVE  JobsInv'
<1>1. PICK s : s = [at |-> "write", data |-> st[p].data, id |-> st[p].id, file |-> "tmp"]
  OBVIOUS
<1>2. /\ st[p].at = "open" /\ Goto(p, s) /\ tmp' = Cut
      /\ s.at = "write" /\ s.id = st[p].id /\ s.data = st[p].data /\ s.file = "tmp"
  BY <1>1 DEF SaveOpen
<1>3. UNCHANGED <<now, benchActive, jobs, path, closing, acked, ended, atRisk>>
  BY DEF SaveOpen, history
<1>4. StateOK /\ SaveInv
  BY DEF JobsInv
<1>5. LocalOK(s, now) /\ FileOK(path', now) /\ FileOK(tmp', now)
  <2>1. JobsOK(st[p].data, now)
    BY <1>2, <1>4, LocalByPlace DEF StateOK
  <2>2. LocalOK(s, now)
    BY <1>1, <1>2, <2>1 DEF LocalOK
  <2> QED
    BY <1>2, <1>3, <1>4, <2>2 DEF StateOK, FileOK
<1>6. /\ StateOK' /\ SlotInv' /\ JobInv'
      /\ p \in Savers /\ Savers' = Savers
      /\ \A q \in Procs : st'[q] = IF q = p THEN s ELSE st[q]
      /\ \A js : Carries(js) => Carries(js)'
  BY <1>2, <1>3, <1>5, SaveStep DEF Saves
<1>7. SaveInv'
  <2> SUFFICES ASSUME ~atRisk' PROVE (SaveInv!2)'
    BY DEF SaveInv
  <2>1. Savers' = {p} /\ Survive(path) /\ Carries(st[p].data)
    BY <1>2, <1>3, <1>4, <1>6 DEF SaveInv
  <2>2. Survive(path)'
    BY <1>3, <2>1 DEF Survive
  <2>3. Carries(s.data)'
    BY <1>2, <1>6, <2>1
  <2> QED
    BY <1>2, <1>3, <1>6, <2>1, <2>2, <2>3
<1> QED
  BY <1>6, <1>7 DEF JobsInv

(* and the data is written: to a file that is well-formed, or cut short.   *)
LEMMA WriteKeeps ==
  ASSUME JobsInv, NEW p \in Procs, SaveWrite(p)
  PROVE  JobsInv'
<1>1. PICK s : s = [at |-> "rename", id |-> st[p].id]
  OBVIOUS
<1>2. /\ st[p].at = "write" /\ Goto(p, s) /\ s.at = "rename" /\ s.id = st[p].id
  BY <1>1 DEF SaveWrite
<1>3. UNCHANGED <<now, benchActive, jobs, closing, acked, ended, atRisk>>
  BY DEF SaveWrite, history
<1>4. StateOK /\ SaveInv
  BY DEF JobsInv
<1>5. LocalOK(s, now)
  BY <1>1, <1>2 DEF LocalOK
<1>6. FileOK(path', now) /\ FileOK(tmp', now)
  <2>1. JobsOK(st[p].data, now)
    BY <1>2, <1>4, LocalByPlace DEF StateOK
  <2>2. PICK f : f = Full(st[p].data)
    OBVIOUS
  <2>3. f.jobs = st[p].data
    BY <2>2 DEF Full
  <2>4. FileOK(f, now) /\ FileOK(Cut, now)
    BY <2>1, <2>2, <2>3 DEF FileOK
  <2>5. \A old : Written(old, st[p].data) \subseteq {f, Cut}
    BY <2>2 DEF Written
  <2>6. path' \in {path, f, Cut} /\ tmp' \in {tmp, f, Cut}
    BY <2>5 DEF SaveWrite
  <2> QED
    BY <1>4, <2>4, <2>6 DEF StateOK
<1>7. /\ StateOK' /\ SlotInv' /\ JobInv'
      /\ p \in Savers /\ Savers' = Savers
      /\ \A q \in Procs : st'[q] = IF q = p THEN s ELSE st[q]
      /\ \A js : Carries(js) => Carries(js)'
  BY <1>2, <1>3, <1>5, <1>6, SaveStep DEF Saves
<1>8. SaveInv'
  <2> SUFFICES ASSUME ~atRisk' PROVE (SaveInv!2)'
    BY DEF SaveInv
  <2>1. /\ Savers' = {p} /\ Survive(path)
        /\ Carries(st[p].data) /\ st[p].file = "tmp" /\ tmp = Cut
    BY <1>2, <1>3, <1>4, <1>7 DEF SaveInv
  <2>2. tmp' = Full(st[p].data) /\ path' = path
    BY <2>1 DEF SaveWrite, Written
  <2>3. Survive(path)'
    BY <1>3, <2>1, <2>2 DEF Survive
  <2>4. \E js : tmp' = Full(js) /\ Carries(js)'
    BY <1>7, <2>1, <2>2
  <2> QED
    BY <1>2, <1>3, <1>7, <2>1, <2>2, <2>3, <2>4
<1> QED
  BY <1>7, <1>8 DEF JobsInv

(* A process whose file is renamed under it stays where it was.            *)
LEMMA FileMoves ==
  ASSUME NEW t, NEW s, LocalOK(s, t), s.at = "write",
         NEW n, n = [s EXCEPT !.file = "path"]
  PROVE  LocalOK(n, t) /\ n.at = s.at /\ n.id = s.id /\ n # Idle /\ s # Idle
<1>1. JobsOK(s.data, t)
      /\ s = [at |-> "write", data |-> s.data, id |-> s.id, file |-> s.file]
  BY LocalByPlace
<1>2. n = [at |-> "write", data |-> s.data, id |-> s.id, file |-> "path"]
  BY <1>1
<1>3. n.at = "write" /\ n.data = s.data /\ n.id = s.id /\ n.file = "path"
  BY <1>2
<1>4. LocalOK(n, t)
  BY <1>1, <1>2, <1>3 DEF LocalOK
<1> QED
  BY <1>3, <1>4 DEF Idle

(* What follows a save: from the request the goroutine gets the slot, and  *)
(* after the goroutine nobody has it.                                      *)
LEMMA AfterSave ==
  ASSUME JobsInv, NEW p \in Procs, st[p].at \in Saves, NEW moved \in BOOLEAN, Saved(p, moved),
         FileOK(path', now), FileOK(tmp', now), atRisk' \in BOOLEAN
  PROVE  /\ StateOK' /\ SlotInv' /\ JobInv'
         /\ p \in Savers /\ (Savers = {p} => Savers' = {})
         /\ acked' \subseteq DOMAIN jobs /\ \A id \in ended' : jobs[id] = "over"
<1>1. StateOK /\ SlotInv /\ JobInv
      /\ Runner \notin Requests /\ Closer \notin Requests \cup {Runner}
      /\ Requests \cup {Runner} \subseteq Procs
  BY JobConstants DEF JobsInv, Procs
<1>2. PICK down, run : down = [at |-> "down"] /\ run = [at |-> "run", id |-> st[p].id]
  OBVIOUS
<1>3. /\ down.at = "down" /\ run.at = "run" /\ run.id = st[p].id /\ Idle.at = "idle"
      /\ down # Idle /\ run # Idle
  BY <1>2 DEF Idle
<1>4. LocalOK(down, now) /\ LocalOK(run, now) /\ LocalOK(Idle, now)
  BY <1>2, <1>3 DEF LocalOK
<1>5. /\ st' = [q \in Procs |-> st'[q]]
      /\ st'[p] = IF p = Closer THEN down ELSE Idle
      /\ p \in Requests => st'[Runner] = run
  BY <1>1, <1>2 DEF Saved
<1>6. ASSUME NEW q \in Procs, q # p, ~(q = Runner /\ p \in Requests)
      PROVE  /\ LocalOK(st'[q], now) /\ st'[q].at = st[q].at
             /\ st'[q] = st[q] \/ st'[q].id = st[q].id
             /\ st'[q] = Idle <=> st[q] = Idle
  <2>1. CASE moved /\ st[q].at = "write"
    <3>1. PICK n : n = [st[q] EXCEPT !.file = "path"]
      OBVIOUS
    <3>2. st'[q] = n
      BY <1>6, <2>1, <3>1 DEF Saved
    <3>3. LocalOK(st[q], now)
      BY <1>1 DEF StateOK
    <3> QED
      BY <2>1, <3>1, <3>2, <3>3, FileMoves
  <2>2. CASE ~(moved /\ st[q].at = "write")
    <3>1. st'[q] = st[q]
      BY <1>6, <2>2 DEF Saved
    <3> QED
      BY <1>1, <3>1 DEF StateOK
  <2> QED
    BY <2>1, <2>2
<1>7. UNCHANGED <<now, jobs, closing>>
  BY DEF Saved
<1>8. p \in Requests \cup {Runner} =>
        Holders = {p} /\ benchActive = TRUE /\ st[p].id \in DOMAIN jobs
  <2> HAVE p \in Requests \cup {Runner}
  <2>1. st[p].at # "idle" /\ st[p].at # "validate"
    BY DEF Saves
  <2>2. Holders = {p} /\ benchActive = TRUE
    BY <1>1, <2>1, RequestHolds
  <2> QED
    BY <1>1, <2>1, <2>2 DEF JobInv
<1>9. acked' \subseteq DOMAIN jobs /\ ended' \subseteq acked'
  BY <1>1, <1>8 DEF Saved, StateOK
<1>10. \A id \in ended' : jobs[id] = "over"
  <2>1. p = Runner => jobs[st[p].id] = "over"
    BY <1>1 DEF JobInv
  <2> QED
    BY <1>1, <2>1 DEF Saved, JobInv
<1>11. \A q \in Procs : LocalOK(st'[q], now) /\ PlaceOK(q, st'[q].at)
  BY <1>1, <1>3, <1>4, <1>5, <1>6 DEF StateOK, PlaceOK
<1>12. StateOK'
  <2>1. benchActive' \in BOOLEAN
    BY <1>1 DEF Saved, StateOK
  <2> QED
    BY <1>1, <1>5, <1>7, <1>9, <1>11, <2>1 DEF StateOK
<1>13. p \in Savers
  BY DEF Savers, Saves
<1>14. Savers = {p} => Savers' = {}
  <2> HAVE Savers = {p}
  <2>1. \A q \in Procs : q # p => st[q].at \notin Saves
    BY DEF Savers, Saves
  <2>2. \A q \in Procs : st'[q].at \notin Saves
    BY <1>3, <1>5, <1>6, <2>1 DEF Saves
  <2> QED
    BY <2>2 DEF Savers, Saves
<1>15. CASE p \in Requests
  <2>1. Holders' = {Runner} /\ st'[Runner] = run
    <3>1. \A q \in Requests \cup {Runner} : q # p => st[q] = Idle
      BY <1>8, <1>15 DEF Holders
    <3>2. \A q \in Requests : st'[q] = Idle
      BY <1>1, <1>5, <1>6, <1>15, <3>1
    <3> QED
      BY <1>1, <1>3, <1>5, <1>15, <3>2 DEF Holders
  <2>2. benchActive' = TRUE
    BY <1>1, <1>8, <1>15 DEF Saved
  <2>3. SlotInv'
    BY <2>1, <2>2 DEF SlotInv
  <2>4. JobInv'
    BY <1>3, <1>7, <1>8, <1>10, <1>15, <2>1 DEF JobInv, Saves
  <2> QED
    BY <1>9, <1>10, <1>12, <1>13, <1>14, <2>3, <2>4
<1>16. CASE p = Runner
  <2>1. Holders' = {} /\ st'[Runner] = Idle
    <3>1. \A q \in Requests : st[q] = Idle
      BY <1>1, <1>8, <1>16 DEF Holders
    <3>2. \A q \in Requests \cup {Runner} : st'[q] = Idle
      BY <1>1, <1>5, <1>6, <1>16, <3>1
    <3> QED
      BY <3>2 DEF Holders
  <2>2. benchActive' = FALSE
    BY <1>16 DEF Saved
  <2>3. SlotInv'
    BY <2>1, <2>2 DEF SlotInv
  <2>4. JobInv'
    BY <1>3, <1>7, <1>10, <2>1 DEF JobInv, Saves
  <2> QED
    BY <1>9, <1>10, <1>12, <1>13, <1>14, <2>3, <2>4
<1>17. CASE p = Closer
  <2>1. \A q \in Requests \cup {Runner} :
          /\ st'[q].at = st[q].at
          /\ st'[q] = st[q] \/ st'[q].id = st[q].id
          /\ st'[q] = Idle <=> st[q] = Idle
    BY <1>1, <1>6, <1>17
  <2>2. Holders' = Holders
    BY <2>1 DEF Holders
  <2>3. benchActive' = benchActive
    BY <1>1, <1>17 DEF Saved, StateOK
  <2>4. SlotInv'
    BY <1>1, <2>2, <2>3 DEF SlotInv
  <2>5. JobInv'
    <3>1. Holders \subseteq Requests \cup {Runner}
      BY DEF Holders
    <3>2. st'[Runner].id = st[Runner].id
      BY <2>1
    <3> QED
      BY <1>1, <1>7, <1>10, <2>1, <2>2, <3>1, <3>2 DEF JobInv
  <2> QED
    BY <1>9, <1>10, <1>12, <1>13, <1>14, <2>4, <2>5
<1> QED
  BY <1>15, <1>16, <1>17 DEF Procs

(* The file gets its name,                                                 *)
LEMMA RenameKeeps ==
  ASSUME JobsInv, NEW p \in Procs, SaveRename(p)
  PROVE  JobsInv'
<1>1. PICK moved : moved = (tmp # NoFile)
  OBVIOUS
<1>2. st[p].at = "rename" /\ Saved(p, moved)
  BY <1>1 DEF SaveRename
<1>3. StateOK /\ SaveInv /\ moved \in BOOLEAN
  BY <1>1 DEF JobsInv
<1>4. FileOK(path', now) /\ FileOK(tmp', now) /\ atRisk' \in BOOLEAN
  <2>1. path' \in {path, tmp} /\ tmp' \in {tmp, NoFile}
    BY DEF SaveRename, files
  <2>2. FileOK(NoFile, now)
    BY DEF FileOK
  <2>3. atRisk' \in BOOLEAN
    BY DEF SaveRename
  <2> QED
    BY <1>3, <2>1, <2>2, <2>3 DEF StateOK
<1>5. /\ StateOK' /\ SlotInv' /\ JobInv'
      /\ p \in Savers /\ (Savers = {p} => Savers' = {})
      /\ acked' \subseteq DOMAIN jobs /\ \A id \in ended' : jobs[id] = "over"
  BY <1>2, <1>3, <1>4, AfterSave DEF Saves
<1>6. SaveInv'
  <2> SUFFICES ASSUME ~atRisk' PROVE (SaveInv!2)'
    BY DEF SaveInv
  <2>1. Savers = {p} /\ \E x : tmp = Full(x) /\ Carries(x)
    <3>1. CASE ~atRisk
      BY <1>2, <1>3, <1>5, <3>1 DEF SaveInv
    <3>2. CASE atRisk
      BY <3>2 DEF SaveRename, Carries
    <3> QED
      BY <3>1, <3>2
  <2>2. PICK js : tmp = Full(js) /\ Carries(js)
    BY <2>1
  <2>3. Full(js).is = "full" /\ Full(js).jobs = js /\ NoFile.is = "absent"
    BY DEF Full, NoFile
  <2>4. path'.is = "full" /\ path'.jobs = js
    BY <2>2, <2>3 DEF SaveRename
  <2>5. Survive(path)'
    <3>1. CASE js = jobs
      BY <1>5, <2>4, <3>1 DEF Survive
    <3>2. CASE Survive(Full(js)) /\ \E r \in Requests : st[r].at = "prune"
      <4>1. PICK r \in Requests : st[r].at = "prune"
        BY <3>2
      <4>2. Holders = {r}
        BY <1>3, <4>1, RequestHolds DEF JobsInv
      <4>3. p \notin Requests \cup {Runner}
        BY <1>2, <4>1, <4>2 DEF Holders, Idle
      <4>4. acked' = acked /\ ended' = ended
        BY <1>2, <4>3 DEF Saved
      <4> QED
        BY <2>3, <2>4, <3>2, <4>4 DEF Survive
    <3> QED
      BY <2>2, <3>1, <3>2 DEF Carries
  <2> QED
    BY <1>5, <2>1, <2>5
<1> QED
  BY <1>5, <1>6 DEF JobsInv

(* or the save fails.                                                      *)
LEMMA ErrsKeeps ==
  ASSUME JobsInv, NEW p \in Procs, SaveErrs(p)
  PROVE  JobsInv'
<1>1. /\ st[p].at \in Saves /\ Saved(p, FALSE) /\ atRisk' = TRUE
      /\ path' = path /\ tmp' = tmp
  BY DEF SaveErrs, Savers, Saves, files
<1>2. FileOK(path', now) /\ FileOK(tmp', now) /\ atRisk' \in BOOLEAN
  BY <1>1 DEF JobsInv, StateOK
<1>3. StateOK' /\ SlotInv' /\ JobInv'
  BY <1>1, <1>2, AfterSave
<1>4. SaveInv'
  BY <1>1 DEF SaveInv
<1> QED
  BY <1>3, <1>4 DEF JobsInv

(* A restart reads the file.                                               *)
LEMMA RestartKeeps ==
  ASSUME JobsInv, Restart
  PROVE  JobsInv'
<1>1. StateOK
  BY DEF JobsInv
<1>2. /\ jobs' = load /\ benchActive' = FALSE /\ st' = [p \in Procs |-> Idle]
      /\ closing' = FALSE /\ atRisk' = FALSE /\ now' = now /\ path' = path /\ tmp' = tmp
      /\ acked' = acked \cap DOMAIN jobs'
      /\ ended' = {id \in ended \cap DOMAIN jobs' : jobs'[id] # "running"}
  BY DEF Restart, files
<1>3. NoFile.is = "absent" /\ Cut.is = "cut" /\ Idle.at = "idle" /\ DOMAIN NoJobs = {}
  BY DEF NoFile, Cut, Idle, NoJobs
<1>4. JobsOK(load, now)
  <2>1. CASE path.is = "full"
    <3>1. JobsOK(path.jobs, now)
      BY <1>1, <1>3, <2>1 DEF StateOK, FileOK
    <3> QED
      BY <2>1, <3>1 DEF load
  <2>2. CASE path.is # "full"
    <3>2. JobsOK(NoJobs, now)
      BY <1>3 DEF JobsOK, IsJobs, NoJobs
    <3> QED
      BY <2>2, <3>2 DEF load
  <2> QED
    BY <2>1, <2>2
<1>5. StateOK'
  <2>1. \A p \in Procs : st'[p] = Idle
    BY <1>2
  <2>2. LocalOK(Idle, now)
    BY DEF LocalOK
  <2> QED
    BY <1>1, <1>2, <1>3, <1>4, <2>1, <2>2 DEF StateOK, PlaceOK
<1>6. Holders' = {} /\ Savers' = {} /\ st'[Runner] = Idle
  BY <1>2, <1>3 DEF Holders, Savers, Procs
<1>7. \A id \in ended' : jobs'[id] = "over"
  BY <1>2, <1>4 DEF JobsOK, IsJobs
<1>8. SlotInv' /\ JobInv'
  BY <1>2, <1>3, <1>6, <1>7 DEF SlotInv, JobInv, Saves
<1>9. Survive(path)'
  <2>1. path.is # "full" => jobs' = NoJobs
    BY <1>2 DEF load
  <2>2. path.is = "full" => jobs' = path.jobs
    BY <1>2 DEF load
  <2> QED
    BY <1>2, <1>3, <2>1, <2>2 DEF Survive
<1> QED
  BY <1>5, <1>6, <1>8, <1>9 DEF JobsInv, SaveInv

(* Every step keeps the invariant.                                         *)
LEMMA JobsStep == JobsInv /\ [Next]_vars => JobsInv'
<1> SUFFICES ASSUME JobsInv, [Next]_vars PROVE JobsInv'
  OBVIOUS
<1>1. ASSUME NEW r \in Requests, Request(r) PROVE JobsInv'
  BY <1>1, RefuseKeeps, StoreJobKeeps, PruneJobsKeeps DEF Request
<1>2. ASSUME NEW r \in Requests, NEW id \in Ids, Post(r, id) PROVE JobsInv'
  BY <1>2, PostKeeps
<1>3. ASSUME NEW p \in Procs, Save(p) PROVE JobsInv'
  BY <1>3, MarshalKeeps, OpenKeeps, WriteKeeps, RenameKeeps, ErrsKeeps DEF Save
<1>4. ASSUME UNCHANGED <<benchActive, jobs, files, st, closing, history>>,
             now' = now \/ (now' = now + 1 /\ now' \in 0 .. MaxTime)
      PROVE  JobsInv'
  <2>1. StateOK /\ SlotInv /\ JobInv /\ SaveInv
    BY DEF JobsInv
  <2>2. UNCHANGED <<benchActive, jobs, path, tmp, st, closing, acked, ended, atRisk>>
    BY <1>4 DEF files, history
  <2>3. StateOK'
    <3>1. now \in Nat
      BY <2>1 DEF StateOK
    <3>2. CASE now' = now
      BY <2>1, <2>2, <3>2 DEF StateOK
    <3>3. CASE now' = now + 1 /\ now' \in 0 .. MaxTime
      <4>1. JobsOK(jobs, now') /\ FileOK(path, now') /\ FileOK(tmp, now')
        BY <2>1, <3>1, <3>3, Later DEF StateOK
      <4>2. \A p \in Procs : LocalOK(st[p], now') /\ PlaceOK(p, st[p].at)
        BY <2>1, <3>1, <3>3, Later DEF StateOK
      <4> QED
        BY <2>1, <2>2, <3>3, <4>1, <4>2 DEF StateOK
    <3> QED
      BY <1>4, <3>2, <3>3
  <2>4. Holders' = Holders
    BY <2>2 DEF Holders
  <2>5. SlotInv' /\ JobInv'
    BY <2>1, <2>2, <2>4 DEF SlotInv, JobInv
  <2>6. SaveInv'
    BY <2>1, <2>2, SaveSame
  <2> QED
    BY <2>3, <2>5, <2>6 DEF JobsInv
<1>5. CASE Wait
  <2>1. now' = now + 1 /\ now' \in 0 .. MaxTime
    BY <1>5, LimiterConstants DEF Wait, Tick, JobsInv, StateOK
  <2> QED
    BY <1>4, <1>5, <2>1 DEF Wait
<1>6. CASE UNCHANGED vars
  BY <1>4, <1>6 DEF vars, files, history
<1> QED
  BY <1>1, <1>2, <1>3, <1>5, <1>6, RunEndsKeeps, ShutdownKeeps, RestartKeeps DEF Next

(* It holds when the server starts for the first time.                     *)
LEMMA JobsInit == Init => JobsInv
<1> SUFFICES ASSUME Init PROVE JobsInv
  OBVIOUS
<1>1. /\ now = 0 /\ benchActive = FALSE /\ jobs = NoJobs /\ path = NoFile /\ tmp = NoFile
      /\ st = [p \in Procs |-> Idle] /\ closing = FALSE
      /\ acked = {} /\ ended = {} /\ atRisk = FALSE
  BY DEF Init, LimiterInit
<1>2. Idle.at = "idle" /\ DOMAIN NoJobs = {} /\ MaxTime \in Nat /\ MaxJobs \in Nat
  BY LimiterConstants, JobConstants DEF Idle, NoJobs
<1>3. JobsOK(NoJobs, 0)
  BY <1>2 DEF JobsOK, IsJobs, NoJobs
<1>4. StateOK
  <2>1. LocalOK(Idle, 0)
    BY DEF LocalOK
  <2>2. FileOK(NoFile, 0)
    BY DEF FileOK
  <2>3. \A p \in Procs : LocalOK(st[p], now) /\ PlaceOK(p, st[p].at)
    BY <1>1, <1>2, <2>1 DEF PlaceOK
  <2>4. st = [p \in Procs |-> st[p]]
    BY <1>1
  <2>5. JobsOK(jobs, now) /\ FileOK(path, now) /\ FileOK(tmp, now)
    BY <1>1, <1>3, <2>2
  <2>6. now \in 0 .. MaxTime
    BY <1>1, <1>2
  <2>7. benchActive \in BOOLEAN /\ closing \in BOOLEAN /\ atRisk \in BOOLEAN
    BY <1>1
  <2>8. acked \subseteq DOMAIN jobs /\ ended \subseteq acked
    BY <1>1
  <2> QED
    BY <2>3, <2>4, <2>5, <2>6, <2>7, <2>8 DEF StateOK
<1>5. Holders = {} /\ Savers = {} /\ st[Runner] = Idle
  BY <1>1, <1>2 DEF Holders, Savers, Procs
<1>6. SlotInv /\ JobInv
  BY <1>1, <1>2, <1>5 DEF SlotInv, JobInv, Saves
<1>7. SaveInv
  BY <1>1, <1>5 DEF SaveInv, Survive
<1> QED
  BY <1>4, <1>6, <1>7 DEF JobsInv

(* The inductive invariant, in every reachable state.                      *)
LEMMA JobsAlways == Spec => []JobsInv
BY JobsInit, JobsStep, PTL DEF Spec

---------------------------------------------------------------------------
Few(js, n) == Cardinality(DOMAIN js) <= most + n
FewIn(f) == f.is = "full" => Few(f.jobs, 1)
Pruning == \E r \in Requests : st[r].at = "prune"
Writing == \E p \in Procs : st[p].at \in {"write", "rename"}

(* How many jobs are kept, and what that needs of those on their way.      *)
FewInv ==
  /\ most \in Nat /\ MaxJobs <= most
  /\ Few(jobs, 0) \/ (Few(jobs, 1) /\ Pruning)
  /\ FewIn(path) /\ (Writing => FewIn(tmp))
  /\ \A p \in Procs : st[p].at \in {"open", "write"} => Few(st[p].data, 1)
  /\ \A r \in Requests : st[r].at = "prune" => \A x \in DOMAIN jobs : x <= st[r].id

(* At most one more than most, whoever is where.                           *)
LEMMA FewOneMore ==
  ASSUME JobsInv, FewInv
  PROVE  Few(jobs, 1) /\ Cardinality(DOMAIN jobs) \in Nat /\ IsFiniteSet(DOMAIN jobs)
<1>1. Cardinality(DOMAIN jobs) \in Nat /\ IsFiniteSet(DOMAIN jobs)
  BY JobsFinite, LimiterConstants DEF JobsInv, StateOK
<1> QED
  BY <1>1 DEF FewInv, Few

(* A step that changes neither which jobs there are, nor the files, nor    *)
(* who is between storing and pruning or has data in hand.                 *)
LEMMA FewSame ==
  ASSUME FewInv, UNCHANGED <<most, path, tmp>>, DOMAIN jobs' = DOMAIN jobs,
         \A q \in Procs : \/ st'[q] = st[q]
                           \/ /\ st[q].at # "prune"
                              /\ st'[q].at \notin {"prune", "open", "write", "rename"}
  PROVE  FewInv'
<1>1. /\ \A js, n : Few(js, n)' <=> Few(js, n)
      /\ Few(jobs, 0)' <=> Few(jobs, 0)
      /\ Few(jobs, 1)' <=> Few(jobs, 1)
  BY DEF Few
<1>2. \A f : FewIn(f)' <=> FewIn(f)
  BY <1>1 DEF FewIn
<1>3. Requests \subseteq Procs
  BY DEF Procs
<1>4. (Pruning' <=> Pruning) /\ (Writing' => Writing)
  BY <1>3 DEF Pruning, Writing
<1> QED
  BY <1>1, <1>2, <1>3, <1>4 DEF FewInv

(* A job is stored by the only process past validation.                    *)
LEMMA FewStored ==
  ASSUME JobsInv, FewInv, NEW r \in Requests, StoreJob(r)
  PROVE  FewInv'
<1>1. StateOK /\ SlotInv /\ r \in Procs /\ Requests \subseteq Procs
  BY DEF JobsInv, Procs
<1>2. PICK s : s = [at |-> "prune", id |-> now]
  OBVIOUS
<1>3. /\ jobs' = Update(jobs, now, "running") /\ Goto(r, s) /\ st[r].at = "validate"
      /\ UNCHANGED <<now, most, path, tmp>> /\ s.at = "prune" /\ s.id = now
  BY <1>2 DEF StoreJob, files
<1>4. \A q \in Procs : st'[q] = IF q = r THEN s ELSE st[q]
  BY <1>1, <1>3, AfterGoto
<1>5. \A q \in Requests : st[q].at # "prune"
  <2>1. Holders = {r}
    BY <1>1, <1>3, RequestHolds
  <2> QED
    BY <1>3, <2>1 DEF Holders, Idle
<1>6. Few(jobs, 0) /\ most \in Nat /\ MaxJobs <= most
  BY <1>5 DEF FewInv, Pruning
<1>7. DOMAIN jobs' = DOMAIN jobs \cup {now}
  BY <1>3 DEF Update
<1>8. Few(jobs, 1)'
  <2>1. IsFiniteSet(DOMAIN jobs) /\ Cardinality(DOMAIN jobs) \in Nat
    BY FewOneMore
  <2>2. Cardinality(DOMAIN jobs \cup {now})
          = IF now \in DOMAIN jobs THEN Cardinality(DOMAIN jobs) ELSE Cardinality(DOMAIN jobs) + 1
    BY <2>1, FS_AddElement
  <2> QED
    BY <1>3, <1>6, <1>7, <2>1, <2>2 DEF Few
<1>9. Pruning' /\ (Writing' <=> Writing)
  BY <1>1, <1>3, <1>4 DEF Pruning, Writing
<1>10. /\ \A f : FewIn(f)' <=> FewIn(f)
       /\ \A js : Few(js, 1)' <=> Few(js, 1)
  BY <1>3 DEF FewIn, Few
<1>11. \A q \in Requests : st'[q].at = "prune" => \A x \in DOMAIN jobs' : x <= st'[q].id
  <2>1. \A x \in DOMAIN jobs' : x <= now
    <3>1. DOMAIN jobs \subseteq 0 .. now /\ now \in Nat
      BY <1>1, LimiterConstants DEF StateOK, JobsOK
    <3> QED
      BY <1>7, <3>1
  <2> QED
    BY <1>1, <1>3, <1>4, <1>5, <2>1
<1>12. \A p \in Procs : st'[p].at \in {"open", "write"} => Few(st'[p].data, 1)
  BY <1>3, <1>4 DEF FewInv
<1> QED
  BY <1>3, <1>6, <1>8, <1>9, <1>10, <1>11, <1>12 DEF FewInv

(* One job less, if there were too many: the new one is not the oldest.    *)
LEMMA FewPruned ==
  ASSUME JobsInv, FewInv, NEW r \in Requests, PruneJobs(r)
  PROVE  FewInv'
<1>1. StateOK /\ SlotInv /\ JobInv /\ r \in Procs /\ Requests \subseteq Procs
  BY DEF JobsInv, Procs
<1>2. PICK id, old, s : /\ id = st[r].id /\ old = Prune(jobs, id)
                        /\ s = [at |-> "marshal", id |-> id]
  OBVIOUS
<1>3. /\ jobs' = [x \in DOMAIN jobs \ old |-> jobs[x]] /\ Goto(r, s)
      /\ st[r].at = "prune" /\ s.at = "marshal"
      /\ UNCHANGED <<most, path, tmp>>
  <2>1. {x \in DOMAIN jobs : x \notin old} = DOMAIN jobs \ old
    OBVIOUS
  <2>2. jobs' = Keep(jobs, LAMBDA x : x \notin old)
    BY <1>2 DEF PruneJobs
  <2>3. jobs' = [x \in DOMAIN jobs \ old |-> jobs[x]]
    BY <2>1, <2>2 DEF Keep
  <2> QED
    BY <1>2, <2>3 DEF PruneJobs, Saving, files
<1>4. \A q \in Procs : st'[q] = IF q = r THEN s ELSE st[q]
  BY <1>1, <1>3, AfterGoto
<1>5. DOMAIN jobs' = DOMAIN jobs \ old
  BY <1>3
<1>6. most \in Nat /\ MaxJobs <= most /\ MaxJobs \in Nat \ {0}
  BY JobConstants DEF FewInv
<1>7. Few(jobs, 1) /\ Cardinality(DOMAIN jobs) \in Nat /\ IsFiniteSet(DOMAIN jobs)
  BY FewOneMore
<1>8. Few(jobs, 0)'
  <2>1. CASE Cardinality(DOMAIN jobs) <= MaxJobs
    <3>1. old = {}
      BY <1>2, <1>6, <1>7, <2>1 DEF Prune
    <3>2. DOMAIN jobs' = DOMAIN jobs
      BY <1>5, <3>1
    <3> QED
      BY <1>3, <1>6, <1>7, <2>1, <3>2 DEF Few
  <2>2. CASE Cardinality(DOMAIN jobs) > MaxJobs
    <3>1. PICK m : m = Min(DOMAIN jobs)
      OBVIOUS
    <3>2. Holders = {r}
      BY <1>1, <1>3, RequestHolds
    <3>3. id \in DOMAIN jobs
      BY <1>1, <1>2, <1>3, <3>2 DEF JobInv
    <3>4. DOMAIN jobs \subseteq Nat
      BY <1>1, LimiterConstants DEF StateOK, JobsOK
    <3>5. m \in DOMAIN jobs /\ \A y \in DOMAIN jobs : m <= y
      BY <3>1, <3>3, <3>4, MinIsLeast
    <3>6. m # id
      <4> SUFFICES ASSUME m = id PROVE FALSE
        OBVIOUS
      <4>1. \A x \in DOMAIN jobs : x <= id
        BY <1>2, <1>3 DEF FewInv
      <4>2. DOMAIN jobs = {id}
        BY <3>3, <3>4, <3>5, <4>1
      <4>3. Cardinality(DOMAIN jobs) = 1
        BY <4>2, FS_Singleton
      <4> QED
        BY <1>6, <2>2, <4>3
    <3>7. old = {m}
      BY <1>2, <2>2, <3>1, <3>6 DEF Prune
    <3>8. Cardinality(DOMAIN jobs \ {m}) = Cardinality(DOMAIN jobs) - 1
      BY <1>7, <3>5, FS_RemoveElement
    <3> QED
      BY <1>3, <1>5, <1>6, <1>7, <3>7, <3>8 DEF Few
  <2> QED
    BY <1>6, <1>7, <2>1, <2>2
<1>9. Writing' <=> Writing
  BY <1>1, <1>3, <1>4 DEF Writing
<1>10. /\ \A f : FewIn(f)' <=> FewIn(f)
       /\ \A js : Few(js, 1)' <=> Few(js, 1)
  BY <1>3 DEF FewIn, Few
<1>11. \A q \in Requests : st'[q].at = "prune" => \A x \in DOMAIN jobs' : x <= st'[q].id
  BY <1>1, <1>3, <1>4, <1>5 DEF FewInv
<1>12. \A p \in Procs : st'[p].at \in {"open", "write"} => Few(st'[p].data, 1)
  BY <1>3, <1>4 DEF FewInv
<1> QED
  BY <1>3, <1>6, <1>8, <1>9, <1>10, <1>11, <1>12 DEF FewInv

(* The steps of a save before the rename.                                  *)
LEMMA FewSaving ==
  ASSUME JobsInv, FewInv, NEW p \in Procs, SaveMarshal(p) \/ SaveOpen(p) \/ SaveWrite(p)
  PROVE  FewInv'
<1>1. StateOK /\ Requests \subseteq Procs
  BY DEF JobsInv, Procs
<1>2. UNCHANGED <<jobs, most>> /\ st[p].at \in {"marshal", "open", "write"}
  BY DEF SaveMarshal, SaveOpen, SaveWrite, history
<1>3. PICK s : /\ Goto(p, s) /\ s.at \in {"open", "write", "rename"}
               /\ s.at \in {"open", "write"} => Few(s.data, 1)
  <2>1. CASE SaveMarshal(p)
    BY <2>1, FewOneMore DEF SaveMarshal
  <2>2. CASE SaveOpen(p)
    BY <2>2 DEF SaveOpen, FewInv
  <2>3. CASE SaveWrite(p)
    BY <2>3 DEF SaveWrite
  <2> QED
    BY <2>1, <2>2, <2>3
<1>4. \A q \in Procs : st'[q] = IF q = p THEN s ELSE st[q]
  BY <1>1, <1>3, AfterGoto
<1>5. /\ \A f : FewIn(f)' <=> FewIn(f)
      /\ \A js : Few(js, 1)' <=> Few(js, 1)
      /\ \A js : Few(js, 0)' <=> Few(js, 0)
  BY <1>2 DEF FewIn, Few
<1>6. FewIn(path') /\ (Writing' => FewIn(tmp'))
  <2>1. FewIn(path) /\ (Writing => FewIn(tmp))
    BY DEF FewInv
  <2>2. CASE SaveMarshal(p)
    <3>1. path' = path /\ tmp' = tmp /\ s.at = "open"
      BY <1>3, <1>4, <2>2 DEF SaveMarshal, files, Goto, StateOK
    <3>2. Writing' => Writing
      BY <1>4, <3>1 DEF Writing
    <3> QED
      BY <2>1, <3>1, <3>2
  <2>3. CASE SaveOpen(p)
    <3>1. FewIn(Cut)
      BY DEF FewIn, Cut
    <3> QED
      BY <2>1, <2>3, <3>1 DEF SaveOpen
  <2>4. CASE SaveWrite(p)
    <3>1. Few(st[p].data, 1) /\ Writing
      BY <2>4 DEF SaveWrite, FewInv, Writing
    <3>2. FewIn(Full(st[p].data)) /\ FewIn(Cut)
      BY <3>1 DEF FewIn, Cut, Full
    <3>3. \A old : Written(old, st[p].data) \subseteq {Full(st[p].data), Cut}
      BY DEF Written
    <3>4. path' \in {path, Full(st[p].data), Cut} /\ tmp' \in {tmp, Full(st[p].data), Cut}
      BY <2>4, <3>3 DEF SaveWrite
    <3> QED
      BY <2>1, <3>1, <3>2, <3>4
  <2> QED
    BY <2>2, <2>3, <2>4
<1>7. Pruning' <=> Pruning
  BY <1>1, <1>2, <1>3, <1>4 DEF Pruning
<1>8. \A q \in Procs : st'[q].at \in {"open", "write"} => Few(st'[q].data, 1)
  BY <1>3, <1>4 DEF FewInv
<1>9. \A q \in Requests : st'[q].at = "prune" => \A x \in DOMAIN jobs : x <= st'[q].id
  BY <1>1, <1>3, <1>4 DEF FewInv
<1> QED
  BY <1>2, <1>5, <1>6, <1>7, <1>8, <1>9 DEF FewInv

(* The rename, or a failure.                                               *)
LEMMA FewSaved ==
  ASSUME JobsInv, FewInv, NEW p \in Procs, SaveRename(p) \/ SaveErrs(p)
  PROVE  FewInv'
<1>1. Requests \subseteq Procs /\ Idle.at = "idle" /\ NoFile.is = "absent"
      /\ Runner \notin Requests
  BY JobConstants DEF Procs, Idle, NoFile
<1>2. PICK moved : Saved(p, moved)
  BY DEF SaveRename, SaveErrs
<1>3. UNCHANGED <<jobs, most>> /\ st[p].at \in Saves
  BY <1>2 DEF Saved, SaveRename, SaveErrs, Savers, Saves
<1>4. ASSUME NEW q \in Procs
      PROVE  \/ st'[q].at \in {"idle", "down", "run"}
             \/ /\ q # p /\ st'[q].at = st[q].at
                /\ st[q].at = "prune" => st'[q] = st[q]
                /\ st[q].at \in {"open", "write"} => st'[q].data = st[q].data
  <2>1. CASE q = p \/ (q = Runner /\ p \in Requests)
    BY <1>1, <1>2, <2>1 DEF Saved
  <2>2. CASE ~(q = p \/ (q = Runner /\ p \in Requests)) /\ moved /\ st[q].at = "write"
    <3>1. st'[q] = [st[q] EXCEPT !.file = "path"]
      BY <1>2, <2>2 DEF Saved
    <3>2. LocalOK(st[q], now)
      BY DEF JobsInv, StateOK
    <3>3. st[q] = [at |-> "write", data |-> st[q].data, id |-> st[q].id, file |-> st[q].file]
      BY <2>2, <3>2, LocalByPlace
    <3>4. st'[q] = [at |-> "write", data |-> st[q].data, id |-> st[q].id, file |-> "path"]
      BY <3>1, <3>3
    <3>5. st'[q].at = "write" /\ st'[q].data = st[q].data
      BY <3>4
    <3> QED
      BY <2>2, <3>5
  <2>3. CASE ~(q = p \/ (q = Runner /\ p \in Requests)) /\ ~(moved /\ st[q].at = "write")
    BY <1>2, <2>3 DEF Saved
  <2> QED
    BY <2>1, <2>2, <2>3
<1>5. /\ \A f : FewIn(f)' <=> FewIn(f)
      /\ \A js : Few(js, 1)' <=> Few(js, 1)
      /\ \A js : Few(js, 0)' <=> Few(js, 0)
  BY <1>3 DEF FewIn, Few
<1>6. Pruning => Pruning'
  <2> SUFFICES ASSUME NEW r \in Requests, st[r].at = "prune" PROVE st'[r].at = "prune"
    BY DEF Pruning
  <2>1. r # p /\ r # Runner /\ r \in Procs
    BY <1>1, <1>3 DEF Saves
  <2>2. st'[r] = st[r]
    BY <1>2, <2>1 DEF Saved
  <2> QED
    BY <2>2
<1>7. Writing' => Writing
  BY <1>4 DEF Writing
<1>8. FewIn(path') /\ (Writing' => FewIn(tmp'))
  <2>1. FewIn(path) /\ (Writing => FewIn(tmp)) /\ FewIn(NoFile)
    BY <1>1 DEF FewInv, FewIn
  <2>2. CASE SaveRename(p)
    <3>1. Writing
      BY <2>2 DEF SaveRename, Writing
    <3>2. path' \in {path, tmp} /\ tmp' \in {tmp, NoFile}
      BY <2>2 DEF SaveRename, files
    <3> QED
      BY <2>1, <3>1, <3>2
  <2>3. CASE SaveErrs(p)
    BY <1>7, <2>1, <2>3 DEF SaveErrs, files
  <2> QED
    BY <2>2, <2>3
<1>9. \A q \in Procs : st'[q].at \in {"open", "write"} => Few(st'[q].data, 1)
  BY <1>4 DEF FewInv
<1>10. \A q \in Requests : st'[q].at = "prune" => \A x \in DOMAIN jobs : x <= st'[q].id
  BY <1>1, <1>4 DEF FewInv
<1> QED
  BY <1>3, <1>5, <1>6, <1>8, <1>9, <1>10 DEF FewInv

(* A restart reads the file, and keeps as many as it finds.                *)
LEMMA FewRestart ==
  ASSUME JobsInv, FewInv, Restart
  PROVE  FewInv'
<1>1. /\ jobs' = load /\ path' = path /\ st' = [p \in Procs |-> Idle]
      /\ most' = MaxOf(MaxJobs, Cardinality(DOMAIN jobs'))
  BY DEF Restart, files
<1>2. \A p \in Procs : st'[p].at = "idle"
  BY <1>1 DEF Idle
<1>3. Cardinality(DOMAIN jobs') \in Nat /\ MaxJobs \in Nat
  BY RestartKeeps, JobsFinite, LimiterConstants, JobConstants DEF JobsInv, StateOK
<1>4. most' \in Nat /\ MaxJobs <= most' /\ Cardinality(DOMAIN jobs') <= most'
  BY <1>1, <1>3 DEF MaxOf
<1>5. FewIn(path)'
  BY <1>1, <1>3, <1>4 DEF FewIn, Few, load
<1>6. Few(jobs, 0)'
  BY <1>3, <1>4 DEF Few
<1>7. Requests \subseteq Procs
  BY DEF Procs
<1> QED
  BY <1>2, <1>4, <1>5, <1>6, <1>7 DEF FewInv, Writing

(* Every step keeps it.                                                    *)
LEMMA FewStep == JobsInv /\ FewInv /\ [Next]_vars => FewInv'
<1> SUFFICES ASSUME JobsInv, FewInv, [Next]_vars PROVE FewInv'
  OBVIOUS
<1>1. StateOK /\ Requests \subseteq Procs /\ Runner \in Procs /\ Closer \in Procs
      /\ Idle.at = "idle"
  BY DEF JobsInv, Procs, Idle
<1>2. ASSUME NEW r \in Requests, Refuse(r) PROVE FewInv'
  <2>1. UNCHANGED <<most, path, tmp, jobs>> /\ st[r].at = "validate" /\ Goto(r, Idle)
    BY <1>2 DEF Refuse, files, history
  <2>2. \A q \in Procs : st'[q] = IF q = r THEN Idle ELSE st[q]
    BY <1>1, <2>1, AfterGoto
  <2> QED
    BY <1>1, <2>1, <2>2, FewSame
<1>3. ASSUME NEW r \in Requests, NEW id \in Ids, Post(r, id) PROVE FewInv'
  <2>1. UNCHANGED <<most, path, tmp, jobs>> /\ st[r] = Idle
        /\ (Goto(r, [at |-> "validate"]) \/ UNCHANGED st)
    BY <1>3 DEF Post, files, history
  <2>2. PICK s : s = [at |-> "validate"]
    OBVIOUS
  <2>5. s.at = "validate"
    BY <2>2
  <2>3. CASE Goto(r, s)
    <3>1. \A q \in Procs : st'[q] = IF q = r THEN s ELSE st[q]
      BY <1>1, <2>3, AfterGoto
    <3> QED
      BY <1>1, <2>1, <2>5, <3>1, FewSame
  <2>4. CASE UNCHANGED st
    BY <2>1, <2>4, FewSame
  <2> QED
    BY <2>1, <2>2, <2>3, <2>4
<1>4. CASE RunEnds
  <2>1. PICK s : s = [at |-> "marshal", id |-> st[Runner].id]
    OBVIOUS
  <2>5. s.at = "marshal"
    BY <2>1
  <2>2. UNCHANGED <<most, path, tmp>> /\ st[Runner].at = "run" /\ Goto(Runner, s)
    BY <1>4, <2>1 DEF RunEnds, Saving, files
  <2>3. \A q \in Procs : st'[q] = IF q = Runner THEN s ELSE st[q]
    BY <1>1, <2>2, AfterGoto
  <2>4. DOMAIN jobs' = DOMAIN jobs
    BY <1>4 DEF RunEnds
  <2> QED
    BY <2>2, <2>3, <2>4, <2>5, FewSame
<1>5. CASE Shutdown
  <2>1. PICK s : s = [at |-> "marshal", id |-> 0]
    OBVIOUS
  <2>5. s.at = "marshal"
    BY <2>1
  <2>2. UNCHANGED <<most, path, tmp, jobs>> /\ Goto(Closer, s)
    BY <1>5, <2>1 DEF Shutdown, Saving, files
  <2>3. \A q \in Procs : st'[q] = IF q = Closer THEN s ELSE st[q]
    BY <1>1, <2>2, AfterGoto
  <2>4. st[Closer].at # "prune"
    BY <1>1, JobConstants DEF StateOK, PlaceOK, Saves
  <2> QED
    BY <2>2, <2>3, <2>4, <2>5, FewSame
<1>6. ASSUME NEW p \in Procs, Save(p) PROVE FewInv'
  BY <1>6, FewSaving, FewSaved DEF Save
<1>7. ASSUME NEW r \in Requests, Request(r) PROVE FewInv'
  BY <1>2, <1>7, FewStored, FewPruned DEF Request
<1>8. CASE Wait \/ UNCHANGED vars
  <2>1. UNCHANGED <<most, path, tmp, jobs, st>>
    BY <1>8 DEF Wait, vars, files, history
  <2> QED
    BY <2>1, FewSame
<1> QED
  BY <1>3, <1>4, <1>5, <1>6, <1>7, <1>8, FewRestart DEF Next

(* It holds at the start, and always.                                      *)
LEMMA FewAlways == Spec => []FewInv
<1>1. Init => FewInv
  <2> SUFFICES ASSUME Init PROVE FewInv
    OBVIOUS
  <2>1. /\ jobs = NoJobs /\ path = NoFile /\ most = MaxJobs
        /\ st = [p \in Procs |-> Idle]
    BY DEF Init
  <2>2. DOMAIN NoJobs = {} /\ NoFile.is = "absent" /\ MaxJobs \in Nat
        /\ Requests \subseteq Procs
    BY JobConstants DEF NoJobs, NoFile, Procs
  <2>3. \A p \in Procs : st[p].at = "idle"
    BY <2>1 DEF Idle
  <2>4. Few(jobs, 0)
    BY <2>1, <2>2, FS_EmptySet DEF Few
  <2> QED
    BY <2>1, <2>2, <2>3, <2>4 DEF FewInv, FewIn, Writing
<1> QED
  BY <1>1, FewStep, JobsAlways, PTL DEF Spec

(* The state is well-formed; in memory there are never more than MaxJobs   *)
(* jobs, or than the process has read, but for one that is being started;  *)
(* and the file has at most that one more, which a restart then reads.     *)
THEOREM TypeCorrect == Spec => []TypeOK
<1>1. JobsInv /\ FewInv => TypeOK
  <2> SUFFICES ASSUME JobsInv, StateOK, FewInv PROVE TypeOK
    BY DEF JobsInv
  <2>1. \A js : JobsOK(js, now) => IsJobs(js)
    BY DEF JobsOK
  <2>2. \A f : FileOK(f, now) => IsFile(f)
    BY <2>1 DEF FileOK, IsFile
  <2>3. \A p \in Procs :
          st[p].at \in {"idle", "validate", "prune", "run", "marshal", "open", "write", "rename", "down"}
    BY DEF StateOK, PlaceOK, Saves
  <2>4. FewJobs
    <3>1. Cardinality(DOMAIN jobs) \in Nat /\ most \in Nat
      BY FewOneMore DEF FewInv
    <3> QED
      BY <3>1 DEF FewInv, FewJobs, FewIn, Few, Pruning
  <2>5. /\ now \in 0 .. MaxTime
        /\ benchActive \in BOOLEAN /\ closing \in BOOLEAN /\ atRisk \in BOOLEAN
        /\ most \in Nat /\ acked \subseteq DOMAIN jobs /\ ended \subseteq acked
        /\ IsJobs(jobs) /\ IsFile(path) /\ IsFile(tmp)
    BY <2>1, <2>2 DEF StateOK, FewInv
  <2> QED
    BY <2>3, <2>4, <2>5 DEF TypeOK
<1> QED
  BY <1>1, JobsAlways, FewAlways, PTL

(* benchActive is set while exactly one request or goroutine has the slot, *)
(* and nobody has it otherwise: two benchmarks never run at once, and no   *)
(* early return, failed save or panic leaks the slot.                      *)
THEOREM SlotHeld == Spec => []SlotIsHeld
<1>1. JobsInv => SlotIsHeld
  BY FS_EmptySet, FS_Singleton DEF JobsInv, SlotInv, SlotIsHeld
<1> QED
  BY <1>1, JobsAlways, PTL

(* The file holds every job a client was told of, with its outcome once it *)
(* has ended, whenever the process may die: but for saves that failed or   *)
(* met that of Shutdown.                                                   *)
THEOREM AnsweredSurvive == Spec => []AckedSurvive
<1>1. JobsInv => AckedSurvive
  BY DEF JobsInv, SaveInv, Survive, AckedSurvive
<1> QED
  BY <1>1, JobsAlways, PTL
===========================================================================
