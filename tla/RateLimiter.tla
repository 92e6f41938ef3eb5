---------------------------- MODULE RateLimiter ----------------------------
(***************************************************************************)
(* api/rate_limiter.go and rateLimitMiddleware: a client may make Limit    *)
(* requests per Window.  In memory, a window begins with a client's first  *)
(* request; in sqlite, windows are aligned and servers share the counts.   *)
(* Either Allow is one step: under a mutex, or in one transaction, whose   *)
(* failure (503) changes nothing.                                          *)
(***************************************************************************)
EXTENDS Integers, FiniteSets, FiniteSetsExt

CONSTANTS
  Ids,        \* what clientID makes of a request
  Limit,      \* cfg.RateLimitRequests
  Window,     \* cfg.RateLimitWindow, in ticks of the clock
  Second,     \* ticks of the clock in a second
  Limiters,   \* the limiters to choose from: "memory", "sqlite"
  MaxTime,    \* bound: the clock stops here
  MaxCount    \* bound: requests of a client in a window, refused ones too

ASSUME LimiterConstants ==
  /\ Limit \in Nat \ {0} /\ Window \in Nat \ {0} /\ Second \in Nat \ {0}
  /\ Limiters \subseteq {"memory", "sqlite"}
  /\ MaxTime \in Nat /\ MaxCount \in Nat /\ MaxCount > Limit

VARIABLES
  now,        \* time.Now()
  limiter,    \* which limiter newSQLiteRateLimiter returned
  buckets,    \* memory: id -> count and end of its window
  rows,       \* sqlite: <<id, start of the window>> -> count
  passed      \* history: how many requests of each id passed at each time of
              \* the last Window ticks

limiterVars == <<limiter, buckets, rows, passed>>

Update(f, k, v) == [x \in DOMAIN f \cup {k} |-> IF x = k THEN v ELSE f[x]]
Keep(f, P(_)) == [x \in {y \in DOMAIN f : P(y)} |-> f[x]]

LimiterInit ==
  /\ now = 0
  /\ limiter \in Limiters
  /\ buckets = [x \in {} |-> 0] /\ rows = [x \in {} |-> 0]
  /\ passed = [id \in Ids |-> [t \in 0 .. MaxTime |-> 0]]

---------------------------------------------------------------------------
(* memoryRateLimiter: a bucket whose end has passed is replaced.           *)
Bucket(id, t) ==
  IF id \notin DOMAIN buckets \/ t > buckets[id].resetAt
    THEN [count |-> 1, resetAt |-> t + Window]
    ELSE [buckets[id] EXCEPT !.count = @ + 1]

(* sqliteRateLimiter: the window now is in, and the count in it.           *)
WindowStart(t) == t - (t % Window)

Row(id, t) ==
  LET row == <<id, WindowStart(t)>>
  IN IF row \in DOMAIN rows THEN rows[row] + 1 ELSE 1

(* What Allow would answer at time t.                                      *)
Count(id, t) == IF limiter = "memory" THEN Bucket(id, t).count ELSE Row(id, t)

(* Mutant: one request too many.                                           *)
AllowedLate(id) == Count(id, now) <= Limit + 1

Allowed(id) == Count(id, now) <= Limit

(* How long a refused client has to wait.                                  *)
Left(id) ==
  IF limiter = "memory" THEN Bucket(id, now).resetAt - now
                        ELSE Window - (now - WindowStart(now))

(* Mutant: the part of a second is dropped.                                *)
RetryAfterDown(id) == Left(id) \div Second

(* The Retry-After header: the whole seconds left, plus one.               *)
RetryAfter(id) == Left(id) \div Second + 1

(* Allow counts the request, forgets what is over, and answers.            *)
Allow(id) ==
  /\ Count(id, now) <= MaxCount
  /\ IF limiter = "memory"
       THEN LET counted == Update(buckets, id, Bucket(id, now))
            IN /\ buckets' = Keep(counted, LAMBDA x : now <= counted[x].resetAt)
               /\ UNCHANGED rows
       ELSE LET counted == Update(rows, <<id, WindowStart(now)>>, Row(id, now))
            IN /\ rows' = Keep(counted, LAMBDA x : x[2] >= WindowStart(now) - 2 * Window)
               /\ UNCHANGED buckets
  /\ passed' = IF Allowed(id) THEN [passed EXCEPT ![id][now] = @ + 1] ELSE passed
  /\ UNCHANGED limiter

(* Time passes.                                                            *)
Tick ==
  /\ now < MaxTime /\ now' = now + 1
  /\ passed' = [id \in Ids |-> [t \in 0 .. MaxTime |->
                  IF t <= now' - Window THEN 0 ELSE passed[id][t]]]
  /\ UNCHANGED <<limiter, buckets, rows>>

(* A new process: the counts in memory are gone, and so is what they say   *)
(* of the past.                                                            *)
LimiterRestart ==
  /\ IF limiter = "memory"
       THEN /\ buckets' = [x \in {} |-> 0]
            /\ passed' = [id \in Ids |-> [t \in 0 .. MaxTime |-> 0]]
       ELSE UNCHANGED <<buckets, passed>>
  /\ UNCHANGED <<limiter, rows>>

---------------------------------------------------------------------------
(* In no stretch of time as long as a window do more than twice Limit      *)
(* requests of a client pass: it touches at most two windows, wherever the *)
(* limiter puts them.                                                      *)
BurstBounded ==
  \A id \in Ids : MapThenSumSet(LAMBDA t : passed[id][t], 0 .. MaxTime) <= 2 * Limit

(* A client that is refused and waits as long as Retry-After says is       *)
(* allowed then, if it sends nothing in between.                           *)
RetryIsEnough ==
  \A id \in Ids :
    ~Allowed(id) => Count(id, now + RetryAfter(id) * Second) <= Limit
===========================================================================
