------------------------------ MODULE TTLWheel ------------------------------
(***************************************************************************)
(* internal/ttl/wheel.go: Schedule and Cancel change a heap of deadlines   *)
(* under a mutex; one goroutine sleeps until the first deadline, pops what *)
(* is due and calls onExpire outside the mutex.  Schedule wakes it through *)
(* a channel of one slot, without waiting.                                 *)
(*                                                                         *)
(* Times are kept as time left: a deadline, or the timer, counts down to 0 *)
(* as time passes, so time itself needs no bound.  The heap and the index  *)
(* hold the same entries and are one function.                             *)
(***************************************************************************)
EXTENDS Integers

CONSTANTS
  Keys,
  TTLs,       \* the positive ttls Schedule is called with; it ignores others
  Clients,    \* callers of Schedule and Cancel at once
  Hour,       \* how long the goroutine sleeps when nothing is scheduled
  MaxSlip     \* bound: time units between reading the heap and the Reset

ASSUME WheelConstants ==
  /\ TTLs \subseteq Nat \ {0}
  /\ Hour \in Nat /\ \A ttl \in TTLs : ttl < Hour
  /\ MaxSlip \in Nat

VARIABLES
  left,       \* w.h and w.index: key -> time left to its deadline
  trigger,    \* whether w.trigger holds a token
  timer,      \* time left on the timer; at 0 its channel can be received
  stopped,    \* whether w.stop is closed
  run,        \* where the goroutine is, with its local variables
  client,     \* the callers that have yet to send on w.trigger
  slip        \* history: time lost between the last read and its Reset

vars == <<left, trigger, timer, stopped, run, client, slip>>

Scheduled == DOMAIN left
Due == {k \in Scheduled : left[k] = 0}

Init ==
  /\ left = [k \in {} |-> 0]
  /\ trigger = FALSE /\ stopped = FALSE
  /\ timer = Hour
  /\ run = [at |-> "read"]
  /\ client = {}
  /\ slip = 0

---------------------------------------------------------------------------
(* Schedule: the deadline is a ttl from now; while the caller waits for    *)
(* the mutex time goes by, so that d is left, or nothing.  Replace the     *)
(* key's entry, unlock, and then                                           *)
Schedule(c, k, ttl) ==
  /\ c \notin client
  /\ \E d \in 0 .. ttl :
       left' = [x \in Scheduled \cup {k} |-> IF x = k THEN d ELSE left[x]]
  /\ client' = client \cup {c}
  /\ UNCHANGED <<trigger, timer, stopped, run, slip>>

(* Mutant: the goroutine is woken only if it sleeps.                       *)
WakeIfAsleep(c) ==
  /\ c \in client
  /\ trigger' = (trigger \/ run.at = "select")
  /\ client' = client \ {c}
  /\ UNCHANGED <<left, timer, stopped, run, slip>>

(* wake the goroutine; a token that is there already will do.              *)
Wake(c) ==
  /\ c \in client
  /\ trigger' = TRUE
  /\ client' = client \ {c}
  /\ UNCHANGED <<left, timer, stopped, run, slip>>

Cancel(c, k) ==
  /\ c \notin client
  /\ k \in Scheduled
  /\ left' = [x \in Scheduled \ {k} |-> left[x]]
  /\ UNCHANGED <<trigger, timer, stopped, run, client, slip>>

(* Stop closes the channel; a second call would panic.                     *)
Stop ==
  /\ ~stopped /\ stopped' = TRUE
  /\ UNCHANGED <<left, trigger, timer, run, client, slip>>

---------------------------------------------------------------------------
(* The goroutine: how long to the first deadline, read under the mutex;    *)
(* w.h[0] is an entry whose deadline is the first.                         *)
ReadHead ==
  /\ run.at = "read"
  /\ \/ Scheduled = {} /\ run' = [at |-> "reset", nextDur |-> Hour]
     \/ \E k \in Scheduled :
          /\ \A x \in Scheduled : left[k] <= left[x]
          /\ run' = [at |-> "reset", nextDur |-> left[k]]
  /\ slip' = 0
  /\ UNCHANGED <<left, trigger, timer, stopped, client>>

(* timer.Stop, draining its channel, and timer.Reset.                      *)
ResetTimer ==
  /\ run.at = "reset"
  /\ timer' = run.nextDur
  /\ run' = [at |-> "select"]
  /\ UNCHANGED <<left, trigger, stopped, client, slip>>

SelectStop ==
  /\ run.at = "select" /\ stopped
  /\ run' = [at |-> "returned"]
  /\ UNCHANGED <<left, trigger, timer, stopped, client, slip>>

(* Mutant: the goroutine returns where it should continue.                 *)
SelectTriggerReturns ==
  /\ run.at = "select" /\ trigger
  /\ trigger' = FALSE
  /\ run' = [at |-> "returned"]
  /\ UNCHANGED <<left, timer, stopped, client, slip>>

SelectTrigger ==
  /\ run.at = "select" /\ trigger
  /\ trigger' = FALSE
  /\ run' = [at |-> "read"]
  /\ UNCHANGED <<left, timer, stopped, client, slip>>

(* The timer fires: pop everything that is due.                            *)
SelectTimer ==
  /\ run.at = "select" /\ timer = 0
  /\ run' = [at |-> "call", expired |-> Due]
  /\ left' = [k \in Scheduled \ Due |-> left[k]]
  /\ UNCHANGED <<trigger, timer, stopped, client, slip>>

(* onExpire(k), outside the mutex.                                         *)
OnExpire ==
  /\ run.at = "call"
  /\ \E k \in run.expired : run' = [run EXCEPT !.expired = @ \ {k}]
  /\ UNCHANGED <<left, trigger, timer, stopped, client, slip>>

Loop ==
  /\ run.at = "call" /\ run.expired = {}
  /\ run' = [at |-> "read"]
  /\ UNCHANGED <<left, trigger, timer, stopped, client, slip>>

(* Mutant: nextDur may be negative.                                        *)
LessOneBelow0(t) == t - 1

(* Time passes.  nextDur < 0 becomes 0 in the code.                        *)
LessOne(t) == IF t > 0 THEN t - 1 ELSE 0

Tick ==
  /\ left' = [k \in Scheduled |-> LessOne(left[k])]
  /\ timer' = LessOne(timer)
  /\ slip' = slip + (IF run.at = "reset" THEN 1 ELSE 0)
  /\ run.at = "reset" => slip < MaxSlip
  /\ UNCHANGED <<trigger, stopped, run, client>>

Goroutine ==
  \/ ReadHead \/ ResetTimer
  \/ SelectStop \/ SelectTrigger \/ SelectTimer
  \/ OnExpire \/ Loop

Next ==
  \/ \E c \in Clients, k \in Keys : Cancel(c, k) \/ \E ttl \in TTLs : Schedule(c, k, ttl)
  \/ \E c \in Clients : Wake(c)
  \/ Stop
  \/ Goroutine
  \/ Tick

Spec == Init /\ [][Next]_vars

(* The goroutine and the callers run, time passes, and a select with       *)
(* several channels ready does not for ever avoid the timer's.             *)
FairSpec ==
  /\ Spec
  /\ WF_vars(Goroutine) /\ SF_vars(SelectTimer)
  /\ WF_vars(Tick)
  /\ \A c \in Clients : WF_vars(Wake(c))

---------------------------------------------------------------------------
(* Type invariant of the wheel.                                            *)
TypeOK ==
  /\ Scheduled \subseteq Keys /\ left \in [Scheduled -> Nat]
  /\ trigger \in BOOLEAN /\ stopped \in BOOLEAN
  /\ timer \in Nat /\ slip \in 0 .. MaxSlip
  /\ run \in [at : {"read", "select", "returned"}] \cup [at : {"reset"}, nextDur : Nat]
               \cup [at : {"call"}, expired : SUBSET Keys]
  /\ client \subseteq Clients

(* No wake-up is lost: when the goroutine sleeps, with no token for it and *)
(* no caller about to send one, the timer is due no later than the first   *)
(* deadline, but for the time that passed between reading and Reset.       *)
NoLostWakeup ==
  run.at = "select" /\ ~trigger /\ client = {} =>
    \A k \in Scheduled : timer <= left[k] + slip

(* A key whose deadline has come is popped for its callback, unless it is  *)
(* cancelled or scheduled anew first, or the wheel is stopped.             *)
DueExpires ==
  \A k \in Keys : k \in Due ~> k \notin Due \/ stopped
===========================================================================
