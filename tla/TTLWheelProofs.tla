-------------------------- MODULE TTLWheelProofs --------------------------
(***************************************************************************)
(* For any keys, callers and ttls: the wheel's goroutine never sleeps past *)
(* a deadline it could have known of.                                      *)
(***************************************************************************)
EXTENDS TTLWheel, TLAPS

(* Nothing is on its way that would make the goroutine read again.         *)
Undisturbed == ~trigger /\ client = {}

(* What the goroutine has read is good until it is woken, in the timer and *)
(* before that in nextDur.                                                 *)
ReadIsGood ==
  run.at = "reset" /\ Undisturbed =>
    \A k \in Scheduled : run.nextDur <= left[k] + slip

WheelInv == TypeOK /\ ReadIsGood /\ NoLostWakeup

(* The invariant holds of a new wheel.                                     *)
LEMMA WheelInit == Init => WheelInv
<1> SUFFICES ASSUME Init PROVE WheelInv
  OBVIOUS
<1>1. DOMAIN left = {} /\ left \in [{} -> Nat]
  BY DEF Init
<1>2. trigger \in BOOLEAN /\ stopped \in BOOLEAN
  BY Zenon DEF Init
<1>3. client \subseteq Clients /\ timer \in Nat /\ slip \in 0 .. MaxSlip
  BY WheelConstants DEF Init
<1>4. run \in [at : {"read", "select", "returned"}]
  BY DEF Init
<1>5. TypeOK
  BY <1>1, <1>2, <1>3, <1>4 DEF TypeOK, Scheduled
<1> QED
  BY <1>1, <1>5 DEF Init, WheelInv, ReadIsGood, NoLostWakeup

(* Schedule and Wake leave a sign for the goroutine; Cancel and Stop leave *)
(* no entry it does not know of.                                           *)
LEMMA WheelCalls ==
  ASSUME WheelInv,
         \/ \E c \in Clients, k \in Keys :
              Cancel(c, k) \/ \E ttl \in TTLs : Schedule(c, k, ttl)
         \/ \E c \in Clients : Wake(c)
         \/ Stop
  PROVE  WheelInv'
<1>1. ASSUME NEW c \in Clients, NEW k \in Keys, Cancel(c, k) PROVE WheelInv'
  BY <1>1 DEF Cancel, WheelInv, TypeOK, ReadIsGood, NoLostWakeup, Undisturbed, Scheduled
<1>2. ASSUME NEW c \in Clients, NEW k \in Keys, NEW ttl \in TTLs, Schedule(c, k, ttl)
      PROVE  WheelInv'
  <2>1. client' # {}
    BY <1>2 DEF Schedule
  <2>2. PICK d \in 0 .. ttl :
          left' = [x \in Scheduled \cup {k} |-> IF x = k THEN d ELSE left[x]]
    BY <1>2 DEF Schedule
  <2>3. d \in Nat
    BY <2>2, WheelConstants
  <2>4. TypeOK'
    BY <1>2, <2>2, <2>3 DEF Schedule, WheelInv, TypeOK, Scheduled
  <2> QED
    BY <2>1, <2>4 DEF WheelInv, ReadIsGood, NoLostWakeup, Undisturbed
<1>3. ASSUME NEW c \in Clients, Wake(c) PROVE WheelInv'
  BY <1>3 DEF Wake, WheelInv, TypeOK, ReadIsGood, NoLostWakeup, Undisturbed, Scheduled
<1>4. ASSUME Stop PROVE WheelInv'
  BY <1>4 DEF Stop, WheelInv, TypeOK, ReadIsGood, NoLostWakeup, Undisturbed, Scheduled
<1> QED
  BY <1>1, <1>2, <1>3, <1>4

(* The goroutine reads the first deadline, which is no later than others,  *)
(* and hands it to the timer.                                              *)
LEMMA WheelGoroutine ==
  ASSUME WheelInv, Goroutine
  PROVE  WheelInv'
<1> USE DEF WheelInv, TypeOK, ReadIsGood, NoLostWakeup, Undisturbed, Scheduled
<1>1. CASE ReadHead
  <2>1. CASE Scheduled = {} /\ run' = [at |-> "reset", nextDur |-> Hour]
    BY <1>1, <2>1, WheelConstants DEF ReadHead
  <2>2. ASSUME NEW k \in Scheduled, \A x \in Scheduled : left[k] <= left[x],
               run' = [at |-> "reset", nextDur |-> left[k]]
        PROVE  WheelInv'
    BY <1>1, <2>2, WheelConstants DEF ReadHead
  <2> QED
    BY <1>1, <2>1, <2>2 DEF ReadHead
<1>2. CASE ResetTimer
  BY <1>2 DEF ResetTimer
<1>3. CASE SelectStop
  BY <1>3 DEF SelectStop
<1>4. CASE SelectTrigger
  BY <1>4 DEF SelectTrigger
<1>5. CASE SelectTimer
  BY <1>5 DEF SelectTimer, Due
<1>6. CASE OnExpire
  BY <1>6 DEF OnExpire
<1>7. CASE Loop
  BY <1>7 DEF Loop
<1> QED
  BY <1>1, <1>2, <1>3, <1>4, <1>5, <1>6, <1>7 DEF Goroutine

(* Time takes as much from the timer as from the deadlines, and what it    *)
(* takes from the deadlines before the Reset is in slip.                   *)
LEMMA WheelTick ==
  ASSUME WheelInv, Tick
  PROVE  WheelInv'
<1> USE DEF WheelInv, TypeOK, Scheduled
<1>1. TypeOK'
  BY WheelConstants DEF Tick, LessOne
<1>2. /\ DOMAIN left' = DOMAIN left
      /\ \A k \in Scheduled : left'[k] = LessOne(left[k]) /\ left[k] \in Nat
  BY DEF Tick
<1>3. ReadIsGood'
  <2> SUFFICES ASSUME run.at = "reset", Undisturbed, NEW k \in Scheduled
               PROVE  run.nextDur <= left'[k] + slip'
    BY <1>2 DEF ReadIsGood, Undisturbed, Tick
  <2>1. run.nextDur <= left[k] + slip /\ run.nextDur \in Nat
    BY DEF ReadIsGood
  <2>2. slip' = slip + 1 /\ slip \in Nat
    BY WheelConstants DEF Tick
  <2> QED
    BY <1>2, <2>1, <2>2 DEF LessOne
<1>4. NoLostWakeup'
  <2> SUFFICES ASSUME run.at = "select", ~trigger, client = {}, NEW k \in Scheduled
               PROVE  timer' <= left'[k] + slip'
    BY <1>2 DEF NoLostWakeup, Tick
  <2>1. timer <= left[k] + slip /\ timer \in Nat
    BY DEF NoLostWakeup
  <2>2. slip' = slip /\ slip \in Nat /\ timer' = LessOne(timer)
    BY WheelConstants DEF Tick
  <2> QED
    BY <1>2, <2>1, <2>2 DEF LessOne
<1> QED
  BY <1>1, <1>3, <1>4

(* Every step keeps the invariant.                                         *)
LEMMA WheelNext == WheelInv /\ [Next]_vars => WheelInv'
<1> SUFFICES ASSUME WheelInv, [Next]_vars PROVE WheelInv'
  OBVIOUS
<1>1. CASE UNCHANGED vars
  BY <1>1 DEF vars, WheelInv, TypeOK, ReadIsGood, NoLostWakeup, Undisturbed, Scheduled
<1> QED
  BY <1>1, WheelCalls, WheelGoroutine, WheelTick DEF Next

(* The wheel keeps its types, and the time the goroutine loses between     *)
(* reading and Reset is all that slip counts.                              *)
THEOREM WheelTypeCorrect == Spec => []TypeOK
<1>1. WheelInv => TypeOK
  BY DEF WheelInv
<1> QED
  BY <1>1, WheelInit, WheelNext, PTL DEF Spec

(* No wake-up is lost, whatever Schedule and Cancel do between any two     *)
(* steps of the goroutine.                                                 *)
THEOREM WheelNoLostWakeup == Spec => []NoLostWakeup
<1>1. WheelInv => NoLostWakeup
  BY DEF WheelInv
<1> QED
  BY <1>1, WheelInit, WheelNext, PTL DEF Spec
===========================================================================
