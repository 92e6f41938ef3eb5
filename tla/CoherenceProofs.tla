-------------------------- MODULE CoherenceProofs --------------------------
(***************************************************************************)
(* Theorems about Coherence, for any nodes, keys, requests and buffer.     *)
(*                                                                         *)
(* The inductive invariant is Inv: the types, the two subscriber sets      *)
(* apart, what Publish iterates over still subscribed and without the      *)
(* sender, and every pair of copies accounted for.                         *)
(***************************************************************************)
EXTENDS Coherence, SequenceTheorems, TLAPS

Apart == subs \cap gone = {}

(* Publish leaves the sender out.                                          *)
NoOwnEvents == \A w \in Publishing : writer[w].event.from \notin writer[w].todo

Inv == TypeOK /\ Apart /\ SendsAreSafe /\ NoOwnEvents /\ CopiesAreTransient

WriterStates ==
  {Idle} \cup [at : {"publish"}, event : Events]
         \cup [at : {"sending"}, event : Events, todo : SUBSET Ids]

(* What the at field says of a request's local state.                      *)
LEMMA WriterShape ==
  ASSUME NEW s \in WriterStates
  PROVE  /\ s.at = "publish" => s.event \in Events
         /\ s.at = "sending" => s.event \in Events /\ s.todo \subseteq Ids
         /\ s.at = "publish" => s # Idle
         /\ s.at = "sending" => s # Idle
BY DEF WriterStates, Idle

(* Sending on a channel with room keeps it within its buffer.              *)
LEMMA AppendFits ==
  ASSUME NEW q \in Seq(Events), NEW e \in Events, Len(q) < Buffer
  PROVE  /\ Append(q, e) \in Seq(Events)
         /\ Len(Append(q, e)) <= Buffer
<1>1. Len(q) \in Nat
  BY LenProperties
<1>2. Len(Append(q, e)) = Len(q) + 1 /\ Append(q, e) \in Seq(Events)
  BY AppendProperties
<1> QED
  BY <1>1, <1>2, CoherenceConstants

(* Receiving shortens a channel.                                           *)
LEMMA TailFits ==
  ASSUME NEW q \in Seq(Events), q # <<>>, Len(q) <= Buffer
  PROVE  /\ Tail(q) \in Seq(Events)
         /\ Len(Tail(q)) <= Buffer
         /\ Head(q) \in Events
<1>1. Len(q) \in Nat
  BY LenProperties
<1>2. Len(Tail(q)) = Len(q) - 1 /\ Tail(q) \in Seq(Events) /\ Head(q) \in Events
  BY HeadTailProperties
<1> QED
  BY <1>1, <1>2, CoherenceConstants

(* The initial state satisfies the invariant.                              *)
LEMMA InitInv == Init => Inv
<1> SUFFICES ASSUME Init PROVE Inv
  OBVIOUS
<1>1. <<>> \in Seq(Events) /\ Len(<<>>) = 0
  BY EmptySeq
<1>2. TypeOK
  BY <1>1, CoherenceConstants DEF Init, TypeOK, Ids
<1>3. Apart
  BY DEF Init, Apart
<1>4. SendsAreSafe
  BY DEF Init, SendsAreSafe, Publishing, Idle
<1>5. NoOwnEvents
  BY DEF Init, NoOwnEvents, Publishing, Idle
<1>6. CopiesAreTransient
  BY DEF Init, CopiesAreTransient, Holds
<1> QED
  BY <1>2, <1>3, <1>4, <1>5, <1>6 DEF Inv

(* Types are preserved, action by action.                                  *)
LEMMA TypeStep == TypeOK /\ [Next]_vars => TypeOK'
<1> SUFFICES ASSUME TypeOK, [Next]_vars PROVE TypeOK'
  OBVIOUS
<1> USE DEF TypeOK
<1>w. \A w \in Writers :
        /\ writer[w].at = "publish" => writer[w].event \in Events
        /\ writer[w].at = "sending" => writer[w].event \in Events /\ writer[w].todo \subseteq Ids
  BY WriterShape DEF WriterStates
<1>1. ASSUME NEW w \in Writers, NEW n \in Nodes, NEW k \in Keys, SetNode(w, n, k)
      PROVE  TypeOK'
  <2>1. [key |-> k, from |-> n] \in Events
    BY DEF Events
  <2>2. cached' \in [Nodes -> SUBSET Keys]
    BY <1>1 DEF SetNode
  <2> QED
    BY <1>1, <2>1, <2>2 DEF SetNode
<1>2. ASSUME NEW w \in Writers, PublishStart(w)
      PROVE  TypeOK'
  BY <1>2, <1>w DEF PublishStart
<1>3. ASSUME NEW w \in Writers, NEW i \in Ids, PublishSends(w, i)
      PROVE  TypeOK'
  <2>1. writer[w].event \in Events /\ writer[w].todo \subseteq Ids
    BY <1>3, <1>w DEF PublishSends
  <2>2. chan[i] \in Seq(Events) /\ Len(chan[i]) < Buffer
    BY <1>3 DEF PublishSends
  <2>3. Append(chan[i], writer[w].event) \in Seq(Events)
        /\ Len(Append(chan[i], writer[w].event)) <= Buffer
    BY <2>1, <2>2, AppendFits
  <2>4. chan' \in [Ids -> Seq(Events)] /\ \A j \in Ids : Len(chan'[j]) <= Buffer
    BY <1>3, <2>3 DEF PublishSends
  <2>5. writer' \in [Writers -> {Idle} \cup [at : {"publish"}, event : Events]
                              \cup [at : {"sending"}, event : Events, todo : SUBSET Ids]]
    BY <1>3, <2>1 DEF PublishSends, Sent
  <2> QED
    BY <1>3, <2>4, <2>5 DEF PublishSends
<1>4. ASSUME NEW w \in Writers, NEW i \in Ids, PublishDrops(w, i)
      PROVE  TypeOK'
  <2>1. writer[w].event \in Events /\ writer[w].todo \subseteq Ids
    BY <1>4, <1>w DEF PublishDrops
  <2>2. writer' \in [Writers -> {Idle} \cup [at : {"publish"}, event : Events]
                              \cup [at : {"sending"}, event : Events, todo : SUBSET Ids]]
    BY <1>4, <2>1 DEF PublishDrops, Sent
  <2>3. lost' \subseteq Nodes \X Keys
    BY <1>4, <2>1 DEF PublishDrops, Events
  <2> QED
    BY <1>4, <2>2, <2>3 DEF PublishDrops
<1>5. ASSUME NEW w \in Writers, PublishEnd(w)
      PROVE  TypeOK'
  BY <1>5 DEF PublishEnd
<1>6. ASSUME NEW n \in Nodes, Receive(n)
      PROVE  TypeOK'
  <2>1. n \in Ids /\ chan[n] \in Seq(Events) /\ chan[n] # <<>> /\ Len(chan[n]) <= Buffer
    BY <1>6 DEF Receive, Ids
  <2>2. Tail(chan[n]) \in Seq(Events) /\ Len(Tail(chan[n])) <= Buffer /\ Head(chan[n]) \in Events
    BY <2>1, TailFits
  <2>3. chan' \in [Ids -> Seq(Events)] /\ \A j \in Ids : Len(chan'[j]) <= Buffer
    BY <1>6, <2>2 DEF Receive
  <2>4. handling' \in [Nodes -> SUBSET Keys]
    BY <1>6, <2>2 DEF Receive, Events
  <2> QED
    BY <1>6, <2>3, <2>4 DEF Receive
<1>7. ASSUME NEW n \in Nodes, Invalidate(n)
      PROVE  TypeOK'
  BY <1>7 DEF Invalidate
<1>8. ASSUME NEW n \in Nodes, HandlerReturns(n) \/ CloseDone(n) \/ CloseUnsubscribes(n)
      PROVE  TypeOK'
  BY <1>8 DEF HandlerReturns, CloseDone, CloseUnsubscribes, Unsubscribe, Ids
<1>9. ASSUME NEW i \in Watchers, Subscribe(i) \/ WatcherLeaves(i)
      PROVE  TypeOK'
  BY <1>9 DEF Subscribe, WatcherLeaves, Unsubscribe, Ids
<1>10. ASSUME NEW i \in Watchers, WatcherReads(i)
       PROVE  TypeOK'
  <2>1. i \in Ids /\ chan[i] \in Seq(Events) /\ chan[i] # <<>> /\ Len(chan[i]) <= Buffer
    BY <1>10 DEF WatcherReads, Ids
  <2>2. Tail(chan[i]) \in Seq(Events) /\ Len(Tail(chan[i])) <= Buffer
    BY <2>1, TailFits
  <2>3. chan' \in [Ids -> Seq(Events)] /\ \A j \in Ids : Len(chan'[j]) <= Buffer
    BY <1>10, <2>2 DEF WatcherReads
  <2> QED
    BY <1>10, <2>3 DEF WatcherReads
<1>11. CASE UNCHANGED vars
  BY <1>11 DEF vars
<1> QED
  BY <1>1, <1>2, <1>3, <1>4, <1>5, <1>6, <1>7, <1>8, <1>9, <1>10, <1>11
     DEF Next, Write, Publish, Handle

---------------------------------------------------------------------------
Sending == Apart /\ SendsAreSafe /\ NoOwnEvents

(* Unsubscribe and Subscribe wait for Publish to end, and Publish starts   *)
(* from the current subscribers.                                           *)
LEMMA SendsStep ==
  TypeOK /\ Sending /\ [Next]_vars => Sending'
<1> SUFFICES ASSUME TypeOK, Sending, [Next]_vars
             PROVE  Sending'
  OBVIOUS
<1> USE DEF Sending, Apart, SendsAreSafe, NoOwnEvents, Publishing
<1>t. writer \in [Writers -> WriterStates]
  BY DEF TypeOK, WriterStates
<1>1. ASSUME NEW w \in Writers, NEW n \in Nodes, NEW k \in Keys, SetNode(w, n, k)
      PROVE  Sending'
  BY <1>1, <1>t DEF SetNode
<1>2. ASSUME NEW w \in Writers, PublishStart(w)
      PROVE  Sending'
  BY <1>2, <1>t DEF PublishStart
<1>3. ASSUME NEW w \in Writers, NEW i \in Ids, PublishSends(w, i) \/ PublishDrops(w, i)
      PROVE  Sending'
  <2>1. subs' = subs /\ gone' = gone /\ Sent(w, i) /\ writer[w].at = "sending"
    BY <1>3 DEF PublishSends, PublishDrops
  <2> QED
    BY <2>1, <1>t DEF Sent
<1>4. ASSUME NEW w \in Writers, PublishEnd(w)
      PROVE  Sending'
  BY <1>4, <1>t DEF PublishEnd, Idle
<1>5. ASSUME NEW i \in Ids, Unsubscribe(i), UNCHANGED writer
      PROVE  Sending'
  BY <1>5 DEF Unsubscribe
<1>6. ASSUME NEW i \in Watchers, Subscribe(i)
      PROVE  Sending'
  BY <1>6 DEF Subscribe
<1>7. ASSUME UNCHANGED <<subs, gone, writer>>
      PROVE  Sending'
  BY <1>7
<1>8. ASSUME NEW n \in Nodes,
             Handle(n) \/ HandlerReturns(n) \/ CloseDone(n) \/ CloseUnsubscribes(n)
      PROVE  Sending'
  BY <1>8, <1>5, <1>7
     DEF Handle, Receive, Invalidate, HandlerReturns, CloseDone, CloseUnsubscribes, Ids
<1>9. ASSUME NEW i \in Watchers, Subscribe(i) \/ WatcherReads(i) \/ WatcherLeaves(i)
      PROVE  Sending'
  BY <1>9, <1>5, <1>6, <1>7 DEF WatcherReads, WatcherLeaves, Ids
<1>10. CASE UNCHANGED vars
  BY <1>10, <1>7 DEF vars
<1> QED
  BY <1>1, <1>2, <1>3, <1>4, <1>8, <1>9, <1>10 DEF Next, Write, Publish

---------------------------------------------------------------------------
(* A channel of n that holds another node's event for k.                   *)
Queued(q, n, k) == \E i \in 1 .. Len(q) : q[i].key = k /\ q[i].from # n

(* Sending keeps what is queued and queues the event.                      *)
LEMMA QueuedAppend ==
  ASSUME NEW q \in Seq(Events), NEW e \in Events, NEW n \in Nodes, NEW k \in Keys
  PROVE  /\ Queued(q, n, k) => Queued(Append(q, e), n, k)
         /\ e.from # n => Queued(Append(q, e), n, e.key)
<1>1. /\ Len(Append(q, e)) = Len(q) + 1
      /\ \A i \in 1 .. Len(q) : Append(q, e)[i] = q[i]
      /\ Append(q, e)[Len(q) + 1] = e
  BY AppendProperties
<1>2. Len(q) \in Nat
  BY LenProperties
<1> QED
  BY <1>1, <1>2 DEF Queued

(* Receiving takes the first event and keeps the others.                   *)
LEMMA QueuedTail ==
  ASSUME NEW q \in Seq(Events), q # <<>>, NEW n \in Nodes, NEW k \in Keys, Queued(q, n, k)
  PROVE  (Head(q).key = k /\ Head(q).from # n) \/ Queued(Tail(q), n, k)
<1>1. /\ Len(Tail(q)) = Len(q) - 1
      /\ \A i \in 1 .. Len(Tail(q)) : Tail(q)[i] = q[i + 1]
      /\ Head(q) = q[1]
  BY HeadTailProperties
<1>2. Len(q) \in Nat
  BY LenProperties
<1>3. PICK i \in 1 .. Len(q) : q[i].key = k /\ q[i].from # n
  BY DEF Queued
<1>4. CASE i = 1
  BY <1>1, <1>3, <1>4
<1>5. CASE i # 1
  <2>1. i - 1 \in 1 .. Len(Tail(q)) /\ Tail(q)[i - 1] = q[i]
    BY <1>1, <1>2, <1>5
  <2> QED
    BY <2>1, <1>3 DEF Queued
<1> QED
  BY <1>4, <1>5

---------------------------------------------------------------------------
(* A copy that an invalidation will remove, or should have.                *)
Due(n, k) == Pending(n, k) \/ <<n, k>> \in lost

(* A request that is about to tell n to invalidate k.                      *)
Tells(s, n, k) ==
  \/ s.at = "publish" /\ s.event.key = k /\ s.event.from # n
  \/ s.at = "sending" /\ s.event.key = k /\ n \in s.todo

(* The three places an invalidation on its way can be in.                  *)
LEMMA PendingCases ==
  ASSUME NEW n \in Nodes, NEW k \in Keys
  PROVE  /\ Pending(n, k) <=> \/ Queued(chan[n], n, k)
                              \/ k \in handling[n]
                              \/ \E w \in Writers : Tells(writer[w], n, k)
         /\ Pending(n, k)' <=> \/ Queued(chan'[n], n, k)
                               \/ k \in handling'[n]
                               \/ \E w \in Writers : Tells(writer'[w], n, k)
BY DEF Pending, Queued, Tells

(* Any step of a request but the first and the last moves the invalidation *)
(* along; the last comes when every subscriber was told.                   *)
LEMMA PublishKeepsDue ==
  ASSUME Inv, NEW w \in Writers, Publish(w),
         NEW n \in Nodes \cap subs, NEW k \in Keys, Holds(n, k), Due(n, k)
  PROVE  Due(n, k)'
<1> USE DEF Inv
<1>t. writer \in [Writers -> WriterStates] /\ n \in Ids /\ chan[n] \in Seq(Events)
  BY DEF TypeOK, WriterStates, Ids
<1>e. ASSUME writer[w].at \in {"publish", "sending"}
      PROVE  writer[w].event \in Events
  BY <1>e, <1>t, WriterShape
<1>1. CASE PublishStart(w)
  <2>1. chan' = chan /\ handling' = handling /\ lost' = lost
    BY <1>1 DEF PublishStart
  <2>2. \A v \in Writers : Tells(writer[v], n, k) => Tells(writer'[v], n, k)
    BY <1>1, <1>t DEF PublishStart, Tells
  <2> QED
    BY <2>1, <2>2, PendingCases DEF Due
<1>2. ASSUME NEW i \in Ids, PublishSends(w, i)
      PROVE  Due(n, k)'
  <2>1. handling' = handling /\ writer[w].event \in Events /\ i \in writer[w].todo
    BY <1>2, <1>e DEF PublishSends
  <2>2. CASE i = n /\ writer[w].event.key = k
    <3>1. chan'[n] = Append(chan[n], writer[w].event)
      BY <1>2, <1>t, <2>2 DEF PublishSends, TypeOK
    <3>2. Queued(chan'[n], n, k)
      BY <3>1, <2>1, <2>2, <1>2, <1>t, QueuedAppend DEF NoOwnEvents, Publishing, PublishSends
    <3> QED
      BY <3>2, PendingCases DEF Due
  <2>3. CASE ~(i = n /\ writer[w].event.key = k)
    <3>1. \A v \in Writers : Tells(writer[v], n, k) => Tells(writer'[v], n, k)
      BY <1>2, <1>t, <2>3 DEF PublishSends, Sent, Tells
    <3>2. Queued(chan[n], n, k) => Queued(chan'[n], n, k)
      <4>1. CASE i = n
        BY <1>2, <1>t, <2>1, <4>1, QueuedAppend DEF PublishSends, TypeOK
      <4>2. CASE i # n
        BY <1>2, <1>t, <4>2 DEF PublishSends, TypeOK
      <4> QED
        BY <4>1, <4>2
    <3>3. <<n, k>> \in lost => <<n, k>> \in lost'
      BY <1>2, <2>3 DEF PublishSends
    <3> QED
      BY <2>1, <3>1, <3>2, <3>3, PendingCases DEF Due
  <2> QED
    BY <2>2, <2>3
<1>3. ASSUME NEW i \in Ids, PublishDrops(w, i)
      PROVE  Due(n, k)'
  <2>1. handling' = handling /\ chan' = chan /\ lost \subseteq lost'
    BY <1>3 DEF PublishDrops
  <2>2. CASE i = n /\ writer[w].event.key = k
    BY <1>3, <2>2 DEF PublishDrops, Due, Holds
  <2>3. CASE ~(i = n /\ writer[w].event.key = k)
    <3>1. \A v \in Writers : Tells(writer[v], n, k) => Tells(writer'[v], n, k)
      BY <1>3, <1>t, <2>3 DEF PublishDrops, Sent, Tells
    <3> QED
      BY <2>1, <3>1, PendingCases DEF Due
  <2> QED
    BY <2>2, <2>3
<1>4. CASE PublishEnd(w)
  <2>1. chan' = chan /\ handling' = handling /\ lost' = lost
    BY <1>4 DEF PublishEnd
  <2>2. \A v \in Writers : Tells(writer[v], n, k) => Tells(writer'[v], n, k)
    BY <1>4, <1>t DEF PublishEnd, Tells
  <2> QED
    BY <2>1, <2>2, PendingCases DEF Due
<1> QED
  BY <1>1, <1>2, <1>3, <1>4 DEF Publish

(* Steps that add no copy and keep what is due keep the invariant.         *)
LEMMA DueSuffices ==
  ASSUME CopiesAreTransient, subs' \subseteq subs \cup Watchers,
         \A n \in Nodes, k \in Keys : Holds(n, k)' => Holds(n, k),
         \A n \in Nodes \cap subs, k \in Keys : Holds(n, k)' /\ Due(n, k) => Due(n, k)'
  PROVE  CopiesAreTransient'
<1> SUFFICES ASSUME NEW a \in (Nodes \cap subs)', NEW b \in (Nodes \cap subs)', NEW k \in Keys,
                    a # b, Holds(a, k)', Holds(b, k)'
             PROVE  Due(a, k)' \/ Due(b, k)'
  BY DEF CopiesAreTransient, Due
<1>1. a \in Nodes \cap subs /\ b \in Nodes \cap subs
  BY CoherenceConstants
<1>2. Due(a, k) \/ Due(b, k)
  BY <1>1 DEF CopiesAreTransient, Due
<1> QED
  BY <1>1, <1>2

(* A Set makes every other copy of its key due at once.                    *)
LEMMA SetStep ==
  ASSUME Inv, NEW w \in Writers, NEW n \in Nodes, NEW k \in Keys, SetNode(w, n, k)
  PROVE  CopiesAreTransient'
<1> USE DEF Inv
<1>t. writer \in [Writers -> WriterStates]
  BY DEF TypeOK, WriterStates
<1>1. subs' = subs /\ chan' = chan /\ handling' = handling /\ writer[w] = Idle
  BY DEF SetNode
<1>2. \A m \in Nodes \ {n} : Pending(m, k)'
  <2>1. \A m \in Nodes \ {n} : Tells(writer'[w], m, k)
    BY <1>t DEF SetNode, Tells
  <2> QED
    BY <2>1, PendingCases
<1>3. \A m \in Nodes, j \in Keys :
        ~(m = n /\ j = k) => /\ Holds(m, j)' => Holds(m, j)
                             /\ Due(m, j) => Due(m, j)'
  <2> SUFFICES ASSUME NEW m \in Nodes, NEW j \in Keys, ~(m = n /\ j = k)
               PROVE  /\ Holds(m, j)' => Holds(m, j)
                      /\ Due(m, j) => Due(m, j)'
    OBVIOUS
  <2>1. Holds(m, j)' => Holds(m, j)
    BY DEF SetNode, Holds, TypeOK
  <2>2. \A v \in Writers : Tells(writer[v], m, j) => Tells(writer'[v], m, j)
    BY <1>t, <1>1 DEF SetNode, Tells, Idle
  <2>3. <<m, j>> \in lost => <<m, j>> \in lost'
    BY DEF SetNode
  <2> QED
    BY <1>1, <2>1, <2>2, <2>3, PendingCases DEF Due
<1> SUFFICES ASSUME NEW a \in Nodes \cap subs, NEW b \in Nodes \cap subs, NEW j \in Keys,
                    a # b, Holds(a, j)', Holds(b, j)'
             PROVE  Due(a, j)' \/ Due(b, j)'
  BY <1>1 DEF CopiesAreTransient, Due
<1>4. CASE j = k /\ (a = n \/ b = n)
  BY <1>2, <1>4 DEF Due
<1>5. CASE ~(j = k /\ (a = n \/ b = n))
  <2>1. Due(a, j) \/ Due(b, j)
    BY <1>3, <1>5 DEF CopiesAreTransient, Due
  <2> QED
    BY <2>1, <1>3, <1>5
<1> QED
  BY <1>4, <1>5

(* A handler gives up an invalidation only by deleting the copy.           *)
LEMMA HandleStep ==
  ASSUME Inv, NEW n \in Nodes, Handle(n)
  PROVE  CopiesAreTransient'
<1> USE DEF Inv
<1>t. n \in Ids /\ chan[n] \in Seq(Events) /\ writer' = writer /\ subs' = subs
  BY DEF TypeOK, Ids, Handle, Receive, Invalidate
<1>1. CASE Receive(n)
  <2>1. \A m \in Nodes, k \in Keys : Holds(m, k)' <=> Holds(m, k)
    BY <1>1 DEF Receive, Holds
  <2>2. ASSUME NEW m \in Nodes \cap subs, NEW k \in Keys, Due(m, k)
        PROVE  Due(m, k)'
    <3>1. CASE m # n
      BY <1>1, <1>t, <2>2, <3>1, PendingCases DEF Receive, Due, TypeOK, Ids
    <3>2. CASE m = n
      <4>1. chan'[n] = Tail(chan[n]) /\ chan[n] # <<>> /\ handling[n] = {} /\ lost' = lost
        BY <1>1, <1>t DEF Receive, TypeOK
      <4>2. Queued(chan[n], n, k) =>
              Queued(chan'[n], n, k) \/ (Head(chan[n]).key = k /\ Head(chan[n]).from # n)
        BY <4>1, <1>t, QueuedTail
      <4>3. Head(chan[n]).key = k /\ Head(chan[n]).from # n => k \in handling'[n]
        BY <1>1 DEF Receive, TypeOK
      <4> QED
        BY <1>t, <2>2, <3>2, <4>1, <4>2, <4>3, PendingCases DEF Due
    <3> QED
      BY <3>1, <3>2
  <2> QED
    BY <1>t, <2>1, <2>2, DueSuffices
<1>2. CASE Invalidate(n)
  <2>1. \A m \in Nodes, k \in Keys : Holds(m, k)' => Holds(m, k)
    BY <1>2 DEF Invalidate, Holds, TypeOK
  <2>2. ASSUME NEW m \in Nodes \cap subs, NEW k \in Keys, Holds(m, k)', Due(m, k)
        PROVE  Due(m, k)'
    <3>1. ~(m = n /\ k \in handling[n])
      BY <1>2, <2>2 DEF Invalidate, Holds, TypeOK
    <3>2. chan' = chan /\ (<<m, k>> \in lost => <<m, k>> \in lost')
      BY <1>2, <3>1 DEF Invalidate
    <3>3. k \in handling[m] => k \in handling'[m]
      BY <1>2, <3>1 DEF Invalidate, TypeOK
    <3> QED
      BY <1>t, <2>2, <3>2, <3>3, PendingCases DEF Due
  <2> QED
    BY <1>t, <2>1, <2>2, DueSuffices
<1> QED
  BY <1>1, <1>2 DEF Handle

(* Every step keeps every pair of copies accounted for.                    *)
LEMMA CopiesStep == Inv /\ [Next]_vars => CopiesAreTransient'
<1> SUFFICES ASSUME Inv, [Next]_vars PROVE CopiesAreTransient'
  OBVIOUS
<1>1. ASSUME NEW w \in Writers, Write(w)
      PROVE  CopiesAreTransient'
  BY <1>1, SetStep DEF Write
<1>2. ASSUME NEW w \in Writers, Publish(w)
      PROVE  CopiesAreTransient'
  <2>1. cached' = cached /\ subs' = subs
    BY <1>2 DEF Publish, PublishStart, PublishSends, PublishDrops, PublishEnd
  <2>2. \A n \in Nodes, k \in Keys : Holds(n, k)' <=> Holds(n, k)
    BY <2>1 DEF Holds
  <2>3. \A n \in Nodes \cap subs, k \in Keys : Holds(n, k)' /\ Due(n, k) => Due(n, k)'
    BY <1>2, <2>2, PublishKeepsDue
  <2> QED
    BY <2>1, <2>2, <2>3, DueSuffices DEF Inv
<1>3. ASSUME NEW n \in Nodes, Handle(n)
      PROVE  CopiesAreTransient'
  BY <1>3, HandleStep
<1>4. ASSUME UNCHANGED <<cached, handling, writer, lost>>, subs' \subseteq subs \cup Watchers,
             \A n \in Nodes : chan'[n] = chan[n]
      PROVE  CopiesAreTransient'
  <2>1. \A n \in Nodes, k \in Keys : Holds(n, k)' <=> Holds(n, k)
    BY <1>4 DEF Holds
  <2>2. \A n \in Nodes, k \in Keys : Due(n, k) => Due(n, k)'
    BY <1>4, PendingCases DEF Due
  <2> QED
    BY <1>4, <2>1, <2>2, DueSuffices DEF Inv
<1>5. ASSUME NEW n \in Nodes, HandlerReturns(n) \/ CloseDone(n) \/ CloseUnsubscribes(n)
      PROVE  CopiesAreTransient'
  BY <1>4, <1>5 DEF HandlerReturns, CloseDone, CloseUnsubscribes, Unsubscribe
<1>6. ASSUME NEW i \in Watchers, Subscribe(i) \/ WatcherLeaves(i)
      PROVE  CopiesAreTransient'
  BY <1>4, <1>6 DEF Subscribe, WatcherLeaves, Unsubscribe
<1>7. ASSUME NEW i \in Watchers, WatcherReads(i)
      PROVE  CopiesAreTransient'
  BY <1>4, <1>7, CoherenceConstants DEF WatcherReads, Inv, TypeOK, Ids
<1>8. CASE UNCHANGED vars
  BY <1>4, <1>8 DEF vars
<1> QED
  BY <1>1, <1>2, <1>3, <1>5, <1>6, <1>7, <1>8 DEF Next

(* Inv is inductive.                                                       *)
LEMMA CoherenceInductive == Spec => []Inv
<1>1. Inv /\ [Next]_vars => Inv'
  BY TypeStep, SendsStep, CopiesStep DEF Inv, Sending
<1> QED
  BY InitInv, <1>1, PTL DEF Spec

(* Type correctness of the coherence bus: no channel ever holds more than  *)
(* its buffer, whatever the requests, watchers and shutdown do.            *)
THEOREM CoherenceTypeCorrect == Spec => []TypeOK
<1>1. Inv => TypeOK
  BY DEF Inv
<1> QED
  BY CoherenceInductive, <1>1, PTL

(* Publish never sends on a closed channel, for any number of concurrent   *)
(* publishers, leaving watchers and a Close at any moment.                 *)
THEOREM CoherenceSendsSafe == Spec => []SendsAreSafe
<1>1. Inv => SendsAreSafe
  BY DEF Inv
<1> QED
  BY CoherenceInductive, <1>1, PTL

(* Two copies of a key coexist only while an invalidation of one of them   *)
(* is on its way or was dropped on a full channel, for any set of nodes,   *)
(* any number of concurrent Sets and any buffer size.                      *)
THEOREM CoherenceCopies == Spec => []CopiesAreTransient
<1>1. Inv => CopiesAreTransient
  BY DEF Inv
<1> QED
  BY CoherenceInductive, <1>1, PTL
===========================================================================
