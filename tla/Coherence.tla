----------------------------- MODULE Coherence -----------------------------
(***************************************************************************)
(* internal/coherence: an in-process bus and the coordinator that keeps    *)
(* the copies of several cache nodes apart.  Set writes one node and tells *)
(* the others to delete their copy; each node has a goroutine that takes   *)
(* events from its channel.  Server-sent-event clients (Watchers) listen   *)
(* on the same bus and come and go.                                        *)
(*                                                                         *)
(* A value does not matter here: an invalidated node has no copy at all,   *)
(* so a node's cache is the set of keys it holds.  The coordinator only    *)
(* publishes EventInvalidate, and its callers pass no ttl.  Set may make   *)
(* the node's cache evict one other key.                                   *)
(***************************************************************************)
EXTENDS Integers, Sequences, FiniteSets

CONSTANTS
  Keys,
  Nodes,      \* the keys of c.nodes
  Watchers,   \* ServeCoherenceSSE's client ids, each used once
  Writers,    \* requests that may be inside Coordinator.Set at once
  Buffer      \* the size of a subscriber's channel: 100 in the code

ASSUME CoherenceConstants ==
  /\ Buffer \in Nat \ {0}
  /\ Nodes \cap Watchers = {}

VARIABLES
  cached,     \* the keys each node's cache holds
  subs,       \* the ids in b.subscribers
  chan,       \* each id's channel: the events sent and not yet received
  gone,       \* the ids whose channel is closed
  done,       \* the nodes whose done channel is closed
  handling,   \* the key each node's goroutine has yet to delete, if any
  running,    \* the nodes whose goroutine has not returned
  writer,     \* where each request is
  closer,     \* the nodes Close has yet to shut down, in closeOnce
  lost        \* history: <<node, key>>, a copy whose invalidation was dropped

vars == <<cached, subs, chan, gone, done, handling, running, writer, closer, lost>>

Ids == Nodes \cup Watchers

Events == [key : Keys, from : Nodes]

Idle == [at |-> "idle"]

(* The requests inside Publish, which hold b.mu for reading.               *)
Publishing == {w \in Writers : writer[w].at = "sending"}

Init ==
  /\ cached = [n \in Nodes |-> {}]
  /\ subs = Nodes
  /\ chan = [i \in Ids |-> <<>>]
  /\ gone = {} /\ done = {}
  /\ handling = [n \in Nodes |-> {}]
  /\ running = Nodes
  /\ writer = [w \in Writers |-> Idle]
  /\ closer = Nodes
  /\ lost = {}

---------------------------------------------------------------------------
(* Coordinator.Set: write the node, then publish.                          *)
SetNode(w, n, k) ==
  /\ writer[w] = Idle
  /\ \E out \in {{}} \cup {{x} : x \in cached[n]} :
       cached' = [cached EXCEPT ![n] = (@ \ out) \cup {k}]
  /\ writer' = [writer EXCEPT ![w] = [at |-> "publish", event |-> [key |-> k, from |-> n]]]
  /\ lost' = lost \ {<<n, k>>}
  /\ UNCHANGED <<subs, chan, gone, done, handling, running, closer>>

(* Publish takes b.mu for reading and goes over the subscribers.           *)
PublishStart(w) ==
  /\ writer[w].at = "publish"
  /\ writer' = [writer EXCEPT ![w] =
                  [at |-> "sending", event |-> writer[w].event,
                   todo |-> subs \ {writer[w].event.from}]]
  /\ UNCHANGED <<cached, subs, chan, gone, done, handling, running, closer, lost>>

Sent(w, i) ==
  writer' = [writer EXCEPT ![w] =
               [at |-> "sending", event |-> writer[w].event, todo |-> writer[w].todo \ {i}]]

(* Mutant: one event more than the channel has room for.                   *)
PublishSendsLate(w, i) ==
  /\ writer[w].at = "sending" /\ i \in writer[w].todo
  /\ Len(chan[i]) <= Buffer
  /\ chan' = [chan EXCEPT ![i] = Append(@, writer[w].event)]
  /\ lost' = lost \ {<<i, writer[w].event.key>>}
  /\ Sent(w, i)
  /\ UNCHANGED <<cached, subs, gone, done, handling, running, closer>>

PublishSends(w, i) ==
  /\ writer[w].at = "sending" /\ i \in writer[w].todo
  /\ Len(chan[i]) < Buffer
  /\ chan' = [chan EXCEPT ![i] = Append(@, writer[w].event)]
  /\ lost' = lost \ {<<i, writer[w].event.key>>}
  /\ Sent(w, i)
  /\ UNCHANGED <<cached, subs, gone, done, handling, running, closer>>

(* The channel is full: the event being sent is dropped.                   *)
PublishDrops(w, i) ==
  /\ writer[w].at = "sending" /\ i \in writer[w].todo
  /\ Len(chan[i]) >= Buffer
  /\ lost' = IF i \in {n \in Nodes : writer[w].event.key \in cached[n]}
               THEN lost \cup {<<i, writer[w].event.key>>} ELSE lost
  /\ Sent(w, i)
  /\ UNCHANGED <<cached, subs, chan, gone, done, handling, running, closer>>

PublishEnd(w) ==
  /\ writer[w].at = "sending" /\ writer[w].todo = {}
  /\ writer' = [writer EXCEPT ![w] = Idle]
  /\ UNCHANGED <<cached, subs, chan, gone, done, handling, running, closer, lost>>

---------------------------------------------------------------------------
(* Mutant: the test of From the wrong way round.                           *)
ReceiveOwn(n) ==
  /\ n \in running /\ handling[n] = {} /\ chan[n] # <<>>
  /\ chan' = [chan EXCEPT ![n] = Tail(@)]
  /\ handling' = [handling EXCEPT ![n] = IF Head(chan[n]).from # n THEN {}
                                         ELSE {Head(chan[n]).key}]
  /\ UNCHANGED <<cached, subs, gone, done, running, writer, closer, lost>>

(* handleEvents: receive an event, then delete the key.  The test of From  *)
(* repeats Publish's.                                                      *)
Receive(n) ==
  /\ n \in running /\ handling[n] = {} /\ chan[n] # <<>>
  /\ chan' = [chan EXCEPT ![n] = Tail(@)]
  /\ handling' = [handling EXCEPT ![n] = IF Head(chan[n]).from = n THEN {}
                                         ELSE {Head(chan[n]).key}]
  /\ UNCHANGED <<cached, subs, gone, done, running, writer, closer, lost>>

(* Mutant: the goroutine deletes nothing.                                  *)
InvalidateNothing(n) ==
  /\ handling[n] # {}
  /\ handling' = [handling EXCEPT ![n] = {}]
  /\ UNCHANGED <<cached, subs, chan, gone, done, running, writer, closer, lost>>

Invalidate(n) ==
  /\ handling[n] # {}
  /\ cached' = [cached EXCEPT ![n] = @ \ handling[n]]
  /\ handling' = [handling EXCEPT ![n] = {}]
  /\ lost' = lost \ ({n} \X handling[n])
  /\ UNCHANGED <<subs, chan, gone, done, running, writer, closer>>

(* The goroutine returns when done is closed, or its channel is closed and *)
(* empty; select may still take an event that is there.                    *)
HandlerReturns(n) ==
  /\ n \in running /\ handling[n] = {}
  /\ n \in done \/ (n \in gone /\ chan[n] = <<>>)
  /\ running' = running \ {n}
  /\ UNCHANGED <<cached, subs, chan, gone, done, handling, writer, closer, lost>>

---------------------------------------------------------------------------
(* Subscribe and Unsubscribe take b.mu for writing.                        *)
Subscribe(i) ==
  /\ Publishing = {} /\ i \in Watchers /\ i \notin subs \cup gone
  /\ subs' = subs \cup {i}
  /\ UNCHANGED <<cached, chan, gone, done, handling, running, writer, closer, lost>>

(* Mutant: no lock.                                                        *)
UnsubscribeUnlocked(i) ==
  /\ i \in subs
  /\ subs' = subs \ {i} /\ gone' = gone \cup {i}

Unsubscribe(i) ==
  /\ Publishing = {}
  /\ i \in subs
  /\ subs' = subs \ {i} /\ gone' = gone \cup {i}

WatcherReads(i) ==
  /\ i \in Watchers \cap subs /\ chan[i] # <<>>
  /\ chan' = [chan EXCEPT ![i] = Tail(@)]
  /\ UNCHANGED <<cached, subs, gone, done, handling, running, writer, closer, lost>>

WatcherLeaves(i) ==
  /\ i \in Watchers /\ Unsubscribe(i)
  /\ UNCHANGED <<cached, chan, done, handling, running, writer, closer, lost>>

(* Close: for each node, close(done), then Unsubscribe.                    *)
CloseDone(n) ==
  /\ n \in closer \ done
  /\ \A m \in done : m \notin closer
  /\ done' = done \cup {n}
  /\ UNCHANGED <<cached, subs, chan, gone, handling, running, writer, closer, lost>>

CloseUnsubscribes(n) ==
  /\ n \in closer \cap done
  /\ Unsubscribe(n)
  /\ closer' = closer \ {n}
  /\ UNCHANGED <<cached, chan, done, handling, running, writer, lost>>

Write(w) == \E n \in Nodes, k \in Keys : SetNode(w, n, k)

Publish(w) ==
  \/ PublishStart(w)
  \/ \E i \in Ids : PublishSends(w, i) \/ PublishDrops(w, i)
  \/ PublishEnd(w)

Handle(n) == Receive(n) \/ Invalidate(n)

Next ==
  \/ \E w \in Writers : Write(w) \/ Publish(w)
  \/ \E n \in Nodes : Handle(n) \/ HandlerReturns(n) \/ CloseDone(n) \/ CloseUnsubscribes(n)
  \/ \E i \in Watchers : Subscribe(i) \/ WatcherReads(i) \/ WatcherLeaves(i)

Spec == Init /\ [][Next]_vars

(* Requests and goroutines run.                                            *)
FairSpec ==
  /\ Spec
  /\ \A w \in Writers : WF_vars(Publish(w))
  /\ \A n \in Nodes : WF_vars(Handle(n))

---------------------------------------------------------------------------
(* Type invariant.  A channel of the bus holds at most Buffer events.      *)
TypeOK ==
  /\ cached \in [Nodes -> SUBSET Keys]
  /\ subs \subseteq Ids /\ gone \subseteq Ids
  /\ done \subseteq Nodes /\ running \subseteq Nodes /\ closer \subseteq Nodes
  /\ chan \in [Ids -> Seq(Events)] /\ \A i \in Ids : Len(chan[i]) <= Buffer
  /\ handling \in [Nodes -> SUBSET Keys]
  /\ writer \in [Writers -> {Idle} \cup [at : {"publish"}, event : Events]
                              \cup [at : {"sending"}, event : Events, todo : SUBSET Ids]]
  /\ lost \subseteq Nodes \X Keys

(* Publish only sends on channels that are open: the map it iterates over  *)
(* does not change under it, and a send on a closed channel would panic.   *)
SendsAreSafe ==
  \A w \in Publishing : writer[w].todo \subseteq subs \ gone

(* An invalidation of k is on its way to node n.                           *)
Pending(n, k) ==
  \/ \E i \in 1 .. Len(chan[n]) : chan[n][i].key = k /\ chan[n][i].from # n
  \/ k \in handling[n]
  \/ \E w \in Writers :
       \/ /\ writer[w].at = "publish"
          /\ writer[w].event.key = k /\ writer[w].event.from # n
       \/ /\ writer[w].at = "sending"
          /\ writer[w].event.key = k /\ n \in writer[w].todo

Holds(n, k) == k \in cached[n]

(* Two nodes hold the same key only while an invalidation of it is on its  *)
(* way to one of them, or the last one sent there was dropped on a full    *)
(* channel.  Concurrent Coordinator.Sets of the key on both nodes, in any  *)
(* order with the handlers, leave no third possibility.                    *)
CopiesAreTransient ==
  \A a, b \in Nodes \cap subs, k \in Keys :
    a # b /\ Holds(a, k) /\ Holds(b, k) =>
      Pending(a, k) \/ Pending(b, k) \/ <<a, k>> \in lost \/ <<b, k>> \in lost

TwoCopies(k) == \E a, b \in Nodes : a # b /\ Holds(a, k) /\ Holds(b, k)

(* The copies of a key come down to one at most, unless an invalidation of *)
(* it was dropped or the coordinator is being closed: the goroutines of    *)
(* handleEvents work off what concurrent Sets publish.                     *)
CopiesConverge ==
  \A k \in Keys :
    TwoCopies(k) ~> \/ ~TwoCopies(k)
                    \/ \E n \in Nodes : <<n, k>> \in lost
                    \/ done # {}
===========================================================================
