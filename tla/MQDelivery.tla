------------------------------- MODULE MQDelivery -------------------------------
(***************************************************************************)
(* mqsvc: the way of a message from the queue of one trigger to its        *)
(* function, back into the queue for another try, or into the dead-letter  *)
(* queue (worker.go and rabbitmq.go).  The broker, the gateway and the     *)
(* runtime are external: their answers are choices here, and Scheduler and *)
(* RuntimeServer say what is behind them.                                  *)
(*                                                                         *)
(* The broker holds copies of messages: a retry is a new copy, published   *)
(* before the old one is acknowledged.  A copy is either ready or out at   *)
(* the consumer; it is out until it is acked or nacked on the channel that *)
(* delivered it, and ready again when that channel closes.  Every          *)
(* subscribeOnce has a channel of its own, numbered by gen.  The order of  *)
(* a queue is not kept: a requeue disturbs it, and nothing depends on it.  *)
(***************************************************************************)
EXTENDS Integers, FiniteSets, BagsExt, Bags

CONSTANTS
  Messages,         \* what producers send
  Handlers,         \* goroutines of handleDelivery
  MaxConcurrency,   \* trigger.MaxConcurrency: capacity of sem
  Prefetch,         \* trigger.Prefetch
  MaxAttempts,      \* trigger.MaxAttempts; trigger.DLQ is set
  MaxFaults,        \* bound: faults of the network, the gateway or the process
  None              \* no copy

ASSUME DeliveryAssumption ==
  /\ MaxConcurrency \in Nat \ {0}
  /\ Prefetch \in Nat \ {0}
  /\ MaxAttempts \in Nat \ {0}
  /\ MaxFaults \in Nat
  /\ None \notin [msg : Messages, attempts : Nat]

VARIABLES
  ready,      \* bag: copies in the trigger's queue
  dead,       \* bag: copies in the dead-letter queue
  out,        \* bag: copies delivered on the open channel, not acked or nacked
  buffer,     \* bag: those of them that the subscribe loop has not received
  held,       \* the copy received by the loop while it waits for sem
  hand,       \* each handler's progress, copy and channel
  gen,        \* the last channel opened by subscribeOnce
  open,       \* that channel is open
  cancelled,  \* channels up to this one had their trigger context cancelled
  sent,       \* history: messages sent
  done,       \* history: messages whose function answered below 500
  tries,      \* history: how often HandleMessage has run for each message
  lost,       \* history: releases the gateway did not confirm
  faults

queues == <<ready, dead, out>>
loop == <<buffer, held, gen, open, cancelled>>
history == <<sent, done, tries, lost>>
vars == <<queues, loop, hand, history, faults>>

Copy(m, n) == [msg |-> m, attempts |-> n]
Idle == [pc |-> "idle", copy |-> None, gen |-> 0]

Init ==
  /\ ready = EmptyBag /\ dead = EmptyBag /\ out = EmptyBag
  /\ buffer = EmptyBag /\ held = None
  /\ gen = 0 /\ open = FALSE /\ cancelled = 0
  /\ hand = [h \in Handlers |-> Idle]
  /\ sent = {} /\ done = {}
  /\ tries = [m \in Messages |-> 0]
  /\ lost = 0 /\ faults = 0

Busy(g) == {h \in Handlers : hand[h].pc # "idle" /\ hand[h].gen = g}
\* The channel that delivered h's copy is still there to take its answer.
Answerable(h) == open /\ hand[h].gen = gen
Interrupted(h) == hand[h].gen <= cancelled

Fault == faults < MaxFaults /\ faults' = faults + 1

-----------------------------------------------------------------------------
(* The queue and the subscribe loop *)

Send(m) ==
  /\ m \notin sent
  /\ sent' = sent \union {m}
  /\ ready' = BagAdd(ready, Copy(m, 0))
  /\ UNCHANGED <<dead, out, loop, hand, done, tries, lost, faults>>

\* Mutant: Subscribe returns when its channel closes.
SubscribeOnce ==
  /\ gen = cancelled /\ held = None
  /\ gen' = gen + 1
  /\ open' = TRUE
  /\ UNCHANGED <<queues, buffer, held, cancelled, hand, history, faults>>

\* subscribeOnce up to ch.Consume.  The loop comes here only when it is not
\* waiting for a slot of the last channel's sem.
Subscribe ==
  /\ ~open /\ held = None
  /\ gen' = gen + 1
  /\ open' = TRUE
  /\ UNCHANGED <<queues, buffer, held, cancelled, hand, history, faults>>

\* The broker pushes a copy while fewer than Prefetch are out.
Deliver(c) ==
  /\ open
  /\ BagCardinality(out) < Prefetch
  /\ ready' = BagRemove(ready, c)
  /\ out' = BagAdd(out, c)
  /\ buffer' = BagAdd(buffer, c)
  /\ UNCHANGED <<dead, held, gen, open, cancelled, hand, history, faults>>

Receive(c) ==
  /\ open /\ held = None
  /\ buffer' = BagRemove(buffer, c)
  /\ held' = c
  /\ UNCHANGED <<queues, gen, open, cancelled, hand, history, faults>>

\* A slot of sem is free: the goroutine starts, and with it HandleMessage.
\* The channel may have closed meanwhile.
Start(h) ==
  /\ held # None
  /\ hand[h].pc = "idle"
  /\ Cardinality(Busy(gen)) < MaxConcurrency
  /\ hand' = [hand EXCEPT ![h] = [pc |-> "acquire", copy |-> held, gen |-> gen]]
  /\ tries' = [tries EXCEPT ![held.msg] = @ + 1]
  /\ held' = None
  /\ UNCHANGED <<queues, buffer, gen, open, cancelled, sent, done, lost, faults>>

-----------------------------------------------------------------------------
(* Worker.HandleMessage *)

Goto(h, label) ==
  /\ hand' = [hand EXCEPT ![h].pc = label]
  /\ UNCHANGED <<queues, loop>>

\* Mutant: the attempt being made is counted twice.
ShouldDLQEarly(c) == c.attempts + 2 >= MaxAttempts
\* Mutant: equality, because the count only ever goes up by one.
ShouldDLQEqual(c) == c.attempts + 1 = MaxAttempts

ShouldDLQ(c) == c.attempts + 1 >= MaxAttempts
Failed(c) == IF ShouldDLQ(c) THEN "bury" ELSE "backoff"

\* The gateway refuses, cannot be reached or does not answer in ten seconds.
AcquireFails(h) ==
  /\ hand[h].pc = "acquire"
  /\ Goto(h, Failed(hand[h].copy))
  /\ UNCHANGED <<history, faults>>
\* Even if the context is cancelled: the answer may be there already.
Acquire(h) ==
  /\ hand[h].pc = "acquire"
  /\ Goto(h, "invoke")
  /\ UNCHANGED <<history, faults>>

\* invokeRuntime returns nil, or any of its errors.  A function that did its
\* work may still end in an error here: the answer is lost or too late.
Invoke(h) ==
  /\ hand[h].pc = "invoke"
  /\ Goto(h, "succeeded")
  /\ done' = done \union {hand[h].copy.msg}
  /\ UNCHANGED <<sent, tries, lost, faults>>
InvokeFails(h) ==
  /\ hand[h].pc = "invoke"
  /\ Goto(h, "failed")
  /\ UNCHANGED <<history, faults>>

Release(h) ==
  \/ /\ hand[h].pc = "succeeded"
     /\ Goto(h, "ack")
     /\ UNCHANGED <<history, faults>>
  \/ /\ hand[h].pc = "failed"
     /\ Goto(h, Failed(hand[h].copy))
     /\ UNCHANGED <<history, faults>>
\* Whatever the function said, and without shouldDLQ.
ReleaseFails(h) ==
  /\ hand[h].pc \in {"succeeded", "failed"}
  /\ Fault
  /\ lost' = lost + 1
  /\ Goto(h, "backoff")
  /\ UNCHANGED <<sent, done, tries>>

-----------------------------------------------------------------------------
(* handleDelivery: what becomes of the delivery *)

\* An ack or a nack ends the handler, and does nothing on a closed channel.
Ack(h) ==
  /\ hand[h].pc = "ack"
  /\ out' = IF Answerable(h) THEN BagRemove(out, hand[h].copy) ELSE out
  /\ hand' = [hand EXCEPT ![h] = Idle]
  /\ UNCHANGED <<ready, dead, loop, history, faults>>

\* Mutant: Nack(false, false).
NackDropping(h) ==
  /\ hand[h].pc = "nack"
  /\ out' = IF Answerable(h) THEN BagRemove(out, hand[h].copy) ELSE out
  /\ hand' = [hand EXCEPT ![h] = Idle]
  /\ UNCHANGED <<ready, dead, loop, history, faults>>

Nack(h) ==
  /\ hand[h].pc = "nack"
  /\ IF Answerable(h)
     THEN /\ out' = BagRemove(out, hand[h].copy)
          /\ ready' = BagAdd(ready, hand[h].copy)
     ELSE UNCHANGED <<ready, out>>
  /\ hand' = [hand EXCEPT ![h] = Idle]
  /\ UNCHANGED <<dead, loop, history, faults>>

Retry(c) == Copy(c.msg, c.attempts + 1)
\* The new copy reaches the trigger's queue or the dead-letter queue.
Arrive(h) ==
  LET copy == Retry(hand[h].copy)
  IN  \/ /\ hand[h].pc = "backoff"
         /\ ready' = BagAdd(ready, copy)
         /\ UNCHANGED dead
      \/ /\ hand[h].pc = "bury"
         /\ dead' = BagAdd(dead, copy)
         /\ UNCHANGED ready

\* Mutant: a published retry is followed by the nack of every failure.
PublishThenNack(h) ==
  /\ Arrive(h)
  /\ hand' = [hand EXCEPT ![h].pc = "nack"]
  /\ UNCHANGED <<out, loop, history, faults>>

\* publishWithConfirm, over a connection it opens itself if need be.
Publish(h) ==
  /\ Arrive(h)
  /\ hand' = [hand EXCEPT ![h].pc = "ack"]
  /\ UNCHANGED <<out, loop, history, faults>>
\* The copy is in the queue, but its confirm is negative, late or not awaited.
PublishUnconfirmed(h) ==
  /\ Arrive(h)
  /\ IF Interrupted(h) THEN UNCHANGED faults ELSE Fault
  /\ hand' = [hand EXCEPT ![h].pc = "nack"]
  /\ UNCHANGED <<out, loop, history>>
PublishFails(h) ==
  /\ hand[h].pc \in {"backoff", "bury"}
  /\ Fault
  /\ Goto(h, "nack")
  /\ UNCHANGED history
\* The backoff ends early: the trigger's context is cancelled.
BackoffCancelled(h) ==
  /\ hand[h].pc = "backoff"
  /\ Interrupted(h)
  /\ Goto(h, "nack")
  /\ UNCHANGED <<history, faults>>

-----------------------------------------------------------------------------
(* Channels close *)

\* The broker takes back what is out on the channel; what the consumer has
\* buffered is dropped.
Close ==
  /\ open' = FALSE
  /\ ready' = ready (+) out
  /\ out' = EmptyBag
  /\ buffer' = EmptyBag
  /\ UNCHANGED <<dead, gen>>

\* Mutant: deliveries received but not yet started survive the channel.
DisconnectBuffered ==
  /\ open
  /\ Fault
  /\ open' = FALSE
  /\ ready' = ready (+) out
  /\ out' = EmptyBag
  /\ UNCHANGED <<dead, gen, buffer, held, cancelled, hand, history>>

\* The connection breaks, or another trigger's reconnect closes it.  Handlers
\* go on, and so does a loop that waits for sem.
Disconnect ==
  /\ open
  /\ Fault
  /\ Close
  /\ UNCHANGED <<held, cancelled, hand, history>>

\* reconcileTriggers replaces the trigger, or removes it and adds it again.
Cancel ==
  /\ cancelled < gen
  /\ Fault
  /\ Close
  /\ cancelled' = gen
  /\ held' = None
  /\ UNCHANGED <<hand, history>>

\* mqsvc dies; what the gateway leased to it is left to the lease reaper.
Crash ==
  /\ gen > 0
  /\ Fault
  /\ Close
  /\ held' = None
  /\ hand' = [h \in Handlers |-> Idle]
  /\ UNCHANGED <<cancelled, history>>

-----------------------------------------------------------------------------
DeliverAny == \E c \in BagToSet(ready) : Deliver(c)
ReceiveAny == \E c \in BagToSet(buffer) : Receive(c)
StartAny == \E h \in Handlers : Start(h)
Work(h) ==
  \/ AcquireFails(h) \/ Acquire(h) \/ Invoke(h) \/ InvokeFails(h)
  \/ Release(h) \/ ReleaseFails(h)
  \/ Ack(h) \/ Nack(h)
  \/ Publish(h) \/ PublishUnconfirmed(h) \/ PublishFails(h) \/ BackoffCancelled(h)

Next ==
  \/ \E m \in Messages : Send(m)
  \/ Subscribe \/ DeliverAny \/ ReceiveAny \/ StartAny
  \/ \E h \in Handlers : Work(h)
  \/ Disconnect \/ Cancel \/ Crash

Spec == Init /\ [][Next]_vars

\* Every call a handler makes is bounded by a timeout, so each of them goes on;
\* the subscribe loop retries for as long as the trigger is enabled; the
\* broker pushes what it has.  Nobody has to send, and no fault has to happen.
FairSpec ==
  /\ Spec
  /\ WF_vars(Subscribe) /\ WF_vars(DeliverAny) /\ WF_vars(ReceiveAny) /\ WF_vars(StartAny)
  /\ \A h \in Handlers : WF_vars(Work(h))

-----------------------------------------------------------------------------
(* Properties *)

Copies == [msg : Messages, attempts : Nat]
TypeOK ==
  /\ \A bag \in {ready, dead, out, buffer} : IsABag(bag) /\ BagToSet(bag) \subseteq Copies
  /\ held \in Copies \union {None}
  /\ \A h \in Handlers :
       IF hand[h].pc = "idle" THEN hand[h] = Idle
       ELSE /\ hand[h].pc \in {"acquire", "invoke", "succeeded", "failed",
                              "backoff", "bury", "ack", "nack"}
            /\ hand[h].copy \in Copies
            /\ hand[h].gen \in 1..gen
  /\ cancelled \in 0..gen
  /\ buffer \sqsubseteq out
  /\ done \subseteq sent
  /\ lost <= faults

\* A message that a producer has sent has been dealt with by the function, or
\* the broker still has a copy of it: a delivery is acked only after a success
\* or a confirmed publish, and every other end of it leaves it in the queue.
NothingLost ==
  \A m \in sent :
    m \in done \/ \E c \in BagToSet(ready) \union BagToSet(out) \union BagToSet(dead) : c.msg = m

\* shouldDLQ counts attempts in a header that travels with the copy.  However
\* the copies multiply, none reaches the dead-letter queue before the message
\* has really been tried MaxAttempts times.
BuriedAfterAllTries ==
  \A c \in BagToSet(dead) : tries[c.msg] >= MaxAttempts

\* A copy goes past MaxAttempts only by releases that the gateway did not
\* confirm, one attempt for each.
AttemptsBounded ==
  \A c \in BagToSet(ready) \union BagToSet(out) : c.attempts < MaxAttempts + lost

\* With no fault and no change of the trigger, a message is tried at most
\* MaxAttempts times, and ends either in the function or in the dead-letter
\* queue: duplicates come from faults alone.
QuietMeansOnce ==
  faults = 0 =>
    /\ \A m \in Messages : tries[m] <= MaxAttempts
    /\ \A c \in BagToSet(dead) : c.msg \notin done

\* Every message leaves the trigger's queue for good, by success or through
\* the dead-letter queue, once the faults have stopped.
QueueDrains == <>[](ready = EmptyBag /\ out = EmptyBag)
=============================================================================
