--------------------------- MODULE MQDeliveryProofs ---------------------------
(***************************************************************************)
(* Deliveries for every set of messages and handlers, any limits and any   *)
(* number of faults: no message is lost (NothingLost), none is buried      *)
(* before its tries (BuriedAfterAllTries), copies do not outgrow the       *)
(* attempts but for unconfirmed releases (AttemptsBounded), and only       *)
(* faults make duplicates (QuietMeansOnce).                                *)
(*                                                                         *)
(* How often a bag holds a copy does not matter to the first three: they   *)
(* use only which copies are in a bag.  NothingLost rests on an order.  An *)
(* ack may remove the last copy of its kind, and several handlers may be   *)
(* about to ack copies of one message; but each of them has seen success,  *)
(* or a copy with a higher count has been published.  So the copy with the *)
(* highest count is nobody's to ack.                                       *)
(*                                                                         *)
(* The types and QuietMeansOnce do need the counts.  Accounted says where  *)
(* each copy that is out is at the consumer, so that an answer always      *)
(* finds one; Quiet says that before the first fault a message is in one   *)
(* place, with a header that counts its tries exactly.                     *)
(***************************************************************************)
EXTENDS MQDelivery, TLAPS, FiniteSetTheorems

USE DEF BagToSet

-----------------------------------------------------------------------------
(* What is in a bag *)

\* Adding one puts it there.
LEMMA AddTo ==
  ASSUME NEW B, NEW x
  PROVE  DOMAIN BagAdd(B, x) = DOMAIN B \cup {x}
BY DEF BagAdd

\* Removing one may remove its kind, and nothing else.
LEMMA RemoveFrom ==
  ASSUME NEW B, NEW x
  PROVE  /\ DOMAIN BagRemove(B, x) \subseteq DOMAIN B
         /\ DOMAIN B \ {x} \subseteq DOMAIN BagRemove(B, x)
BY DEF BagRemove

\* A joint bag has what either has.
LEMMA Join ==
  ASSUME NEW A, NEW B
  PROVE  DOMAIN (A (+) B) = DOMAIN A \cup DOMAIN B
BY DEF (+)

\* The empty bag has nothing.
LEMMA Nothing == DOMAIN EmptyBag = {}
BY DEF EmptyBag, SetToBag

-----------------------------------------------------------------------------
(* How often a copy is in a bag *)

Count(B, c) == IF c \in DOMAIN B THEN B[c] ELSE 0

\* A bag with one more.
LEMMA AddCount ==
  ASSUME NEW B, NEW x, IsABag(B)
  PROVE  /\ IsABag(BagAdd(B, x))
         /\ Count(BagAdd(B, x), x) = Count(B, x) + 1
         /\ \A c : c # x => Count(BagAdd(B, x), c) = Count(B, c)
<1>1. CASE x \in DOMAIN B
  BY <1>1 DEF IsABag, BagAdd, Count
<1>2. CASE x \notin DOMAIN B
  BY <1>2 DEF IsABag, BagAdd, Count
<1>3. QED
  BY <1>1, <1>2

\* A bag with one less.
LEMMA RemoveCount ==
  ASSUME NEW B, NEW x, IsABag(B)
  PROVE  /\ IsABag(BagRemove(B, x))
         /\ Count(B, x) > 0 => Count(BagRemove(B, x), x) = Count(B, x) - 1
         /\ \A c : c # x => Count(BagRemove(B, x), c) = Count(B, c)
<1>1. CASE x \notin DOMAIN B
  BY <1>1 DEF IsABag, BagRemove, Count
<1>2. CASE x \in DOMAIN B /\ B[x] = 1
  BY <1>2 DEF IsABag, BagRemove, Count
<1>3. CASE x \in DOMAIN B /\ B[x] # 1
  BY <1>3 DEF IsABag, BagRemove, Count
<1>4. QED
  BY <1>1, <1>2, <1>3

\* A joint bag is a bag.
LEMMA JoinBag ==
  ASSUME NEW A, NEW B, IsABag(A), IsABag(B)
  PROVE  IsABag(A (+) B)
BY DEF IsABag, (+)

\* The empty bag is one.
LEMMA EmptyCount == IsABag(EmptyBag) /\ \A c : Count(EmptyBag, c) = 0
BY DEF EmptyBag, SetToBag, IsABag, Count

\* A count is a number, and positive for what is in the bag.
LEMMA CountNat ==
  ASSUME NEW B, IsABag(B), NEW c
  PROVE  Count(B, c) \in Nat /\ (c \in DOMAIN B <=> Count(B, c) > 0)
BY DEF IsABag, Count

\* A bag with no more of anything is a sub-bag.
LEMMA NoMoreOfAny ==
  ASSUME NEW A, NEW B, IsABag(A), IsABag(B), \A c \in DOMAIN A : Count(A, c) <= Count(B, c)
  PROVE  A \sqsubseteq B
<1>1. DOMAIN A \subseteq DOMAIN B
  BY DEF IsABag, Count
<1>2. \A c \in DOMAIN A : A[c] <= B[c]
  BY <1>1 DEF Count
<1>3. QED
  BY <1>1, <1>2 DEF \sqsubseteq

-----------------------------------------------------------------------------
(* What the steps do to what is in the bags *)

\* What Send adds.
SentBags(m) ==
  DOMAIN ready' = DOMAIN ready \cup {Copy(m, 0)} /\ UNCHANGED <<out, dead, buffer>>
\* Send adds the message's first copy, and takes nothing away.
LEMMA SendBags ==
  ASSUME NEW m \in Messages, Send(m)
  PROVE  SentBags(m)
BY AddTo DEF Send, loop, SentBags

\* What a delivery moves.
DeliveredBags(c) ==
  /\ DOMAIN ready' \subseteq DOMAIN ready
  /\ DOMAIN ready \ {c} \subseteq DOMAIN ready'
  /\ DOMAIN out' = DOMAIN out \cup {c}
  /\ DOMAIN buffer' = DOMAIN buffer \cup {c}
  /\ UNCHANGED dead
\* A delivered copy is out, and in the buffer.
LEMMA DeliverBags ==
  ASSUME NEW c \in DOMAIN ready, Deliver(c)
  PROVE  DeliveredBags(c)
BY AddTo, RemoveFrom DEF Deliver, DeliveredBags

\* What a nack moves.
NackedBags(h) ==
  /\ DOMAIN ready \subseteq DOMAIN ready'
  /\ DOMAIN ready' \subseteq DOMAIN ready \cup {hand[h].copy}
  /\ DOMAIN out' \subseteq DOMAIN out
  /\ DOMAIN out \subseteq DOMAIN out' \cup DOMAIN ready'
  /\ UNCHANGED <<dead, buffer>>
\* A nack moves the copy back, if it does anything.
LEMMA NackBags ==
  ASSUME NEW h \in Handlers, Nack(h)
  PROVE  NackedBags(h)
<1>1. UNCHANGED <<dead, buffer>>
  BY DEF Nack, loop
<1>2. CASE Answerable(h)
  <2>1. out' = BagRemove(out, hand[h].copy) /\ ready' = BagAdd(ready, hand[h].copy)
    BY <1>2 DEF Nack
  <2>2. DOMAIN ready' = DOMAIN ready \cup {hand[h].copy}
    BY <2>1, AddTo
  <2>3. /\ DOMAIN out' \subseteq DOMAIN out
        /\ DOMAIN out \ {hand[h].copy} \subseteq DOMAIN out'
    BY <2>1, RemoveFrom
  <2>4. QED
    BY <1>1, <2>2, <2>3 DEF NackedBags
<1>3. CASE ~Answerable(h)
  BY <1>1, <1>3 DEF Nack, NackedBags
<1>4. QED
  BY <1>2, <1>3

\* What a publish adds.
ArrivedBags(h) ==
  \/ /\ hand[h].pc = "backoff"
     /\ DOMAIN ready' = DOMAIN ready \cup {Retry(hand[h].copy)}
     /\ UNCHANGED dead
  \/ /\ hand[h].pc = "bury"
     /\ DOMAIN dead' = DOMAIN dead \cup {Retry(hand[h].copy)}
     /\ UNCHANGED ready
\* A published copy is in the trigger's queue, or buried.
LEMMA ArriveBags ==
  ASSUME NEW h \in Handlers, Arrive(h)
  PROVE  ArrivedBags(h)
BY AddTo DEF Arrive, ArrivedBags

\* What a closing channel moves.
ClosedBags ==
  /\ DOMAIN ready' = DOMAIN ready \cup DOMAIN out
  /\ DOMAIN out' = {} /\ DOMAIN buffer' = {}
  /\ UNCHANGED dead
\* When a channel closes, what was out on it is ready again.
LEMMA CloseBags ==
  ASSUME Close
  PROVE  ClosedBags
BY Join, Nothing DEF Close, ClosedBags

-----------------------------------------------------------------------------
(* The invariant *)

Labels == {"idle", "acquire", "invoke", "succeeded", "failed", "backoff", "bury", "ack", "nack"}

Types ==
  /\ DOMAIN ready \subseteq Copies /\ DOMAIN out \subseteq Copies
  /\ DOMAIN dead \subseteq Copies /\ DOMAIN buffer \subseteq Copies
  /\ held \in Copies \cup {None}
  /\ hand \in [Handlers -> [pc : Labels, copy : Copies \cup {None}, gen : Int]]
  /\ \A h \in Handlers : hand[h].pc # "idle" => hand[h].copy \in Copies
  /\ gen \in Int
  /\ tries \in [Messages -> Nat]
  /\ lost \in Nat

\* A copy's header counts no more attempts than were made.
Counted ==
  /\ \A c \in DOMAIN ready \cup DOMAIN out \cup DOMAIN buffer : tries[c.msg] >= c.attempts
  /\ held # None => tries[held.msg] >= held.attempts
  /\ \A h \in Handlers : hand[h].pc # "idle" => tries[hand[h].copy.msg] > hand[h].copy.attempts
  /\ \A h \in Handlers : hand[h].pc = "bury" => ShouldDLQ(hand[h].copy)
  /\ BuriedAfterAllTries

\* What will be published is bounded already.
Bounded ==
  /\ AttemptsBounded
  /\ \A c \in DOMAIN buffer : c.attempts < MaxAttempts + lost
  /\ held # None => held.attempts < MaxAttempts + lost
  /\ \A h \in Handlers : hand[h].pc # "idle" => hand[h].copy.attempts < MaxAttempts + lost
  /\ \A h \in Handlers : hand[h].pc = "backoff" => hand[h].copy.attempts + 1 < MaxAttempts + lost

\* A copy about to be acked has been dealt with, or outlived.
Stored == DOMAIN ready \cup DOMAIN out \cup DOMAIN dead
Outlived(copy) ==
  \/ copy.msg \in done
  \/ \E c \in Stored : c.msg = copy.msg /\ c.attempts > copy.attempts
Kept ==
  /\ \A h \in Handlers : hand[h].pc = "succeeded" => hand[h].copy.msg \in done
  /\ \A h \in Handlers : hand[h].pc = "ack" => Outlived(hand[h].copy)
  /\ NothingLost

Inv == Types /\ Counted /\ Bounded /\ Kept

-----------------------------------------------------------------------------
\* Every step keeps the state well typed.
LEMMA TypesStep ==
  ASSUME Inv, [Next]_vars
  PROVE  Types'
<1> USE DeliveryAssumption DEF queues, loop, history, Inv, Types, Copies, Labels
<1>1. ASSUME NEW m \in Messages, Send(m) PROVE Types'
  <2>1. SentBags(m)
    BY <1>1, SendBags
  <2>2. QED
    BY <1>1, <2>1 DEF Send, Copy, SentBags
<1>2. ASSUME Subscribe PROVE Types'
  BY <1>2 DEF Subscribe
<1>3. ASSUME NEW c \in DOMAIN ready, Deliver(c) PROVE Types'
  <2>1. DeliveredBags(c)
    BY <1>3, DeliverBags
  <2>2. QED
    BY <1>3, <2>1 DEF Deliver, DeliveredBags
<1>4. ASSUME NEW c \in DOMAIN buffer, Receive(c) PROVE Types'
  BY <1>4, RemoveFrom DEF Receive
<1>5. ASSUME NEW h \in Handlers, Start(h) PROVE Types'
  BY <1>5 DEF Start, Copy
<1>6. ASSUME NEW h \in Handlers, AcquireFails(h) PROVE Types'
  BY <1>6 DEF AcquireFails, Goto, Failed, ShouldDLQ
<1>7. ASSUME NEW h \in Handlers, Acquire(h) PROVE Types'
  BY <1>7 DEF Acquire, Goto
<1>8. ASSUME NEW h \in Handlers, Invoke(h) PROVE Types'
  BY <1>8 DEF Invoke, Goto
<1>9. ASSUME NEW h \in Handlers, InvokeFails(h) PROVE Types'
  BY <1>9 DEF InvokeFails, Goto
<1>10. ASSUME NEW h \in Handlers, Release(h) PROVE Types'
  BY <1>10 DEF Release, Goto, Failed, ShouldDLQ
<1>11. ASSUME NEW h \in Handlers, ReleaseFails(h) PROVE Types'
  BY <1>11 DEF ReleaseFails, Goto, Fault
<1>12. ASSUME NEW h \in Handlers, Ack(h) PROVE Types'
  BY <1>12, RemoveFrom DEF Ack, Idle
<1>13. ASSUME NEW h \in Handlers, Nack(h) PROVE Types'
  <2>1. NackedBags(h)
    BY <1>13, NackBags
  <2>2. QED
    BY <1>13, <2>1 DEF Nack, Idle, NackedBags
<1>14. ASSUME NEW h \in Handlers, Publish(h) PROVE Types'
  <2>1. ArrivedBags(h)
    BY <1>14, ArriveBags DEF Publish
  <2>2. QED
    BY <1>14, <2>1 DEF Publish, Retry, Copy, ArrivedBags
<1>15. ASSUME NEW h \in Handlers, PublishUnconfirmed(h) PROVE Types'
  <2>1. ArrivedBags(h)
    BY <1>15, ArriveBags DEF PublishUnconfirmed
  <2>2. QED
    BY <1>15, <2>1 DEF PublishUnconfirmed, Retry, Copy, ArrivedBags
<1>16. ASSUME NEW h \in Handlers, PublishFails(h) PROVE Types'
  BY <1>16 DEF PublishFails, Goto, Fault
<1>17. ASSUME NEW h \in Handlers, BackoffCancelled(h) PROVE Types'
  BY <1>17 DEF BackoffCancelled, Goto
<1>18. ASSUME Disconnect PROVE Types'
  <2>1. ClosedBags
    BY <1>18, CloseBags DEF Disconnect
  <2>2. QED
    BY <1>18, <2>1 DEF Disconnect, Close, ClosedBags
<1>19. ASSUME Cancel PROVE Types'
  <2>1. ClosedBags
    BY <1>19, CloseBags DEF Cancel
  <2>2. QED
    BY <1>19, <2>1 DEF Cancel, Close, ClosedBags
<1>20. ASSUME Crash PROVE Types'
  <2>1. ClosedBags
    BY <1>20, CloseBags DEF Crash
  <2>2. QED
    BY <1>20, <2>1 DEF Crash, Idle, Close, ClosedBags
<1>21. ASSUME UNCHANGED vars PROVE Types'
  BY <1>21 DEF vars
<1> HIDE DEF Inv, Types, Copies, Labels
<1>22. QED
  BY <1>1, <1>2, <1>3, <1>4, <1>5, <1>6, <1>7, <1>8, <1>9, <1>10, <1>11,
     <1>12, <1>13, <1>14, <1>15, <1>16, <1>17, <1>18, <1>19, <1>20, <1>21
  DEF Next, DeliverAny, ReceiveAny, StartAny, Work

\* A copy's count lags behind the tries.
LEMMA CountedStep ==
  ASSUME Inv, Types', [Next]_vars
  PROVE  Counted'
<1> USE DeliveryAssumption DEF queues, loop, history, Inv, Types, Copies,
        Counted, BuriedAfterAllTries, ShouldDLQ
<1>1. ASSUME NEW m \in Messages, Send(m) PROVE Counted'
  <2>1. SentBags(m)
    BY <1>1, SendBags
  <2>2. QED
    BY <1>1, <2>1 DEF Send, Copy, SentBags
<1>2. ASSUME Subscribe PROVE Counted'
  BY <1>2 DEF Subscribe
<1>3. ASSUME NEW c \in DOMAIN ready, Deliver(c) PROVE Counted'
  <2>1. DeliveredBags(c)
    BY <1>3, DeliverBags
  <2>2. QED
    BY <1>3, <2>1 DEF Deliver, DeliveredBags
<1>4. ASSUME NEW c \in DOMAIN buffer, Receive(c) PROVE Counted'
  BY <1>4, RemoveFrom DEF Receive
<1>5. ASSUME NEW h \in Handlers, Start(h) PROVE Counted'
  BY <1>5 DEF Start, Copy
<1>6. ASSUME NEW h \in Handlers, AcquireFails(h) PROVE Counted'
  BY <1>6 DEF AcquireFails, Goto, Failed, ShouldDLQ
<1>7. ASSUME NEW h \in Handlers, Acquire(h) PROVE Counted'
  BY <1>7 DEF Acquire, Goto
<1>8. ASSUME NEW h \in Handlers, Invoke(h) PROVE Counted'
  BY <1>8 DEF Invoke, Goto
<1>9. ASSUME NEW h \in Handlers, InvokeFails(h) PROVE Counted'
  BY <1>9 DEF InvokeFails, Goto
<1>10. ASSUME NEW h \in Handlers, Release(h) PROVE Counted'
  BY <1>10 DEF Release, Goto, Failed, ShouldDLQ
<1>11. ASSUME NEW h \in Handlers, ReleaseFails(h) PROVE Counted'
  BY <1>11 DEF ReleaseFails, Goto, Fault
<1>12. ASSUME NEW h \in Handlers, Ack(h) PROVE Counted'
  BY <1>12, RemoveFrom DEF Ack, Idle
<1>13. ASSUME NEW h \in Handlers, Nack(h) PROVE Counted'
  <2>1. NackedBags(h)
    BY <1>13, NackBags
  <2>2. QED
    BY <1>13, <2>1 DEF Nack, Idle, NackedBags
<1>14. ASSUME NEW h \in Handlers, Publish(h) PROVE Counted'
  <2>1. ArrivedBags(h)
    BY <1>14, ArriveBags DEF Publish
  <2>2. QED
    BY <1>14, <2>1 DEF Publish, Retry, Copy, ArrivedBags
<1>15. ASSUME NEW h \in Handlers, PublishUnconfirmed(h) PROVE Counted'
  <2>1. ArrivedBags(h)
    BY <1>15, ArriveBags DEF PublishUnconfirmed
  <2>2. QED
    BY <1>15, <2>1 DEF PublishUnconfirmed, Retry, Copy, ArrivedBags
<1>16. ASSUME NEW h \in Handlers, PublishFails(h) PROVE Counted'
  BY <1>16 DEF PublishFails, Goto, Fault
<1>17. ASSUME NEW h \in Handlers, BackoffCancelled(h) PROVE Counted'
  BY <1>17 DEF BackoffCancelled, Goto
<1>18. ASSUME Disconnect PROVE Counted'
  <2>1. ClosedBags
    BY <1>18, CloseBags DEF Disconnect
  <2>2. QED
    BY <1>18, <2>1 DEF Disconnect, Close, ClosedBags
<1>19. ASSUME Cancel PROVE Counted'
  <2>1. ClosedBags
    BY <1>19, CloseBags DEF Cancel
  <2>2. QED
    BY <1>19, <2>1 DEF Cancel, Close, ClosedBags
<1>20. ASSUME Crash PROVE Counted'
  <2>1. ClosedBags
    BY <1>20, CloseBags DEF Crash
  <2>2. QED
    BY <1>20, <2>1 DEF Crash, Idle, Close, ClosedBags
<1>21. ASSUME UNCHANGED vars PROVE Counted'
  BY <1>21 DEF vars
<1> HIDE DEF Inv, Types, Copies,
        Counted, BuriedAfterAllTries, ShouldDLQ
<1>22. QED
  BY <1>1, <1>2, <1>3, <1>4, <1>5, <1>6, <1>7, <1>8, <1>9, <1>10, <1>11,
     <1>12, <1>13, <1>14, <1>15, <1>16, <1>17, <1>18, <1>19, <1>20, <1>21
  DEF Next, DeliverAny, ReceiveAny, StartAny, Work

\* A copy's count is bounded.
LEMMA BoundedStep ==
  ASSUME Inv, Types', [Next]_vars
  PROVE  Bounded'
<1> USE DeliveryAssumption DEF queues, loop, history, Inv, Types, Copies, Bounded, AttemptsBounded
<1>1. ASSUME NEW m \in Messages, Send(m) PROVE Bounded'
  <2>1. SentBags(m)
    BY <1>1, SendBags
  <2>2. QED
    BY <1>1, <2>1 DEF Send, Copy, SentBags
<1>2. ASSUME Subscribe PROVE Bounded'
  BY <1>2 DEF Subscribe
<1>3. ASSUME NEW c \in DOMAIN ready, Deliver(c) PROVE Bounded'
  <2>1. DeliveredBags(c)
    BY <1>3, DeliverBags
  <2>2. QED
    BY <1>3, <2>1 DEF Deliver, DeliveredBags
<1>4. ASSUME NEW c \in DOMAIN buffer, Receive(c) PROVE Bounded'
  BY <1>4, RemoveFrom DEF Receive
<1>5. ASSUME NEW h \in Handlers, Start(h) PROVE Bounded'
  BY <1>5 DEF Start, Copy
<1>6. ASSUME NEW h \in Handlers, AcquireFails(h) PROVE Bounded'
  BY <1>6 DEF AcquireFails, Goto, Failed, ShouldDLQ
<1>7. ASSUME NEW h \in Handlers, Acquire(h) PROVE Bounded'
  BY <1>7 DEF Acquire, Goto
<1>8. ASSUME NEW h \in Handlers, Invoke(h) PROVE Bounded'
  BY <1>8 DEF Invoke, Goto
<1>9. ASSUME NEW h \in Handlers, InvokeFails(h) PROVE Bounded'
  BY <1>9 DEF InvokeFails, Goto
<1>10. ASSUME NEW h \in Handlers, Release(h) PROVE Bounded'
  <2>1. UNCHANGED <<ready, out, buffer, held, lost>>
    BY <1>10 DEF Release, Goto
  <2>2. CASE hand' = [hand EXCEPT ![h].pc = "ack"] /\ hand[h].pc # "idle"
    BY <2>1, <2>2
  <2>3. CASE hand' = [hand EXCEPT ![h].pc = Failed(hand[h].copy)] /\ hand[h].pc # "idle"
    <3>1. Failed(hand[h].copy) = "backoff" => hand[h].copy.attempts + 1 < MaxAttempts + lost
      BY <2>3 DEF Failed, ShouldDLQ
    <3>2. \A i \in Handlers : /\ hand'[i].pc # "idle" => hand[i].pc # "idle"
                              /\ hand'[i].copy = hand[i].copy
                              /\ i # h => hand'[i].pc = hand[i].pc
      BY <2>3
    <3>3. hand'[h].pc = Failed(hand[h].copy)
      BY <2>3
    <3>4. QED
      BY <2>1, <3>1, <3>2, <3>3
  <2>4. QED
    BY <1>10, <2>2, <2>3 DEF Release, Goto
<1>11. ASSUME NEW h \in Handlers, ReleaseFails(h) PROVE Bounded'
  BY <1>11 DEF ReleaseFails, Goto, Fault
<1>12. ASSUME NEW h \in Handlers, Ack(h) PROVE Bounded'
  BY <1>12, RemoveFrom DEF Ack, Idle
<1>13. ASSUME NEW h \in Handlers, Nack(h) PROVE Bounded'
  <2>1. NackedBags(h)
    BY <1>13, NackBags
  <2>2. QED
    BY <1>13, <2>1 DEF Nack, Idle, NackedBags
<1>14. ASSUME NEW h \in Handlers, Publish(h) PROVE Bounded'
  <2>1. ArrivedBags(h)
    BY <1>14, ArriveBags DEF Publish
  <2>2. QED
    BY <1>14, <2>1 DEF Publish, Retry, Copy, ArrivedBags
<1>15. ASSUME NEW h \in Handlers, PublishUnconfirmed(h) PROVE Bounded'
  <2>1. ArrivedBags(h)
    BY <1>15, ArriveBags DEF PublishUnconfirmed
  <2>2. QED
    BY <1>15, <2>1 DEF PublishUnconfirmed, Retry, Copy, ArrivedBags
<1>16. ASSUME NEW h \in Handlers, PublishFails(h) PROVE Bounded'
  BY <1>16 DEF PublishFails, Goto, Fault
<1>17. ASSUME NEW h \in Handlers, BackoffCancelled(h) PROVE Bounded'
  BY <1>17 DEF BackoffCancelled, Goto
<1>18. ASSUME Disconnect PROVE Bounded'
  <2>1. ClosedBags
    BY <1>18, CloseBags DEF Disconnect
  <2>2. QED
    BY <1>18, <2>1 DEF Disconnect, Close, ClosedBags
<1>19. ASSUME Cancel PROVE Bounded'
  <2>1. ClosedBags
    BY <1>19, CloseBags DEF Cancel
  <2>2. QED
    BY <1>19, <2>1 DEF Cancel, Close, ClosedBags
<1>20. ASSUME Crash PROVE Bounded'
  <2>1. ClosedBags
    BY <1>20, CloseBags DEF Crash
  <2>2. QED
    BY <1>20, <2>1 DEF Crash, Idle, Close, ClosedBags
<1>21. ASSUME UNCHANGED vars PROVE Bounded'
  BY <1>21 DEF vars
<1> HIDE DEF Inv, Types, Copies, Bounded, AttemptsBounded
<1>22. QED
  BY <1>1, <1>2, <1>3, <1>4, <1>5, <1>6, <1>7, <1>8, <1>9, <1>10, <1>11,
     <1>12, <1>13, <1>14, <1>15, <1>16, <1>17, <1>18, <1>19, <1>20, <1>21
  DEF Next, DeliverAny, ReceiveAny, StartAny, Work

\* A step that stores at least what was stored, and brings no handler closer to
\* an ack, acks nothing too early.
LEMMA KeptIfStored ==
  ASSUME Inv, Stored \subseteq Stored', done \subseteq done', sent' = sent,
         \A h \in Handlers :
           hand'[h].pc \in {"succeeded", "ack"} => hand'[h].pc = hand[h].pc /\ hand'[h].copy = hand[h].copy
  PROVE  Kept'
<1>1. \A h \in Handlers : hand'[h].pc = "succeeded" => hand'[h].copy.msg \in done'
  BY DEF Inv, Kept
<1>2. ASSUME NEW h \in Handlers, hand'[h].pc = "ack" PROVE Outlived(hand[h].copy)'
  <2>1. Outlived(hand[h].copy)
    BY <1>2 DEF Inv, Kept
  <2>2. hand'[h].copy = hand[h].copy
    BY <1>2
  <2>3. QED
    BY <2>1, <2>2 DEF Outlived
<1>3. NothingLost'
  <2> SUFFICES ASSUME NEW m \in sent, m \notin done
               PROVE  \E c \in Stored' : c.msg = m
    BY DEF NothingLost, Stored
  <2>1. PICK c \in Stored : c.msg = m
    BY DEF Inv, Kept, NothingLost, Stored
  <2>2. QED
    BY <2>1
<1>4. QED
  BY <1>1, <1>2, <1>3 DEF Kept

\* What is acked is not the last there is.
LEMMA KeptStep ==
  ASSUME Inv, Types', [Next]_vars
  PROVE  Kept'
<1> USE DeliveryAssumption DEF queues, loop, history, Inv, Types, Copies,
        Kept, Outlived, Stored, NothingLost
<1>1. ASSUME NEW m \in Messages, Send(m) PROVE Kept'
  <2>1. SentBags(m)
    BY <1>1, SendBags
  <2>2. QED
    BY <1>1, <2>1 DEF Send, Copy, SentBags
<1>2. ASSUME Subscribe PROVE Kept'
  BY <1>2 DEF Subscribe
<1>3. ASSUME NEW c \in DOMAIN ready, Deliver(c) PROVE Kept'
  <2>1. DeliveredBags(c)
    BY <1>3, DeliverBags
  <2>2. QED
    BY <1>3, <2>1 DEF Deliver, DeliveredBags
<1>4. ASSUME NEW c \in DOMAIN buffer, Receive(c) PROVE Kept'
  BY <1>4, RemoveFrom DEF Receive
<1>5. ASSUME NEW h \in Handlers, Start(h) PROVE Kept'
  BY <1>5 DEF Start, Copy
<1>6. ASSUME NEW h \in Handlers, AcquireFails(h) PROVE Kept'
  BY <1>6 DEF AcquireFails, Goto, Failed, ShouldDLQ
<1>7. ASSUME NEW h \in Handlers, Acquire(h) PROVE Kept'
  BY <1>7 DEF Acquire, Goto
<1>8. ASSUME NEW h \in Handlers, Invoke(h) PROVE Kept'
  BY <1>8 DEF Invoke, Goto
<1>9. ASSUME NEW h \in Handlers, InvokeFails(h) PROVE Kept'
  BY <1>9 DEF InvokeFails, Goto
<1>10. ASSUME NEW h \in Handlers, Release(h) PROVE Kept'
  BY <1>10 DEF Release, Goto, Failed, ShouldDLQ
<1>11. ASSUME NEW h \in Handlers, ReleaseFails(h) PROVE Kept'
  BY <1>11 DEF ReleaseFails, Goto, Fault
<1>12. ASSUME NEW h \in Handlers, Ack(h) PROVE Kept'
  BY <1>12, RemoveFrom DEF Ack, Idle
<1>13. ASSUME NEW h \in Handlers, Nack(h) PROVE Kept'
  <2>1. NackedBags(h)
    BY <1>13, NackBags
  <2>2. Stored \subseteq Stored'
    BY <2>1 DEF NackedBags
  <2>3. UNCHANGED <<done, sent>> /\ hand' = [hand EXCEPT ![h] = Idle]
    BY <1>13 DEF Nack
  <2>4. \A i \in Handlers : hand'[i].pc \in {"succeeded", "ack"} => hand'[i] = hand[i]
    BY <2>3 DEF Idle
  <2> HIDE DEF Inv, Types, Copies, Kept, Outlived, Stored, NothingLost
  <2>5. QED
    BY <2>2, <2>3, <2>4, KeptIfStored
<1>14. ASSUME NEW h \in Handlers, Publish(h) PROVE Kept'
  <2>1. /\ Retry(hand[h].copy) \in Stored' /\ Stored \subseteq Stored'
        /\ hand[h].copy \in Copies
    <3>1. ArrivedBags(h) /\ UNCHANGED out
      BY <1>14, ArriveBags DEF Publish
    <3>2. hand[h].copy \in Copies
      BY <1>14 DEF Publish, Arrive
    <3> HIDE DEF Inv, Types, Copies, Kept, Outlived, NothingLost
    <3>3. QED
      BY <3>1, <3>2 DEF ArrivedBags
  <2>2. UNCHANGED <<done, sent>> /\ hand' = [hand EXCEPT ![h].pc = "ack"]
    BY <1>14 DEF Publish
  <2>3. Outlived(hand[h].copy)'
    BY <2>1, <2>2 DEF Retry, Copy
  <2>4. QED
    BY <2>1, <2>2, <2>3
<1>15. ASSUME NEW h \in Handlers, PublishUnconfirmed(h) PROVE Kept'
  <2>1. ArrivedBags(h)
    BY <1>15, ArriveBags DEF PublishUnconfirmed
  <2>2. QED
    BY <1>15, <2>1 DEF PublishUnconfirmed, Retry, Copy, ArrivedBags
<1>16. ASSUME NEW h \in Handlers, PublishFails(h) PROVE Kept'
  BY <1>16 DEF PublishFails, Goto, Fault
<1>17. ASSUME NEW h \in Handlers, BackoffCancelled(h) PROVE Kept'
  BY <1>17 DEF BackoffCancelled, Goto
<1>18. ASSUME Disconnect PROVE Kept'
  <2>1. ClosedBags
    BY <1>18, CloseBags DEF Disconnect
  <2>2. QED
    BY <1>18, <2>1 DEF Disconnect, Close, ClosedBags
<1>19. ASSUME Cancel PROVE Kept'
  <2>1. ClosedBags
    BY <1>19, CloseBags DEF Cancel
  <2>2. QED
    BY <1>19, <2>1 DEF Cancel, Close, ClosedBags
<1>20. ASSUME Crash PROVE Kept'
  <2>1. ClosedBags
    BY <1>20, CloseBags DEF Crash
  <2>2. QED
    BY <1>20, <2>1 DEF Crash, Idle, Close, ClosedBags
<1>21. ASSUME UNCHANGED vars PROVE Kept'
  BY <1>21 DEF vars
<1> HIDE DEF Inv, Types, Copies,
        Kept, Outlived, Stored, NothingLost
<1>22. QED
  BY <1>1, <1>2, <1>3, <1>4, <1>5, <1>6, <1>7, <1>8, <1>9, <1>10, <1>11,
     <1>12, <1>13, <1>14, <1>15, <1>16, <1>17, <1>18, <1>19, <1>20, <1>21
  DEF Next, DeliverAny, ReceiveAny, StartAny, Work

-----------------------------------------------------------------------------
(* Every copy that is out is somewhere at the consumer *)

\* Handlers that can answer for a copy on the open channel.
Answering(c) ==
  {h \in Handlers : hand[h].pc # "idle" /\ hand[h].gen = gen /\ hand[h].copy = c}

\* A copy is out once for each time it is buffered, held, or with a handler
\* that can answer for it; nothing is out on a closed channel.
Accounted ==
  /\ ~open => out = EmptyBag /\ buffer = EmptyBag
  /\ open => \A c \in Copies :
       /\ IsFiniteSet(Answering(c))
       /\ Count(out, c) = Count(buffer, c) + (IF held = c THEN 1 ELSE 0)
                          + Cardinality(Answering(c))

Shape ==
  /\ IsABag(ready) /\ IsABag(dead) /\ IsABag(out) /\ IsABag(buffer)
  /\ \A h \in Handlers : hand[h].pc = "idle" => hand[h] = Idle
  /\ \A h \in Handlers : hand[h].pc # "idle" => hand[h].gen \in 1..gen
  /\ gen \in Nat /\ cancelled \in 0..gen
  /\ gen = 0 => ~open /\ held = None
  /\ faults \in Nat /\ lost <= faults

\* What is at the consumer depends on these only.
LEMMA SteadyAccounted ==
  ASSUME Accounted, UNCHANGED <<out, buffer, held, gen, open>>,
         \A c \in Copies : Answering(c)' = Answering(c)
  PROVE  Accounted'
BY DEF Accounted

\* A handler that goes on with its copy.
Moved(h) ==
  /\ hand[h].pc # "idle" /\ hand'[h].pc # "idle"
  /\ hand'[h].copy = hand[h].copy /\ hand'[h].gen = hand[h].gen
  /\ \A i \in Handlers \ {h} : hand'[i] = hand[i]
  /\ UNCHANGED <<out, buffer, held, gen, open, cancelled>>
\* That is what a handler does until it answers.
LEMMA HandlerMoves ==
  ASSUME Types, NEW h \in Handlers,
         \/ AcquireFails(h) \/ Acquire(h) \/ Invoke(h) \/ InvokeFails(h)
         \/ Release(h) \/ ReleaseFails(h)
         \/ Publish(h) \/ PublishUnconfirmed(h) \/ PublishFails(h) \/ BackoffCancelled(h)
  PROVE  Moved(h)
<1> USE DEF Types, Labels, Goto, queues, loop, Moved, Failed, Arrive
<1>1. CASE AcquireFails(h)
  BY <1>1 DEF AcquireFails
<1>2. CASE Acquire(h)
  BY <1>2 DEF Acquire
<1>3. CASE Invoke(h)
  BY <1>3 DEF Invoke
<1>4. CASE InvokeFails(h)
  BY <1>4 DEF InvokeFails
<1>5. CASE Release(h)
  BY <1>5 DEF Release
<1>6. CASE ReleaseFails(h)
  BY <1>6 DEF ReleaseFails
<1>7. CASE Publish(h)
  BY <1>7 DEF Publish
<1>8. CASE PublishUnconfirmed(h)
  BY <1>8 DEF PublishUnconfirmed
<1>9. CASE PublishFails(h)
  BY <1>9 DEF PublishFails
<1>10. CASE BackoffCancelled(h)
  BY <1>10 DEF BackoffCancelled
<1>11. QED
  BY <1>1, <1>2, <1>3, <1>4, <1>5, <1>6, <1>7, <1>8, <1>9, <1>10

\* It leaves the books as they are.
LEMMA MovedAccounted ==
  ASSUME Accounted, NEW h \in Handlers, Moved(h)
  PROVE  Accounted'
<1>1. \A c \in Copies : Answering(c)' = Answering(c)
  BY DEF Moved, Answering
<1>2. QED
  BY <1>1, SteadyAccounted DEF Moved

\* A handler that is done with its copy, and answers for it if it can.
Ended(h) ==
  /\ hand[h].pc # "idle" /\ hand[h].copy \in Copies
  /\ hand'[h] = Idle
  /\ \A i \in Handlers \ {h} : hand'[i] = hand[i]
  /\ out' = IF Answerable(h) THEN BagRemove(out, hand[h].copy) ELSE out
  /\ UNCHANGED <<buffer, held, gen, open, cancelled>>
\* An ack and a nack are such an end.
LEMMA HandlerEnds ==
  ASSUME Types, NEW h \in Handlers, Ack(h) \/ Nack(h)
  PROVE  Ended(h)
<1> USE DEF Types, loop, Ended
<1>1. CASE Ack(h)
  BY <1>1 DEF Ack
<1>2. CASE Nack(h)
  BY <1>2 DEF Nack
<1>3. QED
  BY <1>1, <1>2

\* One handler less, one copy less.
LEMMA EndedAccounted ==
  ASSUME Types, Shape, Accounted, NEW h \in Handlers, Ended(h)
  PROVE  Accounted'
<1>1. CASE ~open
  BY <1>1 DEF Accounted, Ended, Answerable
<1>2. CASE open /\ hand[h].gen # gen
  <2>1. out' = out
    BY <1>2 DEF Ended, Answerable
  <2>2. \A c \in Copies : Answering(c)' = Answering(c)
    BY <1>2 DEF Ended, Answering, Idle
  <2>3. QED
    BY <2>1, <2>2, SteadyAccounted DEF Ended
<1>3. CASE open /\ hand[h].gen = gen
  <2>0. PICK copy \in Copies : copy = hand[h].copy
    BY DEF Ended
  <2>1. out' = BagRemove(out, copy) /\ UNCHANGED <<buffer, held, open>>
    BY <1>3, <2>0 DEF Ended, Answerable
  <2>2. Answering(copy)' = Answering(copy) \ {h} /\ h \in Answering(copy)
    BY <1>3, <2>0 DEF Ended, Answering, Idle
  <2>3. ASSUME NEW c \in Copies, c # copy PROVE Answering(c)' = Answering(c)
    BY <1>3, <2>0, <2>3 DEF Ended, Answering, Idle
  <2>4. /\ IsFiniteSet(Answering(copy))
        /\ Count(out, copy) = Count(buffer, copy) + (IF held = copy THEN 1 ELSE 0)
                              + Cardinality(Answering(copy))
    BY <1>3 DEF Accounted, Ended
  <2>5. /\ IsFiniteSet(Answering(copy)') /\ Cardinality(Answering(copy)) \in Nat
        /\ Cardinality(Answering(copy)') = Cardinality(Answering(copy)) - 1
        /\ Cardinality(Answering(copy)') \in Nat
    <3>1. /\ IsFiniteSet(Answering(copy) \ {h})
          /\ Cardinality(Answering(copy) \ {h}) = Cardinality(Answering(copy)) - 1
      BY <2>2, <2>4, FS_RemoveElement
    <3>2. /\ Cardinality(Answering(copy)) \in Nat
          /\ Cardinality(Answering(copy) \ {h}) \in Nat
      BY <2>4, <3>1, FS_CardinalityType
    <3>3. QED
      BY <2>2, <3>1, <3>2
  <2>6. Count(out, copy) \in Nat /\ Count(buffer, copy) \in Nat
    BY CountNat DEF Shape
  <2>7. Count(out', copy) = Count(out, copy) - 1
    BY <2>1, <2>4, <2>5, <2>6, RemoveCount DEF Shape
  <2>8. \A c : c # copy => Count(out', c) = Count(out, c)
    BY <2>1, RemoveCount DEF Shape
  <2>9. ASSUME NEW c \in Copies
        PROVE  /\ IsFiniteSet(Answering(c)')
               /\ Count(out', c) = Count(buffer', c) + (IF held' = c THEN 1 ELSE 0)
                                   + Cardinality(Answering(c)')
    <3>1. CASE c = copy
      BY <2>1, <2>4, <2>5, <2>6, <2>7, <3>1
    <3>2. CASE c # copy
      BY <1>3, <2>1, <2>3, <2>8, <3>2 DEF Accounted
    <3>3. QED
      BY <3>1, <3>2
  <2>10. QED
    BY <1>3, <2>1, <2>9 DEF Accounted, Count
<1>4. QED
  BY <1>1, <1>2, <1>3

\* Every step keeps the books.
LEMMA AccountedStep ==
  ASSUME Types, Shape, Accounted, [Next]_vars
  PROVE  Accounted'
<1> USE DEF loop, queues
<1>1. ASSUME NEW m \in Messages, Send(m) PROVE Accounted'
  BY <1>1, SteadyAccounted DEF Send, Answering
<1>2. ASSUME Subscribe PROVE Accounted'
  <2>1. ~open /\ held' = None /\ out' = EmptyBag /\ buffer' = EmptyBag /\ gen' = gen + 1 /\ open'
    BY <1>2 DEF Subscribe, Accounted
  <2>2. ASSUME NEW c \in Copies PROVE Answering(c)' = {}
    <3>1. \A h \in Handlers : hand[h].pc # "idle" => hand[h].gen # gen'
      BY <2>1 DEF Shape
    <3>2. hand' = hand
      BY <1>2 DEF Subscribe
    <3>3. QED
      BY <3>1, <3>2 DEF Answering
  <2>3. \A c \in Copies : held' # c
    BY <2>1, DeliveryAssumption DEF Copies
  <2>4. QED
    BY <2>1, <2>2, <2>3, EmptyCount, FS_EmptySet DEF Accounted
<1>3. ASSUME NEW c \in DOMAIN ready, Deliver(c) PROVE Accounted'
  <2>1. /\ open /\ open' /\ UNCHANGED <<held, gen, hand>>
        /\ out' = BagAdd(out, c) /\ buffer' = BagAdd(buffer, c)
    BY <1>3 DEF Deliver
  <2>2. \A d : /\ Count(out', d) = Count(out, d) + (IF d = c THEN 1 ELSE 0)
               /\ Count(buffer', d) = Count(buffer, d) + (IF d = c THEN 1 ELSE 0)
    <3>1. \A d : Count(out, d) \in Nat /\ Count(buffer, d) \in Nat
      BY CountNat DEF Shape
    <3>2. QED
      BY <2>1, <3>1, AddCount DEF Shape
  <2>3. ASSUME NEW d \in Copies
        PROVE  /\ IsFiniteSet(Answering(d)')
               /\ Count(out', d) = Count(buffer', d) + (IF held' = d THEN 1 ELSE 0)
                                   + Cardinality(Answering(d)')
    <3>1. Answering(d)' = Answering(d)
      BY <2>1 DEF Answering
    <3>2. /\ IsFiniteSet(Answering(d))
          /\ Count(out, d) = Count(buffer, d) + (IF held = d THEN 1 ELSE 0)
                             + Cardinality(Answering(d))
      BY <2>1 DEF Accounted
    <3>3. Cardinality(Answering(d)) \in Nat /\ Count(buffer, d) \in Nat
      BY <3>2, FS_CardinalityType, CountNat DEF Shape
    <3>4. QED
      BY <2>1, <2>2, <3>1, <3>2, <3>3
  <2>4. QED
    BY <2>1, <2>3 DEF Accounted, Count
<1>4. ASSUME NEW c \in DOMAIN buffer, Receive(c) PROVE Accounted'
  <2>1. /\ open /\ open' /\ UNCHANGED <<out, gen, hand>>
        /\ buffer' = BagRemove(buffer, c) /\ held = None /\ held' = c
    BY <1>4 DEF Receive
  <2>2. \A d : /\ Count(buffer, d) \in Nat
               /\ Count(buffer', d) = Count(buffer, d) - (IF d = c THEN 1 ELSE 0)
    <3>1. \A d : Count(buffer, d) \in Nat
      BY CountNat DEF Shape
    <3>2. Count(buffer, c) > 0
      BY CountNat DEF Shape
    <3>3. QED
      BY <2>1, <3>1, <3>2, RemoveCount DEF Shape
  <2>3. ASSUME NEW d \in Copies
        PROVE  /\ IsFiniteSet(Answering(d)')
               /\ Count(out', d) = Count(buffer', d) + (IF held' = d THEN 1 ELSE 0)
                                   + Cardinality(Answering(d)')
    <3>1. Answering(d)' = Answering(d)
      BY <2>1 DEF Answering
    <3>2. /\ IsFiniteSet(Answering(d))
          /\ Count(out, d) = Count(buffer, d) + Cardinality(Answering(d))
      BY <2>1, <2>2, DeliveryAssumption DEF Accounted, Copies
    <3>3. Cardinality(Answering(d)) \in Nat
      BY <3>2, FS_CardinalityType
    <3>4. QED
      BY <2>1, <2>2, <3>1, <3>2, <3>3
  <2>4. QED
    BY <2>1, <2>3 DEF Accounted, Count
<1>5. ASSUME NEW h \in Handlers, Start(h) PROVE Accounted'
  <2>0. PICK copy \in Copies : copy = held
    BY <1>5 DEF Start, Types
  <2>1. /\ UNCHANGED <<out, buffer, gen, open>> /\ held' = None
        /\ \A i \in Handlers \ {h} : hand'[i] = hand[i]
        /\ hand'[h] = [pc |-> "acquire", copy |-> copy, gen |-> gen]
        /\ hand[h].pc = "idle"
    BY <1>5, <2>0 DEF Start, Types
  <2>2. Answering(copy)' = Answering(copy) \cup {h} /\ h \notin Answering(copy)
    BY <2>1 DEF Answering
  <2>3. ASSUME NEW c \in Copies, c # copy PROVE Answering(c)' = Answering(c)
    BY <2>1, <2>3 DEF Answering
  <2>4. ASSUME NEW c \in Copies, open
        PROVE  /\ IsFiniteSet(Answering(c)')
               /\ Count(out', c) = Count(buffer', c) + (IF held' = c THEN 1 ELSE 0)
                                   + Cardinality(Answering(c)')
    <3>1. /\ IsFiniteSet(Answering(c))
          /\ Count(out, c) = Count(buffer, c) + (IF held = c THEN 1 ELSE 0)
                             + Cardinality(Answering(c))
      BY <2>4 DEF Accounted
    <3>2. held' # c /\ Count(buffer, c) \in Nat /\ Cardinality(Answering(c)) \in Nat
      BY <2>1, <3>1, DeliveryAssumption, CountNat, FS_CardinalityType DEF Copies, Shape
    <3>3. CASE c = copy
      <4>1. IsFiniteSet(Answering(copy)')
            /\ Cardinality(Answering(copy)') = Cardinality(Answering(copy)) + 1
        BY <2>2, <3>1, <3>3, FS_AddElement
      <4>2. QED
        BY <2>0, <2>1, <3>1, <3>2, <3>3, <4>1
    <3>4. CASE c # copy
      BY <2>0, <2>1, <2>3, <3>1, <3>2, <3>4
    <3>5. QED
      BY <3>3, <3>4
  <2>5. QED
    BY <2>1, <2>4 DEF Accounted, Count
<1>6. ASSUME NEW h \in Handlers, Work(h) PROVE Accounted'
  BY <1>6, HandlerMoves, MovedAccounted, HandlerEnds, EndedAccounted DEF Work
<1>7. ASSUME Close PROVE Accounted'
  BY <1>7 DEF Close, Accounted
<1>8. ASSUME UNCHANGED vars PROVE Accounted'
  BY <1>8, SteadyAccounted DEF vars, Answering
<1>9. QED
  BY <1>1, <1>2, <1>3, <1>4, <1>5, <1>6, <1>7, <1>8
  DEF Next, DeliverAny, ReceiveAny, StartAny, Disconnect, Cancel, Crash

\* A handler that goes on or ends leaves everybody's channel as it is.
LEMMA HandlersKeepShape ==
  ASSUME Shape, NEW h \in Handlers, Moved(h) \/ Ended(h),
         IsABag(ready'), IsABag(dead'), faults' \in Nat, lost' <= faults'
  PROVE  Shape'
<1>1. IsABag(out') /\ IsABag(buffer') /\ UNCHANGED <<gen, cancelled, open, held>>
  BY RemoveCount DEF Moved, Ended, Shape
<1>2. \A i \in Handlers :
        /\ hand'[i].pc = "idle" => hand'[i] = Idle
        /\ hand'[i].pc # "idle" => hand'[i].gen \in 1..gen
  <2> SUFFICES ASSUME NEW i \in Handlers
               PROVE  /\ hand'[i].pc = "idle" => hand'[i] = Idle
                      /\ hand'[i].pc # "idle" => hand'[i].gen \in 1..gen
    OBVIOUS
  <2>1. CASE i # h
    BY <2>1 DEF Moved, Ended, Shape
  <2>2. CASE i = h /\ Moved(h)
    BY <2>2 DEF Moved, Shape
  <2>3. CASE i = h /\ Ended(h)
    BY <2>3 DEF Ended, Idle
  <2>4. QED
    BY <2>1, <2>2, <2>3
<1>3. QED
  BY <1>1, <1>2 DEF Shape

\* Every step keeps the bags bags, and the channels in order.
LEMMA ShapeStep ==
  ASSUME Types, Shape, [Next]_vars
  PROVE  Shape'
<1> USE DEF loop, queues, history
<1>1. ASSUME NEW m \in Messages, Send(m) PROVE Shape'
  BY <1>1, AddCount DEF Send, Shape
<1>2. ASSUME Subscribe PROVE Shape'
  BY <1>2 DEF Subscribe, Shape
<1>3. ASSUME NEW c \in DOMAIN ready, Deliver(c) PROVE Shape'
  BY <1>3, AddCount, RemoveCount DEF Deliver, Shape
<1>4. ASSUME NEW c \in DOMAIN buffer, Receive(c) PROVE Shape'
  BY <1>4, RemoveCount DEF Receive, Shape
<1>5. ASSUME NEW h \in Handlers, Start(h) PROVE Shape'
  <2>1. /\ UNCHANGED <<ready, dead, out, buffer, gen, open, cancelled, lost, faults>>
        /\ held' = None
        /\ \A i \in Handlers \ {h} : hand'[i] = hand[i]
        /\ hand'[h] = [pc |-> "acquire", copy |-> held, gen |-> gen]
    BY <1>5 DEF Start, Types
  <2>2. gen \in 1..gen
    BY <1>5 DEF Start, Shape
  <2>3. QED
    BY <2>1, <2>2 DEF Shape
<1>6. ASSUME NEW h \in Handlers, Work(h) PROVE Shape'
  <2>1. Moved(h) \/ Ended(h)
    BY <1>6, HandlerMoves, HandlerEnds DEF Work
  <2>2. IsABag(ready')
    <3>1. \/ UNCHANGED ready
          \/ ready' = BagAdd(ready, Retry(hand[h].copy))
          \/ ready' = BagAdd(ready, hand[h].copy)
      BY <1>6 DEF Work, AcquireFails, Acquire, Invoke, InvokeFails, Release, ReleaseFails, Ack,
         Nack, Arrive, Publish, PublishUnconfirmed, PublishFails, BackoffCancelled, Goto
    <3>2. QED
      BY <3>1, AddCount DEF Shape
  <2>3. IsABag(dead')
    <3>1. \/ UNCHANGED dead
          \/ dead' = BagAdd(dead, Retry(hand[h].copy))
      BY <1>6 DEF Work, AcquireFails, Acquire, Invoke, InvokeFails, Release, ReleaseFails, Ack,
         Nack, Arrive, Publish, PublishUnconfirmed, PublishFails, BackoffCancelled, Goto
    <3>2. QED
      BY <3>1, AddCount DEF Shape
  <2>4. faults' \in Nat /\ lost' <= faults'
    <3>1. \/ UNCHANGED lost /\ (UNCHANGED faults \/ faults' = faults + 1)
          \/ lost' = lost + 1 /\ faults' = faults + 1
      BY <1>6 DEF Work, AcquireFails, Acquire, Invoke, InvokeFails, Release, ReleaseFails, Ack,
         Nack, Arrive, Publish, PublishUnconfirmed, PublishFails, BackoffCancelled, Fault
    <3>2. QED
      BY <3>1 DEF Shape, Types
  <2>5. QED
    BY <2>1, <2>2, <2>3, <2>4, HandlersKeepShape
<1>7. ASSUME Close, UNCHANGED lost, faults' = faults + 1, held' \in {held, None}, 
             UNCHANGED cancelled \/ cancelled' = gen,
             UNCHANGED hand \/ hand' = [h \in Handlers |-> Idle]
      PROVE  Shape'
  <2>1. IsABag(ready') /\ IsABag(dead') /\ IsABag(out') /\ IsABag(buffer')
    BY <1>7, JoinBag, EmptyCount DEF Close, Shape
  <2>2. gen' = gen /\ ~open'
    BY <1>7 DEF Close
  <2>3. \A h \in Handlers : hand'[h] = hand[h] \/ hand'[h] = Idle
    BY <1>7
  <2>4. faults' \in Nat /\ lost' <= faults'
    BY <1>7 DEF Shape, Types
  <2>5. QED
    BY <1>7, <2>1, <2>2, <2>3, <2>4 DEF Shape, Idle
<1>8. ASSUME UNCHANGED vars PROVE Shape'
  BY <1>8 DEF vars, Shape
<1>9. ASSUME Disconnect \/ Cancel \/ Crash PROVE Shape'
  BY <1>7, <1>9 DEF Disconnect, Cancel, Crash, Fault
<1>10. QED
  BY <1>1, <1>2, <1>3, <1>4, <1>5, <1>6, <1>8, <1>9
  DEF Next, DeliverAny, ReceiveAny, StartAny

\* Nothing is handled that was not sent.
Known ==
  /\ done \subseteq sent
  /\ \A c \in DOMAIN ready \cup DOMAIN out \cup DOMAIN buffer \cup DOMAIN dead : c.msg \in sent
  /\ held # None => held.msg \in sent
  /\ \A h \in Handlers : hand[h].pc # "idle" => hand[h].copy.msg \in sent
\* Every copy descends from one that a producer sent.
LEMMA KnownStep ==
  ASSUME Types, Known, [Next]_vars
  PROVE  Known'
<1> USE DEF loop, queues, history
<1>1. ASSUME NEW m \in Messages, Send(m) PROVE Known'
  <2>1. SentBags(m)
    BY <1>1, SendBags
  <2>2. QED
    BY <1>1, <2>1 DEF Send, Copy, SentBags, Known
<1>2. ASSUME Subscribe PROVE Known'
  BY <1>2 DEF Subscribe, Known
<1>3. ASSUME NEW c \in DOMAIN ready, Deliver(c) PROVE Known'
  <2>1. DeliveredBags(c)
    BY <1>3, DeliverBags
  <2>2. QED
    BY <1>3, <2>1 DEF Deliver, DeliveredBags, Known
<1>4. ASSUME NEW c \in DOMAIN buffer, Receive(c) PROVE Known'
  BY <1>4, RemoveFrom DEF Receive, Known
<1>5. ASSUME NEW h \in Handlers, Start(h) PROVE Known'
  BY <1>5 DEF Start, Known, Types
<1>6. ASSUME NEW h \in Handlers, Work(h) PROVE Known'
  <2> DEFINE copy == hand[h].copy
  <2>1. hand[h].pc # "idle" /\ copy.msg \in sent /\ copy \in Copies
    BY <1>6, HandlerMoves, HandlerEnds DEF Work, Moved, Ended, Known, Types
  <2>2. \A i \in Handlers : hand'[i].pc # "idle" =>
           hand[i].pc # "idle" /\ hand'[i].copy = hand[i].copy
    BY <1>6, HandlerMoves, HandlerEnds DEF Work, Moved, Ended, Idle
  <2>3. /\ UNCHANGED <<sent, held, buffer>>
        /\ done' \subseteq done \cup {copy.msg}
    BY <1>6 DEF Work, AcquireFails, Acquire, Invoke, InvokeFails, Release, ReleaseFails, Ack,
       Nack, Arrive, Publish, PublishUnconfirmed, PublishFails, BackoffCancelled, Goto
  <2>4. \A c \in DOMAIN ready' \cup DOMAIN out' \cup DOMAIN dead' :
          \/ c \in DOMAIN ready \cup DOMAIN out \cup DOMAIN dead
          \/ c.msg = copy.msg
    <3>1. Retry(copy).msg = copy.msg
      BY DEF Retry, Copy
    <3>2. CASE Ack(h)
      BY <3>2, RemoveFrom DEF Ack
    <3>3. CASE Nack(h)
      BY <3>3, NackBags DEF NackedBags
    <3>4. CASE Publish(h) \/ PublishUnconfirmed(h)
      BY <3>1, <3>4, ArriveBags DEF Publish, PublishUnconfirmed, ArrivedBags
    <3>5. CASE UNCHANGED <<ready, out, dead>>
      BY <3>5
    <3>6. QED
      BY <1>6, <3>2, <3>3, <3>4, <3>5
      DEF Work, AcquireFails, Acquire, Invoke, InvokeFails, Release, ReleaseFails,
          PublishFails, BackoffCancelled, Goto
  <2>5. QED
    BY <2>1, <2>2, <2>3, <2>4 DEF Known
<1>7. ASSUME Close, UNCHANGED <<sent, done>>, held' \in {held, None}, 
             UNCHANGED hand \/ hand' = [h \in Handlers |-> Idle]
      PROVE  Known'
  <2>1. ClosedBags
    BY <1>7, CloseBags
  <2>2. QED
    BY <1>7, <2>1 DEF ClosedBags, Known, Idle
<1>8. ASSUME UNCHANGED vars PROVE Known'
  BY <1>8 DEF vars, Known
<1>9. ASSUME Disconnect \/ Cancel \/ Crash PROVE Known'
  BY <1>7, <1>9 DEF Disconnect, Cancel, Crash
<1>10. QED
  BY <1>1, <1>2, <1>3, <1>4, <1>5, <1>6, <1>8, <1>9
  DEF Next, DeliverAny, ReceiveAny, StartAny

-----------------------------------------------------------------------------
(* Without faults, a message is in one place *)

\* Handlers that still have to deal with their copy.
Trying(h) == hand[h].pc \in {"acquire", "invoke", "failed", "backoff", "bury"}
Waiting == DOMAIN ready \cup DOMAIN buffer \cup DOMAIN dead

\* The first channel is the only one.
OneChannel ==
  /\ cancelled = 0 /\ lost = 0 /\ gen \in 0..1 /\ (gen = 1 => open)
  /\ \A h \in Handlers : hand[h].pc # "nack"
  /\ \A h \in Handlers : hand[h].pc # "idle" => hand[h].gen = 1

\* No copy waits twice.
NoTwins ==
  /\ \A c \in DOMAIN ready : ready[c] = 1
  /\ \A c \in DOMAIN buffer : buffer[c] = 1
  /\ DOMAIN ready \cap DOMAIN buffer = {}
  /\ (DOMAIN ready \cup DOMAIN buffer) \cap DOMAIN dead = {}
  /\ \A c, d \in Waiting : c.msg = d.msg => c = d

\* A message waits, is held, or is with one handler.
OnePlace ==
  /\ held # None => \A c \in Waiting : c.msg # held.msg
  /\ \A h \in Handlers : Trying(h) =>
       /\ \A c \in Waiting : c.msg # hand[h].copy.msg
       /\ held # None => held.msg # hand[h].copy.msg
       /\ \A i \in Handlers \ {h} : Trying(i) => hand[i].copy.msg # hand[h].copy.msg

\* Wherever it is, its header counts the tries, and it has not succeeded.
ExactCount ==
  /\ \A m \in Messages \ sent : tries[m] = 0
  /\ \A c \in Waiting : c.msg \notin done /\ tries[c.msg] = c.attempts
  /\ held # None => held.msg \notin done /\ tries[held.msg] = held.attempts
  /\ \A h \in Handlers : Trying(h) =>
       hand[h].copy.msg \notin done /\ tries[hand[h].copy.msg] = hand[h].copy.attempts + 1
  /\ \A m \in Messages : tries[m] <= MaxAttempts

Quiet == faults = 0 => OneChannel /\ NoTwins /\ OnePlace /\ ExactCount

\* Adding what a bag does not have.
LEMMA AddNew ==
  ASSUME NEW B, NEW x, x \notin DOMAIN B
  PROVE  /\ DOMAIN BagAdd(B, x) = DOMAIN B \cup {x}
         /\ BagAdd(B, x)[x] = 1
         /\ \A c \in DOMAIN B : BagAdd(B, x)[c] = B[c]
BY DEF BagAdd

\* Removing the only one of its kind.
LEMMA RemoveOnly ==
  ASSUME NEW B, NEW x \in DOMAIN B, B[x] = 1
  PROVE  /\ DOMAIN BagRemove(B, x) = DOMAIN B \ {x}
         /\ \A c \in DOMAIN B \ {x} : BagRemove(B, x)[c] = B[c]
BY DEF BagRemove

\* Steps of a system that has seen no fault.
Untroubled ==
  \/ \E m \in Messages : Send(m)
  \/ Subscribe \/ DeliverAny \/ ReceiveAny \/ StartAny
  \/ \E h \in Handlers :
       \/ AcquireFails(h) \/ Acquire(h) \/ Invoke(h) \/ InvokeFails(h)
       \/ Release(h) \/ Ack(h) \/ Publish(h)
  \/ UNCHANGED vars

\* If no fault has happened after a step, the step was none, and followed none.
LEMMA QuietSteps ==
  ASSUME Types, Shape, Quiet, [Next]_vars, faults' = 0
  PROVE  faults = 0 /\ Untroubled
<1>1. faults = 0
  <2>1. faults' = faults \/ faults' = faults + 1
    BY DEF Next, DeliverAny, ReceiveAny, StartAny, Work, Send, Subscribe, Deliver, Receive, Start,
       AcquireFails, Acquire, Invoke, InvokeFails, Release, ReleaseFails, Ack, Nack, Publish,
       PublishUnconfirmed, PublishFails, BackoffCancelled, Disconnect, Cancel, Crash, Fault,
       history, vars
  <2>2. QED
    BY <2>1 DEF Shape
<1>2. ~Fault
  BY <1>1 DEF Fault
<1>3. \A h \in Handlers : hand[h].pc # "nack" /\ (hand[h].pc # "idle" => ~Interrupted(h))
  BY <1>1 DEF Quiet, OneChannel, Interrupted, Shape
<1>4. ASSUME NEW h \in Handlers
      PROVE  ~Nack(h) /\ ~PublishUnconfirmed(h) /\ ~BackoffCancelled(h)
  BY <1>2, <1>3 DEF Nack, PublishUnconfirmed, BackoffCancelled, Arrive
<1>5. QED
  BY <1>1, <1>2, <1>4 DEF Next, Work, Untroubled, ReleaseFails, PublishFails, Disconnect, Cancel, Crash

\* Nobody opens a second channel.
LEMMA OneChannelStep ==
  ASSUME Types, Shape, OneChannel, Untroubled
  PROVE  OneChannel'
<1> USE DEF loop, queues, history, OneChannel
<1>1. ASSUME NEW m \in Messages, Send(m) PROVE OneChannel'
  BY <1>1 DEF Send
<1>2. ASSUME Subscribe PROVE OneChannel'
  BY <1>2 DEF Subscribe
<1>3. ASSUME NEW c \in DOMAIN ready, Deliver(c) PROVE OneChannel'
  BY <1>3 DEF Deliver
<1>4. ASSUME NEW c \in DOMAIN buffer, Receive(c) PROVE OneChannel'
  BY <1>4 DEF Receive
<1>5. ASSUME NEW h \in Handlers, Start(h) PROVE OneChannel'
  <2>1. gen = 1
    BY <1>5 DEF Start, Shape
  <2>2. QED
    BY <1>5, <2>1 DEF Start, Types
<1>6. ASSUME NEW h \in Handlers,
             \/ AcquireFails(h) \/ Acquire(h) \/ Invoke(h) \/ InvokeFails(h)
             \/ Release(h) \/ Publish(h)
      PROVE  OneChannel'
  <2>1. Moved(h)
    BY <1>6, HandlerMoves
  <2>2. hand'[h].pc # "nack" /\ lost' = lost
    BY <1>6 DEF Types, AcquireFails, Acquire, Invoke, InvokeFails, Release, Publish, Goto, Failed
  <2>3. QED
    BY <2>1, <2>2 DEF Moved
<1>7. ASSUME NEW h \in Handlers, Ack(h) PROVE OneChannel'
  <2>1. Ended(h) /\ lost' = lost
    BY <1>7, HandlerEnds DEF Ack
  <2>2. QED
    BY <2>1 DEF Ended, Idle
<1>8. ASSUME UNCHANGED vars PROVE OneChannel'
  BY <1>8 DEF vars
<1>9. QED
  BY <1>1, <1>2, <1>3, <1>4, <1>5, <1>6, <1>7, <1>8
  DEF Untroubled, DeliverAny, ReceiveAny, StartAny

\* A handler that goes on, and adds nothing.
LEMMA HandlerKeepsPlace ==
  ASSUME Types, NoTwins, OnePlace, ExactCount, NEW h \in Handlers, Moved(h) \/ Ended(h),
         Trying(h)' => Trying(h),
         UNCHANGED <<ready, buffer, dead, held, sent, tries>>,
         \/ done' = done
         \/ Trying(h) /\ ~Trying(h)' /\ done' = done \cup {hand[h].copy.msg}
  PROVE  NoTwins' /\ OnePlace' /\ ExactCount'
<1>1. NoTwins' /\ Waiting' = Waiting
  BY DEF NoTwins, Waiting
<1>2. \A i \in Handlers : Trying(i)' => Trying(i) /\ hand'[i].copy = hand[i].copy
  BY DEF Moved, Ended, Trying, Idle
<1>3. OnePlace'
  BY <1>1, <1>2 DEF OnePlace
<1>4. /\ \A c \in Waiting : c.msg \notin done'
      /\ held # None => held.msg \notin done'
      /\ \A i \in Handlers : Trying(i)' => hand[i].copy.msg \notin done'
  <2>1. CASE done' = done
    BY <1>2, <2>1 DEF ExactCount
  <2>2. CASE Trying(h) /\ ~Trying(h)' /\ done' = done \cup {hand[h].copy.msg}
    <3>1. \A c \in Waiting : c.msg # hand[h].copy.msg
      BY <2>2 DEF OnePlace
    <3>2. held # None => held.msg # hand[h].copy.msg
      BY <2>2 DEF OnePlace
    <3>3. \A i \in Handlers : Trying(i)' => hand[i].copy.msg # hand[h].copy.msg
      BY <1>2, <2>2 DEF OnePlace
    <3>4. QED
      BY <1>2, <2>2, <3>1, <3>2, <3>3 DEF ExactCount
  <2>3. QED
    BY <2>1, <2>2
<1>5. /\ \A m \in Messages \ sent : tries'[m] = 0
      /\ \A c \in Waiting : tries'[c.msg] = c.attempts
      /\ held # None => tries'[held.msg] = held.attempts
      /\ \A i \in Handlers : Trying(i)' => tries'[hand'[i].copy.msg] = hand'[i].copy.attempts + 1
      /\ \A m \in Messages : tries'[m] <= MaxAttempts
  BY <1>2 DEF ExactCount
<1>6. ExactCount'
  BY <1>1, <1>2, <1>4, <1>5 DEF ExactCount
<1>7. QED
  BY <1>1, <1>3, <1>6

\* A message moves from place to place, and its header with it.
LEMMA OnePlaceStep ==
  ASSUME Types, Bounded, lost = 0, Known, NoTwins, OnePlace, ExactCount, Untroubled
  PROVE  NoTwins' /\ OnePlace' /\ ExactCount'
<1> USE DEF loop, queues, history
<1>1. ASSUME NEW m \in Messages, Send(m) PROVE NoTwins' /\ OnePlace' /\ ExactCount'
  <2> DEFINE c == Copy(m, 0)
  <2>1. /\ c.msg = m /\ c.attempts = 0 /\ m \notin sent /\ m \notin done /\ tries[m] = 0
        /\ sent' = sent \cup {m}
        /\ UNCHANGED <<buffer, dead, held, hand, done, tries>>
    BY <1>1 DEF Send, Copy, Known, ExactCount
  <2>2. \A d \in Waiting : d.msg \in sent
    BY DEF Known, Waiting
  <2>3. /\ DOMAIN ready' = DOMAIN ready \cup {c}
        /\ ready'[c] = 1 /\ \A d \in DOMAIN ready : ready'[d] = ready[d]
    <3>1. c \notin DOMAIN ready
      BY <2>1, <2>2 DEF Waiting
    <3>2. ready' = BagAdd(ready, c)
      BY <1>1 DEF Send
    <3>3. /\ DOMAIN BagAdd(ready, c) = DOMAIN ready \cup {c}
          /\ BagAdd(ready, c)[c] = 1
          /\ \A d \in DOMAIN ready : BagAdd(ready, c)[d] = ready[d]
      BY <3>1, AddNew
    <3>4. QED
      BY <3>2, <3>3
  <2> HIDE DEF c
  <2>4. Waiting' = Waiting \cup {c} /\ \A i \in Handlers : Trying(i)' <=> Trying(i)
    BY <2>1, <2>3 DEF Waiting, Trying
  <2>5. NoTwins'
    BY <2>1, <2>2, <2>3, <2>4 DEF NoTwins, Waiting
  <2>6. OnePlace'
    BY <2>1, <2>4 DEF OnePlace, Known, Trying
  <2>7. ExactCount'
    BY <2>1, <2>4 DEF ExactCount
  <2>8. QED
    BY <2>5, <2>6, <2>7
<1>2. ASSUME Subscribe \/ UNCHANGED vars PROVE NoTwins' /\ OnePlace' /\ ExactCount'
  BY <1>2 DEF Subscribe, vars, NoTwins, OnePlace, ExactCount, Waiting, Trying
<1>3. ASSUME NEW c \in DOMAIN ready, Deliver(c) PROVE NoTwins' /\ OnePlace' /\ ExactCount'
  <2>1. UNCHANGED <<dead, held, hand, sent, done, tries>>
    BY <1>3 DEF Deliver
  <2>2. /\ DOMAIN ready' = DOMAIN ready \ {c}
        /\ \A d \in DOMAIN ready \ {c} : ready'[d] = ready[d]
    <3>1. ready' = BagRemove(ready, c) /\ ready[c] = 1
      BY <1>3 DEF Deliver, NoTwins
    <3>2. QED
      BY <3>1, RemoveOnly
  <2>3. /\ DOMAIN buffer' = DOMAIN buffer \cup {c}
        /\ buffer'[c] = 1 /\ \A d \in DOMAIN buffer : buffer'[d] = buffer[d]
    BY <1>3, AddNew DEF Deliver, NoTwins
  <2>4. Waiting' = Waiting /\ \A i \in Handlers : Trying(i)' <=> Trying(i)
    BY <2>1, <2>2, <2>3 DEF Waiting, Trying
  <2>5. NoTwins'
    BY <2>1, <2>2, <2>3, <2>4 DEF NoTwins
  <2>6. OnePlace' /\ ExactCount'
    BY <2>1, <2>4 DEF OnePlace, ExactCount
  <2>7. QED
    BY <2>5, <2>6
<1>4. ASSUME NEW c \in DOMAIN buffer, Receive(c) PROVE NoTwins' /\ OnePlace' /\ ExactCount'
  <2>1. UNCHANGED <<ready, dead, hand, sent, done, tries>> /\ held' = c /\ held = None
    BY <1>4 DEF Receive
  <2>2. /\ DOMAIN buffer' = DOMAIN buffer \ {c}
        /\ \A d \in DOMAIN buffer \ {c} : buffer'[d] = buffer[d]
    <3>1. buffer' = BagRemove(buffer, c) /\ buffer[c] = 1
      BY <1>4 DEF Receive, NoTwins
    <3>2. QED
      BY <3>1, RemoveOnly
  <2>3. Waiting' = Waiting \ {c} /\ c \in Waiting
    BY <2>1, <2>2 DEF Waiting, NoTwins
  <2>4. \A i \in Handlers : Trying(i)' <=> Trying(i)
    BY <2>1 DEF Trying
  <2>5. NoTwins'
    BY <2>1, <2>2, <2>3 DEF NoTwins
  <2>6. OnePlace'
    BY <2>1, <2>3, <2>4 DEF OnePlace, NoTwins
  <2>7. ExactCount'
    BY <2>1, <2>3, <2>4 DEF ExactCount
  <2>8. QED
    BY <2>5, <2>6, <2>7
<1>5. ASSUME NEW h \in Handlers, Start(h) PROVE NoTwins' /\ OnePlace' /\ ExactCount'
  <2>0. PICK c \in Copies : c = held
    BY <1>5 DEF Start, Types
  <2>1. /\ UNCHANGED <<ready, buffer, dead, sent, done>> /\ held' = None /\ held # None
        /\ tries' = [tries EXCEPT ![c.msg] = @ + 1] /\ c.msg \in Messages
        /\ \A i \in Handlers \ {h} : hand'[i] = hand[i]
        /\ hand'[h].pc = "acquire" /\ hand'[h].copy = c /\ hand[h].pc = "idle"
    BY <1>5, <2>0 DEF Start, Types, Copies
  <2>2. NoTwins' /\ Waiting' = Waiting
    BY <2>1 DEF NoTwins, Waiting
  <2>3. \A i \in Handlers \ {h} : Trying(i)' <=> Trying(i)
    BY <2>1 DEF Trying
  <2>4. OnePlace'
    BY <2>0, <2>1, <2>2, <2>3 DEF OnePlace
  <2>5. /\ \A d \in Waiting : d.msg # c.msg
        /\ \A i \in Handlers \ {h} : Trying(i) => hand[i].copy.msg # c.msg
        /\ c.msg \notin done /\ tries[c.msg] = c.attempts /\ c.msg \in sent
        /\ c.attempts < MaxAttempts
    <3>1. \A d \in Waiting : d.msg # c.msg
      BY <2>0, <2>1 DEF OnePlace
    <3>2. \A i \in Handlers \ {h} : Trying(i) => hand[i].copy.msg # c.msg
      BY <2>0, <2>1 DEF OnePlace
    <3>3. c.msg \notin done /\ tries[c.msg] = c.attempts /\ c.msg \in sent
      BY <2>0, <2>1 DEF ExactCount, Known
    <3>4. c.attempts < MaxAttempts
      BY <2>0, <2>1, DeliveryAssumption DEF Bounded, Copies
    <3>5. QED
      BY <3>1, <3>2, <3>3, <3>4
  <2>6. \A m \in Messages \ {c.msg} : tries'[m] = tries[m]
    BY <2>1
  <2>7. tries'[c.msg] = c.attempts + 1 /\ tries'[c.msg] <= MaxAttempts
    BY <2>1, <2>5, DeliveryAssumption DEF Types, Copies
  <2>8. /\ \A d \in Waiting : d.msg \in Messages
        /\ \A i \in Handlers : Trying(i) => hand[i].copy.msg \in Messages
    BY DEF Types, Waiting, Trying, Copies
  <2>9. ExactCount'
    BY <2>1, <2>2, <2>3, <2>5, <2>6, <2>7, <2>8 DEF ExactCount
  <2>10. QED
    BY <2>2, <2>4, <2>9
<1>6. ASSUME NEW h \in Handlers,
             AcquireFails(h) \/ Acquire(h) \/ Invoke(h) \/ InvokeFails(h) \/ Release(h)
      PROVE  NoTwins' /\ OnePlace' /\ ExactCount'
  <2>1. Moved(h)
    BY <1>6, HandlerMoves
  <2>2. UNCHANGED <<ready, buffer, dead, held, sent, tries>>
    BY <1>6 DEF AcquireFails, Acquire, Invoke, InvokeFails, Release, Goto
  <2>3. /\ Trying(h)' => Trying(h)
        /\ \/ done' = done
           \/ Trying(h) /\ ~Trying(h)' /\ done' = done \cup {hand[h].copy.msg}
    BY <1>6 DEF Types, AcquireFails, Acquire, Invoke, InvokeFails, Release, Goto, Failed, Trying
  <2>4. QED
    BY <2>1, <2>2, <2>3, HandlerKeepsPlace
<1>7. ASSUME NEW h \in Handlers, Ack(h) PROVE NoTwins' /\ OnePlace' /\ ExactCount'
  <2>1. Ended(h) /\ UNCHANGED <<ready, buffer, dead, held, sent, tries, done>>
    BY <1>7, HandlerEnds DEF Ack
  <2>2. ~Trying(h)'
    BY <2>1 DEF Ended, Idle, Trying
  <2>3. QED
    BY <2>1, <2>2, HandlerKeepsPlace
<1>8. ASSUME NEW h \in Handlers, Publish(h) PROVE NoTwins' /\ OnePlace' /\ ExactCount'
  <2> DEFINE c == Retry(hand[h].copy)
  <2>1. /\ Moved(h) /\ Trying(h) /\ hand'[h].pc = "ack"
        /\ UNCHANGED <<buffer, held, sent, tries, done>>
    BY <1>8, HandlerMoves DEF Publish, Arrive, Trying, Types
  <2>2. c.msg = hand[h].copy.msg /\ c.attempts = hand[h].copy.attempts + 1
    BY DEF Retry, Copy
  <2>3. \A d \in Waiting : d.msg # c.msg
    BY <2>1, <2>2 DEF OnePlace
  <2>4. \/ /\ DOMAIN ready' = DOMAIN ready \cup {c} /\ ready'[c] = 1
           /\ \A d \in DOMAIN ready : ready'[d] = ready[d]
           /\ UNCHANGED dead
        \/ DOMAIN dead' = DOMAIN dead \cup {c} /\ UNCHANGED ready
    <3>1. c \notin DOMAIN ready
      BY <2>3 DEF Waiting
    <3>2. \/ ready' = BagAdd(ready, c) /\ UNCHANGED dead
          \/ dead' = BagAdd(dead, c) /\ UNCHANGED ready
      BY <1>8 DEF Publish, Arrive
    <3>3. /\ DOMAIN BagAdd(ready, c) = DOMAIN ready \cup {c}
          /\ BagAdd(ready, c)[c] = 1
          /\ \A d \in DOMAIN ready : BagAdd(ready, c)[d] = ready[d]
      BY <3>1, AddNew
    <3>4. QED
      BY <3>2, <3>3, AddTo
  <2> HIDE DEF c
  <2>5. Waiting' = Waiting \cup {c}
    BY <2>1, <2>4 DEF Waiting
  <2>6. \A i \in Handlers : Trying(i)' => i # h /\ Trying(i) /\ hand'[i].copy = hand[i].copy
    BY <2>1 DEF Moved, Trying
  <2>7. NoTwins'
    BY <2>1, <2>3, <2>4, <2>5 DEF NoTwins, Waiting
  <2>8. OnePlace'
    BY <2>1, <2>2, <2>5, <2>6 DEF OnePlace
  <2>9. ExactCount'
    BY <2>1, <2>2, <2>5, <2>6 DEF ExactCount
  <2>10. QED
    BY <2>7, <2>8, <2>9
<1>9. QED
  BY <1>1, <1>2, <1>3, <1>4, <1>5, <1>6, <1>7, <1>8
  DEF Untroubled, DeliverAny, ReceiveAny, StartAny

-----------------------------------------------------------------------------
(* Theorems *)

\* The invariant behind the first three theorems.
THEOREM DeliveryInvariant == Spec => []Inv
<1>1. Init => Inv
  BY Nothing, DeliveryAssumption
     DEF Init, Idle, Inv, Types, Labels, Counted, Bounded, Kept, BuriedAfterAllTries,
         AttemptsBounded, NothingLost
<1>2. Inv /\ [Next]_vars => Inv'
  BY TypesStep, CountedStep, BoundedStep, KeptStep DEF Inv
<1>3. QED
  BY <1>1, <1>2, PTL DEF Spec

\* At least once: whatever disconnects, crashes, cancellations and lost confirms
\* there are, a message that was sent has succeeded, or the broker has a copy.
THEOREM NoMessageLost == Spec => []NothingLost
<1>1. Inv => NothingLost
  BY DEF Inv, Kept
<1>2. QED
  BY <1>1, DeliveryInvariant, PTL

\* The dead-letter queue gets nothing that was not tried MaxAttempts times.
THEOREM NoneBuriedEarly == Spec => []BuriedAfterAllTries
<1>1. Inv => BuriedAfterAllTries
  BY DEF Inv, Counted
<1>2. QED
  BY <1>1, DeliveryInvariant, PTL

\* Copies go past MaxAttempts by unconfirmed releases only, one each.
THEOREM AttemptsStayBounded == Spec => []AttemptsBounded
<1>1. Inv => AttemptsBounded
  BY DEF Inv, Bounded
<1>2. QED
  BY <1>1, DeliveryInvariant, PTL

\* What the consumer has of each copy, and what no fault has touched.
Books == Shape /\ Accounted /\ Known /\ Quiet
\* The invariant behind the next two theorems.
THEOREM BooksInvariant == Spec => []Books
<1>1. Init => Books
  <2> SUFFICES ASSUME Init PROVE Books
    OBVIOUS
  <2>1. Shape
    <3>1. IsABag(ready) /\ IsABag(dead) /\ IsABag(out) /\ IsABag(buffer)
      BY EmptyCount DEF Init
    <3>2. QED
      BY <3>1 DEF Init, Shape, Idle
  <2>2. Accounted /\ Known
    BY Nothing DEF Init, Accounted, Known, Idle
  <2>3. Quiet
    BY Nothing, DeliveryAssumption
       DEF Init, Quiet, OneChannel, NoTwins, OnePlace, ExactCount, Waiting, Trying, Idle
  <2>4. QED
    BY <2>1, <2>2, <2>3 DEF Books
<1>2. Inv /\ Books /\ [Next]_vars => Books'
  <2> SUFFICES ASSUME Inv, Books, [Next]_vars PROVE Books'
    OBVIOUS
  <2>1. Types /\ Shape /\ Accounted /\ Known /\ Quiet /\ Bounded
    BY DEF Inv, Books
  <2>2. Shape' /\ Accounted' /\ Known'
    BY <2>1, ShapeStep, AccountedStep, KnownStep
  <2>3. ASSUME faults' = 0 PROVE OneChannel' /\ NoTwins' /\ OnePlace' /\ ExactCount'
    <3>1. faults = 0 /\ Untroubled
      BY <2>1, <2>3, QuietSteps
    <3>2. OneChannel /\ NoTwins /\ OnePlace /\ ExactCount
      BY <2>1, <3>1 DEF Quiet
    <3>3. lost = 0
      BY <3>2 DEF OneChannel
    <3>4. OneChannel'
      BY <2>1, <3>1, <3>2, OneChannelStep
    <3>5. NoTwins' /\ OnePlace' /\ ExactCount'
      BY <2>1, <3>1, <3>2, <3>3, OnePlaceStep
    <3>6. QED
      BY <3>4, <3>5
  <2>4. QED
    BY <2>2, <2>3 DEF Books, Quiet
<1>3. QED
  BY <1>1, <1>2, DeliveryInvariant, PTL DEF Spec

\* The state is well typed: bags are bags of copies, whatever the consumer has
\* buffered is out, and no handler is of a channel that was never opened.
THEOREM DeliveryTypes == Spec => []TypeOK
<1>1. Inv /\ Books => TypeOK
  <2> SUFFICES ASSUME Inv, Books PROVE TypeOK
    OBVIOUS
  <2>1. Types /\ Shape /\ Accounted /\ Known
    BY DEF Inv, Books
  <2>2. \A bag \in {ready, dead, out, buffer} : IsABag(bag) /\ BagToSet(bag) \subseteq Copies
    BY <2>1 DEF Types, Shape
  <2>3. buffer \sqsubseteq out
    <3>1. \A c \in DOMAIN buffer : Count(buffer, c) <= Count(out, c)
      <4>1. CASE ~open
        BY <2>1, <4>1, Nothing DEF Accounted
      <4>2. CASE open
        <5> SUFFICES ASSUME NEW c \in DOMAIN buffer PROVE Count(buffer, c) <= Count(out, c)
          OBVIOUS
        <5>1. /\ IsFiniteSet(Answering(c))
              /\ Count(out, c) = Count(buffer, c) + (IF held = c THEN 1 ELSE 0)
                                 + Cardinality(Answering(c))
          BY <2>1, <4>2 DEF Accounted, Types
        <5>2. Cardinality(Answering(c)) \in Nat /\ Count(buffer, c) \in Nat
          BY <2>1, <5>1, FS_CardinalityType, CountNat DEF Shape
        <5>3. QED
          BY <5>1, <5>2
      <4>3. QED
        BY <4>1, <4>2
    <3>2. QED
      BY <2>1, <3>1, NoMoreOfAny DEF Shape
  <2>4. \A h \in Handlers :
          IF hand[h].pc = "idle" THEN hand[h] = Idle
          ELSE /\ hand[h].pc \in Labels \ {"idle"}
               /\ hand[h].copy \in Copies
               /\ hand[h].gen \in 1..gen
    BY <2>1 DEF Types, Shape
  <2>5. held \in Copies \union {None} /\ cancelled \in 0..gen /\ done \subseteq sent /\ lost <= faults
    BY <2>1 DEF Types, Shape, Known
  <2>6. QED
    BY <2>2, <2>3, <2>4, <2>5 DEF TypeOK, Labels
<1>2. QED
  BY <1>1, DeliveryInvariant, BooksInvariant, PTL

\* Duplicates come from faults alone: without one, no message is tried more
\* than MaxAttempts times, and none both succeeds and is buried.
THEOREM QuietDeliversOnce == Spec => []QuietMeansOnce
<1>1. Books => QuietMeansOnce
  BY DEF Books, Quiet, ExactCount, Waiting, QuietMeansOnce
<1>2. QED
  BY <1>1, BooksInvariant, PTL
=============================================================================
