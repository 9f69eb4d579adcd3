------------------------ MODULE RuntimeServerProofs ------------------------
(***************************************************************************)
(* Theorems about RuntimeServer, for any invocations, polls and length of  *)
(* the queue.                                                              *)
(*                                                                         *)
(* The invariant is ServerInv: types; where an invocation may be (Placed), *)
(* by what its caller has done and whether it has been dispatched; and what*)
(* a poll that goes to sleep has seen (Awake), while the bootstrap has one *)
(* poll at a time.                                                         *)
(***************************************************************************)
EXTENDS RuntimeServer, SequenceTheorems, TLAPS

USE RuntimeAssumption DEF pollVars, bootVars, marks

-----------------------------------------------------------------------------
(* The queue as a set *)

NoDuplicates(s) == \A i, j \in 1..Len(s) : s[i] = s[j] => i = j

\* What Append, Tail and RemoveAt do to the members of a sequence without
\* duplicates.
LEMMA AppendMembers ==
  ASSUME NEW S, NEW s \in Seq(S), NEW e \in S, NoDuplicates(s), e \notin ToSet(s)
  PROVE  /\ Append(s, e) \in Seq(S) /\ Len(Append(s, e)) = Len(s) + 1
         /\ ToSet(Append(s, e)) = ToSet(s) \cup {e}
         /\ NoDuplicates(Append(s, e))
<1>1. /\ Append(s, e) \in Seq(S) /\ Len(Append(s, e)) = Len(s) + 1
      /\ \A i \in 1..Len(s) : Append(s, e)[i] = s[i]
      /\ Append(s, e)[Len(s) + 1] = e
  OBVIOUS
<1>2. DOMAIN s = 1..Len(s) /\ DOMAIN Append(s, e) = 1..(Len(s) + 1) /\ Len(s) \in Nat
  OBVIOUS
<1>3. ToSet(Append(s, e)) = ToSet(s) \cup {e}
  BY <1>1, <1>2 DEF ToSet
<1>4. NoDuplicates(Append(s, e))
  BY <1>1, <1>2 DEF ToSet, NoDuplicates
<1>5. QED
  BY <1>1, <1>3, <1>4

LEMMA TailMembers ==
  ASSUME NEW S, NEW s \in Seq(S), s # <<>>, NoDuplicates(s)
  PROVE  /\ Head(s) \in S /\ Head(s) \in ToSet(s)
         /\ Tail(s) \in Seq(S) /\ Len(Tail(s)) = Len(s) - 1
         /\ ToSet(Tail(s)) = ToSet(s) \ {Head(s)}
         /\ NoDuplicates(Tail(s))
<1>1. /\ Tail(s) \in Seq(S) /\ Len(Tail(s)) = Len(s) - 1 /\ Len(s) \in Nat \ {0}
      /\ \A i \in 1..(Len(s) - 1) : Tail(s)[i] = s[i + 1]
      /\ Head(s) = s[1] /\ s[1] \in S
      /\ DOMAIN s = 1..Len(s) /\ DOMAIN Tail(s) = 1..(Len(s) - 1)
  OBVIOUS
<1>2. ToSet(Tail(s)) = ToSet(s) \ {Head(s)}
  <2>1. ASSUME NEW x \in ToSet(Tail(s)) PROVE x \in ToSet(s) /\ x # Head(s)
    BY <1>1 DEF ToSet, NoDuplicates
  <2>2. ASSUME NEW x \in ToSet(s), x # Head(s) PROVE x \in ToSet(Tail(s))
    <3>1. PICK i \in 1..Len(s) : x = s[i]
      BY <1>1 DEF ToSet
    <3>2. i - 1 \in 1..(Len(s) - 1) /\ x = Tail(s)[i - 1]
      BY <1>1, <2>2, <3>1
    <3>3. QED
      BY <1>1, <3>2 DEF ToSet
  <2>3. QED
    BY <2>1, <2>2
<1>3. NoDuplicates(Tail(s))
  BY <1>1 DEF NoDuplicates
<1>4. QED
  BY <1>1, <1>2, <1>3 DEF ToSet

LEMMA RemoveMembers ==
  ASSUME NEW S, NEW s \in Seq(S), NEW i \in 1..Len(s), NoDuplicates(s)
  PROVE  /\ RemoveAt(s, i) \in Seq(S) /\ Len(RemoveAt(s, i)) = Len(s) - 1
         /\ ToSet(RemoveAt(s, i)) = ToSet(s) \ {s[i]}
         /\ NoDuplicates(RemoveAt(s, i))
<1> DEFINE t == RemoveAt(s, i)
           a == SubSeq(s, 1, i - 1)
           b == SubSeq(s, i + 1, Len(s))
<1>0. Len(s) \in Nat /\ i \in Nat /\ i >= 1 /\ i <= Len(s) /\ DOMAIN s = 1..Len(s)
  OBVIOUS
<1>1. /\ a \in Seq(S) /\ Len(a) = i - 1 /\ \A j \in 1..(i - 1) : a[j] = s[j]
      /\ b \in Seq(S) /\ Len(b) = Len(s) - i /\ \A j \in 1..(Len(s) - i) : b[j] = s[i + j]
  <2>1. /\ a \in Seq(S) /\ Len(a) = i - 1 /\ \A j \in 1..(i - 1) : a[j] = s[j]
    BY <1>0
  <2>2. b \in Seq(S) /\ Len(b) = Len(s) - i /\ \A j \in 1..(Len(s) - i) : b[j] = s[i + j]
    <3>1. \A k \in (i + 1)..Len(s) : s[k] \in S
      BY <1>0
    <3>2. b \in Seq(S)
      BY <1>0, <3>1, SubSeqProperties
    <3>3. Len(b) = Len(s) - i
      <4>1. Len(b) = IF i + 1 <= Len(s) THEN Len(s) - (i + 1) + 1 ELSE 0
        BY <1>0, <3>1, SubSeqProperties
      <4> HIDE DEF b
      <4>2. QED
        BY <4>1
    <3>4. \A j \in 1..(Len(s) - i) : b[j] = s[i + j]
      BY <1>0, <3>1, SubSeqProperties
    <3>5. QED
      BY <3>2, <3>3, <3>4
  <2>3. QED
    BY <2>1, <2>2
<1>2. /\ t \in Seq(S) /\ Len(t) = Len(s) - 1 /\ DOMAIN t = 1..(Len(s) - 1)
      /\ \A j \in 1..(Len(s) - 1) : t[j] = IF j < i THEN s[j] ELSE s[j + 1]
  <2>1. t = a \o b
    BY DEF RemoveAt
  <2> HIDE DEF a, b, t
  <2>2. a \in Seq(S) /\ b \in Seq(S) /\ Len(a) = i - 1 /\ Len(b) = Len(s) - i
    BY <1>1
  <2>3. /\ t \in Seq(S) /\ Len(t) = Len(a) + Len(b)
        /\ \A j \in 1..(Len(a) + Len(b)) : t[j] = IF j <= Len(a) THEN a[j] ELSE b[j - Len(a)]
    <3>1. /\ a \o b \in Seq(S) /\ Len(a \o b) = Len(a) + Len(b)
          /\ \A j \in 1..(Len(a) + Len(b)) :
               (a \o b)[j] = IF j <= Len(a) THEN a[j] ELSE b[j - Len(a)]
      BY <2>2, ConcatProperties, Zenon
    <3>2. QED
      BY <2>1, <3>1, Zenon
  <2>4. Len(a) + Len(b) = Len(s) - 1
    BY <1>0, <2>2
  <2>5. t \in Seq(S) /\ Len(t) = Len(s) - 1
    BY <2>3, <2>4
  <2>6. DOMAIN t = 1..(Len(s) - 1)
    BY <2>5, LenProperties
  <2>7. ASSUME NEW j \in 1..(Len(s) - 1)
        PROVE  t[j] = IF j < i THEN s[j] ELSE s[j + 1]
    <3>1. t[j] = IF j <= Len(a) THEN a[j] ELSE b[j - Len(a)]
      BY <2>3, <2>4
    <3>2. CASE j < i
      <4>1. j <= Len(a) /\ j \in 1..(i - 1)
        BY <1>0, <2>2, <3>2
      <4>2. QED
        BY <1>1, <3>1, <3>2, <4>1
    <3>3. CASE j >= i
      <4>1. /\ ~(j <= Len(a)) /\ j - Len(a) \in 1..(Len(s) - i)
            /\ i + (j - Len(a)) = j + 1 /\ ~(j < i)
        BY <1>0, <2>2, <3>3
      <4>2. b[j - Len(a)] = s[i + (j - Len(a))]
        BY <1>1, <4>1
      <4>3. QED
        BY <3>1, <4>1, <4>2
    <3>4. QED
      BY <1>0, <3>2, <3>3
  <2>8. QED
    BY <2>5, <2>6, <2>7
<1> HIDE DEF a, b, t
<1>3. ToSet(t) = ToSet(s) \ {s[i]}
  <2>1. ASSUME NEW x \in ToSet(t) PROVE x \in ToSet(s) /\ x # s[i]
    <3>1. PICK j \in 1..(Len(s) - 1) : x = t[j]
      BY <1>2 DEF ToSet
    <3>2. QED
      BY <1>0, <1>2, <3>1 DEF ToSet, NoDuplicates
  <2>2. ASSUME NEW x \in ToSet(s), x # s[i] PROVE x \in ToSet(t)
    <3>1. PICK j \in 1..Len(s) : x = s[j]
      BY <1>0 DEF ToSet
    <3>2. CASE j < i
      BY <1>0, <1>2, <3>1, <3>2 DEF ToSet
    <3>3. CASE j > i
      <4>1. j - 1 \in 1..(Len(s) - 1) /\ t[j - 1] = s[j]
        BY <1>0, <1>2, <3>3
      <4>2. QED
        BY <1>2, <3>1, <4>1 DEF ToSet
    <3>4. QED
      BY <1>0, <2>2, <3>1, <3>2, <3>3
  <2>3. QED
    BY <2>1, <2>2
<1>4. NoDuplicates(t)
  BY <1>0, <1>2 DEF NoDuplicates
<1>5. QED
  BY <1>2, <1>3, <1>4 DEF t

-----------------------------------------------------------------------------
(* The invariant *)

\* TypeOK in two parts, of which the second is about Boolean variables only.
Types ==
  /\ call \in [Invocations -> {"new", "rejected", "notifying", "waiting", "answered",
                               "expired", "forgotten", "timedout"}]
  /\ queue \in Seq(Invocations) /\ Len(queue) <= MaxQueue
  /\ late \cup inflight \cup result \cup accepting \cup begun \subseteq Invocations
  /\ poller \in [Pollers -> {"idle", "check", "drop", "dispatch", "select", "parked"}]
  /\ popped \in [Pollers -> Invocations \cup {None}]
  /\ boot \in {"down", "ready", "polling", "running", "refused", "accepted"}
  /\ conn \in Pollers \cup {None}
  /\ handling \in Invocations \cup {None}
Flags == notify \in BOOLEAN /\ strict \in BOOLEAN /\ orphaned \in BOOLEAN

Fresh(c) == call[c] \in {"new", "rejected"}

\* An invocation that has been enqueued is in the queue, or taken by one poll, or
\* dispatched, and then only the bootstrap has it; its entry in inflight goes
\* before its answer comes.
Placed ==
  /\ NoDuplicates(queue)
  /\ \A p \in Pollers : popped[p] # None => popped[p] \notin ToSet(queue)
  /\ \A p, q \in Pollers : popped[p] # None /\ popped[p] = popped[q] => p = q
  /\ \A p \in Pollers : poller[p] \in {"drop", "dispatch"} <=> popped[p] # None
  /\ \A c \in Invocations : Fresh(c) =>
       /\ c \notin inflight \cup begun
       /\ c \notin ToSet(queue)
       /\ \A p \in Pollers : popped[p] # c
  /\ \A c \in begun : c \notin ToSet(queue) /\ \A p \in Pollers : popped[p] # c
  /\ handling # None => handling \in begun
  /\ accepting \cup result \subseteq begun
  /\ \A c \in accepting \cup result : c \notin inflight /\ call[c] # "answered"
  /\ \A c \in accepting : c \notin result
  /\ \A c \in Invocations :
       /\ call[c] = "answered" => c \in begun /\ c \notin inflight
       /\ call[c] \in {"forgotten", "timedout"} => c \notin inflight
       /\ call[c] = "timedout" => c \notin ToSet(queue)

\* Someone who will notify.
Notifying == \E c \in Invocations : call[c] = "notifying"

\* With one poll at a time, a poll goes to sleep only on an empty queue or beside
\* a caller who will notify.
Awake ==
  /\ Parked # {} => ~notify
  /\ conn # None => boot = "polling"
  /\ ~orphaned => \A p \in Pollers : poller[p] # "idle" => conn = p
  /\ ~orphaned /\ queue # <<>> =>
       \A p \in Pollers : /\ poller[p] = "select" => notify \/ Notifying
                          /\ poller[p] = "parked" => Notifying

ServerInv == Types /\ Flags /\ Placed /\ Awake

LEMMA TypesAndFlags == TypeOK <=> Types /\ Flags
BY DEF TypeOK, Types, Flags

\* The server starts with nothing.
LEMMA ServerInit == Init => ServerInv
<1> SUFFICES ASSUME Init PROVE ServerInv
  OBVIOUS
<1> USE DEF Init
<1>1. Types
  BY DEF Types
<1>2. Flags
  BY Zenon DEF Flags
<1>3. Placed
  BY DEF Placed, NoDuplicates, ToSet, Fresh
<1>4. Awake
  BY DEF Awake, Parked
<1>5. QED
  BY <1>1, <1>2, <1>3, <1>4 DEF ServerInv

\* Flags stay Boolean.
LEMMA FlagsStep == Flags /\ [Next]_vars => Flags'
BY Zenon DEF Flags, Next, vars, BootTo, RejectFull, Enqueue, Notify, DeadlinePasses, ReturnResult,
       TimeOut, Forget, Unqueue, Deliver, Poll, Pop, FindEmpty, Drop, Dispatch, TakeToken, Park,
       EndPoll, Start, Crash, PostResponse, PostError, LoadAndDelete

\* Every step keeps an invocation in one place at most.
LEMMA PlacedStep == Types /\ Placed /\ [Next]_vars => Types' /\ Placed'
<1> SUFFICES ASSUME Types, Placed, [Next]_vars PROVE Types' /\ Placed'
  OBVIOUS
<1> USE DEF CallTo, PollTo, BootTo, Fresh
\* Steps of a caller that leave the queue alone.
<1>1. ASSUME NEW c \in Invocations,
             RejectFull(c) \/ DeadlinePasses(c) \/ ReturnResult(c) \/ TimeOut(c) \/ Forget(c)
      PROVE  Types' /\ Placed'
  <2>1. Types'
    BY <1>1 DEF Types, RejectFull, DeadlinePasses, ReturnResult, TimeOut, Forget
  <2>2. Placed'
    BY <1>1 DEF Types, Placed, RejectFull, DeadlinePasses, ReturnResult, TimeOut, Forget
  <2>3. QED
    BY <2>1, <2>2
<1>2. ASSUME NEW c \in Invocations, Enqueue(c) PROVE Types' /\ Placed'
  <2>1. /\ queue' \in Seq(Invocations) /\ Len(queue') = Len(queue) + 1
        /\ ToSet(queue') = ToSet(queue) \cup {c} /\ NoDuplicates(queue')
        /\ Len(queue) \in Nat
    BY <1>2, AppendMembers DEF Types, Placed, Enqueue
  <2>2. Types'
    BY <1>2, <2>1 DEF Types, Enqueue
  <2>3. Placed'
    BY <1>2, <2>1 DEF Types, Placed, Enqueue
  <2>4. QED
    BY <2>2, <2>3
<1>3. ASSUME NEW c \in Invocations, Notify(c) PROVE Types' /\ Placed'
  <2>1. Types'
    BY <1>3 DEF Types, Notify, Parked
  <2>2. Placed'
    BY <1>3 DEF Types, Placed, Notify, Parked
  <2>3. QED
    BY <2>1, <2>2
<1>4. ASSUME NEW c \in Invocations, Unqueue(c) PROVE Types' /\ Placed'
  <2>1. /\ queue' \in Seq(Invocations) /\ Len(queue') <= MaxQueue
        /\ ToSet(queue') = ToSet(queue) \ {c} /\ NoDuplicates(queue')
    <3>1. CASE c \notin ToSet(queue) /\ UNCHANGED queue
      BY <3>1 DEF Types, Placed
    <3>2. ASSUME NEW i \in 1..Len(queue), queue[i] = c, queue' = RemoveAt(queue, i)
          PROVE  /\ queue' \in Seq(Invocations) /\ Len(queue') <= MaxQueue
                 /\ ToSet(queue') = ToSet(queue) \ {c} /\ NoDuplicates(queue')
      <4>1. /\ queue' \in Seq(Invocations) /\ Len(queue') = Len(queue) - 1
            /\ ToSet(queue') = ToSet(queue) \ {c} /\ NoDuplicates(queue')
            /\ Len(queue) \in Nat
        BY <3>2, RemoveMembers DEF Types, Placed
      <4>2. QED
        BY <4>1 DEF Types
    <3>3. QED
      BY <1>4, <3>1, <3>2 DEF Unqueue
  <2>2. Types'
    BY <1>4, <2>1 DEF Types, Unqueue
  <2>3. Placed'
    BY <1>4, <2>1 DEF Types, Placed, Unqueue
  <2>4. QED
    BY <2>2, <2>3
<1>5. ASSUME NEW c \in Invocations, Deliver(c) PROVE Types' /\ Placed'
  <2>1. Types'
    BY <1>5 DEF Types, Deliver
  <2>2. Placed'
    BY <1>5 DEF Types, Placed, Deliver
  <2>3. QED
    BY <2>1, <2>2
\* Steps of a poll.
<1>6. ASSUME NEW p \in Pollers, Pop(p) PROVE Types' /\ Placed'
  <2>1. /\ Head(queue) \in Invocations /\ Head(queue) \in ToSet(queue)
        /\ queue' \in Seq(Invocations) /\ Len(queue') = Len(queue) - 1
        /\ ToSet(queue') = ToSet(queue) \ {Head(queue)} /\ NoDuplicates(queue')
        /\ Len(queue) \in Nat
    BY <1>6, TailMembers DEF Types, Placed, Pop
  <2>2. Types'
    BY <1>6, <2>1 DEF Types, Pop
  <2>3. Placed'
    BY <1>6, <2>1 DEF Types, Placed, Pop
  <2>4. QED
    BY <2>2, <2>3
<1>7. ASSUME NEW p \in Pollers,
             Poll(p) \/ FindEmpty(p) \/ Drop(p) \/ TakeToken(p) \/ Park(p) \/ EndPoll(p)
      PROVE  Types' /\ Placed'
  <2>1. Types'
    BY <1>7 DEF Types, Poll, FindEmpty, Drop, TakeToken, Park, EndPoll
  <2>2. Placed'
    BY <1>7 DEF Types, Placed, Poll, FindEmpty, Drop, TakeToken, Park, EndPoll
  <2>3. QED
    BY <2>1, <2>2
<1>8. ASSUME NEW p \in Pollers, Dispatch(p) PROVE Types' /\ Placed'
  <2>1. Types'
    BY <1>8 DEF Types, Placed, Dispatch
  <2>2. Placed'
    BY <1>8 DEF Types, Placed, Dispatch
  <2>3. QED
    BY <2>1, <2>2
\* Steps of the bootstrap.
<1>9. ASSUME Start \/ Crash PROVE Types' /\ Placed'
  BY <1>9 DEF Types, Placed, Start, Crash
<1>10. ASSUME NEW valid \in BOOLEAN, PostResponse(valid) PROVE Types' /\ Placed'
  <2>1. Types'
    BY <1>10 DEF Types, PostResponse, LoadAndDelete
  <2>2. Placed'
    BY <1>10 DEF Types, Placed, PostResponse, LoadAndDelete
  <2>3. QED
    BY <2>1, <2>2
<1>11. ASSUME PostError PROVE Types' /\ Placed'
  <2>1. Types'
    BY <1>11 DEF Types, PostError, LoadAndDelete
  <2>2. Placed'
    BY <1>11 DEF Types, Placed, PostError, LoadAndDelete
  <2>3. QED
    BY <2>1, <2>2
<1>12. ASSUME UNCHANGED vars PROVE Types' /\ Placed'
  BY <1>12 DEF vars, Types, Placed
<1>13. QED
  BY <1>1, <1>2, <1>3, <1>4, <1>5, <1>6, <1>7, <1>8, <1>9, <1>10, <1>11, <1>12 DEF Next

\* Every step keeps a sleeping poll from missing an invocation.
LEMMA AwakeStep == Types /\ Flags /\ Awake /\ [Next]_vars => Awake'
<1> SUFFICES ASSUME Types, Flags, Awake, [Next]_vars PROVE Awake'
  OBVIOUS
<1> USE DEF CallTo, PollTo, BootTo
\* A caller that nobody waits for to notify.
<1>1. ASSUME NEW c \in Invocations,
             \/ RejectFull(c) \/ DeadlinePasses(c) \/ ReturnResult(c) \/ TimeOut(c)
             \/ Forget(c) \/ Deliver(c)
      PROVE  Awake'
  <2>1. /\ UNCHANGED <<queue, notify, poller, conn, orphaned>>
        /\ Notifying => Notifying'
        /\ conn # None => boot' = boot
    BY <1>1 DEF Types, Awake, Notifying, RejectFull, DeadlinePasses, ReturnResult, TimeOut, Forget,
                Deliver
  <2>2. QED
    BY <2>1 DEF Awake, Parked
<1>2. ASSUME NEW c \in Invocations, Enqueue(c) PROVE Awake'
  <2>1. UNCHANGED <<notify, poller, conn, boot, orphaned>> /\ Notifying'
    BY <1>2 DEF Types, Notifying, Enqueue
  <2>2. QED
    BY <2>1 DEF Awake, Parked
<1>3. ASSUME NEW c \in Invocations, Unqueue(c) PROVE Awake'
  <2>1. /\ UNCHANGED <<notify, poller, conn, boot, orphaned>>
        /\ Notifying => Notifying'
    BY <1>3 DEF Types, Notifying, Unqueue
  <2>2. queue' # <<>> => queue # <<>>
    <3>1. queue = <<>> => 1..Len(queue) = {}
      OBVIOUS
    <3>2. QED
      BY <1>3, <3>1, Zenon DEF Unqueue
  <2>3. QED
    BY <2>1, <2>2 DEF Awake, Parked
<1>4. ASSUME NEW c \in Invocations, Notify(c) PROVE Awake'
  <2>1. CASE Parked = {}
    <3>1. notify' /\ Parked' = {} /\ UNCHANGED <<poller, conn, boot, orphaned>>
      BY <1>4, <2>1 DEF Notify, Parked
    <3>2. QED
      BY <3>1 DEF Awake, Parked
  <2>2. CASE Parked # {}
    <3>1. PICK p \in Parked : poller' = [poller EXCEPT ![p] = "check"]
      BY <1>4, <2>2 DEF Notify
    <3>2. UNCHANGED <<notify, conn, boot, orphaned>> /\ ~notify
      BY <1>4, <2>2 DEF Notify, Awake
    <3>3. ~orphaned => \A q \in Pollers : q # p => poller'[q] = "idle"
      BY <3>1 DEF Types, Awake, Parked
    <3>4. poller'[p] = "check" /\ p \in Pollers /\ poller[p] # "idle"
      BY <3>1 DEF Types, Parked
    <3>5. QED
      BY <3>1, <3>2, <3>3, <3>4 DEF Awake, Parked
  <2>3. QED
    BY <2>1, <2>2
\* The bootstrap polls when none of its polls is left.
<1>5. ASSUME NEW p \in Pollers, Poll(p) PROVE Awake'
  <2>1. /\ UNCHANGED <<queue, call, notify, orphaned>>
        /\ conn' = p /\ boot' = "polling" /\ poller' = [poller EXCEPT ![p] = "check"]
        /\ conn = None
    BY <1>5 DEF Poll, Awake
  <2>2. ~orphaned => \A q \in Pollers : poller[q] = "idle"
    BY <2>1, RuntimeAssumption DEF Awake
  <2>3. QED
    BY <2>1, <2>2 DEF Types, Awake, Parked
<1>6. ASSUME NEW p \in Pollers, Pop(p) \/ Drop(p) PROVE Awake'
  <2>1. /\ UNCHANGED <<call, notify, conn, boot, orphaned>>
        /\ queue # <<>> \/ queue' = queue
        /\ \A q \in Pollers : poller'[q] = poller[q] \/ (q = p /\ poller'[q] \in {"check", "drop", "dispatch"})
        /\ poller[p] # "idle"
    BY <1>6 DEF Types, Pop, Drop
  <2>2. Parked' \subseteq Parked
    BY <2>1 DEF Parked
  <2>3. QED
    BY <2>1, <2>2 DEF Awake, Notifying
<1>7. ASSUME NEW p \in Pollers, FindEmpty(p) PROVE Awake'
  <2>1. /\ UNCHANGED <<call, notify, conn, boot, orphaned, queue>>
        /\ queue = <<>> /\ poller' = [poller EXCEPT ![p] = "select"] /\ poller[p] # "idle"
    BY <1>7 DEF FindEmpty
  <2>2. QED
    BY <2>1 DEF Types, Awake, Parked
<1>8. ASSUME NEW p \in Pollers, Dispatch(p) \/ EndPoll(p) PROVE Awake'
  <2>1. /\ UNCHANGED <<call, notify, orphaned, queue>>
        /\ poller' = [poller EXCEPT ![p] = "idle"] /\ poller[p] # "idle"
        /\ IF conn = p THEN conn' = None ELSE conn' = conn /\ boot' = boot
    BY <1>8 DEF Dispatch, EndPoll
  <2>2. QED
    BY <2>1 DEF Types, Awake, Parked, Notifying
<1>9. ASSUME NEW p \in Pollers, TakeToken(p) PROVE Awake'
  <2>1. /\ UNCHANGED <<call, conn, boot, orphaned, queue>> /\ ~notify'
        /\ poller' = [poller EXCEPT ![p] = "check"] /\ poller[p] = "select"
    BY <1>9 DEF TakeToken
  <2>2. ~orphaned => \A q \in Pollers : q # p => poller'[q] = "idle"
    BY <2>1 DEF Types, Awake
  <2>3. QED
    BY <2>1, <2>2 DEF Types, Awake, Parked
<1>10. ASSUME NEW p \in Pollers, Park(p) PROVE Awake'
  <2>1. /\ UNCHANGED <<call, notify, conn, boot, orphaned, queue>> /\ ~notify
        /\ poller' = [poller EXCEPT ![p] = "parked"] /\ poller[p] = "select"
    BY <1>10 DEF Park
  <2>2. QED
    BY <2>1 DEF Types, Awake, Parked, Notifying
<1>11. ASSUME Start \/ Crash PROVE Awake'
  <2>1. /\ UNCHANGED <<call, notify, poller, queue>> /\ conn' = None
        /\ ~orphaned' => ~orphaned /\ conn = None
    <3>1. UNCHANGED <<call, notify, poller, queue>> /\ conn' = None
      BY <1>11 DEF Start, Crash
    <3>2. CASE Start
      <4>1. orphaned' = orphaned /\ boot = "down"
        BY <3>2 DEF Start
      <4>2. conn = None
        BY <4>1 DEF Awake
      <4>3. QED
        BY <3>1, <4>1, <4>2
    <3>3. CASE Crash
      <4>1. ~orphaned' => ~orphaned /\ conn = None
        BY <3>3, Zenon DEF Crash
      <4>2. QED
        BY <3>1, <4>1
    <3>4. QED
      BY <1>11, <3>2, <3>3
  <2>2. QED
    BY <2>1 DEF Awake, Parked, Notifying
<1>12. ASSUME (\E valid \in BOOLEAN : PostResponse(valid)) \/ PostError PROVE Awake'
  <2>1. /\ UNCHANGED <<call, notify, poller, queue, orphaned>> /\ conn' = None /\ conn = None
    BY <1>12 DEF PostResponse, PostError, LoadAndDelete, Awake
  <2>2. QED
    BY <2>1 DEF Awake, Parked, Notifying
<1>13. ASSUME UNCHANGED vars PROVE Awake'
  BY <1>13 DEF vars, Awake, Parked, Notifying
<1>14. QED
  BY <1>1, <1>2, <1>3, <1>4, <1>5, <1>6, <1>7, <1>8, <1>9, <1>10, <1>11, <1>12, <1>13 DEF Next

\* The invariant holds in every reachable state.
LEMMA ServerInvariance == Spec => []ServerInv
<1>1. ServerInv /\ [Next]_vars => ServerInv'
  BY FlagsStep, PlacedStep, AwakeStep DEF ServerInv
<1>2. QED
  BY <1>1, ServerInit, PTL DEF Spec

-----------------------------------------------------------------------------
(* Theorems *)

\* The types, and the bound of the queue: at most RUNTIME_MAX_QUEUE wait.
THEOREM RuntimeTypes == Spec => []TypeOK
<1>1. ServerInv => TypeOK
  BY TypesAndFlags DEF ServerInv
<1>2. QED
  BY <1>1, ServerInvariance, PTL

\* Whatever polls, crashes and timeouts there are, an invocation is written to the
\* bootstrap at most once.
THEOREM NeverDispatchedTwice == Spec => []DispatchedOnce
<1>1. ServerInv => DispatchedOnce
  BY DEF ServerInv, Placed, DispatchedOnce
<1>2. QED
  BY <1>1, ServerInvariance, PTL

\* A call that is over has left neither an entry in inflight nor one in the queue,
\* on every path through handleInvocation, handleNext and handleResponse.
THEOREM CallsCleanUp == Spec => []NothingLeftBehind
<1>1. ServerInv => NothingLeftBehind
  <2> SUFFICES ASSUME ServerInv, NEW c \in Invocations, Done(c)
               PROVE  c \notin inflight /\ c \notin ToSet(queue)
    BY DEF NothingLeftBehind
  <2>1. CASE call[c] = "answered"
    BY <2>1 DEF ServerInv, Placed
  <2>2. CASE call[c] = "timedout"
    BY <2>2 DEF ServerInv, Placed
  <2>3. CASE call[c] = "rejected"
    BY <2>3 DEF ServerInv, Placed, Fresh
  <2>4. QED
    BY <2>1, <2>2, <2>3 DEF Done
<1>2. QED
  BY <1>1, ServerInvariance, PTL

\* The one-token channel never lets the bootstrap sleep beside a queued
\* invocation, however many callers notify at once.
THEOREM NoWakeupLost == Spec => []NoLostWakeup
<1>1. ServerInv => NoLostWakeup
  BY DEF ServerInv, Awake, NoLostWakeup, Parked, Notifying
<1>2. QED
  BY <1>1, ServerInvariance, PTL

\* handleResponse finds room in the result channel whenever it sends: nobody sends
\* to one twice.
THEOREM AtMostOneAnswer == Spec => []OneAnswer
<1>1. ServerInv => OneAnswer
  BY DEF ServerInv, Placed, OneAnswer
<1>2. QED
  BY <1>1, ServerInvariance, PTL
=============================================================================
