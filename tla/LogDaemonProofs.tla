--------------------------- MODULE LogDaemonProofs ---------------------------
(***************************************************************************)
(* The daemon's rings, readers and streams for every set of containers and *)
(* nodes, any sizes, and any number of faults: the state is well typed, and*)
(* a stream misses nothing (StreamMissesNothing).                          *)
(*                                                                         *)
(* Types need more than types: what a reader, a ring or the proxy has must *)
(* have been written (Written), or its time would be none.  The stream     *)
(* rests on FoundOnce: nobody starts a reader that is between the ring and *)
(* the subscriber's channel, because the listing and the start event take  *)
(* a reader each, once, until the daemon ends and its client with it.      *)
(***************************************************************************)
EXTENDS LogDaemon, TLAPS, FiniteSetTheorems, SequenceTheorems, WellFoundedInduction

-----------------------------------------------------------------------------
(* Facts about sequences, numbers and the bound *)

\* The newest lines of a sequence are some of its lines, and not too many.
LEMMA NewestFacts ==
  ASSUME NEW S, NEW s \in Seq(S), NEW n \in Nat \ {0}
  PROVE  /\ Newest(n, s) \in Seq(S) /\ Len(Newest(n, s)) <= n
         /\ ToSet(Newest(n, s)) \subseteq ToSet(s)
<1> DEFINE b == IF Len(s) > n THEN Len(s) - n + 1 ELSE 1
<1>1. Len(s) \in Nat /\ b \in 1 .. Len(s) + 1 /\ Len(s) - b + 1 <= n
  OBVIOUS
<1>2. /\ SubSeq(s, b, Len(s)) \in Seq(S)
      /\ Len(SubSeq(s, b, Len(s))) = Len(s) - b + 1
      /\ \A i \in 1 .. Len(s) - b + 1 : SubSeq(s, b, Len(s))[i] = s[b + i - 1]
  <2>1. \A i \in b .. Len(s) : s[i] \in S
    BY <1>1
  <2>2. b \in Int /\ Len(s) \in Int /\ b <= Len(s) + 1
    BY <1>1
  <2> HIDE DEF b
  <2>3. QED
    BY <2>1, <2>2, SubSeqProperties
<1>3. Newest(n, s) = SubSeq(s, b, Len(s))
  BY DEF Newest
<1> HIDE DEF b
<1>4. Newest(n, s) \in Seq(S) /\ Len(Newest(n, s)) = Len(s) - b + 1
  BY <1>2, <1>3
<1>5. ASSUME NEW i \in DOMAIN Newest(n, s) PROVE Newest(n, s)[i] \in ToSet(s)
  <2>1. i \in 1 .. Len(s) - b + 1
    BY <1>4
  <2>2. b + i - 1 \in 1 .. Len(s)
    BY <1>1, <2>1
  <2>3. QED
    BY <1>2, <1>3, <2>1, <2>2 DEF ToSet
<1>6. QED
  BY <1>1, <1>4, <1>5 DEF ToSet

\* A set of numbers with a bound has its maximum.
LEMMA MaxFacts ==
  ASSUME NEW n \in Nat, NEW S, S \subseteq 0..n, S # {}
  PROVE  Max(S) \in S
<1> DEFINE T == {n - x : x \in S}
<1>1. T \subseteq Nat /\ T # {}
  <2>1. \A x \in S : n - x \in Nat
    OBVIOUS
  <2>2. QED
    BY <2>1
<1>2. PICK y \in T : \A z \in T : ~(<<z, y>> \in OpToRel(<, Nat))
  BY <1>1, NatLessThanWellFounded, WFMin, Zenon
<1>3. PICK x \in S : y = n - x
  OBVIOUS
<1>4. ASSUME NEW w \in S PROVE x >= w
  <2>1. n - w \in T /\ n - w \in Nat /\ y \in Nat
    BY <1>1
  <2>2. ~(n - w < y)
    <3>1. ~(<<n - w, y>> \in OpToRel(<, Nat))
      BY <1>2, <2>1
    <3>2. QED
      BY <2>1, <3>1 DEF OpToRel
  <2>3. x \in 0..n /\ w \in 0..n
    OBVIOUS
  <2>4. QED
    BY <1>3, <2>1, <2>2, <2>3
<1>5. QED
  BY <1>4 DEF Max

\* With less than MaxLines written in all, no container has written as many.
LEMMA RoomForOne ==
  ASSUME NEW p \in Pods, Len(log[p]) \in 0..MaxLines, Cardinality(Written) < MaxLines
  PROVE  Len(log[p]) < MaxLines
<1> SUFFICES ASSUME Len(log[p]) = MaxLines PROVE FALSE
  BY LogAssumption
<1> DEFINE full == {p} \X (1..MaxLines)
<1>0. MaxLines \in Nat /\ IsFiniteSet(Pods)
  BY LogAssumption
<1>1. IsFiniteSet(1..MaxLines) /\ Cardinality(1..MaxLines) = MaxLines
  BY <1>0, FS_Interval
<1>2. IsFiniteSet(Written)
  <2>1. IsFiniteSet(Lines)
    BY <1>0, <1>1, FS_Product DEF Lines
  <2>2. QED
    BY <2>1, FS_Subset DEF Written
<1>3. full \subseteq Written
  BY DEF Written, Lines
<1>4. Cardinality(full) = MaxLines
  <2>1. IsFiniteSet({p}) /\ Cardinality({p}) = 1
    BY FS_Singleton
  <2>2. Cardinality({p} \X (1..MaxLines)) = Cardinality({p}) * Cardinality(1..MaxLines)
    BY <1>1, <2>1, FS_Product
  <2>3. QED
    BY <1>0, <1>1, <2>1, <2>2
<1>5. Cardinality(full) <= Cardinality(Written)
  BY <1>2, <1>3, FS_Subset
<1>6. Cardinality(Written) \in Nat
  BY <1>2, FS_CardinalityType
<1>7. QED
  BY <1>0, <1>4, <1>5, <1>6

-----------------------------------------------------------------------------
(* The invariant *)

PodTypes ==
  /\ mode \in {"docker", "collector"}
  /\ phase \in [Pods -> {"absent", "running", "gone"}] /\ node \in [Pods -> Nodes]
  /\ log \in [Pods -> Seq(1..MaxTime)] /\ \A p \in Pods : Len(log[p]) <= MaxLines
  /\ pending \subseteq Pods
ReaderTypes ==
  /\ reader \in [Readers -> {"off", "read", "send", "done"}]
  /\ at \in [Readers -> Nat]
  /\ \A r \in Readers : at[r] <= Len(log[r[1]])
  /\ \A r \in Readers : reader[r] = "send" => at[r] > 0
RingTypes ==
  /\ ring \in [Nodes -> Seq(Lines)] /\ \A n \in Nodes : Len(ring[n]) <= RingSize
ClientTypes ==
  /\ client \in {"off", "tail", "live", "gone"}
  /\ chan \in Seq(Lines) /\ Len(chan) <= ChanSize
  /\ owed \subseteq Lines
\* What the proxy has, and may get, has been written.
ProxyTypes ==
  /\ \A n \in Nodes : ToSet(ring[n]) \subseteq Written
  /\ batch \subseteq Written
  /\ asking \subseteq Nodes \cup {"idle"}
  /\ last \in 0 .. MaxTime
Flags == mode \in Modes /\ listed \in BOOLEAN /\ events \in BOOLEAN

Types == PodTypes /\ ReaderTypes /\ RingTypes /\ ClientTypes /\ ProxyTypes

\* Lines that have been written are lines.
LEMMA WrittenFacts ==
  ASSUME PodTypes, NEW line \in Written
  PROVE  line \in Lines /\ Time(line) \in 1..MaxTime
<1>1. line \in Lines /\ line[1] \in Pods /\ line[2] \in 1 .. Len(log[line[1]])
  BY LogAssumption DEF Written, Lines, PodTypes
<1>2. log[line[1]] \in Seq(1..MaxTime)
  BY <1>1 DEF PodTypes
<1>3. log[line[1]][line[2]] \in 1..MaxTime
  BY <1>1, <1>2, ElementOfSeq
<1>4. QED
  BY <1>1, <1>3 DEF Time

\* A reader's container, and the line it is about to read or has just read.
LEMMA ReaderLines ==
  ASSUME PodTypes, ReaderTypes, NEW r \in Readers
  PROVE  /\ r[1] \in Pods
         /\ at[r] < Len(log[r[1]]) => <<r[1], at[r] + 1>> \in Written
         /\ reader[r] = "send" => <<r[1], at[r]>> \in Written
<1>1. r[1] \in Pods
  BY DEF Readers
<1>2. Len(log[r[1]]) \in 0..MaxLines /\ at[r] \in Nat /\ at[r] <= Len(log[r[1]])
  BY <1>1, LogAssumption DEF PodTypes, ReaderTypes
<1>3. ASSUME NEW k \in 1 .. Len(log[r[1]]) PROVE <<r[1], k>> \in Written
  BY <1>1, <1>2, LogAssumption DEF Written, Lines
<1>4. reader[r] = "send" => at[r] > 0
  BY DEF ReaderTypes
<1>5. QED
  BY <1>1, <1>2, <1>3, <1>4

-----------------------------------------------------------------------------
(* Type correctness *)

\* Only StartPod, WriteLine and StopPod touch a container.
LEMMA PodStep ==
  ASSUME PodTypes, [Next]_vars
  PROVE  PodTypes' /\ \A p \in Pods : Len(log[p]) <= Len(log'[p])
<1> USE DEF podVars, eventVars
<1>1. CASE UNCHANGED <<mode, podVars>> /\ pending' \subseteq pending
  BY <1>1 DEF PodTypes
<1>2. ASSUME NEW p \in Pods, StartPod(p)
      PROVE  PodTypes' /\ \A q \in Pods : Len(log[q]) <= Len(log'[q])
  <2>1. Local \in Nodes
    BY LogAssumption DEF Local
  <2>2. PICK n \in Nodes : node' = [node EXCEPT ![p] = n]
    BY <1>2, <2>1 DEF StartPod
  <2>3. /\ phase' = [phase EXCEPT ![p] = "running"] /\ pending' \subseteq pending \cup {p}
        /\ UNCHANGED <<mode, log>>
    BY <1>2 DEF StartPod
  <2>4. QED
    BY <2>2, <2>3 DEF PodTypes
<1>3. ASSUME NEW p \in Pods, WriteLine(p)
      PROVE  PodTypes' /\ \A q \in Pods : Len(log[q]) <= Len(log'[q])
  <2>1. PICK t \in Times : log' = [log EXCEPT ![p] = Append(@, t)]
    BY <1>3 DEF WriteLine
  <2>2. t \in 1..MaxTime
    BY LogAssumption DEF Times
  <2>3. UNCHANGED <<mode, phase, node, pending>>
    BY <1>3 DEF WriteLine
  <2>4. Len(log[p]) \in 0..MaxLines /\ Cardinality(Written) < MaxLines
    BY <1>3, LogAssumption DEF PodTypes, WriteLine
  <2>5. Len(log[p]) < MaxLines
    BY <2>4, RoomForOne
  <2>6. /\ log'[p] \in Seq(1..MaxTime) /\ Len(log'[p]) = Len(log[p]) + 1
        /\ \A q \in Pods \ {p} : log'[q] = log[q]
        /\ log' \in [Pods -> Seq(1..MaxTime)]
    BY <2>1, <2>2 DEF PodTypes
  <2>7. \A q \in Pods : Len(log'[q]) <= MaxLines /\ Len(log[q]) <= Len(log'[q])
    <3>1. \A q \in Pods : Len(log[q]) \in Nat /\ Len(log[q]) <= MaxLines
      BY DEF PodTypes
    <3>2. Len(log'[p]) <= MaxLines /\ Len(log[p]) <= Len(log'[p])
      BY <2>4, <2>5, <2>6, LogAssumption
    <3>3. QED
      BY <2>6, <3>1, <3>2
  <2>8. QED
    BY <2>3, <2>6, <2>7 DEF PodTypes
<1>4. ASSUME NEW p \in Pods, StopPod(p)
      PROVE  PodTypes' /\ \A q \in Pods : Len(log[q]) <= Len(log'[q])
  BY <1>4 DEF StopPod, PodTypes
<1>5. QED
  BY <1>1, <1>2, <1>3, <1>4 DEF Next, vars, CollectExisting, OpenEvents, LoseEvents, HandleStart,
     SyncPods, EndReader, Push, Send, Connect, ShowTail, ShowNext, Disconnect, BeginFetch,
     FetchCollector, ShowBatch, RestartDaemon

\* Readers read line after line, up to the last.
LEMMA ReaderStep ==
  ASSUME PodTypes, ReaderTypes, [Next]_vars
  PROVE  ReaderTypes'
<1>0. \A r \in Readers : Len(log[r[1]]) \in Nat /\ Len(log'[r[1]]) \in Nat
                         /\ Len(log[r[1]]) <= Len(log'[r[1]])
  BY PodStep DEF Readers, PodTypes
<1> USE DEF readVars
<1>1. CASE UNCHANGED <<reader, at>>
  BY <1>0, <1>1 DEF ReaderTypes
<1>2. ASSUME NEW rs, NEW label \in {"read", "done"}, ReaderTo(rs, label), UNCHANGED at
      PROVE  ReaderTypes'
  BY <1>0, <1>2 DEF ReaderTypes, ReaderTo
<1>3. ASSUME NEW r \in Readers, Push(r) PROVE ReaderTypes'
  <2>1. /\ at' = [at EXCEPT ![r] = @ + 1] /\ at[r] < Len(log[r[1]]) /\ log' = log
        /\ ReaderTo({r}, "send") \/ ReaderTo({r}, "read")
    BY <1>3 DEF Push, podVars
  <2>2. QED
    BY <1>0, <2>1 DEF ReaderTypes, ReaderTo
<1>4. ASSUME NEW n \in Nodes, RestartDaemon(n) PROVE ReaderTypes'
  BY <1>0, <1>4 DEF ReaderTypes, ReaderTo, RestartDaemon
<1>5. QED
  BY <1>1, <1>2, <1>3, <1>4 DEF Next, vars, StartPod, WriteLine, StopPod, HandleStart,
     CollectExisting, OpenEvents, LoseEvents, SyncPods, EndReader, Send, Connect, ShowTail,
     ShowNext, Disconnect, BeginFetch, FetchCollector, ShowBatch

\* What has been written stays written.
LEMMA WrittenGrows ==
  ASSUME PodTypes, [Next]_vars
  PROVE  Written \subseteq Written'
<1>1. PodTypes' /\ \A p \in Pods : Len(log[p]) <= Len(log'[p])
  BY PodStep
<1>2. \A line \in Lines : line[1] \in Pods /\ line[2] \in Int
  BY LogAssumption DEF Lines
<1>3. \A p \in Pods : Len(log[p]) \in Int /\ Len(log'[p]) \in Int
  BY <1>1 DEF PodTypes
<1>4. QED
  BY <1>1, <1>2, <1>3 DEF Written

\* What a ring is after a push.
LEMMA RingWithFacts ==
  ASSUME NEW s \in Seq(Lines), NEW line \in Lines
  PROVE  /\ RingWith(Append(s, line)) \in Seq(Lines)
         /\ Len(RingWith(Append(s, line))) <= RingSize
         /\ ToSet(RingWith(Append(s, line))) \subseteq ToSet(s) \cup {line}
<1>1. RingSize \in Nat \ {0}
  BY LogAssumption
<1>2. Append(s, line) \in Seq(Lines)
  OBVIOUS
<1>3. ToSet(Append(s, line)) \subseteq ToSet(s) \cup {line}
  BY DEF ToSet
<1>4. QED
  BY <1>1, <1>2, <1>3, NewestFacts DEF RingWith

\* Rings keep the last RingSize lines.
LEMMA RingStep ==
  ASSUME PodTypes, ReaderTypes, RingTypes, [Next]_vars
  PROVE  RingTypes'
<1> USE DEF readVars
<1>1. CASE UNCHANGED ring
  BY <1>1 DEF RingTypes
<1>2. ASSUME NEW r \in Readers, Push(r) PROVE RingTypes'
  <2>1. PICK line, n : /\ line = <<r[1], at[r] + 1>> /\ n = node[r[1]]
                       /\ ring' = [ring EXCEPT ![n] = RingWith(Append(@, line))]
    BY <1>2 DEF Push
  <2>2. line \in Lines /\ n \in Nodes
    <3>1. r[1] \in Pods /\ line \in Written
      BY <1>2, <2>1, ReaderLines DEF Push
    <3>2. QED
      BY <2>1, <3>1, WrittenFacts DEF PodTypes
  <2>3. /\ RingWith(Append(ring[n], line)) \in Seq(Lines)
        /\ Len(RingWith(Append(ring[n], line))) <= RingSize
    BY <2>2, RingWithFacts DEF RingTypes
  <2>4. QED
    BY <2>1, <2>2, <2>3 DEF RingTypes
<1>3. ASSUME NEW n \in Nodes, RestartDaemon(n) PROVE RingTypes'
  <2>1. ring' = [ring EXCEPT ![n] = <<>>]
    BY <1>3 DEF RestartDaemon
  <2>2. <<>> \in Seq(Lines) /\ Len(<<>>) <= RingSize
    BY LogAssumption
  <2>3. QED
    BY <2>1, <2>2 DEF RingTypes
<1>4. QED
  BY <1>1, <1>2, <1>3 DEF Next, vars, StartPod, WriteLine, StopPod, HandleStart,
     CollectExisting, OpenEvents, LoseEvents, SyncPods, EndReader, Send, Connect, ShowTail,
     ShowNext, Disconnect, BeginFetch, FetchCollector, ShowBatch

\* The client gets lines, and its channel no more than it can hold.
LEMMA ClientStep ==
  ASSUME PodTypes, ReaderTypes, ClientTypes, [Next]_vars
  PROVE  ClientTypes'
<1> USE DEF clientVars, ClientTypes
<1>1. CASE UNCHANGED clientVars
  BY <1>1
<1>2. CASE Gone
  BY <1>2, LogAssumption DEF Gone
<1>3. ASSUME NEW r \in Readers, Push(r) PROVE ClientTypes'
  <2>1. <<r[1], at[r] + 1>> \in Lines
    BY <1>3, ReaderLines, WrittenFacts DEF Push
  <2>2. QED
    BY <1>3, <2>1 DEF Push
<1>4. ASSUME NEW r \in Readers, Send(r) PROVE ClientTypes'
  <2>1. PICK line \in Lines : line = <<r[1], at[r]>>
    BY <1>4, ReaderLines, WrittenFacts DEF Send
  <2>2. /\ \/ chan' = chan
           \/ Len(chan) < ChanSize /\ chan' = Append(chan, line)
        /\ owed' \subseteq owed /\ client' = client
    BY <1>4, <2>1 DEF Send
  <2>3. QED
    BY <2>2, LogAssumption
<1>5. CASE Connect \/ ShowTail
  BY <1>5 DEF Connect, ShowTail
<1>6. CASE ShowNext
  <2>1. chan' = Tail(chan) /\ owed' \subseteq owed /\ client' = client /\ chan # <<>>
    BY <1>6 DEF ShowNext
  <2>2. QED
    BY <2>1, LogAssumption
<1>7. QED
  BY <1>1, <1>2, <1>3, <1>4, <1>5, <1>6 DEF Next, vars, StartPod, WriteLine, StopPod, HandleStart,
     CollectExisting, OpenEvents, LoseEvents, SyncPods, EndReader, Disconnect,
     BeginFetch, FetchCollector, ShowBatch, RestartDaemon

\* The proxy gets what has been written.
LEMMA ProxyStep ==
  ASSUME PodTypes, ReaderTypes, RingTypes, ProxyTypes, [Next]_vars
  PROVE  ProxyTypes'
<1> USE DEF readVars, proxyVars
<1>1. Written \subseteq Written'
  BY WrittenGrows
<1>2. CASE UNCHANGED <<ring, batch, asking, last>>
  BY <1>1, <1>2 DEF ProxyTypes
<1>3. ASSUME NEW r \in Readers, Push(r) PROVE ProxyTypes'
  <2>1. PICK line, n : /\ line = <<r[1], at[r] + 1>> /\ n = node[r[1]]
                       /\ ring' = [ring EXCEPT ![n] = RingWith(Append(@, line))]
    BY <1>3 DEF Push
  <2>2. line \in Written /\ line \in Lines /\ n \in Nodes
    <3>1. r[1] \in Pods /\ line \in Written
      BY <1>3, <2>1, ReaderLines DEF Push
    <3>2. QED
      BY <2>1, <3>1, WrittenFacts DEF PodTypes
  <2>3. ToSet(RingWith(Append(ring[n], line))) \subseteq ToSet(ring[n]) \cup {line}
    BY <2>2, RingWithFacts DEF RingTypes
  <2>4. \A m \in Nodes : ToSet(ring'[m]) \subseteq ToSet(ring[m]) \cup {line}
    BY <2>1, <2>2, <2>3 DEF RingTypes
  <2>5. UNCHANGED <<batch, asking, last>>
    BY <1>3 DEF Push
  <2>6. QED
    BY <1>1, <2>2, <2>4, <2>5 DEF ProxyTypes
<1>4. CASE BeginFetch
  BY <1>1, <1>4 DEF BeginFetch, ProxyTypes
<1>5. ASSUME NEW n \in Nodes, FetchCollector(n) PROVE ProxyTypes'
  <2>1. TailSize \in Nat \ {0}
    BY LogAssumption
  <2>2. ToSet(Newest(TailSize, ring[n])) \subseteq ToSet(ring[n])
    BY <2>1, NewestFacts DEF RingTypes
  <2>3. batch' \subseteq batch \cup ToSet(ring[n])
    BY <1>5, <2>2 DEF FetchCollector
  <2>4. UNCHANGED <<ring, last>> /\ asking' \subseteq asking
    BY <1>5 DEF FetchCollector
  <2>5. QED
    BY <1>1, <2>3, <2>4 DEF ProxyTypes
<1>6. CASE ShowBatch
  <2>1. PICK s \in NewestOf(batch) : last' = Max({last} \cup {Time(x) : x \in s})
    BY <1>6 DEF ShowBatch
  <2>2. \A x \in s : Time(x) \in 1..MaxTime
    BY WrittenFacts DEF NewestOf, ProxyTypes
  <2>3. {last} \cup {Time(x) : x \in s} \subseteq 0..MaxTime
    BY <2>2, LogAssumption DEF ProxyTypes
  <2>4. last' \in 0..MaxTime
    BY <2>1, <2>3, MaxFacts, LogAssumption
  <2>5. UNCHANGED ring /\ batch' = {} /\ asking' = {"idle"}
    BY <1>6 DEF ShowBatch
  <2>6. QED
    BY <1>1, <2>4, <2>5 DEF ProxyTypes
<1>7. ASSUME NEW n \in Nodes, RestartDaemon(n) PROVE ProxyTypes'
  <2>1. ring' = [ring EXCEPT ![n] = <<>>] /\ UNCHANGED <<batch, asking, last>>
    BY <1>7 DEF RestartDaemon
  <2>2. ToSet(<<>>) = {}
    BY DEF ToSet
  <2>3. \A m \in Nodes : ToSet(ring'[m]) \subseteq ToSet(ring[m])
    BY <2>1, <2>2 DEF RingTypes
  <2>4. QED
    BY <1>1, <2>1, <2>3 DEF ProxyTypes
<1>8. QED
  BY <1>2, <1>3, <1>4, <1>5, <1>6, <1>7 DEF Next, vars, StartPod, WriteLine, StopPod, HandleStart,
     CollectExisting, OpenEvents, LoseEvents, SyncPods, EndReader, Send, Connect, ShowTail,
     ShowNext, Disconnect

\* The mode is given, the flags are flags.
LEMMA FlagsStep ==
  ASSUME Flags, [Next]_vars
  PROVE  Flags'
<1> USE DEF eventVars
<1>1. mode' = mode
  BY DEF Next, vars, StartPod, WriteLine, StopPod, HandleStart, CollectExisting, OpenEvents,
     LoseEvents, SyncPods, EndReader, Push, Send, Connect, ShowTail, ShowNext, Disconnect,
     BeginFetch, FetchCollector, ShowBatch, RestartDaemon
<1>2. listed' \in {listed, TRUE, FALSE} /\ events' \in {events, TRUE, FALSE}
  BY DEF Next, vars, StartPod, WriteLine, StopPod, HandleStart, CollectExisting, OpenEvents,
     LoseEvents, SyncPods, EndReader, Push, Send, Connect, ShowTail, ShowNext, Disconnect,
     BeginFetch, FetchCollector, ShowBatch, RestartDaemon
<1>3. QED
  BY <1>1, <1>2 DEF Flags

-----------------------------------------------------------------------------
(* The stream *)

\* In docker mode there is one node, and no reader is started while it reads: a
\* container is found once by the listing and once by its start event.
FoundOnce ==
  /\ mode = "docker" => \A p \in Pods : node[p] = Local
  /\ mode = "docker" /\ ~listed => \A p \in Pods : reader[<<p, "list">>] = "off"
  /\ \A p \in pending : phase[p] # "absent" /\ reader[<<p, "event">>] = "off"
  /\ \A p \in Pods : phase[p] = "absent" => reader[<<p, "event">>] = "off"

\* Only a subscriber, which is docker's, is owed anything.
Owing ==
  /\ Subscribed => mode = "docker"
  /\ ~Subscribed => owed = {}
  /\ StreamMissesNothing

\* The readers of a container.
LEMMA TwoReaders ==
  \A p \in Pods : <<p, "list">> \in Readers /\ <<p, "event">> \in Readers
                  /\ <<p, "list">> # <<p, "event">>
BY DEF Readers

\* Each way to a container is taken once.
LEMMA FoundOnceStep ==
  ASSUME PodTypes, ReaderTypes, FoundOnce, [Next]_vars
  PROVE  FoundOnce'
<1> USE TwoReaders DEF podVars, eventVars, readVars
<1>1. CASE UNCHANGED <<mode, node, phase, listed, reader>> /\ pending' \subseteq pending
  BY <1>1 DEF FoundOnce
<1>2. ASSUME NEW p \in Pods, StartPod(p) PROVE FoundOnce'
  <2>1. mode = "docker" => node' = [node EXCEPT ![p] = Local]
    BY <1>2 DEF StartPod
  <2>2. /\ phase[p] = "absent" /\ phase' = [phase EXCEPT ![p] = "running"]
        /\ pending' \subseteq pending \cup {p} /\ UNCHANGED <<mode, listed, reader>>
    BY <1>2 DEF StartPod
  <2>3. QED
    BY <2>1, <2>2 DEF FoundOnce, PodTypes
<1>3. ASSUME NEW p \in Pods, StopPod(p) PROVE FoundOnce'
  BY <1>3 DEF StopPod, FoundOnce, PodTypes
<1>4. CASE CollectExisting
  <2>1. listed' /\ UNCHANGED <<mode, node, phase, pending>>
    BY <1>4 DEF CollectExisting
  <2>2. \A p \in Pods : reader'[<<p, "event">>] = reader[<<p, "event">>]
    BY <1>4 DEF CollectExisting, ReaderTo
  <2>3. QED
    BY <2>1, <2>2 DEF FoundOnce, PodTypes
<1>5. ASSUME NEW p \in Pods, HandleStart(p) PROVE FoundOnce'
  <2>1. /\ p \in pending /\ pending' = pending \ {p}
        /\ UNCHANGED <<mode, node, phase, listed>>
    BY <1>5 DEF HandleStart
  <2>2. \A r \in Readers : r # <<p, "event">> => reader'[r] = reader[r]
    BY <1>5 DEF HandleStart, ReaderTo
  <2>3. QED
    BY <2>1, <2>2 DEF FoundOnce, PodTypes
<1>6. ASSUME NEW n \in Nodes, SyncPods(n) PROVE FoundOnce'
  <2>1. mode = "collector" /\ UNCHANGED <<mode, node, phase, listed, pending>>
    BY <1>6 DEF SyncPods
  <2>2. \A p \in Pods : reader'[<<p, "event">>] = reader[<<p, "event">>]
    BY <1>6 DEF SyncPods, ReaderTo
  <2>3. QED
    BY <2>1, <2>2 DEF FoundOnce, PodTypes
<1>7. ASSUME NEW r \in Readers, EndReader(r) \/ Push(r) \/ Send(r) PROVE FoundOnce'
  <2>1. reader[r] # "off" /\ UNCHANGED <<mode, node, phase, listed, pending>>
    BY <1>7 DEF EndReader, Push, Send
  <2>2. \A x \in Readers : x # r => reader'[x] = reader[x]
    BY <1>7 DEF EndReader, Push, Send, ReaderTo
  <2>3. QED
    BY <2>1, <2>2 DEF FoundOnce, PodTypes
<1>8. ASSUME NEW n \in Nodes, RestartDaemon(n) PROVE FoundOnce'
  <2>1. /\ UNCHANGED <<mode, node, phase>> /\ pending' = {}
        /\ mode = "docker" => n = Local
    BY <1>8 DEF RestartDaemon
  <2>2. \A x \in Readers : reader'[x] = "off" \/ (reader'[x] = reader[x] /\ node[x[1]] # n)
    <3> DEFINE mine == {x \in Readers : node[x[1]] = n}
    <3>1. reader' = [x \in Readers |-> IF x \in mine THEN "off" ELSE reader[x]]
      BY <1>8 DEF RestartDaemon, ReaderTo
    <3>2. QED
      BY <3>1
  <2>3. QED
    BY <2>1, <2>2 DEF FoundOnce, PodTypes
<1>9. QED
  BY <1>1, <1>2, <1>3, <1>4, <1>5, <1>6, <1>7, <1>8 DEF Next, vars, WriteLine, OpenEvents,
     LoseEvents, Connect, ShowTail, ShowNext, Disconnect, BeginFetch, FetchCollector, ShowBatch

\* What is owed stays in the channel, or on its way there.
LEMMA OwingStep ==
  ASSUME PodTypes, ReaderTypes, ClientTypes, FoundOnce, Owing, [Next]_vars
  PROVE  Owing'
<1> USE DEF readVars, clientVars
<1>1. CASE UNCHANGED <<mode, reader, at, clientVars>>
  BY <1>1 DEF Owing, StreamMissesNothing, Sending, Subscribed
<1>2. ASSUME UNCHANGED <<mode, at, clientVars>>,
             \A r \in Readers : reader[r] = "send" => reader'[r] = "send"
      PROVE  Owing'
  BY <1>2 DEF Owing, StreamMissesNothing, Sending, Subscribed
<1>3. CASE Gone /\ mode' = mode
  BY <1>3 DEF Gone, Owing, StreamMissesNothing, Subscribed
<1>4. CASE CollectExisting
  <2>1. \A p \in Pods : reader[<<p, "list">>] = "off"
    BY <1>4 DEF CollectExisting, FoundOnce
  <2>2. \A r \in Readers : reader[r] = "send" => reader'[r] = "send"
    BY <1>4, <2>1 DEF CollectExisting, ReaderTo, Readers, Running
  <2>3. QED
    BY <1>2, <1>4, <2>2 DEF CollectExisting
<1>5. ASSUME NEW p \in Pods, HandleStart(p) PROVE Owing'
  <2>1. reader[<<p, "event">>] = "off"
    BY <1>5 DEF HandleStart, FoundOnce
  <2>2. \A r \in Readers : reader[r] = "send" => reader'[r] = "send"
    BY <1>5, <2>1 DEF HandleStart, ReaderTo
  <2>3. QED
    BY <1>2, <1>5, <2>2 DEF HandleStart
<1>6. ASSUME NEW n \in Nodes, SyncPods(n) PROVE Owing'
  BY <1>6 DEF SyncPods, Owing, StreamMissesNothing, Subscribed
<1>7. ASSUME NEW r \in Readers, EndReader(r) PROVE Owing'
  <2>1. \A x \in Readers : reader[x] = "send" => reader'[x] = "send"
    BY <1>7 DEF EndReader, ReaderTo
  <2>2. QED
    BY <1>2, <1>7, <2>1 DEF EndReader
<1>8. ASSUME NEW r \in Readers, Push(r) PROVE Owing'
  <2> DEFINE line == <<r[1], at[r] + 1>>
  <2>1. /\ UNCHANGED <<mode, client, chan>> /\ reader[r] = "read"
        /\ at'[r] = at[r] + 1 /\ \A x \in Readers \ {r} : at'[x] = at[x]
        /\ \A x \in Readers \ {r} : reader'[x] = reader[x]
        /\ reader'[r] = (IF Subscribed THEN "send" ELSE "read")
    BY <1>8 DEF Push, ReaderTypes, ReaderTo
  <2>2. owed' = IF Subscribed THEN owed \cup {line} ELSE owed
    BY <1>8 DEF Push, Subscribed
  <2>3. Sending \subseteq Sending'
    BY <2>1 DEF Sending
  <2>4. Subscribed => line \in Sending'
    BY <2>1 DEF Sending
  <2>5. QED
    BY <2>1, <2>2, <2>3, <2>4 DEF Owing, StreamMissesNothing, Subscribed
<1>9. ASSUME NEW r \in Readers, Send(r) PROVE Owing'
  <2>0. PICK line \in Lines : line = <<r[1], at[r]>>
    BY <1>9, ReaderLines, WrittenFacts DEF Send
  <2>1. /\ UNCHANGED <<mode, client, at>> /\ reader[r] = "send"
        /\ \A x \in Readers \ {r} : reader'[x] = reader[x]
    BY <1>9 DEF Send, ReaderTo
  <2>2. Sending \subseteq Sending' \cup {line}
    BY <2>0, <2>1 DEF Sending
  <2>3. \/ client = "gone" /\ UNCHANGED <<chan, owed>>
        \/ Subscribed /\ chan' = Append(chan, line) /\ UNCHANGED owed
        \/ Subscribed /\ owed' = owed \ {line} /\ UNCHANGED chan
    BY <1>9, <2>0 DEF Send
  <2>4. CASE client = "gone" /\ UNCHANGED <<chan, owed>>
    BY <2>1, <2>4 DEF Owing, StreamMissesNothing, Subscribed
  <2>5. CASE Subscribed /\ chan' = Append(chan, line) /\ UNCHANGED owed
    <3>1. ToSet(chan') = ToSet(chan) \cup {line}
      BY <2>5 DEF ToSet, ClientTypes
    <3>2. QED
      BY <2>1, <2>2, <2>5, <3>1 DEF Owing, StreamMissesNothing, Subscribed
  <2>6. CASE Subscribed /\ owed' = owed \ {line} /\ UNCHANGED chan
    BY <2>1, <2>2, <2>6 DEF Owing, StreamMissesNothing, Subscribed
  <2>7. QED
    BY <2>3, <2>4, <2>5, <2>6
<1>10. CASE Connect
  BY <1>10 DEF Connect, Owing, StreamMissesNothing, Subscribed
<1>11. CASE ShowTail
  BY <1>11 DEF ShowTail, Owing, StreamMissesNothing, Subscribed, Sending
<1>12. CASE ShowNext
  <2>1. /\ client = "live" /\ chan # <<>> /\ chan' = Tail(chan) /\ owed' = owed \ {Head(chan)}
        /\ UNCHANGED <<mode, client, reader, at>>
    BY <1>12 DEF ShowNext
  <2>2. ToSet(chan) \subseteq {Head(chan)} \cup ToSet(chan')
    <3>1. /\ chan' \in Seq(Lines) /\ Len(chan') = Len(chan) - 1 /\ Len(chan) \in Nat \ {0}
          /\ \A i \in 1 .. Len(chan) - 1 : chan'[i] = chan[i + 1]
          /\ Head(chan) = chan[1]
      BY <2>1 DEF ClientTypes
    <3>2. ASSUME NEW i \in 1 .. Len(chan), i # 1 PROVE chan[i] \in ToSet(chan')
      <4>1. i - 1 \in 1 .. Len(chan) - 1 /\ chan[i] = chan'[i - 1]
        BY <3>1, <3>2
      <4>2. QED
        BY <3>1, <4>1 DEF ToSet
    <3>3. QED
      BY <3>1, <3>2 DEF ToSet, ClientTypes
  <2>3. QED
    BY <2>1, <2>2 DEF Owing, StreamMissesNothing, Subscribed, Sending
<1>13. CASE Disconnect
  BY <1>3, <1>13 DEF Disconnect
<1>14. ASSUME NEW n \in Nodes, RestartDaemon(n) PROVE Owing'
  <2>1. CASE Subscribed
    BY <1>3, <1>14, <2>1 DEF RestartDaemon
  <2>2. CASE ~Subscribed
    BY <1>14, <2>2 DEF RestartDaemon, Owing, StreamMissesNothing, Subscribed
  <2>3. QED
    BY <2>1, <2>2
<1>15. QED
  BY <1>1, <1>4, <1>5, <1>6, <1>7, <1>8, <1>9, <1>10, <1>11, <1>12, <1>13, <1>14
  DEF Next, vars, StartPod, WriteLine, StopPod, OpenEvents, LoseEvents, BeginFetch,
      FetchCollector, ShowBatch

-----------------------------------------------------------------------------
(* Theorems *)

IInv == Types /\ Flags /\ FoundOnce /\ Owing

\* The invariant behind the two theorems.
THEOREM LogInvariant == Spec => []IInv
<1>1. Init => IInv
  <2> SUFFICES ASSUME Init PROVE IInv
    OBVIOUS
  <2> USE LogAssumption DEF Init
  <2>1. PodTypes
    BY DEF PodTypes, Local
  <2>2. ReaderTypes
    <3>1. \A r \in Readers : r[1] \in Pods /\ Len(log[r[1]]) = 0
      BY DEF Readers
    <3>2. QED
      BY <3>1 DEF ReaderTypes
  <2>3. RingTypes
    BY DEF RingTypes
  <2>4. ClientTypes
    BY DEF ClientTypes
  <2>5. ProxyTypes
    BY DEF ProxyTypes, ToSet
  <2>6. Flags
    BY DEF Flags
  <2>7. FoundOnce
    BY TwoReaders DEF FoundOnce
  <2>8. Owing
    BY DEF Owing, StreamMissesNothing, Subscribed
  <2>9. QED
    BY <2>1, <2>2, <2>3, <2>4, <2>5, <2>6, <2>7, <2>8 DEF IInv, Types
<1>2. IInv /\ [Next]_vars => IInv'
  BY PodStep, ReaderStep, RingStep, ClientStep, ProxyStep, FlagsStep, FoundOnceStep, OwingStep
  DEF IInv, Types
<1>3. QED
  BY <1>1, <1>2, PTL DEF Spec

\* The state is well typed: rings and channels within their sizes, readers within
\* what was written, and the proxy's time a time at which something was.
THEOREM TypeCorrectness == Spec => []TypeOK
<1>1. IInv => TypeOK
  <2> SUFFICES ASSUME IInv PROVE TypeOK
    OBVIOUS
  <2>1. batch \subseteq Lines
    BY WrittenFacts DEF IInv, Types, ProxyTypes
  <2>2. \A r \in Readers : at[r] \in 0 .. Len(log[r[1]])
    BY DEF IInv, Types, ReaderTypes, PodTypes, Readers
  <2>3. listed \in BOOLEAN /\ events \in BOOLEAN /\ mode \in Modes
    BY DEF IInv, Flags
  <2>4. QED
    BY <2>1, <2>2, <2>3
    DEF TypeOK, IInv, Types, PodTypes, ReaderTypes, RingTypes, ClientTypes, ProxyTypes
<1>2. QED
  BY <1>1, LogInvariant, PTL

\* No line falls between the tail that a stream begins with and its channel,
\* however readers, restarts and the client interleave.
THEOREM NothingMissed == Spec => []StreamMissesNothing
<1>1. IInv => StreamMissesNothing
  BY DEF IInv, Owing
<1>2. QED
  BY <1>1, LogInvariant, PTL
=============================================================================
