------------------------------ MODULE LogDaemon ------------------------------
(***************************************************************************)
(* logdaemon: the log lines of one function, from the containers that write*)
(* them to the client who reads them.  In "docker" mode one daemon lists   *)
(* the running containers once, watches Docker's events, and attaches to   *)
(* what it finds; a client streams from the daemon's ring.  In "collector" *)
(* mode a daemon on each node lists its pods every two seconds and follows *)
(* each new one; the daemon in "proxy" mode asks the collectors of the     *)
(* nodes where the function has instances, and gives the client what is    *)
(* newer than all it has given.                                            *)
(*                                                                         *)
(* A line is <<p, k>>, the k-th of p; log holds the times they were        *)
(* written at, by the clock of the node.  Only the ring is modelled: the   *)
(* log file gets the same lines, and nobody reads it.                      *)
(***************************************************************************)
EXTENDS Integers, Sequences, FiniteSets, SequencesExt, FiniteSetsExt

CONSTANTS
  Pods,      \* containers, or pods, of the function
  Nodes,     \* nodes, each with its daemon
  Modes,     \* modes to look at: "docker", "collector"
  RingSize,  \* ringSize
  TailSize,  \* lines a stream begins with, and the proxy asks for
  ChanSize,  \* lines a subscriber's channel holds
  MaxLines,  \* bound: lines written in all
  MaxTime,   \* bound: times they are written at
  MaxFaults  \* bound: failed calls, broken connections and restarts

ASSUME LogAssumption ==
  /\ IsFiniteSet(Pods) /\ Nodes # {} /\ Modes \subseteq {"docker", "collector"}
  /\ RingSize \in Nat \ {0} /\ TailSize \in 1..RingSize /\ ChanSize \in Nat \ {0}
  /\ MaxLines \in Nat /\ MaxTime \in Nat \ {0} /\ MaxFaults \in Nat

VARIABLES
  mode,
  phase, node, log,  \* of each pod
  listed,    \* docker: collectExisting has run
  events,    \* docker: is the event stream open
  pending,   \* docker: containers whose start event is on its way
  reader,    \* collectLogs or followPod, by the container and what has found it
  at,        \* lines each of them has read
  ring,      \* d.rings of each node
  client,    \* docker: where handleStream is
  chan,      \* its channel
  owed,      \* history: lines that have come to the ring since it began, and have
             \* neither been written to the client nor found its channel full
  asking,    \* proxy: nodes fetchLogs has still to ask, or idle
  batch,     \* proxy: lines it has fetched
  last,      \* proxy: last
  faults

podVars == <<phase, node, log>>
eventVars == <<listed, events, pending>>
readVars == <<reader, at, ring>>
clientVars == <<client, chan, owed>>
proxyVars == <<asking, batch, last>>
vars == <<mode, podVars, eventVars, readVars, clientVars, proxyVars, faults>>

Readers == Pods \X {"list", "event"}
Local == CHOOSE n \in Nodes : TRUE
Lines == Pods \X (1..MaxLines)
Written == {line \in Lines : line[2] <= Len(log[line[1]])}
Time(line) == log[line[1]][line[2]]
Running(n) == {p \in Pods : phase[p] = "running" /\ node[p] = n}

Init ==
  /\ mode \in Modes
  /\ phase = [p \in Pods |-> "absent"]
  /\ node = [p \in Pods |-> Local]
  /\ log = [p \in Pods |-> <<>>]
  /\ listed = FALSE /\ events = FALSE /\ pending = {}
  /\ reader = [r \in Readers |-> "off"]
  /\ at = [r \in Readers |-> 0]
  /\ ring = [n \in Nodes |-> <<>>]
  /\ client = "off" /\ chan = <<>> /\ owed = {}
  /\ asking = {"idle"} /\ batch = {} /\ last = 0
  /\ faults = 0

Fault == faults < MaxFaults /\ faults' = faults + 1
ReaderTo(rs, label) == reader' = [r \in Readers |-> IF r \in rs THEN label ELSE reader[r]]

-----------------------------------------------------------------------------
(* The containers *)

StartPod(p) ==
  /\ phase[p] = "absent"
  /\ phase' = [phase EXCEPT ![p] = "running"]
  /\ \E n \in IF mode = "docker" THEN {Local} ELSE Nodes : node' = [node EXCEPT ![p] = n]
  /\ pending' = IF events THEN pending \cup {p} ELSE pending
  /\ UNCHANGED <<mode, log, listed, events, readVars, clientVars, proxyVars, faults>>

\* Clocks of nodes differ, that of a node goes forward.  In docker mode nothing
\* looks at the times.
Times == IF mode = "docker" THEN {1} ELSE 1..MaxTime

WriteLine(p) ==
  /\ phase[p] = "running"
  /\ Cardinality(Written) < MaxLines
  /\ \E t \in Times :
       /\ \A q \in Pods : node[q] = node[p] /\ log[q] # <<>> => t >= Last(log[q])
       /\ log' = [log EXCEPT ![p] = Append(@, t)]
  /\ UNCHANGED <<mode, phase, node, eventVars, readVars, clientVars, proxyVars, faults>>

StopPod(p) ==
  /\ phase[p] = "running"
  /\ phase' = [phase EXCEPT ![p] = "gone"]
  /\ UNCHANGED <<mode, node, log, eventVars, readVars, clientVars, proxyVars, faults>>

-----------------------------------------------------------------------------
(* docker: collectExisting and watchEvents *)

CollectExisting ==
  /\ mode = "docker"
  /\ ~listed
  /\ listed' = TRUE
  /\ \/ ReaderTo(Running(Local) \X {"list"}, "read") /\ UNCHANGED faults
     \/ Fault /\ UNCHANGED reader
  /\ UNCHANGED <<mode, podVars, events, pending, at, ring, clientVars, proxyVars>>

OpenEvents ==
  /\ mode = "docker"
  /\ ~events
  /\ events' = TRUE
  /\ UNCHANGED <<mode, podVars, listed, pending, readVars, clientVars, proxyVars, faults>>

\* The stream breaks, and what it had not delivered is lost; it is opened again
\* one to three seconds later, from then on.
LoseEvents ==
  /\ events
  /\ Fault
  /\ events' = FALSE
  /\ pending' = {}
  /\ UNCHANGED <<mode, podVars, listed, readVars, clientVars, proxyVars>>

HandleStart(p) ==
  /\ p \in pending
  /\ pending' = pending \ {p}
  /\ ReaderTo({<<p, "event">>}, "read")
  /\ UNCHANGED <<mode, podVars, listed, events, at, ring, clientVars, proxyVars, faults>>

-----------------------------------------------------------------------------
(* collector: syncPods *)

\* seen is where a reader has begun: it stays there when the reader has ended.
Seen == {p \in Pods : reader[<<p, "list">>] # "off"}

SyncPods(n) ==
  /\ mode = "collector"
  /\ Running(n) \ Seen # {}
  /\ ReaderTo((Running(n) \ Seen) \X {"list"}, "read")
  /\ UNCHANGED <<mode, podVars, eventVars, at, ring, clientVars, proxyVars, faults>>

-----------------------------------------------------------------------------
(* collectLogs and followPod *)

\* A reader opens the log and reads it from its first line on.  It returns, for
\* good, when its container is gone; when its call fails or breaks; in the
\* collector also when the http client's 15 seconds are over, which count for the
\* body too, or when the scanner meets a line above 64 KB.
EndReader(r) ==
  /\ reader[r] = "read"
  /\ ReaderTo({r}, "done")
  /\ \/ phase[r[1]] = "gone" /\ UNCHANGED faults
     \/ mode = "collector" /\ UNCHANGED faults
     \/ Fault
  /\ UNCHANGED <<mode, podVars, eventVars, at, ring, clientVars, proxyVars>>

\* Mutant: the stream subscribes after it has read its tail.
SubscribedLate == client = "live"

Subscribed == client \in {"tail", "live"}

Newest(n, s) == SubSeq(s, IF Len(s) > n THEN Len(s) - n + 1 ELSE 1, Len(s))

\* Mutant: the ring keeps one line too many.
RingWithOneMore(s) == Newest(RingSize + 1, s)

RingWith(s) == Newest(RingSize, s)

\* push, under the lock: the line enters the ring, the subscribers are copied.
Push(r) ==
  LET line == <<r[1], at[r] + 1>>
      n == node[r[1]]
  IN /\ reader[r] = "read"
     /\ at[r] < Len(log[r[1]])
     /\ at' = [at EXCEPT ![r] = @ + 1]
     /\ ring' = [ring EXCEPT ![n] = RingWith(Append(@, line))]
     /\ ReaderTo({r}, IF Subscribed THEN "send" ELSE "read")
     /\ owed' = IF client \in {"tail", "live"} THEN owed \cup {line} ELSE owed
     /\ UNCHANGED <<mode, podVars, eventVars, client, chan, proxyVars, faults>>

\* The rest of push: the copied subscriber gets the line if it has room.
Send(r) ==
  LET line == <<r[1], at[r]>>
  IN /\ reader[r] = "send"
     /\ ReaderTo({r}, "read")
     /\ \/ client = "gone" /\ UNCHANGED <<chan, owed>>
        \/ Subscribed /\ Len(chan) < ChanSize /\ chan' = Append(chan, line) /\ UNCHANGED owed
        \/ Subscribed /\ Len(chan) >= ChanSize /\ owed' = owed \ {line} /\ UNCHANGED chan
     /\ UNCHANGED <<mode, podVars, eventVars, at, ring, client, proxyVars, faults>>

-----------------------------------------------------------------------------
(* handleStream *)

\* subscribe
Connect ==
  /\ mode = "docker"
  /\ client = "off"
  /\ client' = "tail"
  /\ UNCHANGED <<mode, podVars, eventVars, readVars, chan, owed, proxyVars, faults>>

ShowTail ==
  /\ client = "tail"
  /\ client' = "live"
  /\ owed' = owed \ ToSet(Newest(TailSize, ring[Local]))
  /\ UNCHANGED <<mode, podVars, eventVars, readVars, chan, proxyVars, faults>>

ShowNext ==
  /\ client = "live"
  /\ chan # <<>>
  /\ owed' = owed \ {Head(chan)}
  /\ chan' = Tail(chan)
  /\ UNCHANGED <<mode, podVars, eventVars, readVars, client, proxyVars, faults>>

\* The client leaves; or the daemon ends with it.
Gone == client' = "gone" /\ chan' = <<>> /\ owed' = {}

Disconnect ==
  /\ Subscribed
  /\ Gone
  /\ UNCHANGED <<mode, podVars, eventVars, readVars, proxyVars, faults>>

-----------------------------------------------------------------------------
(* The proxy: streamLogs and fetchLogs *)

\* The gateway's instances give the nodes to ask; the collectors are listed.
BeginFetch ==
  /\ mode = "collector"
  /\ asking = {"idle"}
  /\ asking' = {n \in Nodes : Running(n) # {}}
  /\ UNCHANGED <<mode, podVars, eventVars, readVars, clientVars, batch, last, faults>>

FetchCollector(n) ==
  /\ n \in asking
  /\ asking' = asking \ {n}
  /\ \/ batch' = batch \cup ToSet(Newest(TailSize, ring[n])) /\ UNCHANGED faults
     \/ Fault /\ UNCHANGED batch
  /\ UNCHANGED <<mode, podVars, eventVars, readVars, clientVars, last>>


\* What may be left of a batch, sorted by time and cut: ties are in any order.
NewestOf(lines) ==
  {s \in SUBSET lines :
     /\ Cardinality(s) = IF Cardinality(lines) > TailSize THEN TailSize ELSE Cardinality(lines)
     /\ \A x \in s, y \in lines \ s : Time(x) >= Time(y)}

\* Each line later than the one before goes out; what is not later never does.
ShowBatch ==
  /\ asking = {}
  /\ \E s \in NewestOf(batch) : last' = Max({last} \cup {Time(x) : x \in s})
  /\ asking' = {"idle"}
  /\ batch' = {}
  /\ UNCHANGED <<mode, podVars, eventVars, readVars, clientVars, faults>>

-----------------------------------------------------------------------------
\* A daemon ends and starts again, with nothing of what it had.
RestartDaemon(n) ==
  LET mine == {r \in Readers : node[r[1]] = n}
  IN /\ mode = "docker" => n = Local
     /\ Fault
     /\ ReaderTo(mine, "off")
     /\ at' = [r \in Readers |-> IF r \in mine THEN 0 ELSE at[r]]
     /\ ring' = [ring EXCEPT ![n] = <<>>]
     /\ listed' = FALSE /\ events' = FALSE /\ pending' = {}
     /\ IF Subscribed THEN Gone ELSE UNCHANGED clientVars
     /\ UNCHANGED <<mode, podVars, proxyVars>>

Next ==
  \/ \E p \in Pods : StartPod(p) \/ WriteLine(p) \/ StopPod(p) \/ HandleStart(p)
  \/ CollectExisting \/ OpenEvents \/ LoseEvents
  \/ \E n \in Nodes : SyncPods(n) \/ FetchCollector(n) \/ RestartDaemon(n)
  \/ \E r \in Readers : EndReader(r) \/ Push(r) \/ Send(r)
  \/ Connect \/ ShowTail \/ ShowNext \/ Disconnect
  \/ BeginFetch \/ ShowBatch

Spec == Init /\ [][Next]_vars

\* The proxy's ticker, and its http client's timeout.
Fairness ==
  /\ WF_vars(BeginFetch \/ ShowBatch)
  /\ \A n \in Nodes : WF_vars(FetchCollector(n))

FairSpec == Spec /\ Fairness

-----------------------------------------------------------------------------
(* Properties *)

TypeOK ==
  /\ mode \in Modes
  /\ phase \in [Pods -> {"absent", "running", "gone"}] /\ node \in [Pods -> Nodes]
  /\ \A p \in Pods : log[p] \in Seq(1..MaxTime) /\ Len(log[p]) <= MaxLines
  /\ listed \in BOOLEAN /\ events \in BOOLEAN /\ pending \subseteq Pods
  /\ reader \in [Readers -> {"off", "read", "send", "done"}]
  /\ \A r \in Readers : at[r] \in 0 .. Len(log[r[1]])
  /\ \A n \in Nodes : ring[n] \in Seq(Lines) /\ Len(ring[n]) <= RingSize
  /\ client \in {"off", "tail", "live", "gone"}
  /\ chan \in Seq(Lines) /\ Len(chan) <= ChanSize
  /\ owed \cup batch \subseteq Lines
  /\ asking \subseteq Nodes \cup {"idle"}
  /\ last \in 0 .. MaxTime

\* From the moment a client is subscribed, every line that enters the ring has
\* been written to it, or is in its channel or on its way there, unless it found
\* the channel full: none falls between the tail and the channel.
Sending == {<<r[1], at[r]>> : r \in {x \in Readers : reader[x] = "send"}}
StreamMissesNothing ==
  owed \subseteq ToSet(chan) \cup Sending

\* However the nodes' clocks differ and whatever is merged, the proxy's stream
\* comes to the time of every line that a collector gives it, unless newer ones
\* take its place in the collector's tail, or the collector or the node's last
\* instance ends.
Gives(n, t) ==
  /\ mode = "collector"
  /\ Running(n) # {}
  /\ \E line \in ToSet(Newest(TailSize, ring[n])) : Time(line) >= t

\* logdaemon/README.md:283: followPod follows the pod's log continuously.
\* Without a failure, a pod is followed as long as it runs.
FollowedWhileRunning ==
  mode = "collector" =>
    \A r \in Readers : reader[r] = "done" => phase[r[1]] = "gone"
=============================================================================
