---------------------------- MODULE RequestQueue ----------------------------
(***************************************************************************)
(* gateway/queue/queue.go: the slots of one function and the requests that *)
(* wait for one.  The gateway keeps one such queue per function; they      *)
(* share nothing.                                                          *)
(*                                                                         *)
(* sem is a buffered Go channel: a send takes a slot, a receive gives it   *)
(* back.  A goroutine blocked in its select is parked on the channel, and  *)
(* a receive hands its slot directly to a parked one: nobody else can take *)
(* it in between.  (Go serves parked senders in order; nothing here        *)
(* depends on which one is served.)                                        *)
(***************************************************************************)
EXTENDS Integers, FiniteSets

CONSTANTS
  Requests,      \* goroutines of HTTP invocations; one may come again
  MaxInflight,   \* MAX_INFLIGHT_PER_FUNCTION
  MaxQueue       \* MAX_QUEUE_PER_FUNCTION

ASSUME QueueAssumption ==
  /\ IsFiniteSet(Requests)
  /\ MaxInflight \in Nat
  /\ MaxQueue \in Int

VARIABLES
  pc,         \* where each request is in Manager.Invoke
  inflight,   \* len(fq.sem)
  queued,     \* fq.queued
  report,     \* the Status answer being put together, -1 where not yet read
  watched     \* history: who has been counted ever since that began

vars == <<pc, inflight, queued, report, watched>>

Fields == {"queued", "in_flight"}
NoReport == [field \in Fields |-> -1]

Init ==
  /\ pc = [r \in Requests |-> "idle"]
  /\ inflight = 0
  /\ queued = 0
  /\ report = NoReport
  /\ watched = {}

At(label) == {r \in Requests : pc[r] = label}

\* Requests that Status is meant to count, by the code they are in: a slot is
\* held from the send to the deferred receive, and queued counts from its
\* increment to its decrement.
SlotHolders == {r \in Requests : pc[r] \in {"admitted", "running"}}
Counted == {r \in Requests : pc[r] \in {"select", "parked", "admitted", "late"}}

Goto(r, label) ==
  /\ pc' = [pc EXCEPT ![r] = label]
  /\ UNCHANGED report
Leave(r) ==
  /\ Goto(r, "idle")
  /\ watched' = watched \ {r}

-----------------------------------------------------------------------------
(* Manager.Invoke *)

\* The first select: a slot is free, or its default branch.
TakeSlot(r) ==
  /\ pc[r] = "idle"
  /\ inflight < MaxInflight
  /\ inflight' = inflight + 1
  /\ Goto(r, "running")
  /\ UNCHANGED <<queued, watched>>
FindNoSlot(r) ==
  /\ pc[r] = "idle"
  /\ inflight >= MaxInflight
  /\ Goto(r, "full")
  /\ UNCHANGED <<inflight, queued, watched>>

\* 429 queue full.
Reject(r) ==
  /\ pc[r] = "full"
  /\ queued >= MaxQueue
  /\ Leave(r)
  /\ UNCHANGED <<inflight, queued>>

\* Mutant: the bound is checked with > for >=.
EnqueueOneMore(r) ==
  /\ pc[r] = "full"
  /\ queued <= MaxQueue
  /\ queued' = queued + 1
  /\ Goto(r, "select")
  /\ UNCHANGED <<inflight, watched>>

Enqueue(r) ==
  /\ pc[r] = "full"
  /\ queued < MaxQueue
  /\ queued' = queued + 1
  /\ Goto(r, "select")
  /\ UNCHANGED <<inflight, watched>>

\* The second select: a slot has become free meanwhile, or the request parks.
Admit(r) ==
  /\ pc[r] = "select"
  /\ inflight < MaxInflight
  /\ inflight' = inflight + 1
  /\ Goto(r, "admitted")
  /\ UNCHANGED <<queued, watched>>
Park(r) ==
  /\ pc[r] = "select"
  /\ inflight >= MaxInflight
  /\ Goto(r, "parked")
  /\ UNCHANGED <<inflight, queued, watched>>

\* Mutant: the second select waits for the timer and the client only.
GiveUpOnEntry(r) ==
  /\ pc[r] = "select"
  /\ Goto(r, "late")
  /\ UNCHANGED <<inflight, queued, watched>>

\* The queue timeout fires, or the client is gone.  (With a slot free at the
\* same time, select chooses at random.)
GiveUp(r) ==
  /\ pc[r] \in {"select", "parked"}
  /\ Goto(r, "late")
  /\ UNCHANGED <<inflight, queued, watched>>

\* Mutant: the branch of the vanished client returns without the decrement.
LeaveLateCounted(r) ==
  /\ pc[r] = "late"
  /\ Leave(r)
  /\ UNCHANGED <<inflight, queued>>

\* Mutant: a slot is given back by a request that never got one.
LeaveLateFreeing(r) ==
  /\ pc[r] = "late"
  /\ queued' = queued - 1
  /\ inflight' = inflight - 1
  /\ Leave(r)

\* The decrement after the select: into the router, or 503 queue timeout (or
\* nothing at all, for a client that has gone).
EnterRouter(r) ==
  /\ pc[r] = "admitted"
  /\ queued' = queued - 1
  /\ Goto(r, "running")
  /\ UNCHANGED <<inflight, watched>>
LeaveLate(r) ==
  /\ pc[r] = "late"
  /\ queued' = queued - 1
  /\ Leave(r)
  /\ UNCHANGED inflight

\* Mutant: slots are a counter under the mutex; giving one back wakes nobody.
FreeSlotSilently(r) ==
  /\ pc[r] = "running"
  /\ pc' = [pc EXCEPT ![r] = "idle"]
  /\ inflight' = inflight - 1
  /\ watched' = watched \ {r}
  /\ UNCHANGED <<queued, report>>

\* router.Invoke has returned, on any path, and the deferred receive runs.
FreeSlot(r) ==
  /\ pc[r] = "running"
  /\ \/ \E p \in At("parked") :
          /\ pc' = [pc EXCEPT ![r] = "idle", ![p] = "admitted"]
          /\ UNCHANGED inflight
     \/ /\ At("parked") = {}
        /\ pc' = [pc EXCEPT ![r] = "idle"]
        /\ inflight' = inflight - 1
  /\ watched' = watched \ {r}
  /\ UNCHANGED <<queued, report>>

-----------------------------------------------------------------------------
(* Manager.Status: two reads, no common lock *)

\* Mutant: the slots are read before the queue.
ReadSlotsFirst == <<"in_flight", "queued">>

ReadOrder == <<"queued", "in_flight">>

Value(field) == IF field = "queued" THEN queued ELSE inflight

ReadFirst ==
  /\ report = NoReport
  /\ report' = [report EXCEPT ![ReadOrder[1]] = Value(ReadOrder[1])]
  /\ watched' = Counted \cup SlotHolders
  /\ UNCHANGED <<pc, inflight, queued>>
ReadSecond ==
  /\ report # NoReport
  /\ report[ReadOrder[2]] = -1
  /\ report' = [report EXCEPT ![ReadOrder[2]] = Value(ReadOrder[2])]
  /\ UNCHANGED <<pc, inflight, queued, watched>>
\* The answer is sent.
Answer ==
  /\ \A field \in Fields : report[field] # -1
  /\ report' = NoReport
  /\ watched' = {}
  /\ UNCHANGED <<pc, inflight, queued>>

-----------------------------------------------------------------------------
Next ==
  \/ \E r \in Requests :
       \/ TakeSlot(r) \/ FindNoSlot(r) \/ Reject(r) \/ Enqueue(r)
       \/ Admit(r) \/ Park(r) \/ GiveUp(r)
       \/ EnterRouter(r) \/ LeaveLate(r) \/ FreeSlot(r)
  \/ ReadFirst \/ ReadSecond \/ Answer

Spec == Init /\ [][Next]_vars

\* Goroutines run and the queue timer fires.  Nothing says that an invocation
\* ends: the router reads the client's body without a deadline.
Fairness ==
  \A r \in Requests :
    /\ WF_vars(Reject(r) \/ Enqueue(r))
    /\ WF_vars(Admit(r) \/ Park(r) \/ GiveUp(r))
    /\ WF_vars(GiveUp(r))
    /\ WF_vars(EnterRouter(r) \/ LeaveLate(r))

FairSpec == Spec /\ Fairness

-----------------------------------------------------------------------------
(* Properties *)

Labels == {"idle", "full", "select", "parked", "admitted", "late", "running"}

TypeOK ==
  /\ pc \in [Requests -> Labels]
  /\ inflight \in 0 .. MaxInflight
  /\ queued \in Int
  /\ report \in [Fields -> Int]
  /\ watched \subseteq Requests

\* No slot leaks and none is given back twice: what len(fq.sem) says is the
\* number of requests in the router or about to enter it, on every path.
SlotsExact == inflight = Cardinality(SlotHolders)

\* The queue counter is the number of requests that wait or have just stopped
\* waiting, and the queue never exceeds its bound.
QueueExact ==
  /\ queued = Cardinality(Counted)
  /\ queued > 0 => queued <= MaxQueue

\* No request is parked while a slot is free; so no newcomer overtakes one
\* that is parked.
NoIdleSlot == At("parked") # {} => inflight = MaxInflight

\* A status report never misses a request that was waiting or running the whole
\* time: one that moves from the queue to a slot meanwhile is counted twice
\* rather than not at all.  The autoscaler decides on these numbers.
StatusMissesNobody ==
  (\A field \in Fields : report[field] # -1)
    => report["queued"] + report["in_flight"] >= Cardinality(watched)

\* Why StatusMissesNobody holds, as an invariant: whoever is watched and holds
\* no slot is among those the first read counted.
StatusInv ==
  /\ watched \subseteq Counted \cup SlotHolders
  /\ report["queued"] = -1 => watched = {} /\ report["in_flight"] = -1
  /\ report["queued"] # -1 => report["queued"] >= Cardinality(watched \ SlotHolders)
  /\ report["in_flight"] # -1 =>
       report["queued"] + report["in_flight"] >= Cardinality(watched)

QueueInv == TypeOK /\ SlotsExact /\ QueueExact /\ NoIdleSlot

\* A request that has to wait gets a slot or an answer, even if no running
\* invocation ever ends.
WaitEnds ==
  \A r \in Requests :
    pc[r] \in {"full", "select", "parked", "admitted", "late"}
      ~> pc[r] \in {"idle", "running"}
=============================================================================
