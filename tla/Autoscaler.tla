----------------------------- MODULE Autoscaler -----------------------------
(***************************************************************************)
(* scalersvc/main.go: the loop that decides, every five seconds, whether a *)
(* function gets one instance more or one less; with what it looks at: the *)
(* gateway's pool (gateway/scheduler), and the metrics that the agent of   *)
(* each instance reports through the gateway (runtime/cmd/agent).          *)
(*                                                                         *)
(* Every call to the gateway is one action, and the pool changes between   *)
(* them.  A boot takes time, during which Stats does not count it.  A read *)
(* may fail, and then counts as zero; a call may time out at the scaler    *)
(* and still be carried out later.  Health is what a report says of an     *)
(* instance: "strained" is a p99 above ScaleUpP99Ms or an error rate of at *)
(* least ScaleUpErrPct, "calm" is neither.                                 *)
(***************************************************************************)
EXTENDS Integers, FiniteSets

CONSTANTS
  Instances,          \* bound: instances of the function at a time, boots included
  TargetConcurrency,  \* TARGET_CONCURRENCY
  ScaleUpUtilPct,     \* SCALE_UP_UTIL_PCT
  ScaleDownUtilPct,   \* SCALE_DOWN_UTIL_PCT
  MinReplicas,        \* MIN_REPLICAS
  MaxReplicas,        \* MAX_REPLICAS
  MaxQueued,          \* bound: requests in the function's queue
  MaxFaults,          \* bound: faults of the network and of the scaler
  None

\* envInt and envFloat take whatever the environment says.
ASSUME ScalerAssumption ==
  /\ IsFiniteSet(Instances)
  /\ TargetConcurrency \in Int
  /\ ScaleUpUtilPct \in Int /\ ScaleDownUtilPct \in Int
  /\ MinReplicas \in Int /\ MaxReplicas \in Int
  /\ MaxQueued \in Nat /\ MaxFaults \in Nat
  /\ None \notin {"calm", "strained"}

VARIABLES
  pool,     \* what each instance is: "warming" and "starting" are boots of
            \* ColdStartOne and of a request; "aged" is idle for two minutes
  agent,    \* what the agent's next snapshot of each instance says
  view,     \* s.metrics: the last report, unless none came for 30 seconds
  late,     \* a report the gateway has not forwarded yet
  queued,   \* requests in the function's queue
  pc,       \* where evaluate is: "tick", "queue", "metrics", "up" or "down"
  busy, idle, backlog,   \* its locals
  lagging,  \* calls it has given up, which the gateway may still carry out
  grown, shrunk,  \* history: an instance has joined, or left, the pool since
                  \* evaluate read its size
  blind,    \* history: that read has failed
  faults

poolVars == <<pool, agent, view, late>>
evalVars == <<pc, busy, idle, backlog, blind>>
sizeVars == <<grown, shrunk>>
vars == <<poolVars, queued, evalVars, lagging, sizeVars, faults>>

Health == {"calm", "strained"}
Ready == {"idle", "aged", "busy"}

\* The pool, which ContainerIDs lists and Stats counts: boots are not in it.
Pooled == {i \in Instances : pool[i] \in Ready}
Busy == Cardinality({i \in Instances : pool[i] = "busy"})
Idle == Cardinality({i \in Instances : pool[i] \in {"idle", "aged"}})
Total == Cardinality(Pooled)

Init ==
  /\ pool = [i \in Instances |-> "none"]
  /\ agent = [i \in Instances |-> "calm"]
  /\ view = [i \in Instances |-> None]
  /\ late = [i \in Instances |-> None]
  /\ queued = 0
  /\ pc = "tick"
  /\ busy = 0 /\ idle = 0 /\ backlog = 0
  /\ lagging = {}
  /\ grown = FALSE /\ shrunk = FALSE /\ blind = FALSE
  /\ faults = 0

-----------------------------------------------------------------------------
(* The policy *)

CeilDiv(n, d) == IF n <= 0 THEN 0 ELSE (n + d - 1) \div d

Target == IF TargetConcurrency <= 0 THEN 1 ELSE TargetConcurrency

\* Utilization is at least pct.
Utilized(b, total, pct) == b * 100 >= pct * total

\* What the load asks for; one more if the instances are strained; none less
\* while they are used enough.
Wanted(total, b, q) == CeilDiv(b + q, Target)
Raised(total, b, q, hot) ==
  IF total > 0 /\ (Utilized(b, total, ScaleUpUtilPct) \/ hot) /\ Wanted(total, b, q) <= total
  THEN total + 1
  ELSE Wanted(total, b, q)
Held(total, b, q, hot) ==
  IF total > 0 /\ q = 0 /\ Utilized(b, total, ScaleDownUtilPct) /\ Raised(total, b, q, hot) < total
  THEN total
  ELSE Raised(total, b, q, hot)

\* Mutant: one below the bound is let through.
AtLeastAlmost(n, low) == IF n < low - 1 THEN low ELSE n

AtLeast(n, low) == IF n < low THEN low ELSE n
AtMost(n, high) == IF n > high THEN high ELSE n


DesiredReplicas(total, b, q, hot) ==
  AtMost(AtLeast(Held(total, b, q, hot), MinReplicas), MaxReplicas)

Action(b, i, q, hot) ==
  LET desired == DesiredReplicas(b + i, b, q, hot)
  IN CASE desired > b + i -> "up"
       [] desired < b + i /\ i > 0 -> "down"
       [] OTHER -> "tick"

\* aggregateMetrics, over the instances that the gateway lists now: the highest
\* p99, and the error rate of all together.  With some strained and some calm
\* it depends on the counts whether the rate is too high.
Known == {i \in Pooled : view[i] # None}
Strained ==
  LET strained == {i \in Known : view[i] = "strained"}
  IN IF strained = {} THEN {FALSE} ELSE IF strained = Known THEN {TRUE} ELSE BOOLEAN

-----------------------------------------------------------------------------
(* The pool, as requests, workers and the reaper change it *)

Turn(i, from, to) ==
  /\ pool[i] \in from
  /\ pool' = [pool EXCEPT ![i] = to]

\* What leaves the pool is in no list of the gateway any more, so nobody looks at
\* its metrics; the next instance has another id.
Leave(i, from) ==
  /\ Turn(i, from, "none")
  /\ agent' = [agent EXCEPT ![i] = "calm"]
  /\ view' = [view EXCEPT ![i] = None]
  /\ late' = [late EXCEPT ![i] = None]

Fault == faults < MaxFaults /\ faults' = faults + 1

Joined == grown' = (pc # "tick")
Left == shrunk' = (pc # "tick")

\* Acquire: an idle instance, or a cold start.
Take(i) ==
  /\ Turn(i, {"idle", "aged"}, "busy")
  /\ UNCHANGED <<agent, view, late, queued, evalVars, lagging, sizeVars, faults>>
ColdAcquire(i) ==
  /\ Turn(i, {"none"}, "starting")
  /\ UNCHANGED <<agent, view, late, queued, evalVars, lagging, sizeVars, faults>>

\* The boot of a request joins the pool busy, that of ColdStartOne idle.
Join(i) ==
  /\ \/ Turn(i, {"starting"}, "busy")
     \/ Turn(i, {"warming"}, "idle")
  /\ Joined
  /\ UNCHANGED <<agent, view, late, queued, evalVars, lagging, shrunk, faults>>
BootFails(i) ==
  /\ Fault
  /\ Turn(i, {"starting", "warming"}, "none")
  /\ UNCHANGED <<agent, view, late, queued, evalVars, lagging, sizeVars>>

\* A call ends: the agent has recorded one more latency and success or error,
\* and its window may now say anything.
Finish(i) ==
  /\ Turn(i, {"busy"}, "idle")
  /\ \E h \in Health : agent' = [agent EXCEPT ![i] = h]
  /\ UNCHANGED <<view, late, queued, evalVars, lagging, sizeVars, faults>>

\* Time: two minutes of rest.  After five the reaper may come.
Age(i) ==
  /\ Turn(i, {"idle"}, "aged")
  /\ UNCHANGED <<agent, view, late, queued, evalVars, lagging, sizeVars, faults>>

\* The reaper, an expired or abandoned lease, an upload or a deregistration.
Discard(i) ==
  /\ Leave(i, {"aged", "busy"})
  /\ Left
  /\ UNCHANGED <<queued, evalVars, lagging, grown, faults>>

\* Requests wait for a slot, get one or give up.
QueueMoves ==
  /\ \E q \in {queued - 1, queued + 1} : q \in 0 .. MaxQueued /\ queued' = q
  /\ UNCHANGED <<poolVars, evalVars, lagging, sizeVars, faults>>

-----------------------------------------------------------------------------
(* The metrics *)

\* The agent reports, the gateway forwards, handleMetrics stores.
Report(i) ==
  /\ i \in Pooled
  /\ view' = [view EXCEPT ![i] = agent[i]]
  /\ UNCHANGED <<pool, agent, late, queued, evalVars, lagging, sizeVars, faults>>

\* The gateway has confirmed the report before it forwards it, in a goroutine of
\* its own: one that is slow may come after a newer one.
Delay(i) ==
  /\ i \in Pooled
  /\ Fault
  /\ late' = [late EXCEPT ![i] = agent[i]]
  /\ UNCHANGED <<pool, agent, view, queued, evalVars, lagging, sizeVars>>
Arrive(i) ==
  /\ late[i] # None
  /\ view' = [view EXCEPT ![i] = late[i]]
  /\ late' = [late EXCEPT ![i] = None]
  /\ UNCHANGED <<pool, agent, queued, evalVars, lagging, sizeVars, faults>>

\* No report for 30 seconds.
Expire(i) ==
  /\ view[i] # None
  /\ view' = [view EXCEPT ![i] = None]
  /\ UNCHANGED <<pool, agent, late, queued, evalVars, lagging, sizeVars, faults>>

-----------------------------------------------------------------------------
(* evaluate *)

ReadStats ==
  /\ pc = "tick"
  /\ pc' = "queue"
  /\ \/ busy' = Busy /\ idle' = Idle /\ blind' = FALSE /\ UNCHANGED faults
     \/ busy' = 0 /\ idle' = 0 /\ blind' = TRUE /\ Fault
  /\ UNCHANGED <<poolVars, queued, backlog, lagging, sizeVars>>

ReadQueue ==
  /\ pc = "queue"
  /\ pc' = "metrics"
  /\ \/ backlog' = queued /\ UNCHANGED faults
     \/ backlog' = 0 /\ Fault
  /\ UNCHANGED <<poolVars, queued, busy, idle, blind, lagging, sizeVars>>

\* The evaluation is over: nothing it has read is used again.
Reset ==
  /\ busy' = 0 /\ idle' = 0 /\ backlog' = 0
  /\ grown' = FALSE /\ shrunk' = FALSE /\ blind' = FALSE

\* containerIDs, the third call; if it fails there are no metrics.
Decide ==
  /\ pc = "metrics"
  /\ \/ \E hot \in Strained : pc' = Action(busy, idle, backlog, hot) /\ UNCHANGED faults
     \/ pc' = Action(busy, idle, backlog, FALSE) /\ Fault
  /\ IF pc' = "tick" THEN Reset
     ELSE /\ busy' = 0 /\ idle' = 0 /\ backlog' = 0
          /\ UNCHANGED <<blind, sizeVars>>
  /\ UNCHANGED <<poolVars, queued, lagging>>

\* ColdStartOne: a boot begins, whatever the pool has by now.
ScaleUp ==
  \/ /\ \E i \in Instances : Turn(i, {"none"}, "warming")
     /\ UNCHANGED <<agent, view, late>>
  \/ /\ \A i \in Instances : pool[i] # "none"
     /\ UNCHANGED poolVars

\* RemoveIdle: the instance that is idle for longest, if for two minutes.
ScaleDown ==
  \/ \E i \in Instances : Leave(i, {"aged"})
  \/ /\ \A i \in Instances : pool[i] # "aged"
     /\ UNCHANGED poolVars

CallGateway ==
  /\ \/ pc = "up" /\ ScaleUp
     \/ pc = "down" /\ ScaleDown
  /\ pc' = "tick"
  /\ Reset
  /\ UNCHANGED <<queued, lagging, faults>>

\* The call times out after ten seconds, and goes on in the gateway or is lost.
GiveUp ==
  /\ pc \in {"up", "down"}
  /\ Fault
  /\ lagging' = lagging \cup {pc}
  /\ pc' = "tick"
  /\ Reset
  /\ UNCHANGED <<poolVars, queued>>
CarryOut ==
  /\ \/ /\ "up" \in lagging
        /\ ScaleUp
        /\ lagging' = lagging \ {"up"}
        /\ UNCHANGED shrunk
     \/ /\ "down" \in lagging
        /\ ScaleDown
        /\ lagging' = lagging \ {"down"}
        /\ Left
  /\ UNCHANGED <<queued, evalVars, grown, faults>>

\* scalersvc ends and starts again: newScaler loads the metrics it had saved,
\* none without a database.
Restart ==
  /\ Fault
  /\ pc' = "tick"
  /\ Reset
  /\ view' \in {v \in [Instances -> Health \cup {None}] : \A i \in Instances : v[i] \in {view[i], None}}
  /\ UNCHANGED <<pool, agent, late, queued, lagging>>

-----------------------------------------------------------------------------
Next ==
  \/ \E i \in Instances :
       \/ Take(i) \/ ColdAcquire(i) \/ Join(i) \/ BootFails(i) \/ Finish(i)
       \/ Age(i) \/ Discard(i)
       \/ Report(i) \/ Delay(i) \/ Arrive(i) \/ Expire(i)
  \/ QueueMoves
  \/ ReadStats \/ ReadQueue \/ Decide \/ CallGateway \/ GiveUp \/ CarryOut
  \/ Restart

Spec == Init /\ [][Next]_vars

\* The ticker and the clients' timeouts, boots that end, agents that report, time.
Fairness ==
  /\ WF_vars(ReadStats \/ ReadQueue \/ Decide \/ CallGateway)
  /\ \A i \in Instances :
       WF_vars(Join(i)) /\ WF_vars(Age(i)) /\ WF_vars(Report(i))

FairSpec == Spec /\ Fairness

-----------------------------------------------------------------------------
(* Properties *)

\* A scale-down never takes the function below MIN_REPLICAS, nor a scale-up above
\* MAX_REPLICAS, unless the pool has shrunk (grown) behind evaluate's back since
\* it read the size: by the reaper, a late call, or a boot that has ended; or the
\* read had failed.  A failed read never leads to a scale-down.
Lowest == AtMost(MinReplicas, MaxReplicas)
StaysInBounds ==
  /\ pc = "down" => ~blind /\ (~shrunk => Total > Lowest)
  /\ pc = "up" /\ ~grown /\ ~blind => Total < MaxReplicas

\* When no request comes any more and the agents' windows are calm, the function
\* comes back to MIN_REPLICAS again and again, whatever was in flight.
Quiet ==
  /\ queued = 0
  /\ \A i \in Instances : pool[i] \notin {"starting", "busy"} /\ agent[i] = "calm"

\* With a queue that stays long enough, and nobody but the scaler removing
\* instances, MAX_REPLICAS are reached, from none at all if need be.
Removed == \E i \in Instances : pool[i] \in Ready /\ pool'[i] = "none"
=============================================================================
