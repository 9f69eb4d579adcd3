-------------------------- MODULE AutoscalerProofs --------------------------
(***************************************************************************)
(* Theorems about Autoscaler, for every finite set of instances, every     *)
(* configuration an environment may give, and any number of faults.        *)
(*                                                                         *)
(* The inductive invariant is ScalerInv: what evaluate has read bounds the *)
(* pool from above while nothing has joined it, and from below while       *)
(* nothing has left it.                                                    *)
(***************************************************************************)
EXTENDS Autoscaler, FiniteSetTheorems, TLAPS

USE ScalerAssumption

\* Types.
PoolStates == {"none", "warming", "starting", "idle", "aged", "busy"}
ScalerTypeOK ==
  /\ pool \in [Instances -> PoolStates]
  /\ queued \in Nat
  /\ pc \in {"tick", "queue", "metrics", "up", "down"}
  /\ busy \in Nat /\ idle \in Nat /\ backlog \in Nat
  /\ grown \in BOOLEAN /\ shrunk \in BOOLEAN /\ blind \in BOOLEAN

\* From the read of the size to the decision.
SizeInv ==
  pc \in {"queue", "metrics"} =>
    /\ blind => busy = 0 /\ idle = 0
    /\ ~blind /\ ~shrunk => Total >= busy + idle
    /\ ~blind /\ ~grown => Total <= busy + idle

ScalerInv == ScalerTypeOK /\ SizeInv /\ StaysInBounds

-----------------------------------------------------------------------------
(* The policy *)

\* Whatever is asked for, a replica count results.
LEMMA HeldType ==
  ASSUME NEW total \in Nat, NEW b \in Nat, NEW q \in Nat, NEW hot \in BOOLEAN
  PROVE  Held(total, b, q, hot) \in Int
<1>1. Target \in Nat /\ Target > 0
  BY DEF Target
<1>2. Wanted(total, b, q) \in Int
  <2>1. b + q + Target - 1 \in Int
    BY <1>1
  <2>2. (b + q + Target - 1) \div Target \in Int
    BY <1>1, <2>1
  <2>3. QED
    BY <2>2 DEF Wanted, CeilDiv
<1>3. Raised(total, b, q, hot) \in Int
  BY <1>2 DEF Raised
<1>4. QED
  BY <1>3 DEF Held

\* The desired count is within the configured bounds; MAX_REPLICAS wins if they
\* contradict each other.
LEMMA DesiredInBounds ==
  ASSUME NEW total \in Nat, NEW b \in Nat, NEW q \in Nat, NEW hot \in BOOLEAN
  PROVE  /\ DesiredReplicas(total, b, q, hot) \in Int
         /\ DesiredReplicas(total, b, q, hot) >= Lowest
         /\ DesiredReplicas(total, b, q, hot) <= MaxReplicas
         /\ Lowest \in Int
BY HeldType DEF DesiredReplicas, AtLeast, AtMost, Lowest

\* A decision to change the size respects the bounds, of the size it was given.
LEMMA ActionInBounds ==
  ASSUME NEW b \in Nat, NEW i \in Nat, NEW q \in Nat, NEW hot \in BOOLEAN
  PROVE  /\ Action(b, i, q, hot) \in {"tick", "up", "down"}
         /\ Action(b, i, q, hot) = "up" => b + i < MaxReplicas
         /\ Action(b, i, q, hot) = "down" => i > 0 /\ b + i > Lowest
<1> DEFINE d == DesiredReplicas(b + i, b, q, hot)
<1>1. d \in Int /\ d >= Lowest /\ d <= MaxReplicas /\ Lowest \in Int
  BY DesiredInBounds
<1>2. CASE d > b + i
  BY <1>1, <1>2 DEF Action
<1>3. CASE ~(d > b + i) /\ d < b + i /\ i > 0
  BY <1>1, <1>3 DEF Action
<1>4. CASE ~(d > b + i) /\ ~(d < b + i /\ i > 0)
  BY <1>1, <1>4 DEF Action
<1>5. QED
  BY <1>2, <1>3, <1>4

-----------------------------------------------------------------------------
(* The size of the pool *)

\* The pool is finite, and what is idle and what is busy make it up.
LEMMA PoolSize ==
  /\ Busy \in Nat /\ Idle \in Nat /\ Total \in Nat
  /\ Total = Busy + Idle
<1> DEFINE B == {i \in Instances : pool[i] = "busy"}
           I == {i \in Instances : pool[i] \in {"idle", "aged"}}
<1>1. IsFiniteSet(B) /\ IsFiniteSet(I)
  BY FS_Subset
<1>2. Pooled = B \cup I /\ B \cap I = {}
  BY DEF Pooled, Ready
<1>3. /\ IsFiniteSet(B \cup I)
      /\ Cardinality(B \cup I) = Cardinality(B) + Cardinality(I) - Cardinality(B \cap I)
  BY <1>1, FS_Union
<1>4. Cardinality(B) \in Nat /\ Cardinality(I) \in Nat /\ Cardinality({}) = 0
  BY <1>1, FS_CardinalityType, FS_EmptySet
<1>5. Busy = Cardinality(B) /\ Idle = Cardinality(I) /\ Total = Cardinality(B \cup I)
  BY <1>2 DEF Busy, Idle, Total
<1> HIDE DEF B, I
<1>6. Cardinality(B \cap I) = 0
  BY <1>2, <1>4
<1>7. QED
  BY <1>3, <1>4, <1>5, <1>6

\* A pool that only gains (loses) instances does not get smaller (larger).
LEMMA PoolGrows ==
  ASSUME Pooled \subseteq Pooled' PROVE Total \in Nat /\ Total' \in Nat /\ Total <= Total'
<1>1. IsFiniteSet(Pooled) /\ IsFiniteSet(Pooled')
  BY FS_Subset DEF Pooled
<1>2. QED
  BY <1>1, FS_Subset, FS_CardinalityType DEF Total
LEMMA PoolShrinks ==
  ASSUME Pooled' \subseteq Pooled PROVE Total \in Nat /\ Total' \in Nat /\ Total' <= Total
<1>1. IsFiniteSet(Pooled) /\ IsFiniteSet(Pooled')
  BY FS_Subset DEF Pooled
<1>2. QED
  BY <1>1, FS_Subset, FS_CardinalityType DEF Total

-----------------------------------------------------------------------------
(* The inductive invariant *)

\* An empty pool satisfies it.
LEMMA ScalerInit == Init => ScalerInv
<1> SUFFICES ASSUME Init PROVE ScalerInv
  OBVIOUS
<1>1. ScalerTypeOK
  BY DEF Init, ScalerTypeOK, PoolStates
<1>2. SizeInv /\ StaysInBounds
  BY DEF Init, SizeInv, StaysInBounds
<1>3. QED
  BY <1>1, <1>2 DEF ScalerInv

\* Whatever happens to the pool outside of evaluate, an instance that joins is
\* marked as grown and one that leaves as shrunk.
LEMMA PoolStep ==
  ASSUME ScalerInv, ScalerTypeOK', UNCHANGED evalVars,
         \/ Pooled' = Pooled /\ UNCHANGED <<grown, shrunk>>
         \/ Pooled \subseteq Pooled' /\ Joined /\ UNCHANGED shrunk
         \/ Pooled' \subseteq Pooled /\ Left /\ UNCHANGED grown
  PROVE  ScalerInv'
<1> USE DEF ScalerInv, ScalerTypeOK, SizeInv, StaysInBounds, evalVars, Joined, Left
<1>0. Lowest' = Lowest /\ Lowest \in Int
  BY DEF Lowest, AtMost
<1>1. CASE Pooled' = Pooled /\ UNCHANGED <<grown, shrunk>>
  <2>1. Total' = Total
    BY <1>1 DEF Total
  <2>2. QED
    BY <1>0, <1>1, <2>1
<1>2. CASE Pooled \subseteq Pooled' /\ Joined /\ UNCHANGED shrunk
  <2>1. Total \in Nat /\ Total' \in Nat /\ Total <= Total'
    BY <1>2, PoolGrows
  <2>2. pc # "tick" => grown'
    BY <1>2
  <2>3. QED
    BY <1>0, <1>2, <2>1, <2>2
<1>3. CASE Pooled' \subseteq Pooled /\ Left /\ UNCHANGED grown
  <2>1. Total \in Nat /\ Total' \in Nat /\ Total' <= Total
    BY <1>3, PoolShrinks
  <2>2. pc # "tick" => shrunk'
    BY <1>3
  <2>3. QED
    BY <1>0, <1>3, <2>1, <2>2
<1>4. QED
  BY <1>1, <1>2, <1>3

\* A step that ends an evaluation leaves nothing to hold.
LEMMA ResetStep ==
  ASSUME ScalerTypeOK, pc' = "tick", Reset, pool' \in [Instances -> PoolStates], queued' \in Nat
  PROVE  ScalerInv'
<1>1. ScalerTypeOK'
  BY DEF Reset, ScalerTypeOK
<1>2. SizeInv' /\ StaysInBounds'
  BY DEF SizeInv, StaysInBounds
<1>3. QED
  BY <1>1, <1>2 DEF ScalerInv

\* Every step keeps it.
LEMMA ScalerStep == ScalerInv /\ [Next]_vars => ScalerInv'
<1> SUFFICES ASSUME ScalerInv, [Next]_vars PROVE ScalerInv'
  OBVIOUS
<1> USE DEF poolVars, evalVars, sizeVars
<1>0. ScalerTypeOK /\ SizeInv /\ StaysInBounds
  BY DEF ScalerInv
\* What requests, workers, the reaper and the agents do.
<1>1. ASSUME NEW i \in Instances,
             \/ Take(i) \/ ColdAcquire(i) \/ BootFails(i) \/ Finish(i) \/ Age(i)
             \/ Report(i) \/ Delay(i) \/ Arrive(i) \/ Expire(i)
      PROVE  ScalerInv'
  <2>1. Pooled' = Pooled /\ UNCHANGED <<evalVars, grown, shrunk>>
    BY <1>0, <1>1 DEF ScalerTypeOK, Pooled, Ready, Turn, Take, ColdAcquire, BootFails, Finish,
                      Age, Report, Delay, Arrive, Expire
  <2>2. ScalerTypeOK'
    BY <1>0, <1>1, <2>1 DEF ScalerTypeOK, PoolStates, Turn, Take, ColdAcquire, BootFails, Finish,
                            Age, Report, Delay, Arrive, Expire
  <2>3. QED
    BY <2>1, <2>2, PoolStep
<1>2. ASSUME NEW i \in Instances, Join(i) PROVE ScalerInv'
  <2>1. Pooled \subseteq Pooled' /\ UNCHANGED evalVars
    BY <1>0, <1>2 DEF ScalerTypeOK, Pooled, Ready, Turn, Join
  <2>2. Joined /\ UNCHANGED shrunk
    BY <1>2 DEF Join
  <2>3. ScalerTypeOK'
    BY <1>0, <1>2 DEF ScalerTypeOK, PoolStates, Turn, Join, Joined
  <2>4. QED
    BY <2>1, <2>2, <2>3, PoolStep
<1>3. ASSUME NEW i \in Instances, Discard(i) PROVE ScalerInv'
  <2>1. Pooled' \subseteq Pooled /\ UNCHANGED evalVars
    BY <1>0, <1>3 DEF ScalerTypeOK, Pooled, Ready, Turn, Leave, Discard
  <2>2. Left /\ UNCHANGED grown
    BY <1>3 DEF Discard
  <2>3. ScalerTypeOK'
    BY <1>0, <1>3 DEF ScalerTypeOK, PoolStates, Turn, Leave, Discard, Left
  <2>4. QED
    BY <2>1, <2>2, <2>3, PoolStep
<1>4. ASSUME QueueMoves PROVE ScalerInv'
  <2>1. Pooled' = Pooled /\ UNCHANGED <<evalVars, grown, shrunk>>
    BY <1>4 DEF QueueMoves, Pooled
  <2>2. ScalerTypeOK'
    BY <1>0, <1>4 DEF ScalerTypeOK, QueueMoves
  <2>3. QED
    BY <2>1, <2>2, PoolStep
\* A call that the scaler has given up is carried out.
<1>5. ASSUME CarryOut PROVE ScalerInv'
  <2>1. CASE ScaleUp /\ UNCHANGED <<grown, shrunk>>
    <3>1. Pooled' = Pooled /\ UNCHANGED evalVars
      BY <1>0, <1>5, <2>1 DEF CarryOut, ScaleUp, ScalerTypeOK, Pooled, Ready, Turn
    <3>2. ScalerTypeOK'
      BY <1>0, <1>5, <2>1 DEF CarryOut, ScaleUp, ScalerTypeOK, PoolStates, Turn
    <3>3. QED
      BY <2>1, <3>1, <3>2, PoolStep
  <2>2. CASE ScaleDown /\ Left /\ UNCHANGED grown
    <3>1. Pooled' \subseteq Pooled /\ UNCHANGED evalVars
      BY <1>0, <1>5, <2>2 DEF CarryOut, ScaleDown, ScalerTypeOK, Pooled, Ready, Turn, Leave
    <3>2. ScalerTypeOK'
      BY <1>0, <1>5, <2>2 DEF CarryOut, ScaleDown, ScalerTypeOK, PoolStates, Turn, Leave, Left
    <3>3. QED
      BY <2>2, <3>1, <3>2, PoolStep
  <2>3. QED
    BY <1>5, <2>1, <2>2 DEF CarryOut
\* evaluate
<1>6. ASSUME ReadStats PROVE ScalerInv'
  <2>1. Total' = Total /\ Total = Busy + Idle /\ Busy \in Nat /\ Idle \in Nat
    BY <1>6, PoolSize DEF ReadStats, Total, Pooled
  <2>2. ScalerTypeOK'
    <3>1. busy' \in Nat /\ idle' \in Nat
      BY <1>6, <2>1 DEF ReadStats
    <3>2. blind' \in BOOLEAN
      BY <1>6, Zenon DEF ReadStats
    <3>3. QED
      BY <1>0, <1>6, <3>1, <3>2 DEF ScalerTypeOK, ReadStats
  <2>3. SizeInv'
    BY <1>6, <2>1 DEF SizeInv, ReadStats
  <2>4. StaysInBounds'
    BY <1>6 DEF StaysInBounds, ReadStats
  <2>5. QED
    BY <2>2, <2>3, <2>4 DEF ScalerInv
<1>7. ASSUME ReadQueue PROVE ScalerInv'
  <2>1. UNCHANGED <<Total, busy, idle, blind, grown, shrunk>> /\ pc = "queue" /\ pc' = "metrics"
    BY <1>7 DEF ReadQueue, Total, Pooled
  <2>2. ScalerTypeOK'
    BY <1>0, <1>7 DEF ScalerTypeOK, ReadQueue
  <2>3. SizeInv' /\ StaysInBounds'
    BY <1>0, <2>1 DEF SizeInv, StaysInBounds
  <2>4. QED
    BY <2>2, <2>3 DEF ScalerInv
<1>8. ASSUME Decide PROVE ScalerInv'
  <2>1. PICK hot \in BOOLEAN : pc' = Action(busy, idle, backlog, hot)
    <3>1. Strained \subseteq BOOLEAN
      BY Zenon DEF Strained
    <3>2. QED
      BY <1>8, <3>1, Zenon DEF Decide
  <2>2. /\ pc' \in {"tick", "up", "down"}
        /\ pc' = "up" => busy + idle < MaxReplicas
        /\ pc' = "down" => idle > 0 /\ busy + idle > Lowest
    BY <1>0, <2>1, ActionInBounds DEF ScalerTypeOK
  <2>3. CASE pc' = "tick"
    BY <1>0, <1>8, <2>3, ResetStep DEF Decide, ScalerTypeOK, PoolStates
  <2>4. CASE pc' # "tick"
    <3>1. UNCHANGED <<Total, blind, grown, shrunk, pool, queued>> /\ pc = "metrics"
      BY <1>8, <2>4 DEF Decide, Total, Pooled
    <3>2. ScalerTypeOK'
      BY <1>0, <1>8, <2>2, <2>4, <3>1 DEF ScalerTypeOK, Decide
    <3>3. Total \in Nat /\ Lowest \in Int /\ Lowest' = Lowest
      BY PoolSize DEF Lowest, AtMost
    <3>4. StaysInBounds'
      BY <1>0, <2>2, <3>1, <3>3 DEF StaysInBounds, SizeInv, ScalerTypeOK
    <3>5. QED
      BY <2>2, <3>2, <3>4 DEF ScalerInv, SizeInv
  <2>5. QED
    BY <2>3, <2>4
<1>9. ASSUME CallGateway \/ GiveUp \/ Restart PROVE ScalerInv'
  <2>1. pool' \in [Instances -> PoolStates] /\ queued' \in Nat
    BY <1>0, <1>9 DEF ScalerTypeOK, PoolStates, CallGateway, GiveUp, Restart, ScaleUp, ScaleDown,
                      Turn, Leave
  <2>2. pc' = "tick" /\ Reset
    BY <1>9 DEF CallGateway, GiveUp, Restart
  <2>3. QED
    BY <1>0, <2>1, <2>2, ResetStep
<1>10. ASSUME UNCHANGED vars PROVE ScalerInv'
  <2>1. Pooled' = Pooled /\ ScalerTypeOK' /\ UNCHANGED <<evalVars, grown, shrunk>>
    BY <1>0, <1>10 DEF vars, Pooled, ScalerTypeOK
  <2>2. QED
    BY <2>1, PoolStep
<1>11. QED
  BY <1>1, <1>2, <1>3, <1>4, <1>5, <1>6, <1>7, <1>8, <1>9, <1>10 DEF Next

-----------------------------------------------------------------------------
(* Theorems *)

\* evaluate scales a function down only from more than MIN_REPLICAS and up only
\* from less than MAX_REPLICAS, for any configuration and any number of
\* instances, unless the pool has changed behind its back.
THEOREM ScalingInBounds == Spec => []StaysInBounds
<1>1. ScalerInv => StaysInBounds
  BY DEF ScalerInv
<1>2. QED
  BY <1>1, ScalerInit, ScalerStep, PTL DEF Spec

-----------------------------------------------------------------------------
(* Hysteresis *)

\* A pool used enough to grow is, one larger, used too much to shrink.
LEMMA ThresholdsApart ==
  ASSUME 0 <= ScaleDownUtilPct, 2 * ScaleDownUtilPct <= ScaleUpUtilPct,
         NEW b \in Nat, NEW t \in Nat \ {0}, Utilized(b, t, ScaleUpUtilPct)
  PROVE  Utilized(b, t + 1, ScaleDownUtilPct)
<1> DEFINE down == ScaleDownUtilPct
           slack == ScaleUpUtilPct - 2 * ScaleDownUtilPct
<1>1. down \in Nat /\ slack \in Nat /\ t - 1 \in Nat /\ ScaleUpUtilPct = slack + 2 * down
  OBVIOUS
<1>2. b * 100 >= ScaleUpUtilPct * t
  BY DEF Utilized
<1> HIDE DEF down, slack
<1>3. slack * t \in Nat /\ down * (t - 1) \in Nat /\ down * t \in Int
  BY <1>1
<1>4. ScaleUpUtilPct * t = slack * t + 2 * (down * t)
  BY <1>1
<1>5. down * (t + 1) = 2 * (down * t) - down * (t - 1)
  BY <1>1
<1>6. b * 100 >= down * (t + 1)
  BY <1>2, <1>3, <1>4, <1>5
<1>7. QED
  BY <1>6 DEF down, Utilized

\* While nobody waits, the policy does not undo at one size what it has decided
\* at the size before: what a scale-up adds no scale-down asks back, and what a
\* scale-down takes no scale-up replaces.  It takes that the scale-down threshold
\* is at most half of the scale-up threshold, as 20 and 80 are: a pool of one that
\* grows to two halves its utilization.
THEOREM ScalingSettles ==
  ASSUME 0 <= ScaleDownUtilPct, 2 * ScaleDownUtilPct <= ScaleUpUtilPct,
         NEW b \in Nat, NEW i \in Nat, NEW hot \in BOOLEAN
  PROVE  /\ Action(b, i, 0, hot) = "up" => Action(b, i + 1, 0, hot) # "down"
         /\ i > 0 /\ Action(b, i, 0, hot) = "down" => Action(b, i - 1, 0, hot) # "up"
<1> DEFINE w == Wanted(b + i, b, 0)
           Up(t) == Utilized(b, t, ScaleUpUtilPct)
           Down(t) == Utilized(b, t, ScaleDownUtilPct)
           Want(t) == Held(t, b, 0, hot)
\* What the load asks for does not depend on the size.
<1>1. /\ w \in Int
      /\ \A t \in Nat : Wanted(t, b, 0) = w
  <2>1. Target \in Nat /\ Target > 0
    BY DEF Target
  <2>2. (b + 0 + Target - 1) \div Target \in Int
    BY <2>1
  <2>3. QED
    BY <2>2 DEF Wanted, CeilDiv
<1>2. \A t \in Nat \ {0} : Up(t) => Down(t + 1)
  BY ThresholdsApart
<1> HIDE DEF w
\* So what is asked for does not turn with the size.
<1>3. ASSUME NEW t \in Nat, t > 0
      PROVE  Want(t) = IF (Up(t) \/ hot) /\ w <= t THEN t + 1
                       ELSE IF Down(t) /\ w < t THEN t ELSE w
  BY <1>1, <1>3 DEF Held, Raised
<1>4. Want(0) = w
  BY <1>1 DEF Held, Raised
<1> HIDE DEF Up, Down, Want
<1>5. ASSUME NEW t \in Nat, Want(t) > t PROVE Want(t + 1) >= t + 1
  <2>1. CASE t = 0
    BY <1>1, <1>3, <1>4, <1>5, <2>1
  <2>2. CASE t > 0
    BY <1>1, <1>2, <1>3, <1>5, <2>2
  <2>3. QED
    BY <2>1, <2>2
\* Nor do the bounds turn it.
<1>6. ASSUME NEW t \in Nat
      PROVE  /\ Want(t) \in Int
             /\ DesiredReplicas(t, b, 0, hot) = AtMost(AtLeast(Want(t), MinReplicas), MaxReplicas)
  BY HeldType DEF Want, DesiredReplicas
<1> DEFINE D(t) == DesiredReplicas(t, b, 0, hot)
<1>7. ASSUME NEW j \in Nat
      PROVE  /\ Action(b, j, 0, hot) = "up" <=> D(b + j) > b + j
             /\ Action(b, j, 0, hot) = "down" <=> D(b + j) < b + j /\ j > 0
  <2>1. D(b + j) \in Int
    BY DesiredInBounds
  <2>2. Action(b, j, 0, hot) = CASE D(b + j) > b + j -> "up"
                                 [] D(b + j) < b + j /\ j > 0 -> "down"
                                 [] OTHER -> "tick"
    BY DEF Action
  <2> HIDE DEF D
  <2>3. CASE D(b + j) > b + j
    BY <2>1, <2>2, <2>3
  <2>4. CASE ~(D(b + j) > b + j) /\ D(b + j) < b + j /\ j > 0
    BY <2>1, <2>2, <2>4
  <2>5. CASE ~(D(b + j) > b + j) /\ ~(D(b + j) < b + j /\ j > 0)
    BY <2>1, <2>2, <2>5
  <2>6. QED
    BY <2>3, <2>4, <2>5
<1>8. ASSUME NEW t \in Nat, D(t) > t PROVE ~(D(t + 1) < t + 1)
  BY <1>5, <1>6, <1>8 DEF AtMost, AtLeast
<1>9. ASSUME NEW t \in Nat, D(t + 1) < t + 1 PROVE ~(D(t) > t)
  BY <1>8, <1>9
<1> HIDE DEF D
<1>10. ASSUME Action(b, i, 0, hot) = "up" PROVE Action(b, i + 1, 0, hot) # "down"
  <2>1. b + i \in Nat /\ i + 1 \in Nat /\ b + (i + 1) = (b + i) + 1
    OBVIOUS
  <2>2. QED
    BY <1>7, <1>8, <1>10, <2>1
<1>11. ASSUME i > 0, Action(b, i, 0, hot) = "down" PROVE Action(b, i - 1, 0, hot) # "up"
  <2>1. i - 1 \in Nat /\ b + (i - 1) \in Nat /\ b + i = (b + (i - 1)) + 1
    BY <1>11
  <2>2. QED
    BY <1>7, <1>9, <1>11, <2>1
<1>12. QED
  BY <1>10, <1>11
=============================================================================
