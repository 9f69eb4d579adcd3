------------------------- MODULE RequestQueueProofs -------------------------
(***************************************************************************)
(* Theorems about RequestQueue, for every finite set of requests and every *)
(* pair of limits.                                                         *)
(***************************************************************************)
EXTENDS RequestQueue, FiniteSetTheorems, TLAPS

USE QueueAssumption

\* A set of requests is finite, and grows or shrinks by the request that moves.
LEMMA Counting ==
  ASSUME NEW S \in SUBSET Requests
  PROVE  /\ IsFiniteSet(S)
         /\ Cardinality(S) \in Nat
         /\ \A r : r \notin S => Cardinality(S \cup {r}) = Cardinality(S) + 1
         /\ \A r \in S : Cardinality(S \ {r}) = Cardinality(S) - 1 /\ Cardinality(S) > 0
<1>1. IsFiniteSet(S)
  BY FS_Subset
<1>2. Cardinality(S) \in Nat
  BY <1>1, FS_CardinalityType
<1>3. \A r : r \notin S => Cardinality(S \cup {r}) = Cardinality(S) + 1
  BY <1>1, FS_AddElement
<1>4. ASSUME NEW r \in S
      PROVE  Cardinality(S \ {r}) = Cardinality(S) - 1 /\ Cardinality(S) > 0
  <2>1. Cardinality(S \ {r}) = Cardinality(S) - 1
    BY <1>1, FS_RemoveElement
  <2>2. Cardinality(S) # 0
    BY <1>1, FS_EmptySet
  <2>3. QED
    BY <1>2, <2>1, <2>2
<1>5. QED
  BY <1>1, <1>2, <1>3, <1>4

\* The same, for the two sets the counters stand for.
LEMMA CountingBoth ==
  /\ Cardinality(SlotHolders) \in Nat /\ Cardinality(Counted) \in Nat
  /\ \A r : r \notin SlotHolders => Cardinality(SlotHolders \cup {r}) = Cardinality(SlotHolders) + 1
  /\ \A r : r \notin Counted => Cardinality(Counted \cup {r}) = Cardinality(Counted) + 1
  /\ \A r \in SlotHolders : /\ Cardinality(SlotHolders \ {r}) = Cardinality(SlotHolders) - 1
                            /\ Cardinality(SlotHolders) > 0
  /\ \A r \in Counted : /\ Cardinality(Counted \ {r}) = Cardinality(Counted) - 1
                        /\ Cardinality(Counted) > 0
<1>1. SlotHolders \in SUBSET Requests /\ Counted \in SUBSET Requests
  BY DEF SlotHolders, Counted
<1>2. QED
  BY <1>1, Counting

-----------------------------------------------------------------------------
(* The inductive invariant *)

\* An empty queue satisfies it.
LEMMA QueueInit == Init => QueueInv /\ StatusInv
<1> SUFFICES ASSUME Init PROVE QueueInv /\ StatusInv
  OBVIOUS
<1>1. SlotHolders = {} /\ Counted = {} /\ At("parked") = {}
  BY DEF Init, SlotHolders, Counted, At
<1>2. Cardinality({}) = 0
  BY FS_EmptySet
<1>3. QueueInv
  BY <1>1, <1>2 DEF Init, QueueInv, TypeOK, SlotsExact, QueueExact, NoIdleSlot,
                    Labels, NoReport, Fields
<1>4. StatusInv
  BY <1>1, <1>2 DEF Init, StatusInv, NoReport, Fields
<1>5. QED
  BY <1>3, <1>4

\* Every step keeps the counters exact, and no slot idle beside a parked request.
LEMMA QueueStep == QueueInv /\ [Next]_vars => QueueInv'
<1> SUFFICES ASSUME QueueInv, [Next]_vars PROVE QueueInv'
  OBVIOUS
<1> USE CountingBoth
    DEF QueueInv, TypeOK, SlotsExact, QueueExact, NoIdleSlot, Labels, Goto, Leave
<1>1. ASSUME NEW r \in Requests, TakeSlot(r) PROVE QueueInv'
  <2>1. /\ SlotHolders' = SlotHolders \cup {r} /\ r \notin SlotHolders
        /\ Counted' = Counted
        /\ At("parked")' = At("parked")
    BY <1>1 DEF TakeSlot, SlotHolders, Counted, At
  <2>2. QED
    BY <1>1, <2>1 DEF TakeSlot
<1>2. ASSUME NEW r \in Requests, FindNoSlot(r) PROVE QueueInv'
  <2>1. /\ SlotHolders' = SlotHolders
        /\ Counted' = Counted
        /\ At("parked")' = At("parked")
    BY <1>2 DEF FindNoSlot, SlotHolders, Counted, At
  <2>2. QED
    BY <1>2, <2>1 DEF FindNoSlot
<1>3. ASSUME NEW r \in Requests, Reject(r) PROVE QueueInv'
  <2>1. /\ SlotHolders' = SlotHolders
        /\ Counted' = Counted
        /\ At("parked")' = At("parked")
    BY <1>3 DEF Reject, SlotHolders, Counted, At
  <2>2. QED
    BY <1>3, <2>1 DEF Reject
<1>4. ASSUME NEW r \in Requests, Enqueue(r) PROVE QueueInv'
  <2>1. /\ SlotHolders' = SlotHolders
        /\ Counted' = Counted \cup {r} /\ r \notin Counted
        /\ At("parked")' = At("parked")
    BY <1>4 DEF Enqueue, SlotHolders, Counted, At
  <2>2. QED
    BY <1>4, <2>1 DEF Enqueue
<1>5. ASSUME NEW r \in Requests, Admit(r) PROVE QueueInv'
  <2>1. /\ SlotHolders' = SlotHolders \cup {r} /\ r \notin SlotHolders
        /\ Counted' = Counted
        /\ At("parked")' = At("parked")
    BY <1>5 DEF Admit, SlotHolders, Counted, At
  <2>2. QED
    BY <1>5, <2>1 DEF Admit
<1>6. ASSUME NEW r \in Requests, Park(r) PROVE QueueInv'
  <2>1. /\ SlotHolders' = SlotHolders
        /\ Counted' = Counted
        /\ At("parked")' = At("parked") \cup {r}
    BY <1>6 DEF Park, SlotHolders, Counted, At
  <2>2. QED
    BY <1>6, <2>1 DEF Park
<1>7. ASSUME NEW r \in Requests, GiveUp(r) PROVE QueueInv'
  <2>1. /\ SlotHolders' = SlotHolders
        /\ Counted' = Counted
        /\ At("parked")' \subseteq At("parked")
    BY <1>7 DEF GiveUp, SlotHolders, Counted, At
  <2>2. QED
    BY <1>7, <2>1 DEF GiveUp
<1>8. ASSUME NEW r \in Requests, EnterRouter(r) PROVE QueueInv'
  <2>1. /\ SlotHolders' = SlotHolders
        /\ Counted' = Counted \ {r} /\ r \in Counted
        /\ At("parked")' = At("parked")
    BY <1>8 DEF EnterRouter, SlotHolders, Counted, At
  <2>2. QED
    BY <1>8, <2>1 DEF EnterRouter
<1>9. ASSUME NEW r \in Requests, LeaveLate(r) PROVE QueueInv'
  <2>1. /\ SlotHolders' = SlotHolders
        /\ Counted' = Counted \ {r} /\ r \in Counted
        /\ At("parked")' = At("parked")
    BY <1>9 DEF LeaveLate, SlotHolders, Counted, At
  <2>2. QED
    BY <1>9, <2>1 DEF LeaveLate
<1>10. ASSUME NEW r \in Requests, FreeSlot(r) PROVE QueueInv'
  <2>1. CASE At("parked") = {}
    <3>1. /\ SlotHolders' = SlotHolders \ {r} /\ r \in SlotHolders
          /\ Counted' = Counted
          /\ At("parked")' = {}
          /\ inflight' = inflight - 1
      BY <1>10, <2>1 DEF FreeSlot, SlotHolders, Counted, At
    <3>2. QED
      BY <1>10, <3>1 DEF FreeSlot
  <2>2. CASE At("parked") # {}
    <3>1. PICK p \in At("parked") :
            /\ pc' = [pc EXCEPT ![r] = "idle", ![p] = "admitted"]
            /\ inflight' = inflight
      BY <1>10, <2>2 DEF FreeSlot
    <3>2. /\ SlotHolders' = (SlotHolders \ {r}) \cup {p} /\ r \in SlotHolders
          /\ p \notin SlotHolders \ {r}
          /\ Counted' = Counted
          /\ At("parked")' \subseteq At("parked")
      BY <1>10, <3>1 DEF FreeSlot, SlotHolders, Counted, At
    <3>3. Cardinality(SlotHolders') = Cardinality(SlotHolders)
      <4>1. SlotHolders \ {r} \in SUBSET Requests
        BY DEF SlotHolders
      <4>2. Cardinality((SlotHolders \ {r}) \cup {p}) = Cardinality(SlotHolders \ {r}) + 1
        BY <3>2, <4>1, Counting
      <4>3. QED
        BY <3>2, <4>2
    <3>4. TypeOK'
      BY <1>10, <3>1 DEF FreeSlot, At
    <3>5. QED
      BY <1>10, <2>2, <3>1, <3>2, <3>3, <3>4 DEF FreeSlot
  <2>3. QED
    BY <2>1, <2>2
<1>11. ASSUME ReadFirst \/ ReadSecond \/ Answer PROVE QueueInv'
  <2>1. UNCHANGED <<SlotHolders, Counted, At("parked"), pc, inflight, queued>>
    BY <1>11 DEF ReadFirst, ReadSecond, Answer, SlotHolders, Counted, At
  <2>2. TypeOK'
    BY <1>11, <2>1 DEF ReadFirst, ReadSecond, Answer, Value, ReadOrder, NoReport,
                       SlotHolders, Counted
  <2>3. QED
    BY <2>1, <2>2
<1>12. ASSUME UNCHANGED vars PROVE QueueInv'
  <2>1. UNCHANGED <<SlotHolders, Counted, At("parked")>>
    BY <1>12 DEF vars, SlotHolders, Counted, At
  <2>2. QED
    BY <1>12, <2>1 DEF vars
<1> HIDE DEF QueueInv
<1>13. QED
  BY <1>1, <1>2, <1>3, <1>4, <1>5, <1>6, <1>7, <1>8, <1>9, <1>10, <1>11, <1>12 DEF Next

\* Every step keeps the watched requests within what the report has counted.
LEMMA StatusStep == QueueInv /\ StatusInv /\ [Next]_vars => StatusInv'
<1> SUFFICES ASSUME QueueInv, StatusInv, [Next]_vars PROVE StatusInv'
  OBVIOUS
<1>0. /\ watched \in SUBSET Requests /\ report \in [Fields -> Int]
      /\ Cardinality(watched) \in Nat /\ Cardinality(watched \ SlotHolders) \in Nat
      /\ inflight = Cardinality(SlotHolders) /\ queued = Cardinality(Counted)
      /\ inflight \in Nat /\ queued \in Nat
  BY Counting, CountingBoth DEF QueueInv, TypeOK, SlotsExact, QueueExact
\* Away from Status, watched requests only leave, or get a slot and keep it.
<1>1. ASSUME UNCHANGED report,
             watched' \subseteq watched,
             watched' \subseteq Counted' \cup SlotHolders',
             watched' \ SlotHolders' \subseteq watched \ SlotHolders
      PROVE  StatusInv'
  <2>1. /\ Cardinality(watched') \in Nat /\ Cardinality(watched' \ SlotHolders') \in Nat
        /\ Cardinality(watched') <= Cardinality(watched)
        /\ Cardinality(watched' \ SlotHolders') <= Cardinality(watched \ SlotHolders)
    BY <1>0, <1>1, Counting, FS_Subset
  <2>2. QED
    BY <1>0, <1>1, <2>1 DEF StatusInv, Fields
<1>2. ASSUME NEW r \in Requests,
             \/ TakeSlot(r) \/ FindNoSlot(r) \/ Reject(r) \/ Enqueue(r) \/ Admit(r)
             \/ Park(r) \/ GiveUp(r) \/ EnterRouter(r) \/ LeaveLate(r) \/ FreeSlot(r)
      PROVE  StatusInv'
  <2>1. /\ UNCHANGED report
        /\ watched' \subseteq watched
        /\ watched' \subseteq Counted' \cup SlotHolders'
        /\ watched' \ SlotHolders' \subseteq watched \ SlotHolders
    BY <1>2 DEF StatusInv, QueueInv, TypeOK, Labels, Counted, SlotHolders, At, Goto, Leave,
                TakeSlot, FindNoSlot, Reject, Enqueue, Admit, Park, GiveUp, EnterRouter,
                LeaveLate, FreeSlot
  <2>2. QED
    BY <1>1, <2>1
<1>3. ASSUME ReadFirst PROVE StatusInv'
  <2>1. /\ report'["queued"] = queued /\ report'["in_flight"] = -1
        /\ watched' = Counted \cup SlotHolders
        /\ UNCHANGED <<Counted, SlotHolders>>
    BY <1>0, <1>3 DEF ReadFirst, ReadOrder, Value, NoReport, Fields, Counted, SlotHolders
  <2>2. Cardinality((Counted \cup SlotHolders) \ SlotHolders) <= Cardinality(Counted)
    <3>1. Counted \in SUBSET Requests /\ (Counted \cup SlotHolders) \ SlotHolders \subseteq Counted
      BY DEF Counted
    <3>2. QED
      BY <3>1, Counting, FS_Subset
  <2>3. QED
    BY <1>0, <2>1, <2>2 DEF StatusInv
<1>4. ASSUME ReadSecond PROVE StatusInv'
  <2>1. /\ report'["queued"] = report["queued"] /\ report'["in_flight"] = inflight
        /\ report["queued"] # -1
        /\ UNCHANGED <<watched, Counted, SlotHolders>>
    BY <1>0, <1>4 DEF ReadSecond, ReadOrder, Value, NoReport, Fields, Counted, SlotHolders,
                      StatusInv
  <2>2. Cardinality(watched) <= Cardinality(watched \ SlotHolders) + Cardinality(SlotHolders)
    <3>1. SlotHolders \in SUBSET Requests
      BY DEF SlotHolders
    <3>2. Cardinality(watched \ SlotHolders) = Cardinality(watched) - Cardinality(watched \cap SlotHolders)
      BY <1>0, Counting, FS_Difference
    <3>3. /\ Cardinality(watched \cap SlotHolders) <= Cardinality(SlotHolders)
          /\ Cardinality(watched \cap SlotHolders) \in Nat
      BY <3>1, Counting, FS_Subset
    <3>4. QED
      BY <1>0, <3>2, <3>3, CountingBoth
  <2>3. QED
    BY <1>0, <2>1, <2>2 DEF StatusInv, Fields
<1>5. ASSUME Answer PROVE StatusInv'
  BY <1>5 DEF Answer, StatusInv, NoReport, Fields
<1>6. ASSUME UNCHANGED vars PROVE StatusInv'
  BY <1>6 DEF vars, StatusInv, Counted, SlotHolders
<1>7. QED
  BY <1>2, <1>3, <1>4, <1>5, <1>6 DEF Next

-----------------------------------------------------------------------------
(* Theorems *)

\* The invariant holds in every reachable state.
THEOREM QueueInvariance == Spec => [](QueueInv /\ StatusInv)
BY QueueInit, QueueStep, StatusStep, PTL DEF Spec

\* The types, of which the range of the counters is the point: in_flight never
\* leaves 0..MAX_INFLIGHT_PER_FUNCTION.
THEOREM QueueTypes == Spec => []TypeOK
<1>1. QueueInv => TypeOK
  BY DEF QueueInv
<1>2. QED
  BY <1>1, QueueInvariance, PTL

\* Manager.Invoke gives every slot back exactly once, on every path through its
\* two selects: len(fq.sem) is the number of requests with a slot.
THEOREM SlotsNeverLeak == Spec => []SlotsExact
<1>1. QueueInv => SlotsExact
  BY DEF QueueInv
<1>2. QED
  BY <1>1, QueueInvariance, PTL

\* fq.queued is exact on every path, and never beyond MAX_QUEUE_PER_FUNCTION.
THEOREM QueueCountExact == Spec => []QueueExact
<1>1. QueueInv => QueueExact
  BY DEF QueueInv
<1>2. QED
  BY <1>1, QueueInvariance, PTL

\* A request is parked only while every slot is taken.
THEOREM WorkConserving == Spec => []NoIdleSlot
<1>1. QueueInv => NoIdleSlot
  BY DEF QueueInv
<1>2. QED
  BY <1>1, QueueInvariance, PTL

\* Reading queued before len(fq.sem), with no common lock, never misses a request
\* that was in the function's queue or slots throughout.
THEOREM StatusComplete == Spec => []StatusMissesNobody
<1>1. StatusInv => StatusMissesNobody
  BY DEF StatusInv, StatusMissesNobody, Fields
<1>2. QED
  BY <1>1, QueueInvariance, PTL
=============================================================================
