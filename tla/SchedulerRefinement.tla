------------------------- MODULE SchedulerRefinement -------------------------
(***************************************************************************)
(* The pool implements ExclusiveUse, for every set of functions, requests, *)
(* workers and leases, any faults and any bounds.                          *)
(*                                                                         *)
(* Two kinds of steps give an instance to a caller: AcquireIdle takes an   *)
(* idle one, Publish hands over the one that was booted.  In all others    *)
(* callers keep what they have or leave (Leaving), and what was retired    *)
(* stays so.                                                               *)
(***************************************************************************)
EXTENDS SchedulerProofs

USE DEF registryVars, backendVars, leaseVars, poolVars, localVars

\* The abstract state.
Users == [i \in Instances |-> UserOf(i)]

\* A step in which nobody gets an instance, and nothing retired comes back.
Leaving ==
  /\ \A p \in Procs : Holds(p)' => Holds(p) /\ inst'[p] = inst[p]
  /\ \A p \in Procs : InFlight(p)' => \/ InFlight(p) /\ inst'[p] = inst[p]
                                      \/ ~Reserved(inst'[p])
  /\ \A i \in Pooled' : i \in Pooled \/ \E p \in Procs : InFlight(p) /\ inst[p] = i
  /\ \A i \in Instances : Reserved(i) => Reserved(i)'

\* A step in which p, and nobody else, gets the instance i.
Taking(p, i) ==
  /\ ~Holds(p) /\ Holds(p)' /\ inst'[p] = i
  /\ \A q \in Procs \ {p} : /\ Holds(q)' <=> Holds(q)
                            /\ inst'[q] = inst[q]
  /\ \A q \in Procs : Holds(q) => inst[q] # i
  /\ i \notin Retired
  /\ Retired' = Retired

-----------------------------------------------------------------------------
(* The mapping *)

\* In a good state UserOf is the one who holds the instance.
LEMMA UserIsHolder ==
  ASSUME HoldersOK, NEW i \in Instances
  PROVE  /\ \A p \in Procs : Holds(p) /\ inst[p] = i => UserOf(i) = p
         /\ (\A p \in Procs : ~(Holds(p) /\ inst[p] = i)) => UserOf(i) = NoLease
<1>1. ASSUME NEW p \in Procs, Holds(p), inst[p] = i PROVE UserOf(i) = p
  <2>1. \A q \in Procs : Holds(q) /\ inst[q] = i => q = p
    BY <1>1 DEF HoldersOK, Attached
  <2>2. QED
    BY <1>1, <2>1 DEF UserOf
<1>2. QED
  BY <1>1 DEF UserOf

\* The same after a step.
LEMMA UserIsHolderNext ==
  ASSUME HoldersOK', NEW i \in Instances
  PROVE  /\ \A p \in Procs : Holds(p)' /\ inst'[p] = i => UserOf(i)' = p
         /\ (\A p \in Procs : ~(Holds(p)' /\ inst'[p] = i)) => UserOf(i)' = NoLease
<1>1. ASSUME NEW p \in Procs, Holds(p)', inst'[p] = i PROVE UserOf(i)' = p
  <2>1. \A q \in Procs : Holds(q)' /\ inst'[q] = i => q = p
    BY <1>1 DEF HoldersOK, Attached
  <2>2. QED
    BY <1>1, <2>1 DEF UserOf
<1>2. QED
  BY <1>1 DEF UserOf

\* Whoever leaves, leaves; what is retired afterwards was so before, or retires.
LEMMA LeavingMaps ==
  ASSUME HoldersOK, HoldersOK', Leaving
  PROVE  Abstract!AbstractNext
<1> DEFINE L == {p \in Procs : ~Holds(p)' \/ ~Holds(p)}
<1>1. ASSUME NEW i \in Instances
      PROVE  UserOf(i)' = IF UserOf(i) \in L THEN NoLease ELSE UserOf(i)
  <2>1. CASE \E p \in Procs : Holds(p)' /\ inst'[p] = i
    <3>1. PICK p \in Procs : Holds(p)' /\ inst'[p] = i
      BY <2>1
    <3>2. Holds(p) /\ inst[p] = i
      BY <3>1 DEF Leaving
    <3>3. UserOf(i) = p /\ UserOf(i)' = p
      BY <3>1, <3>2, UserIsHolder, UserIsHolderNext
    <3>4. QED
      BY <3>1, <3>2, <3>3
  <2>2. CASE \A p \in Procs : ~(Holds(p)' /\ inst'[p] = i)
    <3>1. UserOf(i)' = NoLease
      BY <2>2, UserIsHolderNext
    <3>2. CASE \E p \in Procs : Holds(p) /\ inst[p] = i
      <4>1. PICK p \in Procs : Holds(p) /\ inst[p] = i
        BY <3>2
      <4>2. UserOf(i) = p
        BY <4>1, UserIsHolder
      <4>3. ~Holds(p)'
        BY <2>2, <4>1 DEF Leaving
      <4>4. QED
        BY <3>1, <4>2, <4>3
    <3>3. CASE \A p \in Procs : ~(Holds(p) /\ inst[p] = i)
      BY <3>1, <3>3, UserIsHolder
    <3>4. QED
      BY <3>2, <3>3
  <2>3. QED
    BY <2>1, <2>2
<1>2. Users' = [i \in Instances |-> IF Users[i] \in L THEN NoLease ELSE Users[i]]
  BY <1>1 DEF Users
<1>3. Retired' = Retired \cup Retired'
  <2>1. SUFFICES ASSUME NEW i \in Retired PROVE i \in Retired'
    OBVIOUS
  <2>2. /\ i \in Instances /\ Reserved(i) /\ i \notin Pooled
        /\ \A p \in Procs : InFlight(p) => inst[p] # i
    BY DEF Retired
  <2>3. Reserved(i)' /\ i \notin Pooled'
    BY <2>2 DEF Leaving
  <2>4. \A p \in Procs : InFlight(p)' => inst'[p] # i
    BY <2>2 DEF Leaving
  <2>5. QED
    BY <2>2, <2>3, <2>4 DEF Retired
<1>4. L \in SUBSET Procs /\ Retired' \in SUBSET Instances
  BY DEF Retired
<1> HIDE DEF L
<1>5. Abstract!LeaveAndRetire(L, Retired')
  BY <1>2, <1>3 DEF Abstract!LeaveAndRetire, Users
<1>6. QED
  BY <1>4, <1>5 DEF Abstract!AbstractNext

\* Who gets an instance, takes it.
LEMMA TakingMaps ==
  ASSUME HoldersOK, HoldersOK', NEW p \in Procs, NEW i \in Instances, Taking(p, i)
  PROVE  Abstract!AbstractNext
<1>1. UserOf(i) = NoLease /\ UserOf(i)' = p
  BY UserIsHolder, UserIsHolderNext DEF Taking
<1>2. ASSUME NEW j \in Instances, j # i PROVE UserOf(j)' = UserOf(j)
  <2>1. \A q \in Procs : Holds(q)' /\ inst'[q] = j <=> Holds(q) /\ inst[q] = j
    BY <1>2 DEF Taking
  <2>2. QED
    BY <2>1, UserIsHolder, UserIsHolderNext
<1>3. Users' = [Users EXCEPT ![i] = p]
  BY <1>1, <1>2 DEF Users
<1>4. Abstract!Take(p, i)
  BY <1>1, <1>3 DEF Abstract!Take, Users, Taking
<1>5. QED
  BY <1>4 DEF Abstract!AbstractNext

-----------------------------------------------------------------------------
(* Steps *)

\* A step of one goroutine, or of none, that gives nobody an instance.
LEMMA OneLeaves ==
  ASSUME TypeOK, NEW p \in Procs,
         \A q \in Procs \ {p} : pc'[q] = pc[q] /\ inst'[q] = inst[q],
         Pooled' \subseteq Pooled, UNCHANGED <<epoch, nextPort>>,
         Holds(p)' => Holds(p) /\ inst'[p] = inst[p],
         InFlight(p)' => InFlight(p) /\ inst'[p] = inst[p]
  PROVE  Leaving
BY DEF Leaving, Holds, InFlight, Reserved

\* Goroutines stay where they are.
LEMMA NobodyMoves ==
  ASSUME UNCHANGED <<pc, inst, epoch, nextPort>>, Pooled' \subseteq Pooled
  PROVE  Leaving
BY DEF Leaving, Holds, InFlight, Reserved

\* A goroutine ends its call.
LEMMA FinishLeaves ==
  ASSUME TypeOK, NEW p \in Procs, Finish(p), Pooled' \subseteq Pooled, UNCHANGED <<epoch, nextPort>>
  PROVE  Leaving
BY FinishFacts, OneLeaves

\* A goroutine goes on to a point where it holds or boots what it did before.
LEMMA GotoLeaves ==
  ASSUME TypeOK, NEW p \in Procs, NEW label, Goto(p, label), UNCHANGED inst,
         Pooled' \subseteq Pooled, UNCHANGED <<epoch, nextPort>>,
         label \in {"grant", "leased", "using"} => Holds(p),
         label \in {"boot", "publish"} => InFlight(p)
  PROVE  Leaving
<1>1. /\ \A q \in Procs \ {p} : pc'[q] = pc[q] /\ inst'[q] = inst[q]
      /\ pc'[p] = label /\ inst'[p] = inst[p]
  BY GotoFacts
<1>2. QED
  BY <1>1, OneLeaves DEF Holds, InFlight

\* A cold start reserves an instance that was not there.
LEMMA ReserveLeaves ==
  ASSUME IInv, TypeOK', NEW p \in Procs, ~Holds(p), NEW f \in Functions, ReservePort(p, f)
  PROVE  Leaving
<1>1. TypeOK
  BY DEF IInv
<1>2. /\ \A q \in Procs \ {p} : pc'[q] = pc[q] /\ inst'[q] = inst[q]
      /\ pc'[p] = "boot" /\ inst'[p] = <<epoch, nextPort>>
  BY <1>1 DEF ReservePort, Goto, TypeOK
<1>3. ~Reserved(<<epoch, nextPort>>)
  BY <1>1, PortIsNew DEF ReservePort
<1>4. \A i \in Instances : Reserved(i) => Reserved(i)'
  BY <1>1, ReservedGrows DEF ReservePort, TypeOK
<1>5. Pooled' = Pooled
  BY DEF ReservePort, Pooled
<1>6. QED
  BY <1>2, <1>3, <1>4, <1>5 DEF Leaving, Holds, InFlight

\* Acquire hands out an idle instance.
LEMMA IdleIsTaken ==
  ASSUME IInv, IInv', NEW p \in Invokers \cup Workers, NEW f \in Functions, NEW i \in Instances,
         AcquireIdle(p, f, i)
  PROVE  Taking(p, i)
<1>1. TypeOK /\ HoldersOK /\ p \in Procs
  BY DEF IInv, Procs
<1>2. /\ \A q \in Procs \ {p} : pc'[q] = pc[q] /\ inst'[q] = inst[q]
      /\ pc'[p] = Served(p) /\ inst'[p] = i /\ pc[p] \in {"idle", "acquire"}
      /\ i \in Pooled /\ i \notin busy
  BY <1>1 DEF AcquireIdle, Acquiring, Goto, TypeOK, Pooled
<1>3. Served(p) \in {"grant", "using"}
  BY DEF Served
<1>4. \A q \in Procs : InFlight(q)' <=> InFlight(q)
  BY <1>2, <1>3 DEF InFlight
<1>5. \A q \in Procs : InFlight(q) => inst'[q] = inst[q]
  BY <1>2 DEF InFlight
<1>6. UNCHANGED <<Pooled, epoch, nextPort>>
  BY DEF AcquireIdle, Pooled
<1>7. Retired' = Retired
  BY <1>4, <1>5, <1>6 DEF Retired, Reserved
<1>8. i \notin Retired
  BY <1>2 DEF Retired
<1>9. \A q \in Procs : Holds(q) => inst[q] # i
  BY <1>1, <1>2 DEF HoldersOK
<1>10. QED
  BY <1>2, <1>3, <1>7, <1>8, <1>9 DEF Taking, Holds

\* A request or a worker gets the instance that was booted for it.
LEMMA BootedIsTaken ==
  ASSUME IInv, IInv', NEW p \in Invokers \cup Workers, Publish(p)
  PROVE  inst[p] \in Instances /\ Taking(p, inst[p])
<1>1. TypeOK /\ HoldersOK /\ LocalsOK /\ p \in Procs /\ p \notin Warmers
  BY SchedulerAssumption DEF IInv, Procs
<1>2. /\ \A q \in Procs \ {p} : pc'[q] = pc[q] /\ inst'[q] = inst[q]
      /\ pc'[p] = Served(p) /\ inst'[p] = inst[p] /\ InFlight(p)
  BY <1>1 DEF Publish, Goto, TypeOK, InFlight
<1>3. Served(p) \in {"grant", "using"}
  BY DEF Served
<1>4. inst[p] \in Instances /\ fn[p] \in Functions
  BY <1>1, <1>2 DEF LocalsOK, Attached, InFlight
<1>5. Pooled' = Pooled \cup {inst[p]}
  BY <1>1, <1>4 DEF Publish, Pooled, TypeOK
<1>6. \A q \in Procs : Holds(q) => inst[q] # inst[p]
  BY <1>1, <1>2 DEF HoldersOK, Attached, Holds, InFlight
<1>7. Retired' = Retired
  <2>1. \A q \in Procs : InFlight(q)' <=> InFlight(q) /\ q # p
    BY <1>2, <1>3 DEF InFlight
  <2>2. UNCHANGED <<epoch, nextPort>>
    BY DEF Publish
  <2>3. ASSUME NEW i \in Instances PROVE i \in Retired' <=> i \in Retired
    <3>1. CASE i = inst[p]
      BY <1>1, <1>2, <1>5, <3>1 DEF Retired
    <3>2. CASE i # inst[p]
      <4>1. Reserved(i)' <=> Reserved(i)
        BY <2>2 DEF Reserved
      <4>2. i \in Pooled' <=> i \in Pooled
        BY <1>5, <3>2
      <4>3. (\A q \in Procs : InFlight(q)' => inst'[q] # i)
            <=> (\A q \in Procs : InFlight(q) => inst[q] # i)
        BY <1>2, <2>1, <3>2
      <4>4. QED
        BY <4>1, <4>2, <4>3 DEF Retired
    <3>3. QED
      BY <3>1, <3>2
  <2>4. QED
    BY <2>3 DEF Retired
<1>8. inst[p] \notin Retired
  BY <1>1, <1>2 DEF Retired
<1>9. Holds(p)' /\ ~Holds(p) /\ \A q \in Procs \ {p} : Holds(q)' <=> Holds(q)
  BY <1>1, <1>2, <1>3 DEF Holds, InFlight
<1>10. QED
  BY <1>2, <1>4, <1>6, <1>7, <1>8, <1>9, Zenon DEF Taking

\* The instance that ColdStartOne has booted joins the pool, for nobody yet.
LEMMA WarmerLeaves ==
  ASSUME IInv, NEW u \in Warmers, Publish(u)
  PROVE  Leaving
<1>1. TypeOK /\ LocalsOK /\ u \in Procs
  BY DEF IInv, Procs
<1>2. /\ \A q \in Procs \ {u} : pc'[q] = pc[q] /\ inst'[q] = inst[q]
      /\ ~Holds(u)' /\ ~InFlight(u)'
  BY <1>1, FinishFacts DEF Publish
<1>3. InFlight(u) /\ fn[u] \in Functions
  BY <1>1 DEF Publish, InFlight, LocalsOK
<1>4. Pooled' = Pooled \cup {inst[u]}
  BY <1>1, <1>3 DEF Publish, Pooled, TypeOK
<1>5. UNCHANGED <<epoch, nextPort>>
  BY DEF Publish
<1>6. QED
  BY <1>1, <1>2, <1>3, <1>4, <1>5 DEF Leaving, Holds, InFlight, Reserved

\* A restart ends all that is not in a worker's hands.
LEMMA RestartLeaves ==
  ASSUME IInv, Restart
  PROVE  Leaving
<1>1. TypeOK
  BY DEF IInv
<1>2. Pooled' = {}
  BY DEF Restart, Pooled
<1>3. \A p \in Procs : ~InFlight(p)'
  BY DEF Restart, InFlight, Survives
<1>4. \A p \in Procs : Holds(p)' => Holds(p) /\ inst'[p] = inst[p]
  BY DEF Restart, Holds, Survives
<1>5. \A i \in Instances : Reserved(i) => Reserved(i)'
  BY <1>1, ReservedGrows DEF Restart
<1>6. QED
  BY <1>2, <1>3, <1>4, <1>5 DEF Leaving

\* Every step gives one caller an instance, or nobody.
LEMMA PoolStepKinds ==
  ASSUME IInv, IInv', [Next]_vars
  PROVE  Leaving \/ \E p \in Procs, i \in Instances : Taking(p, i)
<1> DEFINE Goal == Leaving \/ \E p \in Procs, i \in Instances : Taking(p, i)
<1>1. /\ TypeOK /\ TypeOK' /\ LocalsOK /\ LocalsOK'
      /\ \A p \in Invokers \cup Workers \cup Warmers \cup Admins : p \in Procs
  BY DEF IInv, Procs
<1>2. ASSUME NEW w \in Workers, NEW f \in Functions, Validate(w, f)
      PROVE  Goal
  <2>1. Goto(w, "acquire") /\ UNCHANGED <<inst, Pooled, epoch, nextPort>>
    BY <1>2 DEF Validate, Pooled
  <2>2. QED
    BY <1>1, <2>1, GotoLeaves
<1>3. ASSUME NEW w \in Workers, AcquireMissing(w)
      PROVE  Goal
  BY <1>1, <1>3, FinishLeaves DEF AcquireMissing, Pooled
<1>4. ASSUME NEW p \in Invokers \cup Workers, NEW f \in Functions, AcquireCold(p, f)
      PROVE  Goal
  BY <1>1, <1>4, ReserveLeaves DEF AcquireCold, Acquiring, Holds
<1>5. ASSUME NEW p \in Invokers \cup Workers, NEW f \in Functions, NEW i \in Instances,
             AcquireIdle(p, f, i)
      PROVE  Goal
  BY <1>1, <1>5, IdleIsTaken
<1>6. ASSUME NEW u \in Warmers, NEW f \in Functions, ColdStartOne(u, f)
      PROVE  Goal
  BY <1>1, <1>6, ReserveLeaves DEF ColdStartOne, Holds
<1>7. ASSUME NEW p \in Invokers \cup Workers \cup Warmers, Boot(p)
      PROVE  Goal
  <2>1. /\ Goto(p, "publish") /\ InFlight(p)
        /\ UNCHANGED <<inst, Pooled, epoch, nextPort>>
    BY <1>7 DEF Boot, InFlight, Pooled
  <2>2. QED
    BY <1>1, <2>1, GotoLeaves
<1>8. ASSUME NEW p \in Invokers \cup Workers \cup Warmers, BootFails(p) \/ BootLeaks(p)
      PROVE  Goal
  BY <1>1, <1>8, FinishLeaves DEF BootFails, BootLeaks, Pooled
<1>9. ASSUME NEW p \in Invokers \cup Workers \cup Warmers, Publish(p)
      PROVE  Goal
  <2>1. CASE p \in Warmers
    BY <1>9, <2>1, WarmerLeaves
  <2>2. CASE p \in Invokers \cup Workers
    BY <1>1, <1>9, <2>2, BootedIsTaken
  <2>3. QED
    BY <2>1, <2>2
<1>10. ASSUME NEW w \in Workers, NEW l \in LeaseIds, Grant(w, l)
       PROVE  Goal
  <2>1. Goto(w, "leased") /\ Holds(w) /\ UNCHANGED <<inst, Pooled, epoch, nextPort>>
    BY <1>10 DEF Grant, Holds, Pooled
  <2>2. QED
    BY <1>1, <2>1, GotoLeaves
<1>11. ASSUME NEW w \in Workers, Receive(w) PROVE Goal
  <2>1. Goto(w, "using") /\ Holds(w) /\ UNCHANGED <<inst, Pooled, epoch, nextPort>>
    BY <1>11 DEF Receive, Holds, Pooled
  <2>2. QED
    BY <1>1, <2>1, GotoLeaves
<1>12. ASSUME NEW w \in Workers, LoseResponse(w) \/ ReleaseUseless(w)
       PROVE  Goal
  BY <1>1, <1>12, FinishLeaves DEF LoseResponse, ReleaseUseless, Pooled
<1>13. ASSUME NEW w \in Workers, NEW status \in LeaseStatuses, ReleaseInstance(w, status)
       PROVE  Goal
  <2>1. Finish(w) /\ Pooled' \subseteq Pooled /\ UNCHANGED <<epoch, nextPort>>
    BY <1>13 DEF ReleaseInstance, RemoveAndStop, Pooled
  <2>2. QED
    BY <1>1, <2>1, FinishLeaves
<1>14. ASSUME NEW h \in Invokers, Release(h)
       PROVE  Goal
  BY <1>1, <1>14, FinishLeaves DEF Release, Pooled
<1>15. ASSUME NEW l \in LeaseIds, DeadlinePasses(l)
       PROVE  Goal
  BY <1>15, NobodyMoves DEF DeadlinePasses, Pooled
<1>16. ASSUME ReapExpiredLeases PROVE Goal
  <2>1. Pooled' \subseteq Pooled /\ UNCHANGED <<pc, inst, epoch, nextPort>>
    BY <1>16 DEF ReapExpiredLeases, RemoveAndStop, Pooled
  <2>2. QED
    BY <2>1, NobodyMoves
<1>17. ASSUME NEW S \in SUBSET (Pooled \ busy), ReapIdle(S)
       PROVE  Goal
  <2>1. Pooled' \subseteq Pooled /\ UNCHANGED <<pc, inst, epoch, nextPort>>
    BY <1>17 DEF ReapIdle, RemoveAndStop, Pooled
  <2>2. QED
    BY <2>1, NobodyMoves
<1>18. ASSUME NEW f \in Functions, NEW i \in Instances, RemoveIdle(f, i)
       PROVE  Goal
  <2>1. Pooled' \subseteq Pooled /\ UNCHANGED <<pc, inst, epoch, nextPort>>
    BY <1>18 DEF RemoveIdle, RemoveAndStop, Pooled
  <2>2. QED
    BY <2>1, NobodyMoves
<1>19. ASSUME NEW i \in Instances, Stop(i)
       PROVE  Goal
  BY <1>19, NobodyMoves DEF Stop, Pooled
<1>20. ASSUME NEW a \in Admins, NEW f \in Functions, Deregister(a, f)
       PROVE  Goal
  <2>1. /\ Goto(a, "deregister") /\ Pooled' \subseteq Pooled
        /\ UNCHANGED <<inst, epoch, nextPort>>
    BY <1>1, <1>20 DEF Deregister, Enter, TakePool, Pooled, TypeOK
  <2>2. QED
    BY <1>1, <2>1, GotoLeaves
<1>21. ASSUME NEW a \in Admins, NEW f \in Functions, NEW mq \in BOOLEAN, Register(a, f, mq)
       PROVE  Goal
  <2>1. Goto(a, "register") /\ UNCHANGED <<inst, Pooled, epoch, nextPort>>
    BY <1>21 DEF Register, Enter, Pooled
  <2>2. QED
    BY <1>1, <2>1, GotoLeaves
<1>22. ASSUME NEW a \in Admins, NEW f \in Functions, NEW v \in Versions, UploadCode(a, f, v)
       PROVE  Goal
  <2>1. Goto(a, "unpack") /\ UNCHANGED <<inst, Pooled, epoch, nextPort>>
    BY <1>22 DEF UploadCode, Enter, Pooled
  <2>2. QED
    BY <1>1, <2>1, GotoLeaves
<1>23. ASSUME NEW a \in Admins,
              \/ SaveRegistered(a) \/ RegisterFails(a) \/ DeleteStored(a) \/ UploadFails(a)
              \/ SaveUploaded(a) \/ SaveUploadedFails(a)
       PROVE  Goal
  BY <1>1, <1>23, FinishLeaves
     DEF SaveRegistered, RegisterFails, DeleteStored, UploadFails, SaveUploaded,
         SaveUploadedFails, Leave, Pooled
<1>24. ASSUME NEW a \in Admins, SwapDirectory(a)
       PROVE  Goal
  <2>1. Goto(a, "object") /\ UNCHANGED <<inst, Pooled, epoch, nextPort>>
    BY <1>24 DEF SwapDirectory, Pooled
  <2>2. QED
    BY <1>1, <2>1, GotoLeaves
<1>25. ASSUME NEW a \in Admins, ApplyUpload(a)
       PROVE  Goal
  <2>1. fn[a] \in Functions
    BY <1>1, <1>25 DEF ApplyUpload, LocalsOK
  <2>2. /\ Goto(a, "upload") /\ Pooled' \subseteq Pooled
        /\ UNCHANGED <<inst, epoch, nextPort>>
    BY <1>1, <1>25, <2>1 DEF ApplyUpload, TakePool, Pooled, TypeOK
  <2>3. QED
    BY <1>1, <2>2, GotoLeaves
<1>26. ASSUME Restart PROVE Goal
  BY <1>26, RestartLeaves
<1>27. ASSUME UNCHANGED vars PROVE Goal
  BY <1>27, NobodyMoves DEF vars, Pooled
<1> HIDE DEF Goal
<1>28. Goal
  BY <1>2, <1>3, <1>4, <1>5, <1>6, <1>7, <1>8, <1>9, <1>10, <1>11, <1>12, <1>13, <1>14, <1>15,
     <1>16, <1>17, <1>18, <1>19, <1>20, <1>21, <1>22, <1>23, <1>24, <1>25, <1>26, <1>27,
     Zenon DEF Next
<1>29. QED
  BY <1>28 DEF Goal

\* At the start nobody has an instance and none is retired.
LEMMA StartMaps == Init => Abstract!AbstractInit
<1> SUFFICES ASSUME Init PROVE Abstract!AbstractInit
  OBVIOUS
<1>1. \A p \in Procs : ~Holds(p)
  BY DEF Init, Holds
<1>2. \A i \in Instances : UserOf(i) = NoLease
  BY <1>1 DEF UserOf
<1>3. \A i \in Instances : ~Reserved(i)
  BY SchedulerAssumption DEF Init, Instances, Reserved
<1>4. QED
  BY <1>2, <1>3 DEF Abstract!AbstractInit, Retired

-----------------------------------------------------------------------------
(* Theorems *)

\* What the gateway promises its callers, whatever they, the reaper, the
\* autoscaler and management calls do at the same time: an instance has one user,
\* and once retired from the pool it gets no new one.
THEOREM PoolIsExclusive == Spec => ImplementsExclusiveUse
<1>1. IInv /\ IInv' /\ [Next]_vars => [Abstract!AbstractNext]_(Abstract!abstractVars)
  <2> SUFFICES ASSUME IInv, IInv', [Next]_vars
               PROVE  Abstract!AbstractNext
    OBVIOUS
  <2>1. HoldersOK /\ HoldersOK'
    BY DEF IInv
  <2>2. QED
    BY <2>1, PoolStepKinds, LeavingMaps, TakingMaps
<1>2. QED
  BY <1>1, StartMaps, Invariance, PTL
     DEF Spec, ImplementsExclusiveUse, Abstract!AbstractSpec
=============================================================================
