--------------------------- MODULE SchedulerProofs ---------------------------
(***************************************************************************)
(* Theorems about Scheduler, for every set of functions, requests, workers *)
(* and leases, any faults, and any bounds.                                 *)
(*                                                                         *)
(* The invariant is IInv.  TypeOK and LocalsOK are inductive together; the *)
(* three relations between callers, leases and the pool (HoldersOK,        *)
(* LeasesOK, PoolOK) are then each preserved given all of IInv.  On top of *)
(* it, each with an invariant of its own:                                  *)
(*   BusyIsAccounted, from BusyOK;                                         *)
(*   RegistryDurable, from RegistryOK;                                     *)
(*   RetiredIsDoomed, that nothing that runs is forgotten, from NoneLost;  *)
(*   RunsCurrentCode, as far as it holds, from CodeOK.                     *)
(***************************************************************************)
EXTENDS Scheduler, TLAPS

USE DEF registryVars, backendVars, leaseVars, poolVars, localVars

-----------------------------------------------------------------------------
(* Facts about the constants and about the port counter *)

\* The placeholder for `no instance' names none.
LEMMA NoInstIsNoInstance == NoInst \notin Instances
BY SchedulerAssumption DEF NoInst, Instances

\* Pooled instances are instances.
LEMMA PooledType == TypeOK => Pooled \subseteq Instances
BY DEF TypeOK, Pooled

\* The instance a cold start reserves is a new one.
LEMMA PortIsNew ==
  ASSUME TypeOK, nextPort <= MaxPort
  PROVE  <<epoch, nextPort>> \in Instances /\ ~Reserved(<<epoch, nextPort>>)
<1>1. epoch \in 1 .. MaxEpoch /\ nextPort \in 1 .. MaxPort
  BY SchedulerAssumption DEF TypeOK
<1>2. QED
  BY <1>1, SchedulerAssumption DEF Instances, Reserved

\* An instance that has been reserved stays so, whatever the step.
LEMMA ReservedGrows ==
  ASSUME TypeOK, NEW i \in Instances, Reserved(i),
         \/ epoch' = epoch /\ nextPort' \in Int /\ nextPort' >= nextPort
         \/ epoch' = epoch + 1
  PROVE  Reserved(i)'
<1>1. epoch \in Int /\ nextPort \in Int /\ i[1] \in Int /\ i[2] \in Int
  BY SchedulerAssumption DEF TypeOK, Instances
<1>2. QED
  BY <1>1 DEF Reserved

-----------------------------------------------------------------------------
(* Goroutines that move *)

\* What Finish leaves of a goroutine.
LEMMA FinishFacts ==
  ASSUME TypeOK, NEW p \in Procs, Finish(p)
  PROVE  /\ \A q \in Procs \ {p} : pc'[q] = pc[q] /\ inst'[q] = inst[q]
         /\ ~Holds(p)' /\ ~InFlight(p)'
BY DEF Finish, Goto, TypeOK, Holds, InFlight

\* What Goto changes.
LEMMA GotoFacts ==
  ASSUME TypeOK, NEW p \in Procs, NEW label, Goto(p, label), UNCHANGED inst
  PROVE  /\ \A q \in Procs \ {p} : pc'[q] = pc[q] /\ inst'[q] = inst[q]
         /\ pc'[p] = label /\ inst'[p] = inst[p]
BY DEF Goto, TypeOK

\* A goroutine that ends up with no instance leaves the other callers theirs,
\* as long as nobody new is stopped, or about to be, but what was in the pool or
\* on a management call's list.
LEMMA LettingGo ==
  ASSUME IInv, NEW p \in Procs, ~Holds(p)', ~InFlight(p)',
         \A q \in Procs \ {p} : pc'[q] = pc[q] /\ inst'[q] = inst[q],
         Pooled' \subseteq Pooled,
         stopping' \subseteq stopping \cup UNION {victims[a] : a \in Admins},
         \A a \in Admins : victims'[a] \subseteq victims[a] \cup Pooled,
         \A i \in busy \ busy' : Holds(p) /\ inst[p] = i,
         up \subseteq up', UNCHANGED <<lease, epoch, nextPort>>
  PROVE  HoldersOK'
<1>1. \A q \in Procs : Attached(q)' => /\ q # p /\ Attached(q)
                                       /\ pc'[q] = pc[q] /\ inst'[q] = inst[q]
  BY DEF Attached, Holds, InFlight
<1>2. \A q, r \in Procs : Attached(q)' /\ Attached(r)' /\ inst'[q] = inst'[r] => q = r
  BY <1>1 DEF IInv, HoldersOK
<1>3. \A q \in Procs : Attached(q)' => Reserved(inst[q])'
  BY <1>1 DEF IInv, HoldersOK, Reserved
<1>4. ASSUME NEW q \in Procs, InFlight(q)'
      PROVE  /\ inst'[q] \notin Pooled' \cup stopping'
             /\ \A l \in LeaseIds : lease'[l] # inst'[q]
             /\ \A a \in Admins : inst'[q] \notin victims'[a]
             /\ pc'[q] = "publish" => inst'[q] \in up'
  <2>1. InFlight(q) /\ pc'[q] = pc[q] /\ inst'[q] = inst[q]
    BY <1>1, <1>4 DEF Attached, InFlight
  <2>2. /\ inst[q] \notin Pooled \cup stopping
        /\ \A l \in LeaseIds : lease[l] # inst[q]
        /\ \A a \in Admins : inst[q] \notin victims[a]
        /\ pc[q] = "publish" => inst[q] \in up
    BY <2>1 DEF IInv, HoldersOK
  <2>3. QED
    BY <2>1, <2>2
<1>5. \A q \in Procs : Holds(q)' /\ inst'[q] \in Pooled' => inst'[q] \in busy'
  <2> SUFFICES ASSUME NEW q \in Procs, Holds(q)', inst'[q] \in Pooled'
               PROVE  inst'[q] \in busy'
    OBVIOUS
  <2>1. q # p /\ Holds(q) /\ inst'[q] = inst[q]
    BY <1>1 DEF Attached, Holds
  <2>2. inst[q] \in busy
    BY <2>1 DEF IInv, HoldersOK
  <2>3. Holds(p) => inst[q] # inst[p]
    BY <2>1 DEF IInv, HoldersOK, Attached
  <2>4. QED
    BY <2>1, <2>2, <2>3
<1>6. QED
  BY <1>2, <1>3, <1>4, <1>5 DEF HoldersOK

\* A management call has no instance before or after any of its steps.
ManagementLabels == {"idle", "register", "deregister", "unpack", "object", "upload"}
LEMMA ManagingKeepsHolders ==
  ASSUME IInv, NEW a \in Admins, NEW label \in ManagementLabels, Goto(a, label),
         \A q \in Procs \ {a} : inst'[q] = inst[q], Pooled' \subseteq Pooled,
         stopping' \subseteq stopping \cup UNION {victims[b] : b \in Admins},
         \A b \in Admins : victims'[b] \subseteq victims[b] \cup Pooled,
         UNCHANGED <<up, busy, lease, epoch, nextPort>>
  PROVE  HoldersOK'
<1>1. a \in Procs
  BY DEF Procs
<1>2. /\ \A q \in Procs \ {a} : pc'[q] = pc[q]
      /\ pc'[a] = label
  BY <1>1 DEF Goto, IInv, TypeOK
<1>3. ~Holds(a)' /\ ~InFlight(a)'
  BY <1>2 DEF Holds, InFlight, ManagementLabels
<1>4. QED
  BY <1>1, <1>2, <1>3, LettingGo

\* It leaves with nothing but what it had taken out of the pool.
LEMMA LeavingKeepsHolders ==
  ASSUME IInv, NEW a \in Admins, Leave(a, {}) \/ Leave(a, victims[a]), UNCHANGED pool,
         UNCHANGED <<busy, lease, epoch, nextPort>>
  PROVE  HoldersOK'
<1>1. Goto(a, "idle") /\ \A q \in Procs \ {a} : inst'[q] = inst[q]
  BY DEF Leave, Finish, IInv, TypeOK
<1>2. stopping' \subseteq stopping \cup UNION {victims[b] : b \in Admins}
  BY DEF Leave
<1>3. \A b \in Admins : victims'[b] \subseteq victims[b]
  BY DEF Leave, IInv, TypeOK
<1>4. Pooled' = Pooled /\ up' = up
  BY DEF Pooled, Leave
<1>5. QED
  BY <1>1, <1>2, <1>3, <1>4, ManagingKeepsHolders DEF ManagementLabels

\* Taking a function's containers out of the pool takes them from nobody.
LEMMA TakingThePool ==
  ASSUME IInv, NEW a \in Admins, NEW f \in Functions, TakePool(a, f)
  PROVE  /\ Pooled' \subseteq Pooled
         /\ \A b \in Admins : victims'[b] \subseteq victims[b] \cup Pooled
BY DEF TakePool, Pooled, IInv, TypeOK

-----------------------------------------------------------------------------
(* Cold starts *)

\* A cold start attaches its goroutine to an instance nobody else knows.
LEMMA ReserveStep ==
  ASSUME IInv, TypeOK', NEW p \in Procs \ Admins, ~Attached(p), NEW f \in Functions,
         ReservePort(p, f), NEW new \in Instances, new = <<epoch, nextPort>>
  PROVE  HoldersOK' /\ LeasesOK' /\ PoolOK'
<1> USE DEF TypeOK, IInv
<1>1. ~Reserved(new) /\ Reserved(new)'
  <2>1. ~Reserved(new)
    BY PortIsNew DEF ReservePort
  <2>2. Reserved(new)'
    BY SchedulerAssumption DEF ReservePort, Reserved
  <2>3. QED
    BY <2>1, <2>2
<1>2. \A i \in Instances : Reserved(i) => Reserved(i)'
  BY ReservedGrows DEF ReservePort
<1>3. /\ \A q \in Procs : q # p => pc'[q] = pc[q] /\ inst'[q] = inst[q]
      /\ pc'[p] = "boot" /\ inst'[p] = new
  BY DEF ReservePort, Goto
<1>4. /\ new \notin Pooled /\ new \notin stopping
      /\ \A l \in LeaseIds : lease[l] # new
      /\ \A a \in Admins : new \notin victims[a]
      /\ \A q \in Procs : Attached(q) => inst[q] # new
  <2>1. new \notin Pooled /\ new \notin stopping /\ \A a \in Admins : new \notin victims[a]
    BY <1>1 DEF PoolOK
  <2>2. \A l \in LeaseIds : lease[l] # new
    BY <1>1, NoInstIsNoInstance DEF LeasesOK, Active, Reserved
  <2>3. \A q \in Procs : Attached(q) => inst[q] # new
    BY <1>1 DEF HoldersOK, Reserved
  <2>4. QED
    BY <2>1, <2>2, <2>3
<1>5. UNCHANGED <<Pooled, busy, stopping, up, lease, held, victims, expired>>
  BY DEF ReservePort, Pooled
<1>6. /\ Pooled \subseteq Instances
      /\ \A q \in Procs : Attached(q) => inst[q] \in Instances
  BY PooledType DEF LocalsOK
<1>7. HoldersOK'
  <2>1. \A q \in Procs : Attached(q)' <=> (q = p \/ Attached(q))
    BY <1>3 DEF Attached, InFlight, Holds
  <2>2. ASSUME NEW q \in Procs, NEW r \in Procs,
               Attached(q)', Attached(r)', inst'[q] = inst'[r]
        PROVE  q = r
    <3>1. CASE q = p \/ r = p
      BY <1>3, <1>4, <2>1, <2>2, <3>1
    <3>2. CASE q # p /\ r # p
      BY <1>3, <2>1, <2>2, <3>2 DEF HoldersOK
    <3>3. QED
      BY <3>1, <3>2
  <2>3. \A q \in Procs : Attached(q)' => Reserved(inst[q])'
    <3>1. \A q \in Procs : q # p /\ Attached(q)' => Reserved(inst[q])'
      BY <1>2, <1>3, <1>6, <2>1 DEF HoldersOK, Reserved
    <3>2. Reserved(inst[p])'
      BY <1>1, <1>3 DEF Reserved
    <3>3. QED
      BY <3>1, <3>2
  <2>4. ASSUME NEW q \in Procs, InFlight(q)'
        PROVE  /\ inst'[q] \notin Pooled' \cup stopping'
               /\ \A l \in LeaseIds : lease'[l] # inst'[q]
               /\ \A a \in Admins : inst'[q] \notin victims'[a]
               /\ pc'[q] = "publish" => inst'[q] \in up'
    <3>1. CASE q = p
      BY <1>3, <1>4, <1>5, <3>1
    <3>2. CASE q # p
      BY <1>3, <1>5, <2>4, <3>2 DEF HoldersOK, InFlight
    <3>3. QED
      BY <3>1, <3>2
  <2>5. \A q \in Procs : Holds(q)' /\ inst'[q] \in Pooled' => inst'[q] \in busy'
    BY <1>3, <1>5 DEF HoldersOK, Holds
  <2>6. QED
    BY <2>2, <2>3, <2>4, <2>5 DEF HoldersOK
<1>8. LeasesOK'
  <2>1. \A q \in Procs : Holds(q)' => Holds(q) /\ inst'[q] = inst[q]
    BY <1>3 DEF Holds
  <2>2. \A l \in LeaseIds : Active(l)' => Active(l) /\ lease[l] \in Instances
    BY <1>5 DEF Active
  <2>3. \A w \in Workers : held[w] \in LeaseIds => inst'[w] = inst[w]
    BY <1>3, SchedulerAssumption DEF LocalsOK, Procs, Attached, Holds
  <2>4. \A l \in LeaseIds : Active(l)' => Reserved(lease[l])'
    BY <1>2, <1>5, <2>2 DEF LeasesOK, Reserved
  <2>5. QED
    BY <1>5, <2>1, <2>2, <2>3, <2>4 DEF LeasesOK, Active
<1>9. PoolOK'
  BY <1>1, <1>2, <1>5, <1>6 DEF PoolOK, ReservePort
<1>10. QED
  BY <1>7, <1>8, <1>9

-----------------------------------------------------------------------------
(* The inductive invariant *)

\* An empty gateway satisfies it.
LEMMA InvInit == Init => IInv
<1> SUFFICES ASSUME Init PROVE IInv
  OBVIOUS
<1> USE SchedulerAssumption, NoInstIsNoInstance DEF Init
<1>1. TypeOK
  BY DEF TypeOK, Labels, NoInst, Instances, Configs, Codes, Procs
<1>2. LocalsOK
  BY DEF LocalsOK, Attached, InFlight, Holds, Active, Procs
<1>3. HoldersOK
  BY DEF HoldersOK, Attached, InFlight, Holds
<1>4. LeasesOK
  BY DEF LeasesOK, Active, Holds
<1>5. PoolOK
  BY DEF PoolOK, Pooled
<1>6. QED
  BY <1>1, <1>2, <1>3, <1>4, <1>5 DEF IInv

\* Every step keeps the types, given what the control points say of the locals.
LEMMA TypeStep == TypeOK /\ LocalsOK /\ [Next]_vars => TypeOK'
<1> SUFFICES ASSUME TypeOK /\ LocalsOK, [Next]_vars PROVE TypeOK'
  OBVIOUS
<1> USE SchedulerAssumption DEF TypeOK, LocalsOK, Procs, Labels
<1>1. ASSUME NEW w \in Workers, NEW f \in Functions, Validate(w, f)
      PROVE  TypeOK'
  BY <1>1 DEF Validate, Goto
<1>2. ASSUME NEW w \in Workers, AcquireMissing(w)
      PROVE  TypeOK'
  BY <1>2 DEF AcquireMissing, Finish, Goto
<1>3. ASSUME NEW p \in Invokers \cup Workers, NEW f \in Functions, AcquireCold(p, f)
      PROVE  TypeOK'
  BY <1>3, PortIsNew DEF AcquireCold, Acquiring, ReservePort, Registered, Goto
<1>4. ASSUME NEW p \in Invokers \cup Workers, NEW f \in Functions, NEW i \in Instances,
             AcquireIdle(p, f, i)
      PROVE  TypeOK'
  BY <1>4 DEF AcquireIdle, Acquiring, Served, Goto
<1>5. ASSUME NEW u \in Warmers, NEW f \in Functions, ColdStartOne(u, f)
      PROVE  TypeOK'
  BY <1>5, PortIsNew DEF ColdStartOne, ReservePort, Registered, Goto
<1>6. ASSUME NEW p \in Invokers \cup Workers \cup Warmers, Boot(p)
      PROVE  TypeOK'
  BY <1>6 DEF Boot, CodeAt, Goto, Attached, InFlight, Configs, Codes
<1>7. ASSUME NEW p \in Invokers \cup Workers \cup Warmers, BootFails(p)
      PROVE  TypeOK'
  BY <1>7 DEF BootFails, Finish, Goto
<1>7a. ASSUME NEW p \in Invokers \cup Workers \cup Warmers, BootLeaks(p)
      PROVE  TypeOK'
  BY <1>7a DEF BootLeaks, CodeAt, Finish, Goto, Attached, InFlight, Configs, Codes
<1>8. ASSUME NEW p \in Invokers \cup Workers \cup Warmers, Publish(p)
      PROVE  TypeOK'
  <2>1. fn[p] \in Functions /\ inst[p] \in Instances
    BY <1>8 DEF Publish, Attached, InFlight
  <2>2. pool' \in [Functions -> SUBSET Instances] /\ busy' \subseteq Instances
    BY <1>8, <2>1 DEF Publish
  <2>3. CASE p \in Warmers
    BY <1>8, <2>2, <2>3 DEF Publish, Finish, Goto
  <2>4. CASE p \notin Warmers
    BY <1>8, <2>2, <2>4 DEF Publish, Served, Goto
  <2>5. QED
    BY <2>3, <2>4
<1>9. ASSUME NEW w \in Workers, NEW l \in LeaseIds, Grant(w, l)
      PROVE  TypeOK'
  BY <1>9 DEF Grant, Goto
<1>10. ASSUME NEW w \in Workers, Receive(w)
      PROVE  TypeOK'
  BY <1>10 DEF Receive, Goto
<1>11. ASSUME NEW w \in Workers, LoseResponse(w)
      PROVE  TypeOK'
  BY <1>11 DEF LoseResponse, Finish, Goto
<1>12. ASSUME NEW w \in Workers, ReleaseUseless(w)
      PROVE  TypeOK'
  BY <1>12 DEF ReleaseUseless, Finish, Goto
<1>13. ASSUME NEW w \in Workers, NEW status \in LeaseStatuses, ReleaseInstance(w, status)
      PROVE  TypeOK'
  <2>1. held[w] \in LeaseIds /\ lease[held[w]] \in Instances
    BY <1>13 DEF ReleaseInstance, Active
  <2>2. /\ pool' \in [Functions -> SUBSET Instances]
        /\ busy' \subseteq Instances /\ stopping' \subseteq Instances
    BY <1>13, <2>1 DEF ReleaseInstance, RemoveAndStop
  <2>3. QED
    BY <1>13, <2>2 DEF ReleaseInstance, DropLeases, Finish, Goto
<1>14. ASSUME NEW h \in Invokers, Release(h)
      PROVE  TypeOK'
  BY <1>14 DEF Release, Finish, Goto
<1>15. ASSUME NEW l \in LeaseIds, DeadlinePasses(l)
      PROVE  TypeOK'
  BY <1>15 DEF DeadlinePasses
<1>16. ASSUME ReapExpiredLeases PROVE TypeOK'
  <2>1. {lease[l] : l \in expired} \subseteq Instances
    BY DEF Active
  <2>2. pool' \in [Functions -> SUBSET Instances] /\ stopping' \subseteq Instances
    BY <1>16, <2>1 DEF ReapExpiredLeases, RemoveAndStop
  <2>3. QED
    BY <1>16, <2>2 DEF ReapExpiredLeases, RemoveAndStop, DropLeases
<1>17. ASSUME NEW S \in SUBSET (Pooled \ busy), ReapIdle(S)
      PROVE  TypeOK'
  BY <1>17, PooledType DEF ReapIdle, RemoveAndStop
<1>18. ASSUME NEW f \in Functions, NEW i \in Instances, RemoveIdle(f, i)
      PROVE  TypeOK'
  BY <1>18 DEF RemoveIdle, RemoveAndStop
<1>19. ASSUME NEW i \in Instances, Stop(i)
      PROVE  TypeOK'
  BY <1>19 DEF Stop
<1>20. ASSUME NEW a \in Admins, NEW f \in Functions, Deregister(a, f)
      PROVE  TypeOK'
  BY <1>20 DEF Deregister, TakePool, Enter, Goto
<1>21. ASSUME NEW a \in Admins, NEW f \in Functions, NEW mq \in BOOLEAN, Register(a, f,
     mq)
      PROVE  TypeOK'
  BY <1>21 DEF Register, Enter, Goto, Configs, Codes
<1>22. ASSUME NEW a \in Admins, NEW f \in Functions, NEW v \in Versions, UploadCode(a,
     f, v)
      PROVE  TypeOK'
  BY <1>22 DEF UploadCode, Registered, Enter, Goto, Configs, Codes
<1>23. ASSUME NEW a \in Admins, SaveRegistered(a)
      PROVE  TypeOK'
  BY <1>23 DEF SaveRegistered, Leave, Finish, Goto
<1>24. ASSUME NEW a \in Admins, RegisterFails(a)
      PROVE  TypeOK'
  BY <1>24 DEF RegisterFails, Leave, Finish, Goto
<1>25. ASSUME NEW a \in Admins, DeleteStored(a)
      PROVE  TypeOK'
  BY <1>25 DEF DeleteStored, Leave, Finish, Goto
<1>26. ASSUME NEW a \in Admins, SwapDirectory(a)
      PROVE  TypeOK'
  BY <1>26 DEF SwapDirectory, Goto, Configs
<1>27. ASSUME NEW a \in Admins, UploadFails(a)
      PROVE  TypeOK'
  BY <1>27 DEF UploadFails, Leave, Finish, Goto
<1>28. ASSUME NEW a \in Admins, ApplyUpload(a)
      PROVE  TypeOK'
  BY <1>28 DEF ApplyUpload, TakePool, Goto
<1>29. ASSUME NEW a \in Admins, SaveUploaded(a)
      PROVE  TypeOK'
  BY <1>29 DEF SaveUploaded, Leave, Finish, Goto
<1>30. ASSUME NEW a \in Admins, SaveUploadedFails(a)
      PROVE  TypeOK'
  BY <1>30 DEF SaveUploadedFails, Leave, Finish, Goto
<1>31. ASSUME Restart PROVE TypeOK'
  BY <1>31 DEF Restart, Survives
<1>32. ASSUME UNCHANGED vars PROVE TypeOK'
  BY <1>32 DEF vars
<1> HIDE DEF TypeOK, LocalsOK, Procs, Labels
<1>33. QED
  BY <1>1, <1>2, <1>3, <1>4, <1>5, <1>6, <1>7, <1>7a, <1>8, <1>9, <1>10, <1>11, <1>12, <1>13,
       <1>14, <1>15, <1>16, <1>17, <1>18, <1>19, <1>20, <1>21, <1>22, <1>23, <1>24,
       <1>25, <1>26, <1>27, <1>28, <1>29, <1>30, <1>31, <1>32 DEF Next

\* Every step keeps what the control points say of the locals.
LEMMA LocalsStep == TypeOK /\ LocalsOK /\ [Next]_vars => LocalsOK'
<1> SUFFICES ASSUME TypeOK /\ LocalsOK, [Next]_vars PROVE LocalsOK'
  OBVIOUS
<1> USE SchedulerAssumption DEF TypeOK, LocalsOK, Attached, InFlight, Holds, Active,
     Procs, Labels
<1>1. ASSUME NEW w \in Workers, NEW f \in Functions, Validate(w, f)
      PROVE  LocalsOK'
  BY <1>1 DEF Validate, Goto
<1>2. ASSUME NEW w \in Workers, AcquireMissing(w)
      PROVE  LocalsOK'
  BY <1>2 DEF AcquireMissing, Finish, Goto
<1>3. ASSUME NEW p \in Invokers \cup Workers, NEW f \in Functions, AcquireCold(p, f)
      PROVE  LocalsOK'
  BY <1>3, PortIsNew DEF AcquireCold, Acquiring, ReservePort, Registered, Goto
<1>4. ASSUME NEW p \in Invokers \cup Workers, NEW f \in Functions, NEW i \in Instances,
             AcquireIdle(p, f, i)
      PROVE  LocalsOK'
  BY <1>4 DEF AcquireIdle, Acquiring, Served, Goto
<1>5. ASSUME NEW u \in Warmers, NEW f \in Functions, ColdStartOne(u, f)
      PROVE  LocalsOK'
  BY <1>5, PortIsNew DEF ColdStartOne, ReservePort, Registered, Goto
<1>6. ASSUME NEW p \in Invokers \cup Workers \cup Warmers, Boot(p)
      PROVE  LocalsOK'
  BY <1>6 DEF Boot, Goto, CodeAt
<1>7. ASSUME NEW p \in Invokers \cup Workers \cup Warmers, BootFails(p)
      PROVE  LocalsOK'
  BY <1>7 DEF BootFails, Finish, Goto
<1>7a. ASSUME NEW p \in Invokers \cup Workers \cup Warmers, BootLeaks(p)
      PROVE  LocalsOK'
  BY <1>7a DEF BootLeaks, CodeAt, Finish, Goto
<1>8. ASSUME NEW p \in Invokers \cup Workers \cup Warmers, Publish(p)
      PROVE  LocalsOK'
  BY <1>8 DEF Publish, Served, Finish, Goto
<1>9. ASSUME NEW w \in Workers, NEW l \in LeaseIds, Grant(w, l)
      PROVE  LocalsOK'
  BY <1>9 DEF Grant, Goto
<1>10. ASSUME NEW w \in Workers, Receive(w)
      PROVE  LocalsOK'
  BY <1>10 DEF Receive, Goto
<1>11. ASSUME NEW w \in Workers, LoseResponse(w)
      PROVE  LocalsOK'
  BY <1>11 DEF LoseResponse, Finish, Goto
<1>12. ASSUME NEW w \in Workers, ReleaseUseless(w)
      PROVE  LocalsOK'
  BY <1>12 DEF ReleaseUseless, Finish, Goto
<1>13. ASSUME NEW w \in Workers, NEW status \in LeaseStatuses, ReleaseInstance(w, status)
      PROVE  LocalsOK'
  BY <1>13 DEF ReleaseInstance, DropLeases, RemoveAndStop, Finish, Goto
<1>14. ASSUME NEW h \in Invokers, Release(h)
      PROVE  LocalsOK'
  BY <1>14 DEF Release, Finish, Goto
<1>15. ASSUME NEW l \in LeaseIds, DeadlinePasses(l)
      PROVE  LocalsOK'
  BY <1>15 DEF DeadlinePasses
<1>16. ASSUME ReapExpiredLeases PROVE LocalsOK'
  BY <1>16 DEF ReapExpiredLeases, DropLeases, RemoveAndStop
<1>17. ASSUME NEW S \in SUBSET (Pooled \ busy), ReapIdle(S)
      PROVE  LocalsOK'
  BY <1>17 DEF ReapIdle, RemoveAndStop
<1>18. ASSUME NEW f \in Functions, NEW i \in Instances, RemoveIdle(f, i)
      PROVE  LocalsOK'
  BY <1>18 DEF RemoveIdle, RemoveAndStop
<1>19. ASSUME NEW i \in Instances, Stop(i)
      PROVE  LocalsOK'
  BY <1>19 DEF Stop
<1>20. ASSUME NEW a \in Admins, NEW f \in Functions, Deregister(a, f)
      PROVE  LocalsOK'
  BY <1>20 DEF Deregister, TakePool, Enter, Goto
<1>21. ASSUME NEW a \in Admins, NEW f \in Functions, NEW mq \in BOOLEAN, Register(a, f,
     mq)
      PROVE  LocalsOK'
  BY <1>21 DEF Register, Enter, Goto, Configs, Codes
<1>22. ASSUME NEW a \in Admins, NEW f \in Functions, NEW v \in Versions, UploadCode(a,
     f, v)
      PROVE  LocalsOK'
  BY <1>22 DEF UploadCode, Registered, Enter, Goto, Configs, Codes
<1>23. ASSUME NEW a \in Admins, SaveRegistered(a)
      PROVE  LocalsOK'
  BY <1>23 DEF SaveRegistered, Leave, Finish, Goto
<1>24. ASSUME NEW a \in Admins, RegisterFails(a)
      PROVE  LocalsOK'
  BY <1>24 DEF RegisterFails, Leave, Finish, Goto
<1>25. ASSUME NEW a \in Admins, DeleteStored(a)
      PROVE  LocalsOK'
  BY <1>25 DEF DeleteStored, Leave, Finish, Goto
<1>26. ASSUME NEW a \in Admins, SwapDirectory(a)
      PROVE  LocalsOK'
  BY <1>26 DEF SwapDirectory, Goto
<1>27. ASSUME NEW a \in Admins, UploadFails(a)
      PROVE  LocalsOK'
  BY <1>27 DEF UploadFails, Leave, Finish, Goto
<1>28. ASSUME NEW a \in Admins, ApplyUpload(a)
      PROVE  LocalsOK'
  BY <1>28 DEF ApplyUpload, TakePool, Goto
<1>29. ASSUME NEW a \in Admins, SaveUploaded(a)
      PROVE  LocalsOK'
  BY <1>29 DEF SaveUploaded, Leave, Finish, Goto
<1>30. ASSUME NEW a \in Admins, SaveUploadedFails(a)
      PROVE  LocalsOK'
  BY <1>30 DEF SaveUploadedFails, Leave, Finish, Goto
<1>31. ASSUME Restart PROVE LocalsOK'
  BY <1>31 DEF Restart, Survives
<1>32. ASSUME UNCHANGED vars PROVE LocalsOK'
  BY <1>32 DEF vars
<1> HIDE DEF TypeOK, LocalsOK, Attached, InFlight, Holds, Active, Procs, Labels
<1>33. QED
  BY <1>1, <1>2, <1>3, <1>4, <1>5, <1>6, <1>7, <1>7a, <1>8, <1>9, <1>10, <1>11, <1>12, <1>13,
       <1>14, <1>15, <1>16, <1>17, <1>18, <1>19, <1>20, <1>21, <1>22, <1>23, <1>24,
       <1>25, <1>26, <1>27, <1>28, <1>29, <1>30, <1>31, <1>32 DEF Next

\* Every step keeps callers apart from each other, and a cold start's instance
\* unknown to anybody else.
LEMMA HoldersStep == IInv /\ TypeOK' /\ LocalsOK' /\ [Next]_vars => HoldersOK'
<1> SUFFICES ASSUME IInv /\ TypeOK' /\ LocalsOK', [Next]_vars PROVE HoldersOK'
  OBVIOUS
<1> USE SchedulerAssumption DEF IInv, TypeOK, LocalsOK, HoldersOK, LeasesOK, PoolOK,
     Attached,
             InFlight, Holds, Procs, Reserved, Pooled, Active
<1>1. ASSUME NEW w \in Workers, NEW f \in Functions, Validate(w, f)
      PROVE  HoldersOK'
  BY <1>1 DEF Validate, Goto
<1>3. ASSUME NEW p \in Invokers \cup Workers, NEW f \in Functions, AcquireCold(p, f)
      PROVE  HoldersOK'
  <2>1. /\ p \in Procs \ Admins /\ ~Attached(p) /\ ReservePort(p, f)
        /\ <<epoch, nextPort>> \in Instances
    BY <1>3, PortIsNew DEF AcquireCold, Acquiring, ReservePort
  <2> HIDE DEF IInv, TypeOK, LocalsOK, HoldersOK, LeasesOK, PoolOK, Attached,
             InFlight, Holds, Procs, Reserved, Pooled, Active
  <2>2. QED
    BY <2>1, ReserveStep
<1>5. ASSUME NEW u \in Warmers, NEW f \in Functions, ColdStartOne(u, f)
      PROVE  HoldersOK'
  <2>1. /\ u \in Procs \ Admins /\ ~Attached(u) /\ ReservePort(u, f)
        /\ <<epoch, nextPort>> \in Instances
    BY <1>5, PortIsNew DEF ColdStartOne, ReservePort
  <2> HIDE DEF IInv, TypeOK, LocalsOK, HoldersOK, LeasesOK, PoolOK, Attached,
             InFlight, Holds, Procs, Reserved, Pooled, Active
  <2>2. QED
    BY <2>1, ReserveStep
<1>8. ASSUME NEW p \in Invokers \cup Workers \cup Warmers, Publish(p)
      PROVE  HoldersOK'
  <2>1. fn[p] \in Functions /\ inst[p] \in Instances /\ p \in Procs /\ InFlight(p)
    BY <1>8 DEF Publish
  <2>2. Pooled' = Pooled \cup {inst[p]}
    BY <1>8, <2>1 DEF Publish
  <2>3. /\ inst'[p] = inst[p] \/ ~Attached(p)'
        /\ ~InFlight(p)'
        /\ Holds(p)' => inst[p] \in busy'
        /\ \A q \in Procs : q # p => pc'[q] = pc[q] /\ inst'[q] = inst[q]
        /\ busy \subseteq busy'
        /\ UNCHANGED <<epoch, nextPort, stopping, lease, victims, up>>
    BY <1>8, <2>1 DEF Publish, Served, Finish, Goto
  <2>4. inst[p] \notin stopping /\ \A q \in Procs : q # p /\ Attached(q) => inst[q] # inst[p]
    BY <2>1
  <2>5. \A q \in Procs : InFlight(q)' => q # p /\ InFlight(q)
    BY <2>3
  <2>6. \A q \in Procs : Attached(q)' => Attached(q) /\ inst'[q] = inst[q]
    BY <2>1, <2>3
  <2>7. /\ \A q, r \in Procs : Attached(q)' /\ Attached(r)' /\ inst'[q] = inst'[r] => q = r
        /\ \A q \in Procs : Attached(q)' => Reserved(inst[q])'
    BY <2>3, <2>6
  <2>8. ASSUME NEW q \in Procs, InFlight(q)'
        PROVE  /\ inst'[q] \notin Pooled' \cup stopping'
               /\ \A l \in LeaseIds : lease'[l] # inst'[q]
               /\ \A a \in Admins : inst'[q] \notin victims'[a]
               /\ pc'[q] = "publish" => inst'[q] \in up'
    <3>1. q # p /\ InFlight(q) /\ inst'[q] = inst[q] /\ inst[q] # inst[p] /\ pc'[q] = pc[q]
      BY <2>3, <2>4, <2>5, <2>8
    <3>2. QED
      BY <2>2, <2>3, <3>1
  <2>9. ASSUME NEW q \in Procs, Holds(q)', inst'[q] \in Pooled' PROVE inst'[q] \in busy'
    <3>1. CASE q = p
      BY <2>3, <2>6, <2>9, <3>1
    <3>2. CASE q # p
      BY <2>1, <2>2, <2>3, <2>4, <2>9, <3>2
    <3>3. QED
      BY <3>1, <3>2
  <2>10. QED
    BY <2>7, <2>8, <2>9
<1>9. ASSUME NEW w \in Workers, NEW l \in LeaseIds, Grant(w, l)
      PROVE  HoldersOK'
  BY <1>9 DEF Grant, Goto
<1>10. ASSUME NEW w \in Workers, Receive(w)
      PROVE  HoldersOK'
  BY <1>10 DEF Receive, Goto
<1>13. ASSUME NEW w \in Workers, NEW status \in LeaseStatuses, ReleaseInstance(w, status)
      PROVE  HoldersOK'
  <2>1. held[w] \in LeaseIds /\ lease[held[w]] = inst[w] /\ w \in Procs /\ Holds(w)
    BY <1>13 DEF ReleaseInstance
  <2>2. /\ Pooled' \subseteq Pooled
        /\ stopping' \subseteq stopping \cup {inst[w]}
        /\ busy \ {inst[w]} \subseteq busy'
    BY <1>13, <2>1 DEF ReleaseInstance, RemoveAndStop
  <2>3. /\ \A q \in Procs : q # w => pc'[q] = pc[q] /\ inst'[q] = inst[q]
        /\ pc'[w] = "idle"
        /\ UNCHANGED <<epoch, nextPort, victims, up>>
        /\ \A l \in LeaseIds : lease'[l] \in {lease[l], NoInst}
    BY <1>13 DEF ReleaseInstance, DropLeases, RemoveAndStop, Finish, Goto
  <2>4. \A q \in Procs : Attached(q)' => /\ q # w /\ Attached(q) /\ inst'[q] = inst[q]
                                       /\ inst[q] # inst[w]
    BY <2>1, <2>3
  <2>5. /\ \A q, r \in Procs : Attached(q)' /\ Attached(r)' /\ inst'[q] = inst'[r] => q = r
        /\ \A q \in Procs : Attached(q)' => Reserved(inst[q])'
        /\ \A q \in Procs : Holds(q)' /\ inst'[q] \in Pooled' => inst'[q] \in busy'
    BY <2>2, <2>3, <2>4
  <2>6. ASSUME NEW q \in Procs, InFlight(q)'
        PROVE  /\ inst'[q] \notin Pooled' \cup stopping'
               /\ \A l \in LeaseIds : lease'[l] # inst'[q]
               /\ \A a \in Admins : inst'[q] \notin victims'[a]
               /\ pc'[q] = "publish" => inst'[q] \in up'
    <3>1. InFlight(q) /\ inst'[q] = inst[q] /\ inst[q] # inst[w] /\ pc'[q] = pc[q]
      BY <2>3, <2>4, <2>6
    <3>2. QED
      BY <2>2, <2>3, <3>1, NoInstIsNoInstance
  <2>7. QED
    BY <2>5, <2>6
<1>15. ASSUME NEW l \in LeaseIds, DeadlinePasses(l)
      PROVE  HoldersOK'
  BY <1>15 DEF DeadlinePasses
<1>16. ASSUME ReapExpiredLeases PROVE HoldersOK'
  <2>1. /\ Pooled' \subseteq Pooled
        /\ stopping' = stopping \cup {lease[l] : l \in expired}
        /\ UNCHANGED <<epoch, nextPort, victims, up, busy, pc, inst>>
        /\ \A l \in LeaseIds : lease'[l] \in {lease[l], NoInst}
    BY <1>16 DEF ReapExpiredLeases, DropLeases, RemoveAndStop
  <2>2. \A p \in Procs : InFlight(p) => inst[p] \notin stopping'
    BY <2>1
  <2>3. QED
    BY <2>1, <2>2, NoInstIsNoInstance
<1>17. ASSUME NEW S \in SUBSET (Pooled \ busy), ReapIdle(S)
      PROVE  HoldersOK'
  BY <1>17 DEF ReapIdle, RemoveAndStop
<1>18. ASSUME NEW f \in Functions, NEW i \in Instances, RemoveIdle(f, i)
      PROVE  HoldersOK'
  BY <1>18 DEF RemoveIdle, RemoveAndStop
<1>19. ASSUME NEW i \in Instances, Stop(i)
      PROVE  HoldersOK'
  BY <1>19 DEF Stop
<1>31. ASSUME Restart PROVE HoldersOK'
  <2>1. /\ Pooled' = {} /\ epoch' = epoch + 1 
        /\ \A q \in Procs : Attached(q)' => pc'[q] = pc[q] /\ inst'[q] = inst[q] /\
             Holds(q) /\ ~InFlight(q)'
    BY <1>31 DEF Restart, Survives
  <2>2. ASSUME NEW p \in Procs, Attached(p)' PROVE Reserved(inst[p])'
    <3>1. inst[p] \in Instances /\ Reserved(inst[p]) /\ inst'[p] = inst[p]
      BY <2>1, <2>2
    <3>2. inst[p][1] \in Int /\ epoch \in Int
      BY <3>1 DEF Instances
    <3>3. QED
      BY <2>1, <3>1, <3>2
  <2>3. QED
    BY <2>1, <2>2
<1>32. ASSUME UNCHANGED vars PROVE HoldersOK'
  BY <1>32 DEF vars
<1> HIDE DEF IInv, TypeOK, LocalsOK, HoldersOK, LeasesOK, PoolOK, Attached,
             InFlight, Holds, Procs, Reserved, Pooled, Active
<1>0. /\ TypeOK /\ Workers \subseteq Procs /\ Warmers \subseteq Procs
      /\ Invokers \subseteq Procs /\ Admins \subseteq Procs
  BY DEF IInv, Procs
<1>2. ASSUME NEW w \in Workers, AcquireMissing(w)
      PROVE  HoldersOK'
  <2>1. /\ Finish(w) /\ UNCHANGED <<up, pool, stopping, busy, lease, epoch, nextPort, victims>>
    BY <1>2 DEF AcquireMissing
  <2>2. /\ \A q \in Procs \ {w} : pc'[q] = pc[q] /\ inst'[q] = inst[q]
        /\ ~Holds(w)' /\ ~InFlight(w)' /\ Pooled' = Pooled
    BY <1>0, <2>1, FinishFacts DEF Pooled
  <2>3. QED
    BY <1>0, <2>1, <2>2, LettingGo
<1>4. ASSUME NEW p \in Invokers \cup Workers, NEW f \in Functions, NEW i \in Instances,
             AcquireIdle(p, f, i)
      PROVE  HoldersOK'
  <2>1. /\ p \in Procs /\ ~Attached(p) /\ i \in Pooled \ busy
    BY <1>0, <1>4 DEF AcquireIdle, Acquiring, Attached, Holds, InFlight, Pooled
  <2>2. /\ \A q \in Procs \ {p} : pc'[q] = pc[q] /\ inst'[q] = inst[q]
        /\ ~InFlight(p)' /\ inst'[p] = i
    BY <1>0, <1>4, <2>1 DEF AcquireIdle, Acquiring, Served, Goto, InFlight, TypeOK
  <2>3. /\ Pooled' = Pooled /\ busy' = busy \cup {i}
        /\ UNCHANGED <<up, stopping, victims, lease, epoch, nextPort>>
    BY <1>4 DEF AcquireIdle, Pooled
  <2>4. \A q \in Procs : Attached(q) => inst[q] # i
    BY <2>1 DEF IInv, HoldersOK, Attached
  <2>5. \A q \in Procs \ {p} : Attached(q)' => Attached(q)
    BY <2>2 DEF Attached, Holds, InFlight
  <2>6. \A q, r \in Procs : Attached(q)' /\ Attached(r)' /\ inst'[q] = inst'[r] => q = r
    BY <2>2, <2>4, <2>5 DEF IInv, HoldersOK
  <2>7. \A q \in Procs : Attached(q)' => Reserved(inst[q])'
    <3>1. Reserved(i)
      BY <2>1 DEF IInv, PoolOK
    <3>2. QED
      BY <2>2, <2>3, <2>5, <3>1 DEF IInv, HoldersOK, Reserved
  <2>8. ASSUME NEW q \in Procs, InFlight(q)'
        PROVE  /\ inst'[q] \notin Pooled' \cup stopping'
               /\ \A l \in LeaseIds : lease'[l] # inst'[q]
               /\ \A a \in Admins : inst'[q] \notin victims'[a]
               /\ pc'[q] = "publish" => inst'[q] \in up'
    <3>1. q # p /\ InFlight(q) /\ pc'[q] = pc[q] /\ inst'[q] = inst[q]
      BY <2>2, <2>8 DEF InFlight
    <3>2. QED
      BY <2>3, <3>1 DEF IInv, HoldersOK
  <2>9. \A q \in Procs : Holds(q)' /\ inst'[q] \in Pooled' => inst'[q] \in busy'
    BY <2>2, <2>3 DEF IInv, HoldersOK, Holds
  <2>10. QED
    BY <2>6, <2>7, <2>8, <2>9 DEF HoldersOK
<1>6. ASSUME NEW p \in Invokers \cup Workers \cup Warmers, Boot(p)
      PROVE  HoldersOK'
  <2>1. /\ p \in Procs /\ InFlight(p)
    BY <1>0, <1>6 DEF Boot, InFlight
  <2>2. /\ \A q \in Procs \ {p} : pc'[q] = pc[q]
        /\ pc'[p] = "publish"
    BY <1>6, <2>1 DEF Boot, Goto, IInv, TypeOK
  <2>3. /\ Pooled' = Pooled /\ up' = up \cup {inst[p]}
        /\ UNCHANGED <<inst, busy, stopping, victims, lease, epoch, nextPort>>
    BY <1>6 DEF Boot, Pooled
  <2>4. \A q \in Procs : /\ Attached(q)' <=> Attached(q)
                         /\ InFlight(q)' <=> InFlight(q)
                         /\ Holds(q)' <=> Holds(q)
    BY <2>1, <2>2 DEF Attached, Holds, InFlight
  <2>5. \A q, r \in Procs : Attached(q)' /\ Attached(r)' /\ inst'[q] = inst'[r] => q = r
    BY <2>3, <2>4 DEF IInv, HoldersOK
  <2>6. \A q \in Procs : Attached(q)' => Reserved(inst[q])'
    BY <2>3, <2>4 DEF IInv, HoldersOK, Reserved
  <2>7. ASSUME NEW q \in Procs, InFlight(q)'
        PROVE  /\ inst'[q] \notin Pooled' \cup stopping'
               /\ \A l \in LeaseIds : lease'[l] # inst'[q]
               /\ \A a \in Admins : inst'[q] \notin victims'[a]
               /\ pc'[q] = "publish" => inst'[q] \in up'
    <3>1. InFlight(q)
      BY <2>4, <2>7
    <3>2. pc'[q] = "publish" => inst'[q] \in up'
      BY <2>2, <2>3, <3>1 DEF IInv, HoldersOK
    <3>3. QED
      BY <2>3, <3>1, <3>2 DEF IInv, HoldersOK
  <2>8. \A q \in Procs : Holds(q)' /\ inst'[q] \in Pooled' => inst'[q] \in busy'
    BY <2>3, <2>4 DEF IInv, HoldersOK
  <2>9. QED
    BY <2>5, <2>6, <2>7, <2>8 DEF HoldersOK
<1>7. ASSUME NEW p \in Invokers \cup Workers \cup Warmers, BootFails(p)
      PROVE  HoldersOK'
  <2>1. /\ Finish(p) /\ UNCHANGED <<up, pool, stopping, busy, lease, epoch, nextPort, victims>>
    BY <1>7 DEF BootFails
  <2>2. /\ \A q \in Procs \ {p} : pc'[q] = pc[q] /\ inst'[q] = inst[q]
        /\ ~Holds(p)' /\ ~InFlight(p)' /\ Pooled' = Pooled
    BY <1>0, <2>1, FinishFacts DEF Pooled
  <2>3. QED
    BY <1>0, <2>1, <2>2, LettingGo
<1>14. ASSUME NEW h \in Invokers, Release(h)
      PROVE  HoldersOK'
  <2>1. /\ Holds(h) /\ Finish(h) /\ busy' = busy \ {inst[h]}
        /\ UNCHANGED <<up, pool, stopping, lease, epoch, nextPort, victims>>
    BY <1>14 DEF Release, Holds
  <2>2. /\ \A q \in Procs \ {h} : pc'[q] = pc[q] /\ inst'[q] = inst[q]
        /\ ~Holds(h)' /\ ~InFlight(h)' /\ Pooled' = Pooled
    BY <1>0, <2>1, FinishFacts DEF Pooled
  <2>3. QED
    BY <1>0, <2>1, <2>2, LettingGo
<1>7a. ASSUME NEW p \in Invokers \cup Workers \cup Warmers, BootLeaks(p)
      PROVE  HoldersOK'
  <2>1. /\ Finish(p) /\ up \subseteq up'
        /\ UNCHANGED <<pool, stopping, busy, lease, epoch, nextPort, victims>>
    BY <1>7a DEF BootLeaks
  <2>2. /\ \A q \in Procs \ {p} : pc'[q] = pc[q] /\ inst'[q] = inst[q]
        /\ ~Holds(p)' /\ ~InFlight(p)' /\ Pooled' = Pooled
    BY <1>0, <2>1, FinishFacts DEF Pooled
  <2>3. QED
    BY <1>0, <2>1, <2>2, LettingGo
<1>11. ASSUME NEW w \in Workers, LoseResponse(w)
      PROVE  HoldersOK'
  <2>1. /\ Finish(w) /\ up \subseteq up'
        /\ UNCHANGED <<pool, stopping, busy, lease, epoch, nextPort, victims>>
    BY <1>11 DEF LoseResponse
  <2>2. /\ \A q \in Procs \ {w} : pc'[q] = pc[q] /\ inst'[q] = inst[q]
        /\ ~Holds(w)' /\ ~InFlight(w)' /\ Pooled' = Pooled
    BY <1>0, <2>1, FinishFacts DEF Pooled
  <2>3. QED
    BY <1>0, <2>1, <2>2, LettingGo
<1>12. ASSUME NEW w \in Workers, ReleaseUseless(w)
      PROVE  HoldersOK'
  <2>1. /\ Finish(w) /\ up \subseteq up'
        /\ UNCHANGED <<pool, stopping, busy, lease, epoch, nextPort, victims>>
    BY <1>12 DEF ReleaseUseless
  <2>2. /\ \A q \in Procs \ {w} : pc'[q] = pc[q] /\ inst'[q] = inst[q]
        /\ ~Holds(w)' /\ ~InFlight(w)' /\ Pooled' = Pooled
    BY <1>0, <2>1, FinishFacts DEF Pooled
  <2>3. QED
    BY <1>0, <2>1, <2>2, LettingGo
<1>20. ASSUME NEW a \in Admins, NEW f \in Functions, Deregister(a, f)
      PROVE  HoldersOK'
  <2>1. /\ Goto(a, "deregister") /\ UNCHANGED <<inst, stopping, up, busy, lease, epoch, nextPort>>
        /\ TakePool(a, f)
    BY <1>20 DEF Deregister, Enter, TakePool
  <2>2. QED
    BY <2>1, TakingThePool, ManagingKeepsHolders DEF ManagementLabels
<1>21. ASSUME NEW a \in Admins, NEW f \in Functions, NEW mq \in BOOLEAN, Register(a, f,
     mq)
      PROVE  HoldersOK'
  <2>1. /\ Goto(a, "register")
        /\ UNCHANGED <<inst, pool, stopping, victims, up, busy, lease, epoch, nextPort>>
    BY <1>21 DEF Register, Enter
  <2>2. QED
    BY <2>1, ManagingKeepsHolders DEF ManagementLabels, Pooled
<1>22. ASSUME NEW a \in Admins, NEW f \in Functions, NEW v \in Versions, UploadCode(a,
     f, v)
      PROVE  HoldersOK'
  <2>1. /\ Goto(a, "unpack")
        /\ UNCHANGED <<inst, pool, stopping, victims, up, busy, lease, epoch, nextPort>>
    BY <1>22 DEF UploadCode, Enter
  <2>2. QED
    BY <2>1, ManagingKeepsHolders DEF ManagementLabels, Pooled
<1>23. ASSUME NEW a \in Admins, SaveRegistered(a)
      PROVE  HoldersOK'
  BY <1>23, LeavingKeepsHolders DEF SaveRegistered
<1>24. ASSUME NEW a \in Admins, RegisterFails(a)
      PROVE  HoldersOK'
  BY <1>24, LeavingKeepsHolders DEF RegisterFails
<1>25. ASSUME NEW a \in Admins, DeleteStored(a)
      PROVE  HoldersOK'
  BY <1>25, LeavingKeepsHolders DEF DeleteStored
<1>26. ASSUME NEW a \in Admins, SwapDirectory(a)
      PROVE  HoldersOK'
  <2>1. /\ Goto(a, "object")
        /\ UNCHANGED <<inst, pool, stopping, victims, up, busy, lease, epoch, nextPort>>
    BY <1>26 DEF SwapDirectory
  <2>2. QED
    BY <2>1, ManagingKeepsHolders DEF ManagementLabels, Pooled
<1>27. ASSUME NEW a \in Admins, UploadFails(a)
      PROVE  HoldersOK'
  BY <1>27, LeavingKeepsHolders DEF UploadFails
<1>28. ASSUME NEW a \in Admins, ApplyUpload(a)
      PROVE  HoldersOK'
  <2>1. fn[a] \in Functions
    BY <1>0, <1>28 DEF ApplyUpload, IInv, LocalsOK
  <2>2. /\ Goto(a, "upload") /\ UNCHANGED <<inst, stopping, up, busy, lease, epoch, nextPort>>
        /\ TakePool(a, fn[a])
    BY <1>28 DEF ApplyUpload, TakePool
  <2>3. QED
    BY <2>1, <2>2, TakingThePool, ManagingKeepsHolders DEF ManagementLabels
<1>29. ASSUME NEW a \in Admins, SaveUploaded(a)
      PROVE  HoldersOK'
  BY <1>29, LeavingKeepsHolders DEF SaveUploaded
<1>30. ASSUME NEW a \in Admins, SaveUploadedFails(a)
      PROVE  HoldersOK'
  BY <1>30, LeavingKeepsHolders DEF SaveUploadedFails
<1>33. QED
  BY <1>1, <1>2, <1>3, <1>4, <1>5, <1>6, <1>7, <1>7a, <1>8, <1>9, <1>10, <1>11, <1>12, <1>13,
       <1>14, <1>15, <1>16, <1>17, <1>18, <1>19, <1>20, <1>21, <1>22, <1>23, <1>24,
       <1>25, <1>26, <1>27, <1>28, <1>29, <1>30, <1>31, <1>32 DEF Next

\* Leases stay in order while nobody gets an instance or a lease, and nothing
\* leased becomes idle.
LEMMA LeasesStay ==
  ASSUME IInv,
         \A q \in Procs : Holds(q)' => Holds(q) /\ inst'[q] = inst[q],
         \A w \in Workers : held'[w] \in LeaseIds => inst'[w] = inst[w] /\ held'[w] = held[w],
         \A w \in Workers : Holds(w)' => held'[w] = held[w],
         \A l \in LeaseIds : Active(l)' => Active(l) /\ lease'[l] = lease[l],
         Pooled' \subseteq Pooled,
         \A l \in LeaseIds : Active(l)' /\ lease[l] \in busy => lease[l] \in busy',
         UNCHANGED <<epoch, nextPort>>
  PROVE  LeasesOK'
<1>0. LeasesOK
  BY DEF IInv
<1>1. \A l \in LeaseIds : Active(l)' =>
        /\ Reserved(lease[l])'
        /\ lease'[l] \in Pooled' => lease'[l] \in busy'
  BY <1>0 DEF LeasesOK, Reserved
<1>2. \A l, m \in LeaseIds : Active(l)' /\ lease'[l] = lease'[m] => l = m
  BY <1>0 DEF LeasesOK, Active
<1>3. \A l \in LeaseIds, q \in Procs :
        Active(l)' /\ Holds(q)' /\ inst'[q] = lease'[l] => q \in Workers /\ held'[q] = l
  BY <1>0 DEF LeasesOK
<1>4. \A w \in Workers :
        held'[w] \in LeaseIds /\ Active(held[w])' => lease'[held[w]] = inst'[w]
  BY <1>0 DEF LeasesOK
<1>5. \A v, w \in Workers : held'[v] \in LeaseIds /\ held'[v] = held'[w] => v = w
  BY <1>0 DEF LeasesOK
<1>6. \A w \in Workers : held'[w] \in LeaseIds => held'[w] = held[w]
  OBVIOUS
<1>7. QED
  BY <1>1, <1>2, <1>3, <1>4, <1>5, <1>6 DEF LeasesOK, Reserved, Active

\* A goroutine that ends leaves every lease but its own as it was.
LEMMA EndingKeepsLeases ==
  ASSUME IInv, NEW p \in Procs, Finish(p),
         \A w \in Workers \ {p} : held'[w] = held[w],
         p \in Workers => held'[p] \notin LeaseIds,
         UNCHANGED <<pool, lease, epoch, nextPort>>,
         \A l \in LeaseIds : Active(l) /\ lease[l] \in busy => lease[l] \in busy'
  PROVE  LeasesOK'
<1>1. /\ \A q \in Procs : Holds(q)' => q # p /\ Holds(q)
      /\ \A q \in Procs \ {p} : inst'[q] = inst[q]
  BY FinishFacts, Zenon DEF IInv, Holds
<1>2. Pooled' = Pooled /\ \A l \in LeaseIds : Active(l)' <=> Active(l)
  BY DEF Pooled, Active
<1>3. Workers \subseteq Procs
  BY DEF Procs
<1>4. QED
  BY <1>1, <1>2, <1>3, LeasesStay

\* A step that moves one goroutine, without giving or taking an instance, leaves
\* every lease as it was.
LEMMA MovingKeepsLeases ==
  ASSUME IInv, NEW p \in Procs, NEW label, Goto(p, label),
         label \in {"grant", "leased", "using"} => Holds(p),
         Pooled' \subseteq Pooled,
         UNCHANGED <<inst, held, lease, busy, epoch, nextPort>>
  PROVE  LeasesOK'
<1>1. \A q \in Procs : Holds(q)' => Holds(q)
  BY DEF IInv, TypeOK, Goto, Holds
<1>2. \A l \in LeaseIds : Active(l)' <=> Active(l)
  BY DEF Active
<1>3. QED
  BY <1>1, <1>2, LeasesStay

\* A step that moves nobody and gives up some leases, and instances with them.
LEMMA DroppingKeepsLeases ==
  ASSUME IInv, UNCHANGED <<pc, inst, held, busy, epoch, nextPort>>,
         \A l \in LeaseIds : lease'[l] \in {lease[l], NoInst},
         \A f \in Functions : pool'[f] \subseteq pool[f]
  PROVE  LeasesOK'
<1>1. Pooled' \subseteq Pooled
  BY DEF Pooled
<1>2. /\ \A q \in Procs : Holds(q)' => Holds(q)
      /\ \A l \in LeaseIds : Active(l)' => Active(l) /\ lease'[l] = lease[l]
  BY DEF Holds, Active
<1>3. QED
  BY <1>1, <1>2, LeasesStay

\* Every step keeps a live lease with its worker, and its instance busy.
LEMMA LeasesStep == IInv /\ TypeOK' /\ LocalsOK' /\ [Next]_vars => LeasesOK'
<1> SUFFICES ASSUME IInv /\ TypeOK' /\ LocalsOK', [Next]_vars PROVE LeasesOK'
  OBVIOUS
<1>0. /\ TypeOK /\ LocalsOK
      /\ Invokers \cup Workers \cup Warmers \subseteq Procs \ Admins /\ Admins \subseteq Procs
      /\ NoLease \notin LeaseIds
      /\ \A w \in Workers : pc[w] \notin {"leased", "using"} => held[w] \notin LeaseIds
  BY SchedulerAssumption DEF IInv, LocalsOK, Procs
<1>1. ASSUME NEW w \in Workers, NEW f \in Functions, Validate(w, f)
      PROVE  LeasesOK'
  BY <1>0, <1>1, MovingKeepsLeases DEF Validate, Pooled
<1>2. ASSUME NEW w \in Workers, AcquireMissing(w)
      PROVE  LeasesOK'
  BY <1>0, <1>2, EndingKeepsLeases DEF AcquireMissing
<1>3. ASSUME NEW p \in Invokers \cup Workers, NEW f \in Functions, AcquireCold(p, f)
      PROVE  LeasesOK'
  <2>1. /\ p \in Procs \ Admins /\ ~Attached(p) /\ ReservePort(p, f)
        /\ <<epoch, nextPort>> \in Instances
    BY <1>0, <1>3, PortIsNew DEF AcquireCold, Acquiring, ReservePort, Attached, InFlight, Holds
  <2>2. QED
    BY <2>1, ReserveStep
<1>4. ASSUME NEW p \in Invokers \cup Workers, NEW f \in Functions, NEW i \in Instances,
             AcquireIdle(p, f, i)
      PROVE  LeasesOK'
  <2>1. /\ p \in Procs /\ pc[p] \in {"idle", "acquire"} /\ i \in Pooled \ busy
        /\ p \in Workers => held[p] \notin LeaseIds
    BY <1>0, <1>4, SchedulerAssumption DEF AcquireIdle, Acquiring, Pooled
  <2>2. /\ \A q \in Procs \ {p} : pc'[q] = pc[q] /\ inst'[q] = inst[q]
        /\ inst'[p] = i /\ busy \subseteq busy'
        /\ UNCHANGED <<pool, lease, held, epoch, nextPort>>
    BY <1>0, <1>4, <2>1 DEF AcquireIdle, Goto, TypeOK
  <2>3. LeasesOK
    BY DEF IInv
  <2>4. \A l \in LeaseIds : Active(l) => lease[l] # i
    BY <2>1, <2>3 DEF LeasesOK
  <2>5. \A l \in LeaseIds, q \in Procs :
          Active(l) /\ Holds(q)' /\ inst'[q] = lease[l] => q \in Workers /\ held[q] = l
    BY <2>2, <2>3, <2>4 DEF LeasesOK, Holds
  <2>6. \A w \in Workers : held[w] \in LeaseIds => inst'[w] = inst[w]
    BY <1>0, <2>1, <2>2
  <2>7. QED
    BY <2>2, <2>3, <2>5, <2>6 DEF LeasesOK, Active, Pooled, Reserved
<1>5. ASSUME NEW u \in Warmers, NEW f \in Functions, ColdStartOne(u, f)
      PROVE  LeasesOK'
  <2>1. /\ u \in Procs \ Admins /\ ~Attached(u) /\ ReservePort(u, f)
        /\ <<epoch, nextPort>> \in Instances
    BY <1>0, <1>5, PortIsNew DEF ColdStartOne, ReservePort, Attached, InFlight, Holds
  <2>2. QED
    BY <2>1, ReserveStep
<1>6. ASSUME NEW p \in Invokers \cup Workers \cup Warmers, Boot(p)
      PROVE  LeasesOK'
  BY <1>0, <1>6, MovingKeepsLeases DEF Boot, Pooled
<1>7. ASSUME NEW p \in Invokers \cup Workers \cup Warmers, BootFails(p) \/ BootLeaks(p)
      PROVE  LeasesOK'
  <2>1. /\ Finish(p) /\ pc[p] = "boot" /\ UNCHANGED <<pool, busy, lease, held, epoch, nextPort>>
    BY <1>7 DEF BootFails, BootLeaks
  <2>2. QED
    BY <1>0, <2>1, EndingKeepsLeases
<1>8. ASSUME NEW p \in Invokers \cup Workers \cup Warmers, Publish(p)
      PROVE  LeasesOK'
  <2>1. /\ p \in Procs /\ pc[p] = "publish" /\ InFlight(p) /\ fn[p] \in Functions
        /\ inst[p] \in Instances
        /\ p \in Workers => held[p] \notin LeaseIds
    BY <1>0, <1>8 DEF Publish, InFlight, LocalsOK, Attached
  <2>2. LeasesOK /\ HoldersOK
    BY DEF IInv
  <2>3. \A l \in LeaseIds : Active(l) => lease[l] # inst[p]
    BY <2>1, <2>2 DEF HoldersOK
  <2>4. /\ \A q \in Procs \ {p} : pc'[q] = pc[q] /\ inst'[q] = inst[q]
        /\ Holds(p)' => inst'[p] = inst[p]
        /\ busy \subseteq busy' /\ Pooled' \subseteq Pooled \cup {inst[p]}
        /\ UNCHANGED <<lease, held, epoch, nextPort>>
    <3>1. \A q \in Procs \ {p} : pc'[q] = pc[q] /\ inst'[q] = inst[q]
      BY <1>0, <1>8, <2>1 DEF Publish, Finish, Goto, TypeOK
    <3>2. Holds(p)' => inst'[p] = inst[p]
      BY <1>0, <1>8, <2>1 DEF Publish, Finish, Goto, TypeOK, Holds
    <3>3. Pooled' \subseteq Pooled \cup {inst[p]}
      BY <1>0, <1>8, <2>1 DEF Publish, Pooled, TypeOK
    <3>4. QED
      BY <1>8, <3>1, <3>2, <3>3 DEF Publish
  <2>5. \A l \in LeaseIds, q \in Procs :
          Active(l) /\ Holds(q)' /\ inst'[q] = lease[l] => q \in Workers /\ held[q] = l
    BY <2>2, <2>3, <2>4 DEF LeasesOK, Holds
  <2>6. \A w \in Workers : held[w] \in LeaseIds => inst'[w] = inst[w]
    BY <1>0, <2>1, <2>4
  <2>7. \A l \in LeaseIds : Active(l) /\ lease[l] \in Pooled' => lease[l] \in busy'
    BY <2>2, <2>3, <2>4 DEF LeasesOK
  <2>8. QED
    BY <2>2, <2>4, <2>5, <2>6, <2>7 DEF LeasesOK, Active, Reserved
<1>9. ASSUME NEW w \in Workers, NEW l \in LeaseIds, Grant(w, l)
      PROVE  LeasesOK'
  <2>1. /\ pc[w] = "grant" /\ w \in Procs /\ ~Active(l) /\ \A v \in Workers : held[v] # l
        /\ held[w] \notin LeaseIds
        /\ UNCHANGED <<pool, busy, inst, epoch, nextPort>>
    BY <1>0, <1>9 DEF Grant
  <2>2. /\ \A m \in LeaseIds : lease'[m] = IF m = l THEN inst[w] ELSE lease[m]
        /\ \A v \in Workers : held'[v] = IF v = w THEN l ELSE held[v]
        /\ \A q \in Procs : Holds(q)' <=> Holds(q)
    BY <1>0, <1>9, <2>1 DEF Grant, Goto, TypeOK, Holds
  <2>3. LeasesOK /\ HoldersOK /\ Holds(w) /\ inst[w] \in Instances
    BY <1>0, <2>1 DEF IInv, Holds, LocalsOK, Attached
  <2>4. /\ Reserved(inst[w]) /\ (inst[w] \in Pooled => inst[w] \in busy)
        /\ \A q \in Procs : Holds(q) /\ inst[q] = inst[w] => q = w
        /\ \A m \in LeaseIds : Active(m) => lease[m] # inst[w]
    <3>1. \A m \in LeaseIds : Active(m) => lease[m] # inst[w]
      BY <2>1, <2>3 DEF LeasesOK, Holds
    <3>2. QED
      BY <2>1, <2>3, <3>1 DEF HoldersOK, Attached
  <2>5. \A m \in LeaseIds : Active(m)' <=> m = l \/ Active(m)
    BY <2>1, <2>2, <2>3, NoInstIsNoInstance DEF Active
  <2>6. Pooled' = Pooled /\ \A i \in Instances : Reserved(i)' <=> Reserved(i)
    BY <2>1 DEF Pooled, Reserved
  <2>7. ASSUME NEW m \in LeaseIds, Active(m)'
        PROVE  Reserved(lease[m])' /\ (lease'[m] \in Pooled' => lease'[m] \in busy')
    <3>1. Reserved(lease'[m]) /\ (lease'[m] \in Pooled => lease'[m] \in busy)
      BY <2>2, <2>3, <2>4, <2>5, <2>7 DEF LeasesOK
    <3>2. QED
      BY <2>1, <2>6, <3>1 DEF Reserved
  <2>8. \A m, n \in LeaseIds : Active(m)' /\ lease'[m] = lease'[n] => m = n
    BY <2>1, <2>2, <2>3, <2>4, <2>5, NoInstIsNoInstance DEF LeasesOK, Active
  <2>9. \A m \in LeaseIds, q \in Procs :
          Active(m)' /\ Holds(q)' /\ inst[q] = lease'[m] => q \in Workers /\ held'[q] = m
    <3> SUFFICES ASSUME NEW m \in LeaseIds, NEW q \in Procs,
                        Active(m)', Holds(q)', inst[q] = lease'[m]
                 PROVE  q \in Workers /\ held'[q] = m
      OBVIOUS
    <3>1. CASE m = l
      BY <2>2, <2>4, <3>1
    <3>2. CASE m # l
      <4>1. Active(m) /\ Holds(q) /\ inst[q] = lease[m]
        BY <2>2, <2>5, <3>2
      <4>2. q \in Workers /\ held[q] = m /\ q # w
        BY <2>3, <2>4, <4>1 DEF LeasesOK
      <4>3. QED
        BY <2>2, <4>2
    <3>3. QED
      BY <3>1, <3>2
  <2>10. \A v \in Workers : held'[v] \in LeaseIds /\ Active(held[v])' => lease'[held'[v]] = inst[v]
    <3> SUFFICES ASSUME NEW v \in Workers, held'[v] \in LeaseIds, Active(held[v])'
                 PROVE  lease'[held'[v]] = inst[v]
      OBVIOUS
    <3>1. CASE v = w
      BY <2>2, <3>1
    <3>2. CASE v # w
      <4>1. held'[v] = held[v] /\ held[v] # l
        BY <2>1, <2>2, <3>2
      <4>2. Active(held[v]) /\ lease'[held[v]] = lease[held[v]]
        BY <2>2, <2>5, <4>1 DEF Active
      <4>3. QED
        BY <2>3, <4>1, <4>2 DEF LeasesOK
    <3>3. QED
      BY <3>1, <3>2
  <2>11. \A u, v \in Workers : held'[u] \in LeaseIds /\ held'[u] = held'[v] => u = v
    BY <2>1, <2>2, <2>3 DEF LeasesOK
  <2>12. UNCHANGED inst
    BY <2>1
  <2>13. QED
    BY <2>7, <2>8, <2>9, <2>10, <2>11, <2>12 DEF LeasesOK, Active
<1>10. ASSUME NEW w \in Workers, Receive(w)
      PROVE  LeasesOK'
  BY <1>0, <1>10, MovingKeepsLeases DEF Receive, Pooled, Holds
<1>11. ASSUME NEW w \in Workers, LoseResponse(w) \/ ReleaseUseless(w)
      PROVE  LeasesOK'
  <2>1. /\ Finish(w) /\ UNCHANGED <<pool, busy, lease, epoch, nextPort>>
        /\ held' = [held EXCEPT ![w] = NoLease]
    BY <1>11 DEF LoseResponse, ReleaseUseless
  <2>2. /\ held'[w] \notin LeaseIds
        /\ \A v \in Workers \ {w} : held'[v] = held[v]
    BY <1>0, <2>1 DEF TypeOK
  <2>3. QED
    BY <1>0, <2>1, <2>2, EndingKeepsLeases
<1>13. ASSUME NEW w \in Workers, NEW status \in LeaseStatuses, ReleaseInstance(w, status)
      PROVE  LeasesOK'
  <2>1. /\ w \in Procs /\ held[w] \in LeaseIds /\ Active(held[w])
        /\ lease[held[w]] = inst[w] /\ Holds(w)
    BY <1>0, <1>13 DEF ReleaseInstance, IInv, LeasesOK, LocalsOK, Holds
  <2>2. /\ lease' = [l \in LeaseIds |-> IF l = held[w] THEN NoInst ELSE lease[l]]
        /\ held' = [held EXCEPT ![w] = NoLease]
        /\ Finish(w) /\ UNCHANGED <<epoch, nextPort>>
    BY <1>13 DEF ReleaseInstance, DropLeases
  <2>3. /\ \A q \in Procs \ {w} : pc'[q] = pc[q] /\ inst'[q] = inst[q]
        /\ ~Holds(w)'
    BY <1>0, <2>2, FinishFacts
  <2>4. \A l \in LeaseIds : Active(l)' => l # held[w] /\ Active(l) /\ lease'[l] = lease[l]
    BY <2>2 DEF Active
  <2>5. Pooled' \subseteq Pooled /\ busy \ {inst[w]} \subseteq busy'
    BY <1>13, <2>1 DEF ReleaseInstance, RemoveAndStop, Pooled
  <2>6. \A q \in Procs : Holds(q)' => q # w /\ Holds(q) /\ inst'[q] = inst[q]
    BY <2>3 DEF Holds
  <2>7. \A v \in Workers : held'[v] \in LeaseIds =>
          v # w /\ held'[v] = held[v] /\ inst'[v] = inst[v]
    BY <1>0, <2>2, <2>3, SchedulerAssumption DEF TypeOK
  <2>8. ASSUME NEW l \in LeaseIds, Active(l)'
        PROVE  Reserved(lease[l])' /\ (lease'[l] \in Pooled' => lease'[l] \in busy')
    <3>1. Active(l) /\ lease'[l] = lease[l] /\ lease[l] # inst[w]
      BY <2>1, <2>4, <2>8 DEF IInv, LeasesOK
    <3>2. QED
      BY <2>2, <2>5, <3>1 DEF IInv, LeasesOK, Reserved
  <2>9. \A l, m \in LeaseIds : Active(l)' /\ lease'[l] = lease'[m] => l = m
    BY <2>2, <2>4 DEF IInv, LeasesOK, Active
  <2>10. \A l \in LeaseIds, p \in Procs :
           Active(l)' /\ Holds(p)' /\ inst'[p] = lease'[l] => p \in Workers /\ held'[p] = l
    BY <1>0, <2>2, <2>4, <2>6 DEF IInv, LeasesOK, TypeOK
  <2>11. \A v \in Workers : held'[v] \in LeaseIds /\ Active(held[v])' => lease'[held'[v]] = inst'[v]
    <3> SUFFICES ASSUME NEW v \in Workers, held'[v] \in LeaseIds, Active(held[v])'
                 PROVE  lease'[held'[v]] = inst'[v]
      OBVIOUS
    <3>1. held'[v] = held[v] /\ inst'[v] = inst[v] /\ Active(held[v])
          /\ lease'[held[v]] = lease[held[v]]
      BY <2>4, <2>7 DEF Active
    <3>2. QED
      BY <3>1 DEF IInv, LeasesOK
  <2>12. \A u, v \in Workers : held'[u] \in LeaseIds /\ held'[u] = held'[v] => u = v
    BY <2>7 DEF IInv, LeasesOK
  <2>13. QED
    BY <2>8, <2>9, <2>10, <2>11, <2>12 DEF LeasesOK
<1>14. ASSUME NEW h \in Invokers, Release(h)
      PROVE  LeasesOK'
  <2>1. /\ Finish(h) /\ Holds(h) /\ h \in Procs /\ h \notin Workers
        /\ busy' = busy \ {inst[h]} /\ UNCHANGED <<pool, lease, held, epoch, nextPort>>
    BY <1>0, <1>14, SchedulerAssumption DEF Release, Holds
  <2>2. \A l \in LeaseIds : Active(l) => lease[l] # inst[h]
    BY <2>1 DEF IInv, LeasesOK
  <2>3. QED
    BY <2>1, <2>2, EndingKeepsLeases
<1>15. ASSUME NEW l \in LeaseIds, DeadlinePasses(l)
      PROVE  LeasesOK'
  BY <1>15, DroppingKeepsLeases DEF DeadlinePasses
<1>16. ASSUME ReapExpiredLeases PROVE LeasesOK'
  BY <1>0, <1>16, DroppingKeepsLeases DEF ReapExpiredLeases, DropLeases, RemoveAndStop, TypeOK
<1>17. ASSUME NEW S \in SUBSET (Pooled \ busy), ReapIdle(S)
      PROVE  LeasesOK'
  BY <1>17, DroppingKeepsLeases DEF ReapIdle, RemoveAndStop
<1>18. ASSUME NEW f \in Functions, NEW i \in Instances, RemoveIdle(f, i)
      PROVE  LeasesOK'
  BY <1>18, DroppingKeepsLeases DEF RemoveIdle, RemoveAndStop
<1>19. ASSUME NEW i \in Instances, Stop(i)
      PROVE  LeasesOK'
  BY <1>19, DroppingKeepsLeases DEF Stop
<1>20. ASSUME NEW a \in Admins, NEW f \in Functions, Deregister(a, f)
      PROVE  LeasesOK'
  BY <1>0, <1>20, TakingThePool, MovingKeepsLeases DEF Deregister, TakePool, Enter
<1>21. ASSUME NEW a \in Admins, NEW f \in Functions, NEW mq \in BOOLEAN, Register(a, f, mq)
      PROVE  LeasesOK'
  BY <1>0, <1>21, MovingKeepsLeases DEF Register, Enter, Pooled
<1>22. ASSUME NEW a \in Admins, NEW f \in Functions, NEW v \in Versions, UploadCode(a, f, v)
      PROVE  LeasesOK'
  BY <1>0, <1>22, MovingKeepsLeases DEF UploadCode, Enter, Pooled
<1>23. ASSUME NEW a \in Admins,
              \/ SaveRegistered(a) \/ RegisterFails(a) \/ DeleteStored(a)
              \/ UploadFails(a) \/ SaveUploaded(a) \/ SaveUploadedFails(a)
       PROVE  LeasesOK'
  <2>1. Finish(a) /\ UNCHANGED <<pool, busy, lease, held, epoch, nextPort>>
    BY <1>23 DEF SaveRegistered, RegisterFails, DeleteStored, UploadFails, SaveUploaded,
                 SaveUploadedFails, Leave
  <2>2. a \in Procs /\ a \notin Workers
    BY <1>0
  <2>3. QED
    BY <2>1, <2>2, EndingKeepsLeases
<1>26. ASSUME NEW a \in Admins, SwapDirectory(a)
      PROVE  LeasesOK'
  BY <1>0, <1>26, MovingKeepsLeases DEF SwapDirectory, Pooled
<1>28. ASSUME NEW a \in Admins, ApplyUpload(a)
      PROVE  LeasesOK'
  <2>1. fn[a] \in Functions
    BY <1>0, <1>28 DEF ApplyUpload, LocalsOK
  <2>2. Goto(a, "upload") /\ TakePool(a, fn[a])
        /\ UNCHANGED <<inst, held, lease, busy, epoch, nextPort>>
    BY <1>28 DEF ApplyUpload, TakePool
  <2>3. Pooled' \subseteq Pooled
    BY <2>1, <2>2, TakingThePool
  <2>4. QED
    BY <1>0, <2>2, <2>3, MovingKeepsLeases
<1>31. ASSUME Restart PROVE LeasesOK'
  <2>1. \A l \in LeaseIds : ~Active(l)'
    BY <1>31 DEF Restart, Active
  <2>2. \A w \in Workers : held'[w] \in LeaseIds => held'[w] = held[w]
    BY <1>0, <1>31 DEF Restart
  <2>3. QED
    BY <2>1, <2>2 DEF IInv, LeasesOK, Active
<1>32. ASSUME UNCHANGED vars PROVE LeasesOK'
  BY <1>32, DroppingKeepsLeases DEF vars
<1>33. QED
  BY <1>1, <1>2, <1>3, <1>4, <1>5, <1>6, <1>7, <1>8, <1>9, <1>10, <1>11, <1>13, <1>14,
     <1>15, <1>16, <1>17, <1>18, <1>19, <1>20, <1>21, <1>22, <1>23, <1>26, <1>28, <1>31,
     <1>32 DEF Next

\* The pool stays in order while nothing joins it, and what is to be stopped has
\* left it or was to be stopped before.
LEMMA PoolStays ==
  ASSUME IInv,
         \A f \in Functions : pool'[f] \subseteq pool[f],
         \A i \in Pooled' : i \in up => i \in up',
         \A i \in stopping' : \/ i \in stopping
                              \/ \E a \in Admins : i \in victims[a]
                              \/ Reserved(i) /\ i \notin Pooled',
         \A a \in Admins : \A i \in victims'[a] : i \in victims[a] \/ i \in Pooled \ Pooled',
         UNCHANGED <<epoch, nextPort>>
  PROVE  PoolOK'
<1>0. PoolOK /\ Pooled' \subseteq Pooled
  BY DEF IInv, Pooled
<1>1. \A f, g \in Functions : f # g => pool'[f] \cap pool'[g] = {}
  BY <1>0 DEF PoolOK
<1>2. /\ \A i \in stopping' : Reserved(i)' /\ i \notin Pooled'
      /\ \A a \in Admins : \A i \in victims'[a] : Reserved(i)' /\ i \notin Pooled'
  BY <1>0 DEF PoolOK, Reserved
<1>3. \A i \in Pooled' : Reserved(i)' /\ i \in up'
  BY <1>0 DEF PoolOK, Reserved
<1>4. QED
  BY <1>1, <1>2, <1>3 DEF PoolOK

\* What a step without effect on the pool and on what leaves it does.
LEMMA PoolUntouched ==
  ASSUME IInv, up \subseteq up', UNCHANGED <<pool, stopping, victims, epoch, nextPort>>
  PROVE  PoolOK'
BY PoolStays DEF Pooled

\* Taking instances out, to stop them.
LEMMA RetiringKeepsPool ==
  ASSUME IInv, NEW S, \A i \in S : Reserved(i), RemoveAndStop(S),
         UNCHANGED <<up, victims, epoch, nextPort>>
  PROVE  PoolOK'
<1>1. /\ \A f \in Functions : pool'[f] = pool[f] \ S
      /\ stopping' = stopping \cup S
  BY DEF RemoveAndStop
<1>2. \A i \in S : i \notin Pooled'
  BY <1>1 DEF Pooled
<1>3. QED
  BY <1>1, <1>2, PoolStays

\* A management call takes out a function's containers, and stops them when it
\* leaves, or not.
LEMMA TakingKeepsPool ==
  ASSUME IInv, NEW a \in Admins, NEW f \in Functions, TakePool(a, f),
         UNCHANGED <<up, stopping, epoch, nextPort>>
  PROVE  PoolOK'
<1>1. TypeOK /\ PoolOK
  BY DEF IInv
<1>2. /\ \A g \in Functions : pool'[g] = IF g = f THEN {} ELSE pool[g]
      /\ \A b \in Admins : victims'[b] = IF b = a THEN pool[f] ELSE victims[b]
  BY <1>1 DEF TakePool, TypeOK
<1>3. \A i \in pool[f] : i \in Pooled /\ i \notin Pooled'
  BY <1>1, <1>2 DEF Pooled, PoolOK
<1>4. QED
  BY <1>2, <1>3, PoolStays
LEMMA LeavingKeepsPool ==
  ASSUME IInv, NEW a \in Admins, Leave(a, {}) \/ Leave(a, victims[a]),
         UNCHANGED <<pool, epoch, nextPort>>
  PROVE  PoolOK'
<1>1. /\ stopping' \subseteq stopping \cup victims[a] /\ up' = up
      /\ \A b \in Admins : victims'[b] \subseteq victims[b]
  BY DEF Leave, IInv, TypeOK
<1>2. QED
  BY <1>1, PoolStays

\* Every step keeps stopped instances out of the pool.
LEMMA PoolStep == IInv /\ TypeOK' /\ LocalsOK' /\ [Next]_vars => PoolOK'
<1> SUFFICES ASSUME IInv /\ TypeOK' /\ LocalsOK', [Next]_vars PROVE PoolOK'
  OBVIOUS
<1>0. /\ TypeOK /\ LocalsOK /\ LeasesOK /\ HoldersOK /\ PoolOK
      /\ Invokers \cup Workers \cup Warmers \subseteq Procs \ Admins
  BY SchedulerAssumption DEF IInv, Procs
<1>1. ASSUME NEW w \in Workers,
             \/ \E f \in Functions : Validate(w, f)
             \/ AcquireMissing(w) \/ Receive(w) \/ LoseResponse(w) \/ ReleaseUseless(w)
             \/ \E l \in LeaseIds : Grant(w, l)
      PROVE  PoolOK'
  BY <1>1, PoolUntouched DEF Validate, AcquireMissing, Receive, LoseResponse, ReleaseUseless,
                             Grant
<1>2. ASSUME NEW p \in Invokers \cup Workers, NEW f \in Functions, AcquireCold(p, f)
      PROVE  PoolOK'
  <2>1. /\ p \in Procs \ Admins /\ ~Attached(p) /\ ReservePort(p, f)
        /\ <<epoch, nextPort>> \in Instances
    BY <1>0, <1>2, PortIsNew DEF AcquireCold, Acquiring, ReservePort, Attached, InFlight, Holds
  <2>2. QED
    BY <2>1, ReserveStep
<1>3. ASSUME NEW u \in Warmers, NEW f \in Functions, ColdStartOne(u, f)
      PROVE  PoolOK'
  <2>1. /\ u \in Procs \ Admins /\ ~Attached(u) /\ ReservePort(u, f)
        /\ <<epoch, nextPort>> \in Instances
    BY <1>0, <1>3, PortIsNew DEF ColdStartOne, ReservePort, Attached, InFlight, Holds
  <2>2. QED
    BY <2>1, ReserveStep
<1>4. ASSUME NEW p \in Invokers \cup Workers, NEW f \in Functions, NEW i \in Instances,
             AcquireIdle(p, f, i)
      PROVE  PoolOK'
  BY <1>4, PoolUntouched DEF AcquireIdle
<1>5. ASSUME NEW p \in Invokers \cup Workers \cup Warmers,
             Boot(p) \/ BootFails(p) \/ BootLeaks(p)
      PROVE  PoolOK'
  <2>1. up \subseteq up' /\ UNCHANGED <<pool, stopping, victims, epoch, nextPort>>
    BY <1>5 DEF Boot, BootFails, BootLeaks
  <2>2. QED
    BY <2>1, PoolUntouched
<1>6. ASSUME NEW p \in Invokers \cup Workers \cup Warmers, Publish(p)
      PROVE  PoolOK'
  <2>1. /\ p \in Procs /\ pc[p] = "publish" /\ InFlight(p) /\ fn[p] \in Functions
    BY <1>0, <1>6 DEF Publish, InFlight, LocalsOK
  <2>2. /\ Reserved(inst[p]) /\ inst[p] \in up
        /\ inst[p] \notin Pooled /\ inst[p] \notin stopping
        /\ \A a \in Admins : inst[p] \notin victims[a]
    BY <1>0, <2>1 DEF HoldersOK, Attached
  <2>3. /\ \A f \in Functions : pool'[f] = IF f = fn[p] THEN pool[f] \cup {inst[p]} ELSE pool[f]
        /\ UNCHANGED <<up, stopping, victims, epoch, nextPort>>
    BY <1>0, <1>6, <2>1 DEF Publish, TypeOK
  <2>4. Pooled' \subseteq Pooled \cup {inst[p]}
    <3> SUFFICES ASSUME NEW f \in Functions, NEW i \in pool'[f]
                 PROVE  i \in Pooled \cup {inst[p]}
      BY DEF Pooled
    <3>1. i \in pool[f] \/ i = inst[p]
      BY <2>3
    <3>2. QED
      BY <3>1 DEF Pooled
  <2>5. \A f, g \in Functions : f # g => pool'[f] \cap pool'[g] = {}
    <3>1. \A f \in Functions : inst[p] \notin pool[f]
      BY <2>2 DEF Pooled
    <3>2. \A f, g \in Functions : f # g => pool[f] \cap pool[g] = {}
      BY <1>0 DEF PoolOK
    <3> SUFFICES ASSUME NEW f \in Functions, NEW g \in Functions, f # g,
                        NEW i \in pool'[f], i \in pool'[g]
                 PROVE  FALSE
      OBVIOUS
    <3>3. CASE i = inst[p]
      <4>1. f = fn[p] /\ g = fn[p]
        BY <2>3, <3>1, <3>3
      <4>2. QED
        BY <4>1
    <3>4. CASE i # inst[p]
      <4>1. i \in pool[f] /\ i \in pool[g]
        BY <2>3, <3>4
      <4>2. QED
        BY <3>2, <4>1
    <3>5. QED
      BY <3>3, <3>4
  <2>6. QED
    BY <1>0, <2>2, <2>3, <2>4, <2>5 DEF PoolOK, Reserved
<1>7. ASSUME NEW w \in Workers, NEW status \in LeaseStatuses, ReleaseInstance(w, status)
      PROVE  PoolOK'
  <2>1. Reserved(lease[held[w]]) /\ UNCHANGED <<up, victims, epoch, nextPort>>
    BY <1>0, <1>7 DEF ReleaseInstance, LeasesOK, LocalsOK
  <2>2. CASE Retiring(status)
    BY <1>7, <2>1, <2>2, RetiringKeepsPool DEF ReleaseInstance
  <2>3. CASE ~Retiring(status)
    BY <1>7, <2>1, <2>3, PoolUntouched DEF ReleaseInstance
  <2>4. QED
    BY <2>2, <2>3
<1>8. ASSUME NEW h \in Invokers, Release(h)
      PROVE  PoolOK'
  BY <1>8, PoolUntouched DEF Release
<1>9. ASSUME NEW l \in LeaseIds, DeadlinePasses(l)
      PROVE  PoolOK'
  BY <1>9, PoolUntouched DEF DeadlinePasses
<1>10. ASSUME ReapExpiredLeases PROVE PoolOK'
  <2>1. \A i \in {lease[l] : l \in expired} : Reserved(i)
    BY <1>0 DEF LeasesOK, LocalsOK, TypeOK
  <2>2. QED
    BY <1>10, <2>1, RetiringKeepsPool DEF ReapExpiredLeases
<1>11. ASSUME NEW S \in SUBSET (Pooled \ busy), ReapIdle(S)
      PROVE  PoolOK'
  <2>1. \A i \in S : Reserved(i)
    BY <1>0 DEF PoolOK
  <2>2. QED
    BY <1>11, <2>1, RetiringKeepsPool DEF ReapIdle
<1>12. ASSUME NEW f \in Functions, NEW i \in Instances, RemoveIdle(f, i)
      PROVE  PoolOK'
  <2>1. i \in Pooled
    BY <1>12 DEF RemoveIdle, Pooled
  <2>2. \A j \in {i} : Reserved(j)
    BY <1>0, <2>1 DEF PoolOK
  <2>3. QED
    BY <1>12, <2>2, RetiringKeepsPool DEF RemoveIdle
<1>13. ASSUME NEW i \in Instances, Stop(i)
      PROVE  PoolOK'
  <2>1. /\ i \in stopping /\ stopping' \subseteq stopping /\ up \ {i} \subseteq up'
        /\ UNCHANGED <<pool, victims, epoch, nextPort>>
    BY <1>13 DEF Stop
  <2>2. Pooled' = Pooled /\ i \notin Pooled
    BY <1>0, <2>1 DEF PoolOK, Pooled
  <2>3. QED
    BY <2>1, <2>2, PoolStays
<1>14. ASSUME NEW a \in Admins, NEW f \in Functions,
              \/ \E mq \in BOOLEAN : Register(a, f, mq)
              \/ \E v \in Versions : UploadCode(a, f, v)
       PROVE  PoolOK'
  BY <1>14, PoolUntouched DEF Register, UploadCode
<1>15. ASSUME NEW a \in Admins, NEW f \in Functions, Deregister(a, f)
       PROVE  PoolOK'
  BY <1>15, TakingKeepsPool DEF Deregister, TakePool
<1>16. ASSUME NEW a \in Admins, SwapDirectory(a)
       PROVE  PoolOK'
  BY <1>16, PoolUntouched DEF SwapDirectory
<1>17. ASSUME NEW a \in Admins, ApplyUpload(a)
       PROVE  PoolOK'
  <2>1. fn[a] \in Functions
    BY <1>0, <1>17 DEF ApplyUpload, LocalsOK, Procs
  <2>2. TakePool(a, fn[a]) /\ UNCHANGED <<up, stopping, epoch, nextPort>>
    BY <1>17 DEF ApplyUpload, TakePool
  <2>3. QED
    BY <2>1, <2>2, TakingKeepsPool
<1>18. ASSUME NEW a \in Admins,
              \/ SaveRegistered(a) \/ RegisterFails(a) \/ DeleteStored(a)
              \/ UploadFails(a) \/ SaveUploaded(a) \/ SaveUploadedFails(a)
       PROVE  PoolOK'
  <2>1. (Leave(a, {}) \/ Leave(a, victims[a])) /\ UNCHANGED <<pool, epoch, nextPort>>
    BY <1>18, Zenon DEF SaveRegistered, RegisterFails, DeleteStored, UploadFails, SaveUploaded,
                        SaveUploadedFails
  <2>2. QED
    BY <2>1, LeavingKeepsPool
<1>19. ASSUME Restart PROVE PoolOK'
  <2>1. /\ Pooled' = {} /\ stopping' = {}
        /\ \A f \in Functions : pool'[f] = {}
        /\ \A a \in Admins : victims'[a] = {}
    BY <1>19 DEF Restart, Pooled
  <2>2. QED
    BY <2>1 DEF PoolOK
<1>20. ASSUME UNCHANGED vars PROVE PoolOK'
  BY <1>20, PoolUntouched DEF vars
<1>21. QED
  BY <1>1, <1>2, <1>3, <1>4, <1>5, <1>6, <1>7, <1>8, <1>9, <1>10, <1>11, <1>12, <1>13, <1>14,
     <1>15, <1>16, <1>17, <1>18, <1>19, <1>20 DEF Next

-----------------------------------------------------------------------------
(* Theorems *)

\* IInv holds in every reachable state.
THEOREM Invariance == Spec => []IInv
<1>1. IInv /\ [Next]_vars => IInv'
  BY TypeStep, LocalsStep, HoldersStep, LeasesStep, PoolStep DEF IInv
<1>2. QED
  BY <1>1, InvInit, PTL DEF Spec

\* The scheduler's state stays well typed, whatever its requests do.
THEOREM TypeCorrect == Spec => []TypeOK
<1>1. IInv => TypeOK
  BY DEF IInv
<1>2. QED
  BY <1>1, Invariance, PTL

\* Acquire, ColdStartOne and AcquireInstance never give an instance to two
\* callers, nor do two leases ever name one: the reason a function may keep
\* state between the calls of one instance without locking.
THEOREM Exclusive == Spec => []OneHolder
<1>1. IInv => OneHolder
  BY DEF IInv, HoldersOK, LeasesOK, OneHolder, Attached
<1>2. QED
  BY <1>1, Invariance, PTL

\* An instance the scheduler sees as idle, which it may hand out, let the
\* autoscaler remove or let the reaper remove, has no caller and no lease.
THEOREM IdleHasNoUser == Spec => []IdleIsFree
<1>1. IInv => IdleIsFree
  <2> SUFFICES ASSUME IInv, NEW i \in Pooled \ busy
               PROVE  /\ \A p \in Procs : Holds(p) => inst[p] # i
                      /\ \A l \in LeaseIds : lease[l] # i
    BY DEF IdleIsFree
  <2>1. \A p \in Procs : Holds(p) => inst[p] # i
    BY DEF IInv, HoldersOK
  <2>2. i # NoInst
    BY NoInstIsNoInstance, PooledType DEF IInv
  <2>3. \A l \in LeaseIds : lease[l] # i
    BY <2>2 DEF IInv, LeasesOK, Active
  <2>4. QED
    BY <2>1, <2>3
<1>2. QED
  BY <1>1, Invariance, PTL

\* removeInstanceLocked, Deregister and UploadCode take an instance out of the
\* pool before they stop it, and no later step (a late Release, a cold start
\* that ends) brings it back: the pool offers running instances only.
THEOREM PoolNeverOffersStopped == Spec => []StoppedNeverPooled
<1>1. IInv => StoppedNeverPooled
  BY DEF IInv, PoolOK, StoppedNeverPooled
<1>2. QED
  BY <1>1, Invariance, PTL

\* clampLeaseTimeout always gives a lease a deadline in the future and never one
\* beyond the function's own timeout (or the gateway's maximum).
THEOREM LeaseTimeoutBounds ==
  ASSUME NEW requested \in Int, NEW functionTimeout \in Int, NEW maxDefault \in Int
  PROVE  LET given == ClampLeaseTimeout(requested, functionTimeout, maxDefault)
         IN /\ given > 0
            /\ functionTimeout > 0 => given <= functionTimeout
            /\ functionTimeout <= 0 /\ maxDefault > 0 => given <= maxDefault
            /\ functionTimeout <= 0 /\ maxDefault <= 0 => given <= 300
BY DEF ClampLeaseTimeout

-----------------------------------------------------------------------------
(* What is busy is accounted for.  IInv does not suffice: it says that what  *)
(* is held is busy, and here the converse is wanted.  BusyOK adds the two    *)
(* ways it could fail: an instance could be born busy, and a worker whose    *)
(* lease was reaped could be the last to know of an instance the reaper had  *)
(* left in the pool.                                                         *)

BusyOK ==
  /\ \A i \in busy : Reserved(i)
  /\ \A p \in Procs : InFlight(p) => inst[p] \notin busy
  /\ \A w \in Workers : held[w] \in LeaseIds /\ ~Active(held[w]) => inst[w] \notin Pooled
  /\ BusyIsAccounted

-----------------------------------------------------------------------------
(* Steps that touch no lease *)

\* A goroutine moves and keeps what it holds, if anything; the pool may shrink.
LEMMA OneStays ==
  ASSUME BusyOK, TypeOK, LocalsOK, NEW p \in Procs,
         \A q \in Procs \ {p} : pc'[q] = pc[q] /\ inst'[q] = inst[q],
         Holds(p) => Holds(p)' /\ inst'[p] = inst[p],
         InFlight(p)' => InFlight(p) /\ inst'[p] = inst[p],
         Pooled' \subseteq Pooled, UNCHANGED <<busy, lease, held, epoch, nextPort>>
  PROVE  BusyOK'
<1>1. Workers \subseteq Procs
  BY DEF Procs
<1>2. \A i \in busy' : Reserved(i)'
  BY DEF BusyOK, Reserved
<1>3. \A q \in Procs : InFlight(q)' => inst'[q] \notin busy'
  BY DEF BusyOK, InFlight
<1>4. \A w \in Workers : held'[w] \in LeaseIds /\ ~Active(held[w])' => inst'[w] \notin Pooled'
  BY <1>1 DEF BusyOK, LocalsOK, Holds, Active
<1>5. BusyIsAccounted'
  <2>1. SUFFICES ASSUME NEW i \in Pooled' \cap busy',
                        \A l \in LeaseIds : lease'[l] # i
                 PROVE  \E q \in Procs : Holds(q)' /\ inst'[q] = i
    BY DEF BusyIsAccounted
  <2>2. PICK q \in Procs : Holds(q) /\ inst[q] = i
    BY <2>1 DEF BusyOK, BusyIsAccounted
  <2>3. Holds(q)' /\ inst'[q] = i
    BY <2>2 DEF Holds
  <2>4. QED
    BY <2>3
<1>6. QED
  BY <1>2, <1>3, <1>4, <1>5 DEF BusyOK

\* No goroutine moves; the pool may shrink.
LEMMA NobodyStirs ==
  ASSUME BusyOK, Pooled' \subseteq Pooled,
         UNCHANGED <<pc, inst, busy, lease, held, epoch, nextPort>>
  PROVE  BusyOK'
BY DEF BusyOK, BusyIsAccounted, Holds, InFlight, Reserved, Active

\* A goroutine that holds nothing ends its call, or goes on and still holds nothing.
LEMMA EndStays ==
  ASSUME BusyOK, TypeOK, LocalsOK, NEW p \in Procs, ~Holds(p), Finish(p),
         Pooled' \subseteq Pooled, UNCHANGED <<busy, lease, held, epoch, nextPort>>
  PROVE  BusyOK'
<1>1. /\ \A q \in Procs \ {p} : pc'[q] = pc[q] /\ inst'[q] = inst[q]
      /\ ~InFlight(p)'
  BY DEF Finish, Goto, TypeOK, InFlight
<1>2. QED
  BY <1>1, OneStays
LEMMA GotoStays ==
  ASSUME BusyOK, TypeOK, LocalsOK, NEW p \in Procs, NEW label, Goto(p, label), UNCHANGED inst,
         Holds(p) => label = "using",
         label = "publish" => InFlight(p), label # "boot",
         Pooled' \subseteq Pooled, UNCHANGED <<busy, lease, held, epoch, nextPort>>
  PROVE  BusyOK'
<1>1. /\ \A q \in Procs \ {p} : pc'[q] = pc[q] /\ inst'[q] = inst[q]
      /\ pc'[p] = label /\ inst'[p] = inst[p]
  BY DEF Goto, TypeOK
<1>2. QED
  BY <1>1, OneStays DEF Holds, InFlight

\* A cold start reserves an instance that nobody knows, so it is not busy.
LEMMA ReserveStays ==
  ASSUME IInv, BusyOK, NEW p \in Procs, ~Holds(p), NEW f \in Functions, ReservePort(p, f)
  PROVE  BusyOK'
<1>1. TypeOK /\ LocalsOK /\ Workers \subseteq Procs
  BY DEF IInv, Procs
<1>2. /\ \A q \in Procs \ {p} : pc'[q] = pc[q] /\ inst'[q] = inst[q]
      /\ pc'[p] = "boot" /\ inst'[p] = <<epoch, nextPort>>
      /\ UNCHANGED <<pool, busy, lease, held>>
  BY <1>1 DEF ReservePort, Goto, TypeOK
<1>3. ~Reserved(<<epoch, nextPort>>)
  BY <1>1, PortIsNew DEF ReservePort
<1>4. \A i \in busy' : Reserved(i)'
  BY <1>1, <1>2, ReservedGrows DEF ReservePort, TypeOK, BusyOK
<1>5. \A q \in Procs : InFlight(q)' => inst'[q] \notin busy'
  BY <1>2, <1>3 DEF BusyOK, InFlight
<1>6. p \notin Workers \/ held[p] \notin LeaseIds
  BY <1>1 DEF LocalsOK, Holds
<1>7. \A w \in Workers : held'[w] \in LeaseIds /\ ~Active(held[w])' => inst'[w] \notin Pooled'
  BY <1>1, <1>2, <1>6 DEF BusyOK, Active, Pooled
<1>8. \A q \in Procs : Holds(q) => Holds(q)' /\ inst'[q] = inst[q]
  BY <1>2 DEF Holds
<1>9. BusyIsAccounted'
  BY <1>2, <1>8 DEF BusyOK, BusyIsAccounted, Pooled
<1>10. QED
  BY <1>4, <1>5, <1>7, <1>9 DEF BusyOK

-----------------------------------------------------------------------------
(* Steps that hand an instance over, or take it back *)

\* Acquire marks an idle instance busy and holds it.
LEMMA AcquireIdleBusy ==
  ASSUME IInv, BusyOK, NEW p \in Invokers \cup Workers, NEW f \in Functions,
         NEW i \in Instances, AcquireIdle(p, f, i)
  PROVE  BusyOK'
<1>1. TypeOK /\ LocalsOK /\ HoldersOK /\ PoolOK /\ Workers \subseteq Procs /\ p \in Procs
  BY DEF IInv, Procs
<1>2. /\ \A q \in Procs \ {p} : pc'[q] = pc[q] /\ inst'[q] = inst[q]
      /\ Holds(p)' /\ ~InFlight(p)' /\ inst'[p] = i /\ ~Holds(p)
      /\ i \in Pooled /\ busy' = busy \cup {i}
      /\ UNCHANGED <<pool, lease, held, epoch, nextPort>>
  BY <1>1 DEF AcquireIdle, Acquiring, Goto, TypeOK, Pooled, Holds, InFlight, Served
<1>3. \A j \in busy' : Reserved(j)'
  BY <1>1, <1>2 DEF BusyOK, Reserved, PoolOK
<1>4. \A q \in Procs : InFlight(q)' => inst'[q] \notin busy'
  BY <1>1, <1>2 DEF BusyOK, InFlight, HoldersOK
<1>5. p \notin Workers \/ held[p] \notin LeaseIds
  BY <1>1, <1>2 DEF LocalsOK, Holds
<1>6. \A w \in Workers : held'[w] \in LeaseIds /\ ~Active(held[w])' => inst'[w] \notin Pooled'
  BY <1>1, <1>2, <1>5 DEF BusyOK, Active, Pooled
<1>7. \A q \in Procs : Holds(q) => Holds(q)' /\ inst'[q] = inst[q]
  BY <1>2 DEF Holds
<1>8. BusyIsAccounted'
  BY <1>1, <1>2, <1>7 DEF BusyOK, BusyIsAccounted, Pooled
<1>9. QED
  BY <1>3, <1>4, <1>6, <1>8 DEF BusyOK

\* What was booted joins the pool: busy, if somebody holds it.
LEMMA PublishBusyOK ==
  ASSUME IInv, BusyOK, NEW p \in Invokers \cup Workers \cup Warmers, Publish(p)
  PROVE  BusyOK'
<1>1. TypeOK /\ LocalsOK /\ HoldersOK /\ Workers \subseteq Procs /\ p \in Procs
  BY DEF IInv, Procs
<1>2. /\ \A q \in Procs \ {p} : pc'[q] = pc[q] /\ inst'[q] = inst[q]
      /\ ~Holds(p) /\ InFlight(p) /\ ~InFlight(p)'
      /\ UNCHANGED <<lease, held, epoch, nextPort>>
      /\ \/ busy' = busy
         \/ busy' = busy \cup {inst[p]} /\ Holds(p)' /\ inst'[p] = inst[p]
  <2>1. CASE p \in Warmers
    BY <1>1, <2>1 DEF Publish, Finish, Goto, TypeOK, Holds, InFlight
  <2>2. CASE p \notin Warmers
    BY <1>1, <2>2 DEF Publish, Goto, Served, TypeOK, Holds, InFlight
  <2>3. QED
    BY <2>1, <2>2
<1>3. Pooled' = Pooled \cup {inst[p]} /\ inst[p] \notin busy
  <2>1. fn[p] \in Functions
    BY <1>1 DEF Publish, LocalsOK
  <2>2. QED
    BY <1>1, <1>2, <2>1 DEF Publish, Pooled, TypeOK, BusyOK
<1>4. \A j \in busy' : Reserved(j)'
  BY <1>1, <1>2 DEF BusyOK, Reserved, HoldersOK, Attached
<1>5. \A q \in Procs : InFlight(q)' => inst'[q] \notin busy'
  BY <1>1, <1>2 DEF BusyOK, InFlight, HoldersOK, Attached
<1>6. \A w \in Workers : held'[w] \in LeaseIds /\ ~Active(held[w])' => inst'[w] \notin Pooled'
  BY <1>1, <1>2, <1>3 DEF BusyOK, Active, LocalsOK, HoldersOK, Attached, Holds
<1>7. \A q \in Procs : Holds(q) => Holds(q)' /\ inst'[q] = inst[q]
  BY <1>2 DEF Holds
<1>8. BusyIsAccounted'
  BY <1>1, <1>2, <1>3, <1>7 DEF BusyOK, BusyIsAccounted
<1>9. QED
  BY <1>4, <1>5, <1>6, <1>8 DEF BusyOK

\* A fresh lease names what its worker holds.
LEMMA GrantBusy ==
  ASSUME IInv, BusyOK, NEW w \in Workers, NEW l \in LeaseIds, Grant(w, l)
  PROVE  BusyOK'
<1>1. TypeOK /\ LocalsOK /\ LeasesOK /\ Workers \subseteq Procs
  BY DEF IInv, Procs
<1>2. /\ \A q \in Procs : (Holds(q)' <=> Holds(q)) /\ (InFlight(q)' <=> InFlight(q))
      /\ lease' = [lease EXCEPT ![l] = inst[w]] /\ held' = [held EXCEPT ![w] = l]
      /\ ~Active(l) /\ inst[w] \in Instances
      /\ UNCHANGED <<pool, busy, inst, epoch, nextPort>>
  BY <1>1 DEF Grant, Goto, TypeOK, Holds, InFlight, LocalsOK, Attached
<1>3. \A j \in LeaseIds : Active(j) => Active(j)'
  BY <1>1, <1>2 DEF Active, TypeOK
<1>4. Active(l)'
  BY <1>1, <1>2, NoInstIsNoInstance DEF Active, TypeOK
<1>5. \A v \in Workers : held'[v] \in LeaseIds /\ ~Active(held[v])' => inst'[v] \notin Pooled'
  BY <1>1, <1>2, <1>3, <1>4 DEF BusyOK, Active, Pooled, TypeOK
<1>6. BusyIsAccounted'
  BY <1>1, <1>2, NoInstIsNoInstance, PooledType DEF BusyOK, BusyIsAccounted, Active, Pooled, TypeOK
<1>7. QED
  BY <1>2, <1>5, <1>6 DEF BusyOK, Reserved

\* A worker gives up an instance and leaves the lease, if there still is one.
LEMMA AbandonBusy ==
  ASSUME IInv, BusyOK, NEW w \in Workers, LoseResponse(w) \/ ReleaseUseless(w)
  PROVE  BusyOK'
<1>1. TypeOK /\ LocalsOK /\ LeasesOK /\ Workers \subseteq Procs
  BY DEF IInv, Procs
<1>2. /\ \A q \in Procs \ {w} : pc'[q] = pc[q] /\ inst'[q] = inst[q]
      /\ ~InFlight(w)' /\ held' = [held EXCEPT ![w] = NoLease]
      /\ held[w] \in LeaseIds
      /\ UNCHANGED <<pool, busy, lease, epoch, nextPort>>
  BY <1>1 DEF LoseResponse, ReleaseUseless, Finish, Goto, TypeOK, InFlight, LocalsOK
<1>3. \A v \in Workers : held'[v] \in LeaseIds /\ ~Active(held[v])' => inst'[v] \notin Pooled'
  BY <1>1, <1>2, SchedulerAssumption DEF BusyOK, Active, Pooled, TypeOK
<1>4. inst[w] \in Pooled => lease[held[w]] = inst[w]
  BY <1>1, <1>2 DEF BusyOK, LeasesOK
<1>5. BusyIsAccounted'
  BY <1>1, <1>2, <1>4 DEF BusyOK, BusyIsAccounted, Holds, Pooled
<1>6. QED
  BY <1>2, <1>3, <1>5 DEF BusyOK, Reserved, InFlight

\* A release drops the worker's lease, and what it names is idle or retired.
LEMMA ReleaseInstanceBusy ==
  ASSUME IInv, BusyOK, NEW w \in Workers, NEW status, ReleaseInstance(w, status)
  PROVE  BusyOK'
<1>1. /\ TypeOK /\ LocalsOK /\ LeasesOK /\ HoldersOK /\ Workers \subseteq Procs
      /\ Workers \cap Invokers = {}
  BY SchedulerAssumption DEF IInv, Procs
<1> DEFINE l == held[w]
<1>2. l \in LeaseIds /\ lease[l] = inst[w] /\ Holds(w) /\ Active(l)
  BY <1>1 DEF ReleaseInstance, LocalsOK, LeasesOK, Holds
<1>3. /\ \A q \in Procs \ {w} : pc'[q] = pc[q] /\ inst'[q] = inst[q]
      /\ ~InFlight(w)' /\ held' = [held EXCEPT ![w] = NoLease]
      /\ UNCHANGED <<epoch, nextPort>>
  BY <1>1 DEF ReleaseInstance, Finish, Goto, TypeOK, InFlight
<1>4. \A m \in LeaseIds \ {l} : lease'[m] = lease[m]
  BY DEF ReleaseInstance, DropLeases
<1>5. Pooled' \subseteq Pooled /\ busy' \subseteq busy /\ inst[w] \notin Pooled' \cap busy'
  BY <1>2 DEF ReleaseInstance, RemoveAndStop, Pooled
<1> HIDE DEF l
<1>6. \A v \in Workers : held'[v] \in LeaseIds /\ ~Active(held[v])' => inst'[v] \notin Pooled'
  <2>1. SUFFICES ASSUME NEW v \in Workers, held'[v] \in LeaseIds, ~Active(held[v])'
                 PROVE  inst'[v] \notin Pooled'
    OBVIOUS
  <2>2. v # w /\ held'[v] = held[v]
    BY <1>1, <1>3, <2>1, SchedulerAssumption DEF TypeOK
  <2>3. held[v] # l
    BY <1>1, <1>2, <2>1, <2>2 DEF LeasesOK, l
  <2>4. ~Active(held[v])
    BY <1>4, <2>1, <2>2, <2>3 DEF Active
  <2>5. QED
    BY <1>1, <1>3, <1>5, <2>1, <2>2, <2>4 DEF BusyOK
<1>7. BusyIsAccounted'
  <2>1. SUFFICES ASSUME NEW i \in Pooled' \cap busy'
                 PROVE  \/ \E q \in Procs : Holds(q)' /\ inst'[q] = i
                        \/ \E m \in LeaseIds : lease'[m] = i
    BY DEF BusyIsAccounted
  <2>2. i \in Pooled \cap busy /\ i # inst[w]
    BY <1>5, <2>1
  <2>3. \/ \E q \in Procs \ {w} : Holds(q) /\ inst[q] = i
        \/ \E m \in LeaseIds \ {l} : lease[m] = i
    BY <1>2, <2>2 DEF BusyOK, BusyIsAccounted
  <2>4. QED
    BY <1>3, <1>4, <2>3 DEF Holds
<1>8. QED
  BY <1>3, <1>5, <1>6, <1>7 DEF BusyOK, Reserved, InFlight

\* The router marks idle what only it held.
LEMMA ReleaseBusy ==
  ASSUME IInv, BusyOK, NEW h \in Invokers, Release(h)
  PROVE  BusyOK'
<1>1. /\ TypeOK /\ Workers \subseteq Procs /\ h \in Procs /\ h \notin Workers
  BY SchedulerAssumption DEF IInv, Procs
<1>2. /\ \A q \in Procs \ {h} : pc'[q] = pc[q] /\ inst'[q] = inst[q]
      /\ ~InFlight(h)' /\ busy' = busy \ {inst[h]}
      /\ UNCHANGED <<pool, lease, held, epoch, nextPort>>
  BY <1>1 DEF Release, Finish, Goto, TypeOK, InFlight
<1>3. BusyIsAccounted'
  BY <1>1, <1>2 DEF BusyOK, BusyIsAccounted, Holds, Pooled
<1>4. QED
  BY <1>1, <1>2, <1>3 DEF BusyOK, Reserved, InFlight, Active, Pooled

\* The reaper takes what a dead lease names out of the pool.
LEMMA ReapExpiredBusy ==
  ASSUME IInv, BusyOK, ReapExpiredLeases
  PROVE  BusyOK'
<1>1. TypeOK /\ LeasesOK /\ Workers \subseteq Procs
  BY DEF IInv, Procs
<1>2. /\ lease' = [l \in LeaseIds |-> IF l \in expired THEN NoInst ELSE lease[l]]
      /\ Pooled' \subseteq Pooled /\ \A l \in expired : lease[l] \notin Pooled'
      /\ UNCHANGED <<busy, held, pc, inst, epoch, nextPort>>
  BY DEF ReapExpiredLeases, DropLeases, RemoveAndStop, Pooled
<1>3. \A w \in Workers : held'[w] \in LeaseIds /\ ~Active(held[w])' => inst'[w] \notin Pooled'
  BY <1>1, <1>2 DEF BusyOK, Active, LeasesOK
<1>4. BusyIsAccounted'
  BY <1>2 DEF BusyOK, BusyIsAccounted, Holds
<1>5. QED
  BY <1>2, <1>3, <1>4 DEF BusyOK, Reserved, InFlight

\* A restart empties the pool.
LEMMA RestartBusy ==
  ASSUME Restart
  PROVE  BusyOK'
<1>1. Pooled' = {} /\ busy' = {}
  BY DEF Restart, Pooled
<1>2. QED
  BY <1>1 DEF BusyOK, BusyIsAccounted

-----------------------------------------------------------------------------
(* Every step, and the theorem *)

\* Every step, given all of IInv, preserves BusyOK.
LEMMA BusyStep ==
  ASSUME IInv, IInv', BusyOK, [Next]_vars
  PROVE  BusyOK'
<1>1. /\ TypeOK /\ TypeOK' /\ LocalsOK /\ LocalsOK'
      /\ \A p \in Invokers \cup Workers \cup Warmers \cup Admins : p \in Procs
  BY DEF IInv, Procs
<1>2. ASSUME NEW w \in Workers, NEW f \in Functions, Validate(w, f)
      PROVE  BusyOK'
  <2>1. /\ Goto(w, "acquire") /\ ~Holds(w)
        /\ UNCHANGED <<inst, Pooled, busy, lease, held, epoch, nextPort>>
    BY <1>2 DEF Validate, Holds, Pooled
  <2>2. QED
    BY <1>1, <2>1, GotoStays
<1>3. ASSUME NEW w \in Workers, AcquireMissing(w)
      PROVE  BusyOK'
  BY <1>1, <1>3, EndStays DEF AcquireMissing, Holds, Pooled
<1>4. ASSUME NEW p \in Invokers \cup Workers, NEW f \in Functions, AcquireCold(p, f)
      PROVE  BusyOK'
  BY <1>1, <1>4, ReserveStays DEF AcquireCold, Acquiring, Holds
<1>5. ASSUME NEW p \in Invokers \cup Workers, NEW f \in Functions, NEW i \in Instances,
             AcquireIdle(p, f, i)
      PROVE  BusyOK'
  BY <1>1, <1>5, AcquireIdleBusy
<1>6. ASSUME NEW u \in Warmers, NEW f \in Functions, ColdStartOne(u, f)
      PROVE  BusyOK'
  BY <1>1, <1>6, ReserveStays DEF ColdStartOne, Holds
<1>7. ASSUME NEW p \in Invokers \cup Workers \cup Warmers, Boot(p)
      PROVE  BusyOK'
  <2>1. /\ Goto(p, "publish") /\ InFlight(p) /\ ~Holds(p)
        /\ UNCHANGED <<inst, Pooled, busy, lease, held, epoch, nextPort>>
    BY <1>7 DEF Boot, InFlight, Holds, Pooled
  <2>2. QED
    BY <1>1, <2>1, GotoStays
<1>8. ASSUME NEW p \in Invokers \cup Workers \cup Warmers, BootFails(p) \/ BootLeaks(p)
      PROVE  BusyOK'
  BY <1>1, <1>8, EndStays DEF BootFails, BootLeaks, Holds, Pooled
<1>9. ASSUME NEW p \in Invokers \cup Workers \cup Warmers, Publish(p)
      PROVE  BusyOK'
  BY <1>9, PublishBusyOK
<1>10. ASSUME NEW w \in Workers, NEW l \in LeaseIds, Grant(w, l)
       PROVE  BusyOK'
  BY <1>10, GrantBusy
<1>11. ASSUME NEW w \in Workers, Receive(w) PROVE BusyOK'
  <2>1. /\ Goto(w, "using") /\ Holds(w)
        /\ UNCHANGED <<inst, Pooled, busy, lease, held, epoch, nextPort>>
    BY <1>11 DEF Receive, Holds, Pooled
  <2>2. QED
    BY <1>1, <2>1, GotoStays
<1>12. ASSUME NEW w \in Workers, LoseResponse(w) \/ ReleaseUseless(w)
       PROVE  BusyOK'
  BY <1>12, AbandonBusy
<1>13. ASSUME NEW w \in Workers, NEW status \in LeaseStatuses, ReleaseInstance(w, status)
       PROVE  BusyOK'
  BY <1>13, ReleaseInstanceBusy
<1>14. ASSUME NEW h \in Invokers, Release(h)
       PROVE  BusyOK'
  BY <1>14, ReleaseBusy
<1>15. ASSUME NEW l \in LeaseIds, DeadlinePasses(l)
       PROVE  BusyOK'
  BY <1>15, NobodyStirs DEF DeadlinePasses, Pooled
<1>16. ASSUME ReapExpiredLeases PROVE BusyOK'
  BY <1>16, ReapExpiredBusy
<1>17. ASSUME NEW S \in SUBSET (Pooled \ busy), ReapIdle(S)
       PROVE  BusyOK'
  <2>1. Pooled' \subseteq Pooled /\ UNCHANGED <<pc, inst, busy, lease, held, epoch, nextPort>>
    BY <1>17 DEF ReapIdle, RemoveAndStop, Pooled
  <2>2. QED
    BY <2>1, NobodyStirs
<1>18. ASSUME NEW f \in Functions, NEW i \in Instances, RemoveIdle(f, i)
       PROVE  BusyOK'
  <2>1. Pooled' \subseteq Pooled /\ UNCHANGED <<pc, inst, busy, lease, held, epoch, nextPort>>
    BY <1>18 DEF RemoveIdle, RemoveAndStop, Pooled
  <2>2. QED
    BY <2>1, NobodyStirs
<1>19. ASSUME NEW i \in Instances, Stop(i)
       PROVE  BusyOK'
  BY <1>19, NobodyStirs DEF Stop, Pooled
<1>20. ASSUME NEW a \in Admins, NEW f \in Functions, Deregister(a, f)
       PROVE  BusyOK'
  <2>1. /\ Goto(a, "deregister") /\ ~Holds(a) /\ Pooled' \subseteq Pooled
        /\ UNCHANGED <<inst, busy, lease, held, epoch, nextPort>>
    BY <1>1, <1>20 DEF Deregister, Enter, TakePool, Holds, Pooled, TypeOK
  <2>2. QED
    BY <1>1, <2>1, GotoStays
<1>21. ASSUME NEW a \in Admins, NEW f \in Functions, NEW mq \in BOOLEAN, Register(a, f, mq)
       PROVE  BusyOK'
  <2>1. /\ Goto(a, "register") /\ ~Holds(a)
        /\ UNCHANGED <<inst, Pooled, busy, lease, held, epoch, nextPort>>
    BY <1>21 DEF Register, Enter, Holds, Pooled
  <2>2. QED
    BY <1>1, <2>1, GotoStays
<1>22. ASSUME NEW a \in Admins, NEW f \in Functions, NEW v \in Versions, UploadCode(a, f, v)
       PROVE  BusyOK'
  <2>1. /\ Goto(a, "unpack") /\ ~Holds(a)
        /\ UNCHANGED <<inst, Pooled, busy, lease, held, epoch, nextPort>>
    BY <1>22 DEF UploadCode, Enter, Holds, Pooled
  <2>2. QED
    BY <1>1, <2>1, GotoStays
<1>23. ASSUME NEW a \in Admins,
              \/ SaveRegistered(a) \/ RegisterFails(a) \/ DeleteStored(a) \/ UploadFails(a)
              \/ SaveUploaded(a) \/ SaveUploadedFails(a)
       PROVE  BusyOK'
  BY <1>1, <1>23, EndStays
     DEF SaveRegistered, RegisterFails, DeleteStored, UploadFails, SaveUploaded,
         SaveUploadedFails, Leave, Holds, Pooled
<1>24. ASSUME NEW a \in Admins, SwapDirectory(a)
       PROVE  BusyOK'
  <2>1. /\ Goto(a, "object") /\ ~Holds(a)
        /\ UNCHANGED <<inst, Pooled, busy, lease, held, epoch, nextPort>>
    BY <1>24 DEF SwapDirectory, Holds, Pooled
  <2>2. QED
    BY <1>1, <2>1, GotoStays
<1>25. ASSUME NEW a \in Admins, ApplyUpload(a)
       PROVE  BusyOK'
  <2>1. fn[a] \in Functions
    BY <1>1, <1>25 DEF ApplyUpload, LocalsOK
  <2>2. /\ Goto(a, "upload") /\ ~Holds(a) /\ Pooled' \subseteq Pooled
        /\ UNCHANGED <<inst, busy, lease, held, epoch, nextPort>>
    BY <1>1, <1>25, <2>1 DEF ApplyUpload, TakePool, Holds, Pooled, TypeOK
  <2>3. QED
    BY <1>1, <2>2, GotoStays
<1>26. ASSUME Restart PROVE BusyOK'
  BY <1>26, RestartBusy
<1>27. ASSUME UNCHANGED vars PROVE BusyOK'
  BY <1>27, NobodyStirs DEF vars, Pooled
<1>28. QED
  BY <1>2, <1>3, <1>4, <1>5, <1>6, <1>7, <1>8, <1>9, <1>10, <1>11, <1>12, <1>13, <1>14, <1>15,
     <1>16, <1>17, <1>18, <1>19, <1>20, <1>21, <1>22, <1>23, <1>24, <1>25, <1>26, <1>27,
     Zenon DEF Next

\* An instance of the pool that is busy is in use, or under a lease that the
\* reaper will find: nothing a caller, the reaper, the autoscaler or a
\* management call does in between loses an instance.
THEOREM NoInstanceStuckBusy == Spec => []BusyIsAccounted
<1>1. Init => BusyOK
  <2> SUFFICES ASSUME Init PROVE BusyOK
    OBVIOUS
  <2>1. Pooled = {} /\ busy = {}
    BY DEF Init, Pooled
  <2>2. QED
    BY <2>1 DEF BusyOK, BusyIsAccounted
<1>2. IInv /\ IInv' /\ BusyOK /\ [Next]_vars => BusyOK'
  BY BusyStep
<1>3. BusyOK => BusyIsAccounted
  BY DEF BusyOK
<1>4. QED
  BY <1>1, <1>2, <1>3, Invariance, PTL DEF Spec

-----------------------------------------------------------------------------
(* The registry and the store.  Between its critical section and its call of *)
(* the store a management call leaves the two apart, at the one function it  *)
(* is about; RegistryOK says how, so that the call's write closes the gap.   *)
(* Two calls in that window for one function would write in an order of      *)
(* their own: that they do not is the hypothesis SavesApart.                 *)

Saving(a) == pc[a] \in {"register", "deregister", "upload"}
SavesApart == \A a, b \in Admins : Saving(a) /\ Saving(b) /\ fn[a] = fn[b] => a = b
RegistryOK ==
  \A f \in Functions :
    /\ (\A a \in Admins : Saving(a) => fn[a] # f) => store[f] = functions[f]
    /\ \A a \in Admins : Saving(a) /\ fn[a] = f =>
         functions[f] = IF pc[a] = "deregister" THEN NoConfig ELSE cfg[a]

\* A step that leaves the registry, the store and the management calls alone.
LEMMA RegistryUntouched ==
  ASSUME RegistryOK, UNCHANGED <<functions, store>>,
         \A a \in Admins : pc'[a] = pc[a] /\ fn'[a] = fn[a] /\ cfg'[a] = cfg[a]
  PROVE  RegistryOK'
<1>1. \A a \in Admins : Saving(a)' <=> Saving(a)
  BY DEF Saving
<1>2. QED
  BY <1>1 DEF RegistryOK

\* So does a step of any other goroutine, which moves nobody but itself.
LEMMA OthersLeaveRegistry ==
  ASSUME TypeOK, RegistryOK, UNCHANGED <<functions, store>>,
         NEW p \in Invokers \cup Workers \cup Warmers,
         \/ Finish(p)
         \/ UNCHANGED <<pc, fn, cfg>>
         \/ /\ \E label : Goto(p, label)
            /\ fn' = fn \/ \E f : fn' = [fn EXCEPT ![p] = f]
            /\ cfg' = cfg \/ \E c : cfg' = [cfg EXCEPT ![p] = c]
  PROVE  RegistryOK'
<1>1. p \notin Admins /\ Admins \subseteq Procs
  BY SchedulerAssumption DEF Procs
<1>2. \A a \in Admins : pc'[a] = pc[a] /\ fn'[a] = fn[a] /\ cfg'[a] = cfg[a]
  BY <1>1 DEF Finish, Goto, TypeOK
<1>3. QED
  BY <1>2, RegistryUntouched

\* What a step of one management call leaves of the others.
OthersStay(a) ==
  \A b \in Admins \ {a} : pc'[b] = pc[b] /\ fn'[b] = fn[b] /\ cfg'[b] = cfg[b]

\* A call that reads, unpacks or gives up before its critical section.
LEMMA RegistryRead ==
  ASSUME RegistryOK, UNCHANGED <<functions, store>>,
         NEW a \in Admins, ~Saving(a), ~Saving(a)', OthersStay(a)
  PROVE  RegistryOK'
<1>1. \A b \in Admins : /\ Saving(b)' <=> Saving(b)
                        /\ Saving(b) => b # a
  BY DEF Saving, OthersStay
<1>2. QED
  BY <1>1 DEF RegistryOK, OthersStay

\* The critical section of a call changes the registry at f, its function, and
\* the call goes on to bring that change to the store.
LEMMA RegistryChanged ==
  ASSUME TypeOK, RegistryOK, SavesApart', NEW a \in Admins, ~Saving(a), OthersStay(a),
         NEW f \in Functions, NEW c,
         functions' = [functions EXCEPT ![f] = c], UNCHANGED store,
         Saving(a)', fn'[a] = f,
         c = IF pc'[a] = "deregister" THEN NoConfig ELSE cfg'[a]
  PROVE  RegistryOK'
<1>1. functions'[f] = c /\ \A g \in Functions \ {f} : functions'[g] = functions[g]
  BY DEF TypeOK
<1>2. \A b \in Admins \ {a} : Saving(b)' <=> Saving(b)
  BY DEF Saving, OthersStay
<1>3. \A b \in Admins \ {a} : Saving(b)' => fn'[b] # f
  BY DEF SavesApart
<1>4. ASSUME NEW g \in Functions, \A b \in Admins : Saving(b)' => fn'[b] # g
      PROVE  store'[g] = functions'[g]
  <2>1. g # f /\ \A b \in Admins : Saving(b) => fn[b] # g
    BY <1>2, <1>4 DEF OthersStay
  <2>2. QED
    BY <1>1, <2>1 DEF RegistryOK
<1>5. ASSUME NEW g \in Functions, NEW b \in Admins, Saving(b)', fn'[b] = g
      PROVE  functions'[g] = IF pc'[b] = "deregister" THEN NoConfig ELSE cfg'[b]
  <2>1. CASE b = a
    BY <1>1, <1>5, <2>1
  <2>2. CASE b # a
    <3>1. Saving(b) /\ fn[b] = g /\ g # f
      BY <1>2, <1>3, <1>5, <2>2 DEF OthersStay
    <3>2. functions[g] = IF pc[b] = "deregister" THEN NoConfig ELSE cfg[b]
      BY <3>1 DEF RegistryOK
    <3>3. QED
      BY <1>1, <2>2, <3>1, <3>2 DEF OthersStay
  <2>3. QED
    BY <2>1, <2>2
<1>6. QED
  BY <1>4, <1>5 DEF RegistryOK

\* The call's write to the store makes the two agree again.
LEMMA RegistrySaved ==
  ASSUME TypeOK, RegistryOK, NEW a \in Admins, Saving(a), OthersStay(a),
         fn[a] \in Functions,
         store' = [store EXCEPT ![fn[a]] =
                     IF pc[a] = "deregister" THEN NoConfig ELSE cfg[a]],
         UNCHANGED functions, ~Saving(a)'
  PROVE  RegistryOK'
<1>1. /\ store'[fn[a]] = functions[fn[a]]
      /\ \A g \in Functions \ {fn[a]} : store'[g] = store[g]
  BY DEF RegistryOK, TypeOK
<1>2. \A b \in Admins : Saving(b)' <=> Saving(b) /\ b # a
  BY DEF Saving, OthersStay
<1>3. ASSUME NEW g \in Functions, \A b \in Admins : Saving(b)' => fn'[b] # g
      PROVE  store'[g] = functions'[g]
  <2>1. CASE g = fn[a]
    BY <1>1, <2>1
  <2>2. CASE g # fn[a]
    <3>1. \A b \in Admins : Saving(b) => fn[b] # g
      BY <1>2, <1>3, <2>2 DEF OthersStay
    <3>2. QED
      BY <1>1, <2>2, <3>1 DEF RegistryOK
  <2>3. QED
    BY <2>1, <2>2
<1>4. ASSUME NEW g \in Functions, NEW b \in Admins, Saving(b)', fn'[b] = g
      PROVE  functions'[g] = IF pc'[b] = "deregister" THEN NoConfig ELSE cfg'[b]
  BY <1>2, <1>4 DEF RegistryOK, OthersStay
<1>5. QED
  BY <1>3, <1>4 DEF RegistryOK

\* Every step preserves RegistryOK, when no two calls save one function at once
\* and the store answers.
LEMMA RegistryStep ==
  ASSUME "store" \notin Faults, IInv, SavesApart', RegistryOK, [Next]_vars
  PROVE  RegistryOK'
<1>1. /\ TypeOK /\ LocalsOK
      /\ \A a \in Admins : a \in Procs
  BY DEF IInv, Procs
<1>2. ASSUME NEW w \in Workers, NEW f \in Functions, Validate(w, f)
      PROVE  RegistryOK'
  BY <1>1, <1>2, OthersLeaveRegistry DEF Validate
<1>3. ASSUME NEW w \in Workers, AcquireMissing(w)
      PROVE  RegistryOK'
  BY <1>1, <1>3, OthersLeaveRegistry DEF AcquireMissing
<1>4. ASSUME NEW p \in Invokers \cup Workers \cup Warmers, NEW f, ReservePort(p, f)
      PROVE  RegistryOK'
  BY <1>1, <1>4, OthersLeaveRegistry DEF ReservePort
<1>5. ASSUME NEW p \in Invokers \cup Workers, NEW f \in Functions, NEW i \in Instances,
             AcquireIdle(p, f, i)
      PROVE  RegistryOK'
  BY <1>1, <1>5, OthersLeaveRegistry DEF AcquireIdle
<1>6. ASSUME NEW p \in Invokers \cup Workers, NEW f \in Functions, AcquireCold(p, f)
      PROVE  RegistryOK'
  BY <1>4, <1>6 DEF AcquireCold
<1>7. ASSUME NEW u \in Warmers, NEW f \in Functions, ColdStartOne(u, f)
      PROVE  RegistryOK'
  BY <1>4, <1>7 DEF ColdStartOne
<1>8. ASSUME NEW p \in Invokers \cup Workers \cup Warmers,
             Boot(p) \/ BootFails(p) \/ BootLeaks(p) \/ Publish(p)
      PROVE  RegistryOK'
  BY <1>1, <1>8, OthersLeaveRegistry DEF Boot, BootFails, BootLeaks, Publish
<1>9. ASSUME NEW w \in Workers, NEW l \in LeaseIds, Grant(w, l)
      PROVE  RegistryOK'
  BY <1>1, <1>9, OthersLeaveRegistry DEF Grant
<1>10. ASSUME NEW w \in Workers, Receive(w) \/ LoseResponse(w) \/ ReleaseUseless(w)
       PROVE  RegistryOK'
  BY <1>1, <1>10, OthersLeaveRegistry DEF Receive, LoseResponse, ReleaseUseless
<1>11. ASSUME NEW w \in Workers, NEW status \in LeaseStatuses, ReleaseInstance(w, status)
       PROVE  RegistryOK'
  BY <1>1, <1>11, OthersLeaveRegistry DEF ReleaseInstance
<1>12. ASSUME NEW h \in Invokers, Release(h)
       PROVE  RegistryOK'
  BY <1>1, <1>12, OthersLeaveRegistry DEF Release
<1>13. ASSUME \/ \E l \in LeaseIds : DeadlinePasses(l)
              \/ ReapExpiredLeases
              \/ \E S \in SUBSET (Pooled \ busy) : ReapIdle(S)
              \/ \E f \in Functions, i \in Instances : RemoveIdle(f, i)
              \/ \E i \in Instances : Stop(i)
              \/ UNCHANGED vars
       PROVE  RegistryOK'
  <2>1. UNCHANGED <<functions, store, pc, fn, cfg>>
    BY <1>13 DEF DeadlinePasses, ReapExpiredLeases, ReapIdle, RemoveIdle, Stop, vars
  <2>2. QED
    BY <2>1, RegistryUntouched
<1>14. ASSUME NEW a \in Admins, NEW f \in Functions, Deregister(a, f)
       PROVE  RegistryOK'
  <2>1. /\ pc[a] = "idle" /\ pc'[a] = "deregister" /\ fn'[a] = f /\ OthersStay(a)
        /\ functions' = [functions EXCEPT ![f] = NoConfig] /\ UNCHANGED store
    BY <1>1, <1>14 DEF Deregister, Enter, Goto, OthersStay, TypeOK
  <2>2. QED
    BY <1>1, <2>1, RegistryChanged DEF Saving
<1>15. ASSUME NEW a \in Admins, NEW f \in Functions, NEW mq \in BOOLEAN, Register(a, f, mq)
       PROVE  RegistryOK'
  <2> DEFINE c == [code |-> NoCode, mq |-> mq]
  <2>1. /\ pc[a] = "idle" /\ pc'[a] = "register" /\ fn'[a] = f /\ cfg'[a] = c
        /\ functions' = [functions EXCEPT ![f] = c] /\ UNCHANGED store /\ OthersStay(a)
    BY <1>1, <1>15 DEF Register, Enter, Goto, OthersStay, TypeOK
  <2> HIDE DEF c
  <2>2. QED
    BY <1>1, <2>1, RegistryChanged DEF Saving
<1>16. ASSUME NEW a \in Admins, NEW f \in Functions, NEW v \in Versions, UploadCode(a, f, v)
       PROVE  RegistryOK'
  <2>1. /\ pc[a] = "idle" /\ pc'[a] = "unpack" /\ OthersStay(a)
        /\ UNCHANGED <<functions, store>>
    BY <1>1, <1>16 DEF UploadCode, Enter, Goto, OthersStay, TypeOK
  <2>2. QED
    BY <2>1, RegistryRead DEF Saving
<1>17. ASSUME NEW a \in Admins, SwapDirectory(a) \/ UploadFails(a)
       PROVE  RegistryOK'
  <2>1. /\ pc[a] \in {"unpack", "object"} /\ pc'[a] \in {"object", "idle"}
        /\ OthersStay(a) /\ UNCHANGED <<functions, store>>
    BY <1>1, <1>17
       DEF SwapDirectory, UploadFails, Leave, Finish, Goto, OthersStay, TypeOK
  <2>2. QED
    BY <2>1, RegistryRead DEF Saving
<1>18. ASSUME NEW a \in Admins, ApplyUpload(a)
       PROVE  RegistryOK'
  <2>1. /\ pc[a] = "object" /\ pc'[a] = "upload" /\ fn[a] \in Functions
        /\ fn'[a] = fn[a] /\ cfg'[a] = cfg[a] /\ OthersStay(a)
        /\ functions' = [functions EXCEPT ![fn[a]] = cfg[a]] /\ UNCHANGED store
    BY <1>1, <1>18 DEF ApplyUpload, Goto, OthersStay, TypeOK, LocalsOK
  <2>2. QED
    BY <1>1, <2>1, RegistryChanged DEF Saving
<1>19. ASSUME NEW a \in Admins, SaveRegistered(a) \/ DeleteStored(a) \/ SaveUploaded(a)
       PROVE  RegistryOK'
  <2>1. /\ pc[a] \in {"register", "deregister", "upload"} /\ pc'[a] = "idle"
        /\ fn[a] \in Functions /\ OthersStay(a) /\ UNCHANGED functions
    BY <1>1, <1>19
       DEF SaveRegistered, DeleteStored, SaveUploaded, Leave, Finish, Goto, OthersStay,
           TypeOK, LocalsOK
  <2>2. store' = [store EXCEPT ![fn[a]] =
                    IF pc[a] = "deregister" THEN NoConfig ELSE cfg[a]]
    BY <1>19 DEF SaveRegistered, DeleteStored, SaveUploaded
  <2>3. QED
    BY <1>1, <2>1, <2>2, RegistrySaved DEF Saving
<1>20. ASSUME NEW a \in Admins, RegisterFails(a) \/ SaveUploadedFails(a)
       PROVE  RegistryOK'
  BY <1>20 DEF RegisterFails, SaveUploadedFails
<1>21. ASSUME Restart PROVE RegistryOK'
  <2>1. store' = functions' /\ \A a \in Admins : pc'[a] = "idle"
    BY <1>1, <1>21, SchedulerAssumption DEF Restart, Survives
  <2>2. QED
    BY <2>1 DEF RegistryOK, Saving
<1>22. QED
  BY <1>2, <1>3, <1>5, <1>6, <1>7, <1>8, <1>9, <1>10, <1>11, <1>12, <1>13, <1>14, <1>15,
     <1>16, <1>17, <1>18, <1>19, <1>20, <1>21, Zenon DEF Next

\* The registry in memory and the one in the store agree whenever no call is in
\* progress, restarts included: a store that answers is all it takes, as long as
\* no two management calls are at once between their critical section and their
\* write to the store with the same function.
THEOREM RegistryConverges ==
  ASSUME "store" \notin Faults
  PROVE  Spec /\ []SavesApart => []RegistryDurable
<1>1. Init => RegistryOK
  BY DEF Init, RegistryOK, Saving, Procs
<1>2. IInv /\ SavesApart' /\ RegistryOK /\ [Next]_vars => RegistryOK'
  BY RegistryStep
<1>3. IInv /\ RegistryOK => RegistryDurable
  <2> SUFFICES ASSUME IInv, RegistryOK, \A a \in Admins : pc[a] = "idle"
               PROVE  store = functions
    BY DEF RegistryDurable
  <2>1. \A f \in Functions : store[f] = functions[f]
    BY DEF RegistryOK, Saving
  <2>2. /\ store = [f \in Functions |-> store[f]]
        /\ functions = [f \in Functions |-> functions[f]]
    BY DEF IInv, TypeOK
  <2>3. QED
    BY <2>1, <2>2
<1>4. QED
  BY <1>1, <1>2, <1>3, Invariance, PTL DEF Spec

\* In particular, with one management call at a time.
THEOREM RegistrySurvives ==
  ASSUME \A a, b \in Admins : a = b, "store" \notin Faults
  PROVE  Spec => []RegistryDurable
<1>1. SavesApart
  BY DEF SavesApart
<1>2. QED
  BY <1>1, RegistryConverges, PTL

-----------------------------------------------------------------------------
(* What has left the pool is stopped: the part of RetiredStops that is no    *)
(* liveness.  An instance that runs is in the pool, about to join it, or on  *)
(* the list of somebody who stops it.  Two failures are known to break the   *)
(* chain, and the theorem excludes them: a Stop that fails is not repeated,  *)
(* and an upload whose metadata are refused forgets its victims.             *)

Doomed(i) == i \in stopping \/ \E a \in Admins : i \in victims[a]
Joining(i) == \E p \in Procs : pc[p] = "publish" /\ inst[p] = i
NoneLost ==
  /\ \A i \in up : i[1] <= epoch
                   /\ (i[1] = epoch => i \in Pooled \/ Doomed(i) \/ Joining(i))
  /\ \A a \in Admins : pc[a] \notin {"deregister", "upload"} => victims[a] = {}

\* What leaves the pool is to be stopped, and nobody about to publish moves.
LEMMA StoppingLosesNone ==
  ASSUME NoneLost,
         \A q \in Procs : pc[q] = "publish" \/ q \in Admins
                            => pc'[q] = pc[q] /\ inst'[q] = inst[q],
         Pooled \cup stopping \subseteq Pooled' \cup stopping',
         UNCHANGED <<up, victims, epoch>>
  PROVE  NoneLost'
<1>1. \A a \in Admins : pc'[a] = pc[a]
  BY DEF Procs
<1>2. \A i \in up : Joining(i) => Joining(i)'
  BY DEF Joining
<1>3. \A i \in up : Doomed(i) \/ i \in Pooled => Doomed(i)' \/ i \in Pooled'
  BY DEF Doomed
<1>4. QED
  BY <1>1, <1>2, <1>3 DEF NoneLost

\* A management call takes containers out of the pool, and hands them on.
LEMMA ManagingLosesNone ==
  ASSUME IInv, NoneLost, NEW a \in Admins,
         \A q \in Procs \ {a} : pc'[q] = pc[q] /\ inst'[q] = inst[q],
         \A b \in Admins \ {a} : victims'[b] = victims[b],
         Pooled \cup stopping \cup victims[a]
           \subseteq Pooled' \cup stopping' \cup victims'[a],
         pc'[a] \in {"deregister", "upload"} \/ victims'[a] = {},
         UNCHANGED <<up, epoch>>
  PROVE  NoneLost'
<1>1. \A q \in Procs : pc[q] = "publish" => q # a
  BY DEF IInv, LocalsOK, Attached, InFlight
<1>2. \A i \in up : Joining(i) => Joining(i)'
  BY <1>1 DEF Joining
<1>3. \A i \in up : Doomed(i) \/ i \in Pooled => Doomed(i)' \/ i \in Pooled'
  BY DEF Doomed
<1>4. Admins \subseteq Procs
  BY DEF Procs
<1>5. QED
  BY <1>2, <1>3, <1>4 DEF NoneLost

\* An instance comes up with a goroutine that will publish it.
LEMMA BootLosesNone ==
  ASSUME IInv, NoneLost, NEW p \in Invokers \cup Workers \cup Warmers, Boot(p)
  PROVE  NoneLost'
<1>1. /\ p \in Procs \ Admins /\ Admins \subseteq Procs
      /\ TypeOK /\ pc[p] = "boot"
  BY SchedulerAssumption DEF IInv, Procs, Boot
<1>2. /\ pc'[p] = "publish" /\ inst' = inst /\ up' = up \cup {inst[p]}
      /\ \A q \in Procs \ {p} : pc'[q] = pc[q]
      /\ UNCHANGED <<pool, stopping, victims, epoch>>
  BY <1>1 DEF Boot, Goto, TypeOK
<1>3. inst[p] \in Instances /\ Reserved(inst[p])
  BY <1>1 DEF IInv, LocalsOK, HoldersOK, Attached, InFlight
<1>4. inst[p][1] <= epoch
  BY <1>1, <1>3, SchedulerAssumption DEF TypeOK, Instances, Reserved
<1>5. \A i \in up : Joining(i) => Joining(i)'
  BY <1>1, <1>2 DEF Joining
<1>6. Joining(inst[p])'
  BY <1>1, <1>2 DEF Joining
<1>7. \A i \in up : Doomed(i) \/ i \in Pooled => Doomed(i)' \/ i \in Pooled'
  BY <1>2 DEF Doomed, Pooled
<1>8. QED
  BY <1>1, <1>2, <1>4, <1>5, <1>6, <1>7 DEF NoneLost

\* And the goroutine publishes it.
LEMMA PublishLosesNone ==
  ASSUME IInv, NoneLost, NEW p \in Invokers \cup Workers \cup Warmers, Publish(p)
  PROVE  NoneLost'
<1>1. /\ p \in Procs \ Admins /\ Admins \subseteq Procs
      /\ TypeOK /\ fn[p] \in Functions
  BY SchedulerAssumption DEF IInv, Procs, Publish, LocalsOK
<1>2. /\ \A q \in Procs \ {p} : pc'[q] = pc[q] /\ inst'[q] = inst[q]
      /\ Pooled \subseteq Pooled' /\ inst[p] \in Pooled'
      /\ UNCHANGED <<up, stopping, victims, epoch>>
  BY <1>1 DEF Publish, Finish, Goto, TypeOK, Pooled
<1>3. \A i \in up : Joining(i) => Joining(i)' \/ i \in Pooled'
  BY <1>1, <1>2 DEF Joining
<1>4. \A i \in up : Doomed(i) \/ i \in Pooled => Doomed(i)' \/ i \in Pooled'
  BY <1>2 DEF Doomed
<1>5. QED
  BY <1>1, <1>2, <1>3, <1>4 DEF NoneLost

\* Every step, when stops and the store do not fail.
LEMMA LossStep ==
  ASSUME "stop" \notin Faults, "store" \notin Faults, IInv, NoneLost, [Next]_vars
  PROVE  NoneLost'
<1>1. /\ TypeOK /\ LocalsOK
      /\ \A p \in Invokers \cup Workers \cup Warmers : p \in Procs \ Admins
      /\ \A a \in Admins : a \in Procs
  BY SchedulerAssumption DEF IInv, Procs
<1>2. ASSUME NEW p \in Procs \ Admins, pc[p] # "publish",
             \A q \in Procs \ {p} : pc'[q] = pc[q] /\ inst'[q] = inst[q],
             Pooled \cup stopping \subseteq Pooled' \cup stopping',
             UNCHANGED <<up, victims, epoch>>
      PROVE  NoneLost'
  BY <1>1, <1>2, StoppingLosesNone
<1>3. ASSUME NEW S, RemoveAndStop(S)
      PROVE  Pooled \cup stopping \subseteq Pooled' \cup stopping'
  BY <1>1, <1>3 DEF RemoveAndStop, Pooled, TypeOK
<1>4. ASSUME NEW p \in Procs, NEW label, Goto(p, label), UNCHANGED inst \/ (\E i : inst' = [inst EXCEPT ![p] = i])
      PROVE  \A q \in Procs \ {p} : pc'[q] = pc[q] /\ inst'[q] = inst[q]
  BY <1>1, <1>4 DEF Goto, TypeOK
<1>5. ASSUME NEW p \in Procs, Finish(p)
      PROVE  \A q \in Procs \ {p} : pc'[q] = pc[q] /\ inst'[q] = inst[q]
  BY <1>1, <1>5, FinishFacts
<1>6. ASSUME NEW w \in Workers, NEW f \in Functions, Validate(w, f)
      PROVE  NoneLost'
  BY <1>1, <1>2, <1>4, <1>6 DEF Validate, Pooled
<1>7. ASSUME NEW w \in Workers, AcquireMissing(w)
      PROVE  NoneLost'
  BY <1>1, <1>2, <1>5, <1>7 DEF AcquireMissing, Pooled
<1>8. ASSUME NEW p \in Invokers \cup Workers, NEW f \in Functions, AcquireCold(p, f)
      PROVE  NoneLost'
  BY <1>1, <1>2, <1>4, <1>8 DEF AcquireCold, ReservePort, Acquiring, Pooled
<1>9. ASSUME NEW p \in Invokers \cup Workers, NEW f \in Functions, NEW i \in Instances,
             AcquireIdle(p, f, i)
      PROVE  NoneLost'
  BY <1>1, <1>2, <1>4, <1>9 DEF AcquireIdle, Acquiring, Pooled
<1>10. ASSUME NEW u \in Warmers, NEW f \in Functions, ColdStartOne(u, f)
       PROVE  NoneLost'
  BY <1>1, <1>2, <1>4, <1>10 DEF ColdStartOne, ReservePort, Pooled
<1>11. ASSUME NEW p \in Invokers \cup Workers \cup Warmers, BootFails(p)
       PROVE  NoneLost'
  BY <1>1, <1>2, <1>5, <1>11 DEF BootFails, Pooled
<1>12. ASSUME NEW p \in Invokers \cup Workers \cup Warmers, BootLeaks(p)
       PROVE  NoneLost'
  BY <1>12 DEF BootLeaks
<1>13. ASSUME NEW w \in Workers, NEW l \in LeaseIds, Grant(w, l)
       PROVE  NoneLost'
  BY <1>1, <1>2, <1>4, <1>13 DEF Grant, Pooled
<1>14. ASSUME NEW w \in Workers, Receive(w) PROVE NoneLost'
  BY <1>1, <1>2, <1>4, <1>14 DEF Receive, Pooled
<1>15. ASSUME NEW w \in Workers, LoseResponse(w) \/ ReleaseUseless(w)
       PROVE  NoneLost'
  BY <1>1, <1>2, <1>5, <1>15 DEF LoseResponse, ReleaseUseless, Pooled
<1>16. ASSUME NEW w \in Workers, NEW status \in LeaseStatuses, ReleaseInstance(w, status)
       PROVE  NoneLost'
  <2>1. Pooled \cup stopping \subseteq Pooled' \cup stopping'
    BY <1>3, <1>16 DEF ReleaseInstance, Pooled
  <2>2. QED
    BY <1>1, <1>2, <1>5, <1>16, <2>1 DEF ReleaseInstance
<1>17. ASSUME NEW h \in Invokers, Release(h)
       PROVE  NoneLost'
  BY <1>1, <1>2, <1>5, <1>17 DEF Release, Pooled
<1>18. ASSUME \/ ReapExpiredLeases
              \/ \E S \in SUBSET (Pooled \ busy) : ReapIdle(S)
              \/ \E f \in Functions, i \in Instances : RemoveIdle(f, i)
              \/ \E l \in LeaseIds : DeadlinePasses(l)
              \/ UNCHANGED vars
       PROVE  NoneLost'
  <2>1. /\ Pooled \cup stopping \subseteq Pooled' \cup stopping'
        /\ UNCHANGED <<pc, inst, up, victims, epoch>>
    BY <1>3, <1>18 DEF ReapExpiredLeases, ReapIdle, RemoveIdle, DeadlinePasses, vars, Pooled
  <2>2. QED
    BY <2>1, StoppingLosesNone
<1>19. ASSUME NEW i \in Instances, Stop(i)
       PROVE  NoneLost'
  <2>1. /\ up' = up \ {i} /\ stopping' = stopping \ {i}
        /\ UNCHANGED <<pc, inst, pool, victims, epoch>>
    BY <1>19 DEF Stop
  <2>2. QED
    BY <2>1 DEF NoneLost, Doomed, Joining, Pooled
<1>20. ASSUME NEW a \in Admins, NEW f \in Functions, Deregister(a, f)
       PROVE  NoneLost'
  <2>1. /\ victims[a] = {} /\ victims'[a] = pool[f] /\ pc'[a] = "deregister"
        /\ \A b \in Admins \ {a} : victims'[b] = victims[b]
        /\ UNCHANGED <<up, stopping, epoch>>
    BY <1>1, <1>20 DEF Deregister, TakePool, Enter, Goto, TypeOK, NoneLost
  <2>2. Pooled \subseteq Pooled' \cup victims'[a]
    BY <1>1, <1>20 DEF Deregister, TakePool, Pooled, TypeOK
  <2>3. \A q \in Procs \ {a} : pc'[q] = pc[q] /\ inst'[q] = inst[q]
    BY <1>1, <1>4, <1>20 DEF Deregister, Enter
  <2>4. QED
    BY <2>1, <2>2, <2>3, ManagingLosesNone
<1>21. ASSUME NEW a \in Admins, ApplyUpload(a)
       PROVE  NoneLost'
  <2>1. fn[a] \in Functions
    BY <1>1, <1>21 DEF ApplyUpload, LocalsOK
  <2>2. /\ victims[a] = {} /\ victims'[a] = pool[fn[a]] /\ pc'[a] = "upload"
        /\ \A b \in Admins \ {a} : victims'[b] = victims[b]
        /\ UNCHANGED <<up, stopping, epoch>>
    BY <1>1, <1>21 DEF ApplyUpload, TakePool, Goto, TypeOK, NoneLost
  <2>3. Pooled \subseteq Pooled' \cup victims'[a]
    BY <1>1, <1>21, <2>1 DEF ApplyUpload, TakePool, Pooled, TypeOK
  <2>4. \A q \in Procs \ {a} : pc'[q] = pc[q] /\ inst'[q] = inst[q]
    BY <1>1, <1>4, <1>21 DEF ApplyUpload
  <2>5. QED
    BY <2>2, <2>3, <2>4, ManagingLosesNone
<1>22. ASSUME NEW a \in Admins,
              \/ \E f \in Functions, mq \in BOOLEAN : Register(a, f, mq)
              \/ \E f \in Functions, v \in Versions : UploadCode(a, f, v)
              \/ SwapDirectory(a)
       PROVE  NoneLost'
  <2>1. /\ pc[a] \notin {"deregister", "upload"}
        /\ \E label : Goto(a, label)
        /\ UNCHANGED <<inst, pool, stopping, victims, up, epoch>>
    BY <1>22 DEF Register, UploadCode, SwapDirectory, Enter
  <2>2. victims[a] = {}
    BY <2>1 DEF NoneLost
  <2>3. \A q \in Procs \ {a} : pc'[q] = pc[q] /\ inst'[q] = inst[q]
    BY <1>1, <1>4, <2>1
  <2>4. QED
    BY <2>1, <2>2, <2>3, ManagingLosesNone DEF Pooled
<1>23. ASSUME NEW a \in Admins, NEW C, Leave(a, C), victims[a] \subseteq C,
              UNCHANGED <<pool, epoch>>
       PROVE  NoneLost'
  <2>1. /\ victims[a] \subseteq stopping' /\ stopping \subseteq stopping'
        /\ victims'[a] = {} /\ \A b \in Admins \ {a} : victims'[b] = victims[b]
        /\ UNCHANGED <<up, Pooled>>
    BY <1>1, <1>23 DEF Leave, Pooled, TypeOK
  <2>2. \A q \in Procs \ {a} : pc'[q] = pc[q] /\ inst'[q] = inst[q]
    BY <1>1, <1>5, <1>23 DEF Leave
  <2>3. QED
    BY <1>23, <2>1, <2>2, ManagingLosesNone
<1>24. ASSUME NEW a \in Admins,
              SaveRegistered(a) \/ RegisterFails(a) \/ UploadFails(a) \/ SaveUploadedFails(a)
       PROVE  NoneLost'
  <2>1. pc[a] \notin {"deregister", "upload"} /\ Leave(a, {}) /\ UNCHANGED <<pool, epoch>>
    BY <1>24 DEF SaveRegistered, RegisterFails, UploadFails, SaveUploadedFails
  <2>2. victims[a] = {}
    BY <2>1 DEF NoneLost
  <2>3. QED
    BY <1>23, <2>1, <2>2
<1>25. ASSUME NEW a \in Admins, DeleteStored(a) \/ SaveUploaded(a)
       PROVE  NoneLost'
  BY <1>23, <1>25 DEF DeleteStored, SaveUploaded
<1>26. ASSUME Restart PROVE NoneLost'
  <2>1. /\ epoch' = epoch + 1 /\ up' = up
        /\ \A a \in Admins : victims'[a] = {}
    BY <1>26 DEF Restart
  <2>2. up \subseteq Instances /\ epoch \in Int
    BY <1>1 DEF TypeOK
  <2>3. \A i \in up : i[1] <= epoch' /\ i[1] # epoch'
    BY <2>1, <2>2 DEF NoneLost, Instances
  <2>4. QED
    BY <2>1, <2>3 DEF NoneLost
<1>27. QED
  BY <1>6, <1>7, <1>8, <1>9, <1>10, <1>11, <1>12, <1>13, <1>14, <1>15, <1>16, <1>17, <1>18,
     <1>19, <1>20, <1>21, <1>22, <1>24, <1>25, <1>26, BootLosesNone, PublishLosesNone,
     Zenon DEF Next

\* No instance is forgotten: one that has left the pool and still runs is on the
\* list of a management call in progress, or a stop of it is pending.  Boots,
\* requests and answers may fail, and calls interleave as they like.
RetiredIsDoomed == \A i \in Retired \cap up : i[1] = epoch => Doomed(i)
THEOREM NoInstanceForgotten ==
  ASSUME "stop" \notin Faults, "store" \notin Faults
  PROVE  Spec => []RetiredIsDoomed
<1>1. Init => NoneLost
  BY DEF Init, NoneLost
<1>2. IInv /\ NoneLost /\ [Next]_vars => NoneLost'
  BY LossStep
<1>3. NoneLost => RetiredIsDoomed
  BY DEF NoneLost, RetiredIsDoomed, Retired, Joining, InFlight
<1>4. QED
  BY <1>1, <1>2, <1>3, Invariance, PTL DEF Spec

-----------------------------------------------------------------------------
(* Which code the pool runs.  RunsCurrentCode does not hold: a cold start    *)
(* that overlaps an upload, or a deregistration and a new registration, puts *)
(* old code into the pool.  Here is that nothing else does.                  *)

\* No cold start of a function is under way during a management call for it.
ColdStartsApart ==
  \A p \in Procs, a \in Admins : InFlight(p) /\ pc[a] # "idle" => fn[p] # fn[a]

\* No two management calls are for one function at once.
CallsApart ==
  \A a, b \in Admins : pc[a] # "idle" /\ pc[b] # "idle" /\ fn[a] = fn[b] => a = b

\* The code directory is that of the configuration in memory, except between an
\* upload's two steps, when it is already the new one.
DiskOK ==
  /\ \A f \in Functions :
       Registered(f) /\ (\A a \in Admins : pc[a] = "object" => fn[a] # f)
         => functions[f].code \in {NoCode, disk[f]}
  /\ \A a \in Admins : pc[a] = "object" => disk[fn[a]] = cfg[a].code
PoolCurrent ==
  \A f \in Functions : \A i \in pool[f] : Registered(f) /\ runs[i].code = functions[f].code
StartsCurrent ==
  \A p \in Procs :
    /\ pc[p] = "boot" => cfg[p] = functions[fn[p]]
    /\ pc[p] = "publish" => Registered(fn[p]) /\ runs[inst[p]].code = functions[fn[p]].code
CodeOK ==
  /\ PoolCurrent /\ StartsCurrent
  /\ \A a \in Admins : pc[a] = "register" => pool[fn[a]] = {}
  /\ Docker => DiskOK

\* A step that starts and uploads nothing.
Waypoints == {"boot", "publish", "register", "object"}
LEMMA CodeUntouched ==
  ASSUME TypeOK, LocalsOK, CodeOK, UNCHANGED <<functions, disk, runs>>,
         \A f \in Functions : pool'[f] \subseteq pool[f],
         \A q \in Procs : pc'[q] \in Waypoints =>
            pc'[q] = pc[q] /\ fn'[q] = fn[q] /\ cfg'[q] = cfg[q] /\ inst'[q] = inst[q],
         Docker => \A a \in Admins : pc[a] = "object" => pc'[a] = "object"
  PROVE  CodeOK'
<1>1. PoolCurrent'
  BY DEF CodeOK, PoolCurrent, Registered
<1>2. StartsCurrent'
  BY DEF CodeOK, StartsCurrent, Registered, Waypoints
<1>3. \A a \in Admins : pc'[a] = "register" => pool'[fn'[a]] = {}
  <2> SUFFICES ASSUME NEW a \in Admins, pc'[a] = "register"
               PROVE  pool'[fn'[a]] = {}
    OBVIOUS
  <2>1. pc[a] = "register" /\ fn'[a] = fn[a] /\ fn[a] \in Functions
    BY DEF Procs, Waypoints, LocalsOK
  <2>2. QED
    BY <2>1 DEF CodeOK
<1>4. ASSUME Docker PROVE DiskOK'
  <2>1. \A a \in Admins : /\ pc'[a] = "object" <=> pc[a] = "object"
                          /\ pc[a] = "object" => fn'[a] = fn[a] /\ cfg'[a] = cfg[a]
    BY <1>4 DEF Procs, Waypoints
  <2>2. DiskOK
    BY <1>4 DEF CodeOK
  <2>3. QED
    BY <2>1, <2>2 DEF DiskOK, Registered
<1>5. QED
  BY <1>1, <1>2, <1>3, <1>4 DEF CodeOK

\* A cold start takes the configuration there is.
LEMMA ReserveCode ==
  ASSUME TypeOK, CodeOK, NEW p \in Procs \ Admins, NEW f \in Functions, ReservePort(p, f)
  PROVE  CodeOK'
<1>1. /\ pc'[p] = "boot" /\ cfg'[p] = functions[f] /\ fn'[p] = f
      /\ \A q \in Procs \ {p} : /\ pc'[q] = pc[q] /\ fn'[q] = fn[q]
                                /\ cfg'[q] = cfg[q] /\ inst'[q] = inst[q]
      /\ UNCHANGED <<functions, disk, runs, pool>>
  BY DEF ReservePort, Goto, TypeOK
<1>2. Admins \subseteq Procs \ {p}
  BY DEF Procs
<1>3. PoolCurrent' /\ StartsCurrent'
  BY <1>1 DEF CodeOK, PoolCurrent, StartsCurrent, Registered
<1>4. Docker => DiskOK'
  BY <1>1, <1>2 DEF CodeOK, DiskOK, Registered
<1>5. QED
  BY <1>1, <1>2, <1>3, <1>4 DEF CodeOK

\* The instance that comes up runs the code of that configuration.
LEMMA BootCode ==
  ASSUME IInv, CodeOK, ColdStartsApart, NEW p \in Invokers \cup Workers \cup Warmers,
         Boot(p) \/ BootLeaks(p)
  PROVE  CodeOK'
<1>1. /\ p \in Procs \ Admins /\ Admins \subseteq Procs
      /\ TypeOK /\ pc[p] = "boot" /\ InFlight(p)
  BY SchedulerAssumption DEF IInv, Procs, Boot, BootLeaks, InFlight
<1>2. /\ inst[p] \in Instances /\ fn[p] \in Functions /\ cfg[p] \in Configs
      /\ inst[p] \notin Pooled
      /\ \A q \in Procs \ {p} : InFlight(q) => inst[q] # inst[p]
  BY <1>1 DEF IInv, LocalsOK, HoldersOK, Attached
<1>3. /\ runs' = [runs EXCEPT ![inst[p]] = [fn |-> fn[p], code |-> CodeAt(fn[p], cfg[p])]]
      /\ \A q \in Procs \ {p} : /\ pc'[q] = pc[q] /\ fn'[q] = fn[q]
                                /\ cfg'[q] = cfg[q] /\ inst'[q] = inst[q]
      /\ pc'[p] = "idle" \/ (pc'[p] = "publish" /\ fn'[p] = fn[p] /\ inst'[p] = inst[p])
      /\ UNCHANGED <<functions, disk, pool>>
  BY <1>1 DEF Boot, BootLeaks, Finish, Goto, TypeOK
<1>4. cfg[p] = functions[fn[p]] /\ Registered(fn[p])
  BY <1>1, <1>2, SchedulerAssumption DEF CodeOK, StartsCurrent, Registered
<1>5. CodeAt(fn[p], cfg[p]) = functions[fn[p]].code
  <2>1. CASE Docker /\ cfg[p].code # NoCode
    <3>1. \A a \in Admins : pc[a] = "object" => fn[a] # fn[p]
      BY <1>1 DEF ColdStartsApart
    <3>2. functions[fn[p]].code \in {NoCode, disk[fn[p]]}
      BY <1>2, <1>4, <2>1, <3>1 DEF CodeOK, DiskOK
    <3>3. QED
      BY <1>4, <2>1, <3>2 DEF CodeAt
  <2>2. CASE ~(Docker /\ cfg[p].code # NoCode)
    BY <1>4, <2>2 DEF CodeAt
  <2>3. QED
    BY <2>1, <2>2
<1>6. /\ runs'[inst[p]].code = functions[fn[p]].code
      /\ \A i \in Instances \ {inst[p]} : runs'[i] = runs[i]
  BY <1>1, <1>2, <1>3, <1>5 DEF TypeOK
<1>7. PoolCurrent'
  <2> SUFFICES ASSUME NEW f \in Functions, NEW i \in pool[f]
               PROVE  Registered(f) /\ runs'[i].code = functions[f].code
    BY <1>3 DEF PoolCurrent, Registered
  <2>1. i \in Instances /\ i # inst[p]
    BY <1>1, <1>2 DEF Pooled, TypeOK
  <2>2. QED
    BY <1>6, <2>1 DEF CodeOK, PoolCurrent
<1>8. StartsCurrent'
  <2>1. ASSUME NEW q \in Procs \ {p}
        PROVE  /\ pc'[q] = "boot" => cfg'[q] = functions'[fn'[q]]
               /\ pc'[q] = "publish" => /\ Registered(fn[q])'
                                        /\ runs'[inst'[q]].code = functions'[fn'[q]].code
    <3>1. pc[q] = "publish" => inst[q] \in Instances \ {inst[p]}
      BY <1>2 DEF InFlight, IInv, LocalsOK, Attached
    <3>2. QED
      BY <1>3, <1>6, <3>1 DEF CodeOK, StartsCurrent, Registered
  <2>2. QED
    BY <1>3, <1>4, <1>6, <2>1 DEF StartsCurrent, Registered
<1>9. \A a \in Admins : pc'[a] = pc[a] /\ fn'[a] = fn[a] /\ cfg'[a] = cfg[a]
  BY <1>1, <1>3
<1>10. Docker => DiskOK'
  BY <1>3, <1>9 DEF CodeOK, DiskOK, Registered
<1>11. QED
  BY <1>3, <1>7, <1>8, <1>9, <1>10 DEF CodeOK

\* What joins the pool is current, and the function is registered.
LEMMA PublishCode ==
  ASSUME IInv, CodeOK, ColdStartsApart, NEW p \in Invokers \cup Workers \cup Warmers, Publish(p)
  PROVE  CodeOK'
<1>1. /\ p \in Procs \ Admins /\ Admins \subseteq Procs
      /\ TypeOK /\ pc[p] = "publish" /\ InFlight(p) /\ fn[p] \in Functions
  BY SchedulerAssumption DEF IInv, Procs, Publish, InFlight, LocalsOK
<1>2. /\ pool' = [pool EXCEPT ![fn[p]] = @ \cup {inst[p]}]
      /\ \A q \in Procs \ {p} : /\ pc'[q] = pc[q] /\ fn'[q] = fn[q]
                                /\ cfg'[q] = cfg[q] /\ inst'[q] = inst[q]
      /\ pc'[p] \notin {"boot", "publish"}
      /\ UNCHANGED <<functions, disk, runs>>
  BY <1>1 DEF Publish, Finish, Goto, Served, TypeOK
<1>3. PoolCurrent'
  <2>1. Registered(fn[p]) /\ runs[inst[p]].code = functions[fn[p]].code
    BY <1>1 DEF CodeOK, StartsCurrent
  <2>2. \A f \in Functions : \A i \in pool'[f] : i \in pool[f] \/ (f = fn[p] /\ i = inst[p])
    BY <1>1, <1>2 DEF TypeOK
  <2>3. QED
    BY <1>2, <2>1, <2>2 DEF CodeOK, PoolCurrent, Registered
<1>4. StartsCurrent'
  BY <1>2 DEF CodeOK, StartsCurrent, Registered
<1>5. \A a \in Admins : pc'[a] = pc[a] /\ fn'[a] = fn[a] /\ cfg'[a] = cfg[a]
  BY <1>1, <1>2
<1>6. \A a \in Admins : pc'[a] = "register" => pool'[fn'[a]] = {}
  <2>1. \A a \in Admins : pc[a] = "register" => fn[a] # fn[p]
    BY <1>1 DEF ColdStartsApart
  <2>2. \A g : g # fn[p] /\ g \in Functions => pool'[g] = pool[g]
    BY <1>1, <1>2 DEF TypeOK
  <2>3. \A a \in Admins : pc[a] = "register" => fn[a] \in Functions
    BY <1>1 DEF IInv, LocalsOK
  <2>4. QED
    BY <1>5, <2>1, <2>2, <2>3 DEF CodeOK
<1>7. Docker => DiskOK'
  BY <1>2, <1>5 DEF CodeOK, DiskOK, Registered
<1>8. QED
  BY <1>3, <1>4, <1>6, <1>7 DEF CodeOK

\* A management call gives a function another configuration, or none, when its
\* pool is empty and no cold start of it is under way.
LEMMA ConfigureCode ==
  ASSUME TypeOK, LocalsOK, CodeOK, NEW a \in Admins, NEW f \in Functions, NEW c,
         functions' = [functions EXCEPT ![f] = c], UNCHANGED <<disk, runs>>,
         pool'[f] = {}, \A g \in Functions \ {f} : pool'[g] = pool[g],
         \A p \in Procs : InFlight(p) => fn[p] # f,
         \A q \in Procs \ {a} : /\ pc'[q] = pc[q] /\ fn'[q] = fn[q]
                                /\ cfg'[q] = cfg[q] /\ inst'[q] = inst[q],
         pc'[a] \notin {"boot", "publish", "object"}, pc'[a] = "register" => fn'[a] = f,
         pc[a] = "object" => fn[a] = f,
         Docker /\ c # NoConfig => c.code \in {NoCode, disk[f]}
  PROVE  CodeOK'
<1>1. functions'[f] = c /\ \A g \in Functions \ {f} : functions'[g] = functions[g]
  BY DEF TypeOK
<1>2. PoolCurrent'
  BY <1>1 DEF CodeOK, PoolCurrent, Registered
<1>3. StartsCurrent'
  <2> SUFFICES ASSUME NEW p \in Procs, pc'[p] \in {"boot", "publish"}
               PROVE  /\ pc'[p] = "boot" => cfg'[p] = functions'[fn'[p]]
                      /\ pc'[p] = "publish" =>
                           Registered(fn[p])' /\ runs'[inst'[p]].code = functions'[fn'[p]].code
    BY DEF StartsCurrent
  <2>1. /\ p # a /\ pc'[p] = pc[p] /\ fn'[p] = fn[p] /\ cfg'[p] = cfg[p] /\ inst'[p] = inst[p]
        /\ fn[p] \in Functions \ {f}
    BY DEF InFlight, LocalsOK
  <2>2. QED
    BY <1>1, <2>1 DEF CodeOK, StartsCurrent, Registered
<1>4. ASSUME NEW b \in Admins, pc'[b] = "register" PROVE pool'[fn'[b]] = {}
  <2>1. CASE b = a
    BY <1>4, <2>1
  <2>2. CASE b # a
    <3>1. pc[b] = "register" /\ fn'[b] = fn[b] /\ fn[b] \in Functions
      BY <1>4, <2>2 DEF Procs, LocalsOK
    <3>2. pool[fn[b]] = {}
      BY <3>1 DEF CodeOK
    <3>3. QED
      BY <3>1, <3>2
  <2>3. QED
    BY <2>1, <2>2
<1>5. ASSUME Docker PROVE DiskOK'
  <2>1. DiskOK
    BY <1>5 DEF CodeOK
  <2>2. \A b \in Admins : pc'[b] = "object" =>
          pc[b] = "object" /\ fn'[b] = fn[b] /\ cfg'[b] = cfg[b]
    BY DEF Procs
  <2>3. \A b \in Admins : pc[b] = "object" =>
          (pc'[b] = "object" /\ fn'[b] = fn[b]) \/ fn[b] = f
    BY DEF Procs
  <2>4. ASSUME NEW g \in Functions, Registered(g)',
               \A b \in Admins : pc'[b] = "object" => fn'[b] # g
        PROVE  functions'[g].code \in {NoCode, disk'[g]}
    <3>1. CASE g = f
      BY <1>1, <1>5, <2>4, <3>1 DEF Registered
    <3>2. CASE g # f
      <4>1. \A b \in Admins : pc[b] = "object" => fn[b] # g
        BY <2>3, <2>4, <3>2
      <4>2. QED
        BY <1>1, <2>1, <2>4, <3>2, <4>1 DEF DiskOK, Registered
    <3>3. QED
      BY <3>1, <3>2
  <2>5. \A b \in Admins : pc'[b] = "object" => disk'[fn'[b]] = cfg'[b].code
    BY <2>1, <2>2 DEF DiskOK
  <2>6. QED
    BY <2>4, <2>5 DEF DiskOK
<1>6. QED
  BY <1>2, <1>3, <1>4, <1>5 DEF CodeOK

\* The directory changes for one upload at a time.
LEMMA SwapCode ==
  ASSUME TypeOK, LocalsOK, CodeOK, Docker => CallsApart, NEW a \in Admins, SwapDirectory(a)
  PROVE  CodeOK'
<1>1. /\ pc[a] = "unpack" /\ pc'[a] = "object" /\ a \in Procs /\ fn[a] \in Functions
      /\ disk' = [disk EXCEPT ![fn[a]] = cfg[a].code]
      /\ \A q \in Procs \ {a} : pc'[q] = pc[q]
      /\ UNCHANGED <<functions, runs, pool, fn, cfg, inst>>
  BY DEF SwapDirectory, Goto, TypeOK, LocalsOK, Procs
<1>2. /\ disk'[fn[a]] = cfg[a].code
      /\ \A g \in Functions \ {fn[a]} : disk'[g] = disk[g]
  BY <1>1 DEF TypeOK
<1>3. PoolCurrent' /\ StartsCurrent'
  BY <1>1 DEF CodeOK, PoolCurrent, StartsCurrent, Registered
<1>4. \A b \in Admins : pc'[b] = "register" => pool'[fn'[b]] = {}
  BY <1>1 DEF CodeOK, Procs
<1>5. ASSUME Docker PROVE DiskOK'
  <2>1. DiskOK /\ CallsApart
    BY <1>5 DEF CodeOK
  <2>2. \A b \in Admins \ {a} : pc'[b] = pc[b]
    BY <1>1 DEF Procs
  <2>3. ASSUME NEW g \in Functions, Registered(g)',
               \A b \in Admins : pc'[b] = "object" => fn'[b] # g
        PROVE  functions'[g].code \in {NoCode, disk'[g]}
    <3>1. g # fn[a]
      BY <1>1, <2>3
    <3>2. \A b \in Admins : pc[b] = "object" => fn[b] # g
      BY <1>1, <2>2, <2>3
    <3>3. QED
      BY <1>1, <1>2, <2>1, <2>3, <3>1, <3>2 DEF DiskOK, Registered
  <2>4. ASSUME NEW b \in Admins, pc'[b] = "object"
        PROVE  disk'[fn'[b]] = cfg'[b].code
    <3>1. CASE b = a
      BY <1>1, <1>2, <3>1
    <3>2. CASE b # a
      <4>1. pc[b] = "object" /\ fn[b] \in Functions
        BY <2>2, <2>4, <3>2 DEF Procs, LocalsOK
      <4>2. fn[b] # fn[a]
        BY <1>1, <2>1, <3>2, <4>1 DEF CallsApart
      <4>3. QED
        BY <1>1, <1>2, <2>1, <4>1, <4>2 DEF DiskOK
    <3>3. QED
      BY <3>1, <3>2
  <2>5. QED
    BY <2>3, <2>4 DEF DiskOK
<1>6. QED
  BY <1>3, <1>4, <1>5 DEF CodeOK

\* Every step, as long as cold starts and management calls keep apart.
LEMMA CodeStep ==
  ASSUME Docker => MaxEpoch = 1 /\ "code" \notin Faults,
         IInv, ColdStartsApart, ColdStartsApart', Docker => CallsApart,
         CodeOK, [Next]_vars
  PROVE  CodeOK'
<1>1. /\ TypeOK /\ LocalsOK
      /\ \A p \in Invokers \cup Workers \cup Warmers : p \in Procs \ Admins
      /\ \A a \in Admins : a \in Procs
  BY SchedulerAssumption DEF IInv, Procs
<1>2. ASSUME NEW p \in Procs, pc[p] # "object" \/ ~Docker,
             Finish(p) \/ \E label : Goto(p, label) /\ label \notin Waypoints,
             \A q \in Procs \ {p} : fn'[q] = fn[q] /\ cfg'[q] = cfg[q] /\ inst'[q] = inst[q],
             \A f \in Functions : pool'[f] \subseteq pool[f],
             UNCHANGED <<functions, disk, runs>>
      PROVE  CodeOK'
  <2>1. \A q \in Procs \ {p} : pc'[q] = pc[q]
    BY <1>1, <1>2 DEF Finish, Goto, TypeOK
  <2>2. pc'[p] \notin Waypoints
    BY <1>1, <1>2 DEF Finish, Goto, TypeOK, Waypoints
  <2>3. QED
    BY <1>1, <1>2, <2>1, <2>2, CodeUntouched
<1>3. ASSUME NEW p \in Procs, Finish(p)
      PROVE  \A q \in Procs \ {p} : fn'[q] = fn[q] /\ cfg'[q] = cfg[q] /\ inst'[q] = inst[q]
  BY <1>1, <1>3 DEF Finish, TypeOK
<1>4. ASSUME NEW w \in Workers, NEW f \in Functions, Validate(w, f)
      PROVE  CodeOK'
  <2>1. /\ pc[w] = "idle" /\ Goto(w, "acquire")
        /\ \A q \in Procs \ {w} : fn'[q] = fn[q] /\ cfg'[q] = cfg[q] /\ inst'[q] = inst[q]
        /\ UNCHANGED <<functions, disk, runs, pool>>
    BY <1>1, <1>4 DEF Validate, TypeOK
  <2>2. QED
    BY <1>1, <1>2, <2>1 DEF Waypoints
<1>5. ASSUME NEW p \in Invokers \cup Workers \cup Warmers,
             \/ AcquireMissing(p) \/ BootFails(p) \/ LoseResponse(p)
             \/ ReleaseUseless(p) \/ Release(p)
      PROVE  CodeOK'
  BY <1>1, <1>2, <1>3, <1>5 DEF AcquireMissing, BootFails, LoseResponse, ReleaseUseless, Release
<1>6. ASSUME NEW p \in Invokers \cup Workers, NEW f \in Functions, AcquireCold(p, f)
      PROVE  CodeOK'
  BY <1>1, <1>6, ReserveCode DEF AcquireCold
<1>7. ASSUME NEW p \in Invokers \cup Workers, NEW f \in Functions, NEW i \in Instances,
             AcquireIdle(p, f, i)
      PROVE  CodeOK'
  <2>1. /\ pc[p] # "object" /\ \E label : Goto(p, label) /\ label \notin Waypoints
        /\ UNCHANGED <<functions, disk, runs, pool>>
    BY <1>7 DEF AcquireIdle, Acquiring, Served, Waypoints
  <2>2. \A q \in Procs \ {p} : fn'[q] = fn[q] /\ cfg'[q] = cfg[q] /\ inst'[q] = inst[q]
    BY <1>1, <1>7 DEF AcquireIdle, TypeOK
  <2>3. QED
    BY <1>1, <1>2, <2>1, <2>2
<1>8. ASSUME NEW u \in Warmers, NEW f \in Functions, ColdStartOne(u, f)
      PROVE  CodeOK'
  BY <1>1, <1>8, ReserveCode DEF ColdStartOne
<1>9. ASSUME NEW w \in Workers, NEW l \in LeaseIds, Grant(w, l)
      PROVE  CodeOK'
  BY <1>1, <1>2, <1>9 DEF Grant, Waypoints
<1>10. ASSUME NEW w \in Workers, Receive(w) PROVE CodeOK'
  BY <1>1, <1>2, <1>10 DEF Receive, Waypoints
<1>11. ASSUME NEW S, RemoveAndStop(S)
       PROVE  \A f \in Functions : pool'[f] \subseteq pool[f]
  BY <1>11 DEF RemoveAndStop
<1>12. ASSUME NEW w \in Workers, NEW status \in LeaseStatuses, ReleaseInstance(w, status)
       PROVE  CodeOK'
  <2>1. \A f \in Functions : pool'[f] \subseteq pool[f]
    BY <1>11, <1>12 DEF ReleaseInstance
  <2>2. QED
    BY <1>1, <1>2, <1>3, <1>12, <2>1 DEF ReleaseInstance
<1>13. ASSUME \/ ReapExpiredLeases
              \/ \E S \in SUBSET (Pooled \ busy) : ReapIdle(S)
              \/ \E f \in Functions, i \in Instances : RemoveIdle(f, i)
              \/ \E l \in LeaseIds : DeadlinePasses(l)
              \/ \E i \in Instances : Stop(i)
              \/ UNCHANGED vars
       PROVE  CodeOK'
  <2>1. /\ \A f \in Functions : pool'[f] \subseteq pool[f]
        /\ UNCHANGED <<functions, disk, runs, pc, fn, cfg, inst>>
    BY <1>11, <1>13
       DEF ReapExpiredLeases, ReapIdle, RemoveIdle, DeadlinePasses, Stop, vars
  <2>2. QED
    BY <1>1, <2>1, CodeUntouched
<1>14. ASSUME NEW a \in Admins, NEW f \in Functions, Deregister(a, f)
       PROVE  CodeOK'
  <2>1. /\ pc[a] = "idle" /\ pc'[a] = "deregister" /\ fn'[a] = f
        /\ functions' = [functions EXCEPT ![f] = NoConfig]
        /\ pool' = [pool EXCEPT ![f] = {}]
        /\ \A q \in Procs \ {a} : /\ pc'[q] = pc[q] /\ fn'[q] = fn[q]
                                  /\ cfg'[q] = cfg[q] /\ inst'[q] = inst[q]
        /\ UNCHANGED <<disk, runs>>
    BY <1>1, <1>14 DEF Deregister, Enter, Goto, TakePool, TypeOK
  <2>2. pool'[f] = {} /\ \A g \in Functions \ {f} : pool'[g] = pool[g]
    BY <1>1, <2>1 DEF TypeOK
  <2>3. ASSUME NEW p \in Procs, InFlight(p) PROVE fn[p] # f
    <3>1. p # a /\ InFlight(p)' /\ fn'[p] = fn[p]
      BY <2>1, <2>3 DEF InFlight
    <3>2. QED
      BY <2>1, <3>1 DEF ColdStartsApart
  <2>4. QED
    BY <1>1, <2>1, <2>2, <2>3, ConfigureCode
<1>15. ASSUME NEW a \in Admins, NEW f \in Functions, NEW mq \in BOOLEAN, Register(a, f, mq)
       PROVE  CodeOK'
  <2> DEFINE c == [code |-> NoCode, mq |-> mq]
  <2>1. /\ pc[a] = "idle" /\ pc'[a] = "register" /\ fn'[a] = f /\ ~Registered(f)
        /\ functions' = [functions EXCEPT ![f] = c]
        /\ \A q \in Procs \ {a} : /\ pc'[q] = pc[q] /\ fn'[q] = fn[q]
                                  /\ cfg'[q] = cfg[q] /\ inst'[q] = inst[q]
        /\ UNCHANGED <<disk, runs, pool>>
    BY <1>1, <1>15 DEF Register, Enter, Goto, TypeOK
  <2>2. pool'[f] = {} /\ \A g \in Functions \ {f} : pool'[g] = pool[g]
    BY <2>1 DEF CodeOK, PoolCurrent
  <2>3. ASSUME NEW p \in Procs, InFlight(p), fn[p] = f PROVE FALSE
    <3>1. CASE pc[p] = "publish"
      BY <2>1, <2>3, <3>1 DEF CodeOK, StartsCurrent
    <3>2. CASE pc[p] = "boot"
      <4>1. cfg[p] = NoConfig /\ cfg[p] \in Configs
        BY <1>1, <2>1, <2>3, <3>2 DEF CodeOK, StartsCurrent, Registered, LocalsOK
      <4>2. QED
        BY <4>1, SchedulerAssumption
    <3>3. QED
      BY <2>3, <3>1, <3>2 DEF InFlight
  <2>4. c.code = NoCode
    OBVIOUS
  <2> HIDE DEF c
  <2>5. QED
    BY <1>1, <2>1, <2>2, <2>3, <2>4, ConfigureCode
<1>16. ASSUME NEW a \in Admins, NEW f \in Functions, NEW v \in Versions, UploadCode(a, f, v)
       PROVE  CodeOK'
  BY <1>1, <1>2, <1>16 DEF UploadCode, Enter, Waypoints, TypeOK
<1>17. ASSUME NEW a \in Admins,
              SaveRegistered(a) \/ DeleteStored(a) \/ SaveUploaded(a) \/ SaveUploadedFails(a)
       PROVE  CodeOK'
  BY <1>1, <1>2, <1>3, <1>17
     DEF SaveRegistered, DeleteStored, SaveUploaded, SaveUploadedFails, Leave
<1>18. ASSUME NEW a \in Admins, UploadFails(a)
       PROVE  CodeOK'
  <2>1. ~Docker
    BY <1>18 DEF UploadFails
  <2>2. QED
    BY <1>1, <1>2, <1>3, <1>18, <2>1 DEF UploadFails, Leave
<1>19. ASSUME NEW a \in Admins, RegisterFails(a)
       PROVE  CodeOK'
  <2>1. /\ pc[a] = "register" /\ pc'[a] = "idle" /\ fn[a] \in Functions
        /\ functions' = [functions EXCEPT ![fn[a]] = NoConfig]
        /\ \A q \in Procs \ {a} : /\ pc'[q] = pc[q] /\ fn'[q] = fn[q]
                                  /\ cfg'[q] = cfg[q] /\ inst'[q] = inst[q]
        /\ UNCHANGED <<disk, runs, pool>>
    BY <1>1, <1>19 DEF RegisterFails, Leave, Finish, Goto, TypeOK, LocalsOK
  <2>2. pool'[fn[a]] = {} /\ \A p \in Procs : InFlight(p) => fn[p] # fn[a]
    BY <2>1 DEF CodeOK, ColdStartsApart
  <2>3. QED
    BY <1>1, <2>1, <2>2, ConfigureCode
<1>20. ASSUME NEW a \in Admins, ApplyUpload(a)
       PROVE  CodeOK'
  <2>1. /\ pc[a] = "object" /\ pc'[a] = "upload" /\ fn[a] \in Functions
        /\ functions' = [functions EXCEPT ![fn[a]] = cfg[a]]
        /\ pool' = [pool EXCEPT ![fn[a]] = {}]
        /\ \A q \in Procs \ {a} : /\ pc'[q] = pc[q] /\ fn'[q] = fn[q]
                                  /\ cfg'[q] = cfg[q] /\ inst'[q] = inst[q]
        /\ UNCHANGED <<disk, runs>>
    BY <1>1, <1>20 DEF ApplyUpload, Goto, TakePool, TypeOK, LocalsOK
  <2>2. pool'[fn[a]] = {} /\ \A g \in Functions \ {fn[a]} : pool'[g] = pool[g]
    BY <1>1, <2>1 DEF TypeOK
  <2>3. \A p \in Procs : InFlight(p) => fn[p] # fn[a]
    BY <2>1 DEF ColdStartsApart
  <2>4. Docker => cfg[a].code = disk[fn[a]]
    BY <2>1 DEF CodeOK, DiskOK
  <2>5. QED
    BY <1>1, <2>1, <2>2, <2>3, <2>4, ConfigureCode
<1>21. ASSUME Restart PROVE CodeOK'
  <2>1. ~Docker
    BY <1>1, <1>21 DEF Restart, TypeOK
  <2>2. /\ \A f \in Functions : pool'[f] = {}
        /\ \A q \in Procs : pc'[q] \in {"idle", "using"}
    BY <1>21 DEF Restart, Survives
  <2>3. \A a \in Admins : pc'[a] # "register"
    BY <1>1, <2>2
  <2>4. QED
    BY <2>1, <2>2, <2>3 DEF CodeOK, PoolCurrent, StartsCurrent
<1>22. QED
  BY <1>1, <1>4, <1>5, <1>6, <1>7, <1>8, <1>9, <1>10, <1>12, <1>13, <1>14, <1>15, <1>16, <1>17,
     <1>18, <1>19, <1>20, <1>21, BootCode, PublishCode, SwapCode, Zenon DEF Next

\* What keeps an instance of older code out of the pool: that no cold start
\* overlaps a management call for its function.  With k8s that is all, whatever
\* fails and however often the gateway restarts.  With docker, where the code is a
\* directory of its own, it is all in one run of the gateway, if in addition no
\* two management calls overlap at one function and none fails half-way.
THEOREM CodeIsCurrent ==
  ASSUME Docker => MaxEpoch = 1 /\ "code" \notin Faults
  PROVE  Spec /\ []ColdStartsApart /\ [](Docker => CallsApart) => []RunsCurrentCode
<1>1. Init => CodeOK
  BY DEF Init, CodeOK, PoolCurrent, StartsCurrent, DiskOK, Registered, Procs
<1>2. IInv /\ ColdStartsApart /\ ColdStartsApart' /\ (Docker => CallsApart)
        /\ CodeOK /\ [Next]_vars => CodeOK'
  BY CodeStep
<1>3. CodeOK => RunsCurrentCode
  BY DEF CodeOK, PoolCurrent, RunsCurrentCode
<1>4. QED
  BY <1>1, <1>2, <1>3, Invariance, PTL DEF Spec
=============================================================================
