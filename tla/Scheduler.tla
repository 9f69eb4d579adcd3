------------------------------ MODULE Scheduler ------------------------------
(***************************************************************************)
(* gateway/scheduler/scheduler.go: the function registry, the pool of      *)
(* runtime instances, and the leases an MQ worker holds on an instance.    *)
(*                                                                         *)
(* Every critical section of the scheduler's mutex is one action, and so   *)
(* is every call that runs outside it (the backend's Start and Stop, the   *)
(* function store, the code store): the interleavings of the model are     *)
(* the interleavings of the goroutines.                                    *)
(*                                                                         *)
(* Abstractions.  A FunctionConfig is its code and whether it has an       *)
(* enabled mq trigger.  A pool is the set of its instances: the code takes *)
(* the first idle one in list order, the model any idle one.  Ages are     *)
(* left open: an idle instance may be past the 2 or the 5 minutes at any   *)
(* time, and a lease past its deadline.                                    *)
(***************************************************************************)
EXTENDS Integers, FiniteSets

CONSTANTS
  Functions,   \* function names
  Versions,    \* contents of an uploaded zip
  Invokers,    \* HTTP requests in the router (one goroutine each)
  Workers,     \* MQ messages in a worker, with the gateway's handler goroutine
  Warmers,     \* goroutines of ColdStartOne
  Admins,      \* management requests: register, deregister, upload
  LeaseIds,    \* lease uuids
  NoFunction, NoConfig, NoCode, NoLease,
  Docker,      \* TRUE: the docker backend, whose containers mount the code
               \* directory and bind their port on the host; FALSE: k8s, whose
               \* pods fetch the MinIO object their configuration names
  Faults,      \* which outside calls may fail (FaultKinds)
  MaxPort,     \* bound: cold starts of one run of the gateway
  MaxEpoch     \* bound: runs of the gateway (restarts + 1)

FaultKinds == {"start", "stop", "store", "code", "net"}
Procs == Invokers \cup Workers \cup Warmers \cup Admins
Codes == Versions \cup {NoCode}
Configs == [code : Codes, mq : BOOLEAN]

\* An instance is named by its port, and by the run of the gateway that
\* started it: nextPort starts again from its base after a restart.
Instances == (1 .. MaxEpoch) \X (1 .. MaxPort)
NoInst == <<0, 0>>

ASSUME SchedulerAssumption ==
  /\ MaxPort \in Nat
  /\ MaxEpoch \in Nat \ {0}
  /\ Docker \in BOOLEAN
  /\ Faults \subseteq FaultKinds
  /\ NoConfig \notin Configs
  /\ NoFunction \notin Functions
  /\ NoCode \notin Versions
  /\ NoLease \notin LeaseIds
  /\ Invokers \cap (Workers \cup Warmers \cup Admins) = {}
  /\ Workers \cap (Warmers \cup Admins) = {}
  /\ Warmers \cap Admins = {}

VARIABLES
  functions,   \* Scheduler.functions
  pool,        \* Scheduler.pool, per function the set of pooled instances
  busy,        \* instances whose container.state is stateBusy
  nextPort,    \* Scheduler.nextPort
  lease,       \* Scheduler.leases: lease id -> instance
  expired,     \* leases whose deadline has passed
  store,       \* the FunctionStore (MongoDB)
  disk,        \* the code directory /tmp/faas/<function>
  up,          \* instances running in the backend
  runs,        \* the function and the code an instance was created with
  stopping,    \* pending `go s.stop(id)`
  epoch,       \* which run of the gateway this is
  pc, fn, cfg, inst,  \* control point and locals of each goroutine
  held,        \* the lease a worker got
  victims      \* containers a management call has taken out of the pool

registryVars == <<functions, store, disk>>
backendVars  == <<up, runs, stopping>>
leaseVars    == <<lease, expired, held>>
poolVars     == <<pool, busy, nextPort>>
localVars    == <<pc, fn, cfg, inst>>
vars == <<registryVars, backendVars, leaseVars, poolVars, localVars,
          epoch, victims>>

-----------------------------------------------------------------------------
(* Helpers *)

Pooled == UNION {pool[f] : f \in Functions}
Registered(f) == functions[f] # NoConfig
Active(l) == lease[l] # NoInst

Goto(p, label) == pc' = [pc EXCEPT ![p] = label]
Finish(p) ==
  /\ Goto(p, "idle")
  /\ fn' = [fn EXCEPT ![p] = NoFunction]
  /\ cfg' = [cfg EXCEPT ![p] = NoConfig]
  /\ inst' = [inst EXCEPT ![p] = NoInst]

\* Where a goroutine goes once Acquire has given it an instance.
Served(p) == IF p \in Workers THEN "grant"
             ELSE IF p \in Invokers THEN "using" ELSE "idle"

\* The goroutine is about to enter Acquire for f.
Acquiring(p, f) ==
  \/ p \in Invokers /\ pc[p] = "idle"
  \/ p \in Workers /\ pc[p] = "acquire" /\ fn[p] = f

\* The instance's code: what the mounted directory holds, or the object the
\* configuration names.  Nothing is mounted before the first upload.
CodeAt(f, c) == IF c.code # NoCode /\ Docker THEN disk[f] ELSE c.code

\* The backend still runs a container or pod named after the same function and
\* port (or, under docker, one bound to the same host port).
NameTaken(f, i) == \E j \in up : j[2] = i[2] /\ (Docker \/ runs[j].fn = f)

\* Lease timeouts in seconds; maxDefault is MAX_FUNCTION_TIMEOUT_SECONDS.
ClampLeaseTimeout(requested, functionTimeout, maxDefault) ==
  LET max == IF functionTimeout > 0 THEN functionTimeout
             ELSE IF maxDefault > 0 THEN maxDefault ELSE 300
      asked == IF requested > 0 THEN requested
               ELSE IF functionTimeout > 0 THEN functionTimeout ELSE 30
  IN IF asked > max THEN max ELSE asked

Init ==
  /\ functions = [f \in Functions |-> NoConfig]
  /\ store = [f \in Functions |-> NoConfig]
  /\ disk = [f \in Functions |-> NoCode]
  /\ pool = [f \in Functions |-> {}]
  /\ busy = {}
  /\ nextPort = 1
  /\ lease = [l \in LeaseIds |-> NoInst]
  /\ expired = {}
  /\ held = [w \in Workers |-> NoLease]
  /\ up = {}
  /\ runs = [i \in Instances |-> [fn |-> NoFunction, code |-> NoCode]]
  /\ stopping = {}
  /\ epoch = 1
  /\ pc = [p \in Procs |-> "idle"]
  /\ fn = [p \in Procs |-> NoFunction]
  /\ cfg = [p \in Procs |-> NoConfig]
  /\ inst = [p \in Procs |-> NoInst]
  /\ victims = [a \in Admins |-> {}]

-----------------------------------------------------------------------------
(* Acquiring an instance *)

\* AcquireInstance up to its call of Acquire: look the function up and check
\* that the message's trigger is one of its triggers.  Otherwise 404 or 400.
Validate(w, f) ==
  /\ pc[w] = "idle"
  /\ Registered(f)
  /\ functions[f].mq
  /\ Goto(w, "acquire")
  /\ fn' = [fn EXCEPT ![w] = f]
  /\ UNCHANGED <<registryVars, backendVars, leaseVars, poolVars, cfg, inst,
                 epoch, victims>>

\* Acquire, function gone since it was validated (404 to the worker).
AcquireMissing(w) ==
  /\ pc[w] = "acquire"
  /\ ~Registered(fn[w])
  /\ Finish(w)
  /\ UNCHANGED <<registryVars, backendVars, leaseVars, poolVars, epoch, victims>>

\* Mutant: the idle instance is handed out without being marked busy.
AcquireIdleUnmarked(p, f, i) ==
  /\ Acquiring(p, f)
  /\ Registered(f)
  /\ i \in pool[f] \ busy
  /\ Goto(p, Served(p))
  /\ fn' = [fn EXCEPT ![p] = f]
  /\ inst' = [inst EXCEPT ![p] = i]
  /\ UNCHANGED <<registryVars, backendVars, leaseVars, poolVars, cfg, epoch, victims>>

\* Acquire, first critical section, with an idle instance in the pool.
AcquireIdle(p, f, i) ==
  /\ Acquiring(p, f)
  /\ Registered(f)
  /\ i \in pool[f] \ busy
  /\ busy' = busy \cup {i}
  /\ Goto(p, Served(p))
  /\ fn' = [fn EXCEPT ![p] = f]
  /\ inst' = [inst EXCEPT ![p] = i]
  /\ UNCHANGED <<registryVars, backendVars, leaseVars, pool, nextPort, cfg,
                 epoch, victims>>

\* Take a port and copy the configuration; the rest runs outside the lock.
ReservePort(p, f) ==
  /\ nextPort <= MaxPort
  /\ nextPort' = nextPort + 1
  /\ inst' = [inst EXCEPT ![p] = <<epoch, nextPort>>]
  /\ cfg' = [cfg EXCEPT ![p] = functions[f]]
  /\ fn' = [fn EXCEPT ![p] = f]
  /\ Goto(p, "boot")
  /\ UNCHANGED <<registryVars, backendVars, leaseVars, pool, busy, epoch, victims>>

\* Acquire, first critical section, with no idle instance: a cold start.
AcquireCold(p, f) ==
  /\ Acquiring(p, f)
  /\ Registered(f)
  /\ pool[f] \subseteq busy
  /\ ReservePort(p, f)

\* ColdStartOne: a cold start of its own, for the autoscaler.
ColdStartOne(u, f) ==
  /\ pc[u] = "idle"
  /\ Registered(f)
  /\ ReservePort(u, f)

\* RuntimeBackend.Start returned an instance.
Boot(p) ==
  /\ pc[p] = "boot"
  /\ ~NameTaken(fn[p], inst[p])
  /\ up' = up \cup {inst[p]}
  /\ runs' = [runs EXCEPT ![inst[p]] =
                [fn |-> fn[p], code |-> CodeAt(fn[p], cfg[p])]]
  /\ cfg' = [cfg EXCEPT ![p] = NoConfig]
  /\ Goto(p, "publish")
  /\ UNCHANGED <<registryVars, stopping, leaseVars, poolVars, fn, inst, epoch, victims>>

\* RuntimeBackend.Start failed, with nothing left running.
BootFails(p) ==
  /\ pc[p] = "boot"
  /\ "start" \in Faults \/ NameTaken(fn[p], inst[p])
  /\ Finish(p)
  /\ UNCHANGED <<registryVars, backendVars, leaseVars, poolVars, epoch, victims>>

\* Start gave up on an instance that was not ready in time, and its own Stop,
\* whose error it ignores, failed too: an instance nobody knows.
BootLeaks(p) ==
  /\ pc[p] = "boot"
  /\ {"start", "stop"} \subseteq Faults
  /\ ~NameTaken(fn[p], inst[p])
  /\ up' = up \cup {inst[p]}
  /\ runs' = [runs EXCEPT ![inst[p]] =
                [fn |-> fn[p], code |-> CodeAt(fn[p], cfg[p])]]
  /\ Finish(p)
  /\ UNCHANGED <<registryVars, stopping, leaseVars, poolVars, epoch, victims>>

\* Mutant: ColdStartOne starts its container in stateBusy.
PublishBusy(p) ==
  /\ pc[p] = "publish"
  /\ pool' = [pool EXCEPT ![fn[p]] = @ \cup {inst[p]}]
  /\ busy' = busy \cup {inst[p]}
  /\ IF p \in Warmers THEN Finish(p)
     ELSE Goto(p, Served(p)) /\ UNCHANGED <<fn, cfg, inst>>
  /\ UNCHANGED <<registryVars, backendVars, leaseVars, nextPort, epoch, victims>>

\* Second critical section of Acquire and of ColdStartOne: append to the pool,
\* whatever happened to the function since the port was taken.
Publish(p) ==
  /\ pc[p] = "publish"
  /\ pool' = [pool EXCEPT ![fn[p]] = @ \cup {inst[p]}]
  /\ IF p \in Warmers
     THEN /\ Finish(p)
          /\ UNCHANGED busy
     ELSE /\ busy' = busy \cup {inst[p]}
          /\ Goto(p, Served(p))
          /\ UNCHANGED <<fn, cfg, inst>>
  /\ UNCHANGED <<registryVars, backendVars, leaseVars, nextPort, epoch, victims>>

\* AcquireInstance, after Acquire: record the lease under a fresh uuid.
Grant(w, l) ==
  /\ pc[w] = "grant"
  /\ ~Active(l)
  /\ \A v \in Workers : held[v] # l
  /\ lease' = [lease EXCEPT ![l] = inst[w]]
  /\ held' = [held EXCEPT ![w] = l]
  /\ Goto(w, "leased")
  /\ UNCHANGED <<registryVars, backendVars, expired, poolVars, fn, cfg, inst,
                 epoch, victims>>

\* The worker gets the answer and sends its message to the instance.
Receive(w) ==
  /\ pc[w] = "leased"
  /\ Goto(w, "using")
  /\ UNCHANGED <<registryVars, backendVars, leaseVars, poolVars, fn, cfg, inst,
                 epoch, victims>>

\* The worker has given up waiting (10 s; a cold start may take 60 s): nobody
\* knows the lease any more.
LoseResponse(w) ==
  /\ pc[w] = "leased"
  /\ "net" \in Faults
  /\ Finish(w)
  /\ held' = [held EXCEPT ![w] = NoLease]
  /\ UNCHANGED <<registryVars, backendVars, lease, expired, poolVars, epoch, victims>>

-----------------------------------------------------------------------------
(* Giving an instance back *)

\* Mutant: Release returns the container to the pool it came from.
ReleaseToPool(h) ==
  /\ h \in Invokers /\ pc[h] = "using"
  /\ busy' = busy \ {inst[h]}
  /\ pool' = [pool EXCEPT ![fn[h]] = @ \cup {inst[h]}]
  /\ Finish(h)
  /\ UNCHANGED <<registryVars, backendVars, leaseVars, nextPort, epoch, victims>>

\* Mutant: an error path of the router that forgets the release.
ReleaseForgotten(h) ==
  /\ h \in Invokers /\ pc[h] = "using"
  /\ Finish(h)
  /\ UNCHANGED <<registryVars, backendVars, leaseVars, poolVars, epoch, victims>>

\* The router's deferred Release, on every path out of an HTTP invocation.
Release(h) ==
  /\ h \in Invokers /\ pc[h] = "using"
  /\ busy' = busy \ {inst[h]}
  /\ Finish(h)
  /\ UNCHANGED <<registryVars, backendVars, leaseVars, pool, nextPort, epoch, victims>>

Retiring(status) == status \in {"timeout", "abandoned"}
LeaseStatuses == {"success", "error", "timeout", "abandoned"}

\* releaseInstanceLocked, for every lease of L at once.
DropLeases(L) ==
  /\ lease' = [l \in LeaseIds |-> IF l \in L THEN NoInst ELSE lease[l]]
  /\ expired' = expired \ L

\* removeInstanceLocked and, after the unlock, `go s.stop`.
RemoveAndStop(S) ==
  /\ pool' = [f \in Functions |-> pool[f] \ S]
  /\ stopping' = stopping \cup S
  /\ UNCHANGED busy

\* Mutant: the record's instance is read after the record was deleted.
ReleaseInstanceLate(w, status) ==
  /\ pc[w] = "using"
  /\ Active(held[w])
  /\ DropLeases({held[w]})
  /\ IF Retiring(status)
     THEN RemoveAndStop({lease'[held[w]]})
     ELSE /\ busy' = busy \ {lease[held[w]]}
          /\ UNCHANGED <<pool, stopping>>
  /\ Finish(w)
  /\ held' = [held EXCEPT ![w] = NoLease]
  /\ UNCHANGED <<registryVars, up, runs, nextPort, epoch, victims>>

\* The worker is done with its message and releases its lease: the instance
\* becomes idle, or leaves the pool if the invocation timed out.
ReleaseInstance(w, status) ==
  /\ pc[w] = "using"
  /\ Active(held[w])
  /\ DropLeases({held[w]})
  /\ IF Retiring(status)
     THEN RemoveAndStop({lease[held[w]]})
     ELSE /\ busy' = busy \ {lease[held[w]]}
          /\ UNCHANGED <<pool, stopping>>
  /\ Finish(w)
  /\ held' = [held EXCEPT ![w] = NoLease]
  /\ UNCHANGED <<registryVars, up, runs, nextPort, epoch, victims>>

\* The release finds no lease (it expired, or the gateway restarted: 404), or
\* never reaches the gateway.  The worker moves on in either case.
ReleaseUseless(w) ==
  /\ pc[w] = "using"
  /\ ~Active(held[w]) \/ "net" \in Faults
  /\ Finish(w)
  /\ held' = [held EXCEPT ![w] = NoLease]
  /\ UNCHANGED <<registryVars, backendVars, lease, expired, poolVars, epoch, victims>>

\* Time passes: now is after the lease's deadline.
DeadlinePasses(l) ==
  /\ Active(l)
  /\ l \notin expired
  /\ expired' = expired \cup {l}
  /\ UNCHANGED <<registryVars, backendVars, lease, held, poolVars, localVars,
                 epoch, victims>>

\* Mutant: an expired lease gives its instance back as if the call had failed.
ReapToIdle ==
  /\ DropLeases(expired)
  /\ busy' = busy \ {lease[l] : l \in expired}
  /\ UNCHANGED <<registryVars, backendVars, held, pool, nextPort, localVars,
                 epoch, victims>>

\* Mutant: the sweep goes over the pool, and misses the leases whose instance
\* an upload or a deregistration has taken out of it.
ReapPooledOnly ==
  LET found == {l \in expired : lease[l] \in Pooled}
  IN /\ DropLeases(found)
     /\ RemoveAndStop({lease[l] : l \in found})
     /\ UNCHANGED <<registryVars, up, runs, held, nextPort, localVars, epoch, victims>>

\* The reaper's first half: every expired lease is released as timed out.
ReapExpiredLeases ==
  /\ DropLeases(expired)
  /\ RemoveAndStop({lease[l] : l \in expired})
  /\ UNCHANGED <<registryVars, up, runs, held, nextPort, localVars, epoch, victims>>

\* The reaper's second half: the idle instances S are older than 5 minutes.
ReapIdle(S) ==
  /\ S \subseteq Pooled \ busy
  /\ RemoveAndStop(S)
  /\ UNCHANGED <<registryVars, up, runs, leaseVars, nextPort, localVars, epoch, victims>>

\* RemoveIdle, for the autoscaler: the oldest idle instance, if 2 minutes old.
RemoveIdle(f, i) ==
  /\ i \in pool[f] \ busy
  /\ RemoveAndStop({i})
  /\ UNCHANGED <<registryVars, up, runs, leaseVars, nextPort, localVars, epoch, victims>>

\* A pending stop reaches the backend, or fails and is not tried again.
Stop(i) ==
  /\ i \in stopping
  /\ stopping' = stopping \ {i}
  /\ \/ up' = up \ {i}
     \/ "stop" \in Faults /\ UNCHANGED up
  /\ UNCHANGED <<registryVars, runs, leaseVars, poolVars, localVars, epoch, victims>>

-----------------------------------------------------------------------------
(* Management: register, deregister, upload code *)

\* The two ends of a management call: it enters with what it has read, and it
\* leaves with the containers C handed to `go s.stop`.
Enter(a, f, c, label) ==
  /\ pc[a] = "idle"
  /\ Goto(a, label)
  /\ fn' = [fn EXCEPT ![a] = f]
  /\ cfg' = [cfg EXCEPT ![a] = c]
  /\ UNCHANGED inst
Leave(a, C) ==
  /\ Finish(a)
  /\ stopping' = stopping \cup C
  /\ victims' = [victims EXCEPT ![a] = {}]
  /\ UNCHANGED <<up, runs>>

\* Mutant: the containers are copied, and stay in the pool.
CopyPool(a, f) ==
  /\ victims' = [victims EXCEPT ![a] = pool[f]]
  /\ UNCHANGED poolVars

\* Take every container of f out of the pool, to stop it later.
TakePool(a, f) ==
  /\ victims' = [victims EXCEPT ![a] = pool[f]]
  /\ pool' = [pool EXCEPT ![f] = {}]
  /\ UNCHANGED <<busy, nextPort>>

Register(a, f, mq) ==
  /\ ~Registered(f)
  /\ functions' = [functions EXCEPT ![f] = [code |-> NoCode, mq |-> mq]]
  /\ Enter(a, f, [code |-> NoCode, mq |-> mq], "register")
  /\ UNCHANGED <<store, disk, backendVars, leaseVars, poolVars, epoch, victims>>

SaveRegistered(a) ==
  /\ pc[a] = "register"
  /\ store' = [store EXCEPT ![fn[a]] = cfg[a]]
  /\ Leave(a, {})
  /\ UNCHANGED <<functions, disk, leaseVars, poolVars, epoch>>

\* The store refused: roll the registration back.
RegisterFails(a) ==
  /\ pc[a] = "register"
  /\ "store" \in Faults
  /\ functions' = [functions EXCEPT ![fn[a]] = NoConfig]
  /\ Leave(a, {})
  /\ UNCHANGED <<store, disk, leaseVars, poolVars, epoch>>

\* Deregister never looks whether the function is registered.
Deregister(a, f) ==
  /\ functions' = [functions EXCEPT ![f] = NoConfig]
  /\ TakePool(a, f)
  /\ Enter(a, f, NoConfig, "deregister")
  /\ UNCHANGED <<store, disk, backendVars, leaseVars, epoch>>

\* Mutant: Deregister stops the containers and leaves the metadata.
DeleteNothing(a) ==
  /\ pc[a] = "deregister"
  /\ Leave(a, victims[a])
  /\ UNCHANGED <<registryVars, leaseVars, poolVars, epoch>>

\* Delete the metadata (an error is only logged), then stop the containers.
DeleteStored(a) ==
  /\ pc[a] = "deregister"
  /\ \/ store' = [store EXCEPT ![fn[a]] = NoConfig]
     \/ "store" \in Faults /\ UNCHANGED store
  /\ Leave(a, victims[a])
  /\ UNCHANGED <<functions, disk, leaseVars, poolVars, epoch>>

\* UploadCode copies the configuration under the lock and lets go of it.
UploadCode(a, f, v) ==
  /\ Registered(f)
  /\ Enter(a, f, [functions[f] EXCEPT !.code = v], "unpack")
  /\ UNCHANGED <<registryVars, backendVars, leaseVars, poolVars, epoch, victims>>

\* Unpack the zip and swap the code directory.
SwapDirectory(a) ==
  /\ pc[a] = "unpack"
  /\ disk' = [disk EXCEPT ![fn[a]] = cfg[a].code]
  /\ Goto(a, "object")
  /\ UNCHANGED <<functions, store, backendVars, leaseVars, poolVars,
                 fn, cfg, inst, epoch, victims>>

\* A bad zip, a full disk, or the object store failing: an early return.
UploadFails(a) ==
  /\ pc[a] \in {"unpack", "object"}
  /\ "code" \in Faults
  /\ Leave(a, {})
  /\ UNCHANGED <<registryVars, leaseVars, poolVars, epoch>>

\* The object is stored: publish the configuration read at the start, with the
\* new code in it, and take the old containers out of the pool.
ApplyUpload(a) ==
  /\ pc[a] = "object"
  /\ functions' = [functions EXCEPT ![fn[a]] = cfg[a]]
  /\ TakePool(a, fn[a])
  /\ Goto(a, "upload")
  /\ UNCHANGED <<store, disk, backendVars, leaseVars, fn, cfg, inst, epoch>>

\* Mutant: the loop that stops the old containers is dropped.
SaveUploadedOnly(a) ==
  /\ pc[a] = "upload"
  /\ store' = [store EXCEPT ![fn[a]] = cfg[a]]
  /\ Leave(a, {})
  /\ UNCHANGED <<functions, disk, leaseVars, poolVars, epoch>>

\* Save the metadata, then stop the old containers.
SaveUploaded(a) ==
  /\ pc[a] = "upload"
  /\ store' = [store EXCEPT ![fn[a]] = cfg[a]]
  /\ Leave(a, victims[a])
  /\ UNCHANGED <<functions, disk, leaseVars, poolVars, epoch>>

\* The store refused: UploadCode returns before its loop over the containers.
SaveUploadedFails(a) ==
  /\ pc[a] = "upload"
  /\ "store" \in Faults
  /\ Leave(a, {})
  /\ UNCHANGED <<registryVars, leaseVars, poolVars, epoch>>

-----------------------------------------------------------------------------
(* Restart of the gateway: New() reloads the functions; the pool, the leases,
   the pending stops and every goroutine are gone; instances run on, and so
   do the workers that have one. *)

Survives(p) == p \in Workers /\ pc[p] = "using"

\* Mutant: the pool survives the restart, its containers marked idle.
RestartKeepingPool ==
  /\ epoch < MaxEpoch
  /\ epoch' = epoch + 1
  /\ functions' = store
  /\ busy' = {}
  /\ nextPort' = 1
  /\ lease' = [l \in LeaseIds |-> NoInst]
  /\ expired' = {}
  /\ stopping' = {}
  /\ pc' = [p \in Procs |-> IF Survives(p) THEN pc[p] ELSE "idle"]
  /\ fn' = [p \in Procs |-> IF Survives(p) THEN fn[p] ELSE NoFunction]
  /\ inst' = [p \in Procs |-> IF Survives(p) THEN inst[p] ELSE NoInst]
  /\ cfg' = [p \in Procs |-> NoConfig]
  /\ held' = [w \in Workers |-> IF Survives(w) THEN held[w] ELSE NoLease]
  /\ victims' = [a \in Admins |-> {}]
  /\ UNCHANGED <<pool, store, disk, up, runs>>

Restart ==
  /\ epoch < MaxEpoch
  /\ epoch' = epoch + 1
  /\ functions' = store
  /\ pool' = [f \in Functions |-> {}]
  /\ busy' = {}
  /\ nextPort' = 1
  /\ lease' = [l \in LeaseIds |-> NoInst]
  /\ expired' = {}
  /\ stopping' = {}
  /\ pc' = [p \in Procs |-> IF Survives(p) THEN pc[p] ELSE "idle"]
  /\ fn' = [p \in Procs |-> IF Survives(p) THEN fn[p] ELSE NoFunction]
  /\ inst' = [p \in Procs |-> IF Survives(p) THEN inst[p] ELSE NoInst]
  /\ cfg' = [p \in Procs |-> NoConfig]
  /\ held' = [w \in Workers |-> IF Survives(w) THEN held[w] ELSE NoLease]
  /\ victims' = [a \in Admins |-> {}]
  /\ UNCHANGED <<store, disk, up, runs>>

-----------------------------------------------------------------------------
Next ==
  \/ \E w \in Workers, f \in Functions : Validate(w, f)
  \/ \E w \in Workers : AcquireMissing(w)
  \/ \E p \in Invokers \cup Workers, f \in Functions :
       AcquireCold(p, f) \/ \E i \in Instances : AcquireIdle(p, f, i)
  \/ \E u \in Warmers, f \in Functions : ColdStartOne(u, f)
  \/ \E p \in Invokers \cup Workers \cup Warmers :
       Boot(p) \/ BootFails(p) \/ BootLeaks(p) \/ Publish(p)
  \/ \E w \in Workers, l \in LeaseIds : Grant(w, l)
  \/ \E w \in Workers : Receive(w) \/ LoseResponse(w) \/ ReleaseUseless(w)
  \/ \E w \in Workers, status \in LeaseStatuses : ReleaseInstance(w, status)
  \/ \E h \in Invokers : Release(h)
  \/ \E l \in LeaseIds : DeadlinePasses(l)
  \/ ReapExpiredLeases
  \/ \E S \in SUBSET (Pooled \ busy) : ReapIdle(S)
  \/ \E f \in Functions, i \in Instances : RemoveIdle(f, i)
  \/ \E i \in Instances : Stop(i)
  \/ \E a \in Admins, f \in Functions :
       \/ Deregister(a, f)
       \/ \E mq \in BOOLEAN : Register(a, f, mq)
       \/ \E v \in Versions : UploadCode(a, f, v)
  \/ \E a \in Admins :
       \/ SaveRegistered(a) \/ RegisterFails(a) \/ DeleteStored(a)
       \/ SwapDirectory(a) \/ UploadFails(a) \/ ApplyUpload(a)
       \/ SaveUploaded(a) \/ SaveUploadedFails(a)
  \/ Restart

Spec == Init /\ [][Next]_vars

\* What the code's scheduling guarantees: goroutines run, the backend and the
\* stores answer, the router's context times out (so an HTTP invocation ends),
\* time passes and the reaper ticks.  Nothing makes a worker release.
Fairness ==
  /\ \A p \in Invokers \cup Workers \cup Warmers :
       WF_vars(Boot(p) \/ BootFails(p) \/ BootLeaks(p)) /\ WF_vars(Publish(p))
  /\ \A w \in Workers :
       /\ WF_vars(AcquireMissing(w) \/ \E f \in Functions :
                    AcquireCold(w, f) \/ \E i \in Instances : AcquireIdle(w, f, i))
       /\ WF_vars(\E l \in LeaseIds : Grant(w, l))
       /\ WF_vars(Receive(w) \/ LoseResponse(w))
  /\ \A h \in Invokers : WF_vars(Release(h))
  /\ \A l \in LeaseIds : WF_vars(DeadlinePasses(l))
  /\ WF_vars(ReapExpiredLeases)
  /\ \A i \in Instances : WF_vars(Stop(i))
  /\ \A a \in Admins :
       /\ WF_vars(SaveRegistered(a) \/ RegisterFails(a) \/ DeleteStored(a))
       /\ WF_vars(SwapDirectory(a) \/ UploadFails(a))
       /\ WF_vars(ApplyUpload(a) \/ UploadFails(a))
       /\ WF_vars(SaveUploaded(a) \/ SaveUploadedFails(a))

FairSpec == Spec /\ Fairness

-----------------------------------------------------------------------------
(* Properties *)

Labels == {"idle", "acquire", "boot", "publish", "grant", "leased", "using",
           "register", "deregister", "unpack", "object", "upload"}

TypeOK ==
  /\ functions \in [Functions -> Configs \cup {NoConfig}]
  /\ store \in [Functions -> Configs \cup {NoConfig}]
  /\ disk \in [Functions -> Codes]
  /\ pool \in [Functions -> SUBSET Instances]
  /\ busy \subseteq Instances
  /\ nextPort \in 1 .. MaxPort + 1
  /\ lease \in [LeaseIds -> Instances \cup {NoInst}]
  /\ expired \subseteq LeaseIds
  /\ held \in [Workers -> LeaseIds \cup {NoLease}]
  /\ up \subseteq Instances
  /\ runs \in [Instances -> [fn : Functions \cup {NoFunction}, code : Codes]]
  /\ stopping \subseteq Instances
  /\ epoch \in 1 .. MaxEpoch
  /\ pc \in [Procs -> Labels]
  /\ fn \in [Procs -> Functions \cup {NoFunction}]
  /\ cfg \in [Procs -> Configs \cup {NoConfig}]
  /\ inst \in [Procs -> Instances \cup {NoInst}]
  /\ victims \in [Admins -> SUBSET Instances]

\* A goroutine that holds an instance: from Acquire's answer to the release.
Holds(p) == pc[p] \in {"grant", "leased", "using"}

\* No two callers ever have the same instance: neither two HTTP requests, nor
\* two workers, nor one of each, even after a lease has expired under its
\* worker; nor do two leases, or a lease and somebody else, name one instance.
OneHolder ==
  /\ \A p, q \in Procs : Holds(p) /\ Holds(q) /\ inst[p] = inst[q] => p = q
  /\ \A l, m \in LeaseIds : Active(l) /\ lease[l] = lease[m] => l = m
  /\ \A l \in LeaseIds, p \in Procs :
       Active(l) /\ Holds(p) /\ inst[p] = lease[l] => p \in Workers /\ held[p] = l

\* What the scheduler would hand out next, an idle instance of the pool, has no
\* holder and no lease.
IdleIsFree ==
  \A i \in Pooled \ busy :
    /\ \A p \in Procs : Holds(p) => inst[p] # i
    /\ \A l \in LeaseIds : lease[l] # i

\* Conversely no instance of the pool is stuck busy: a request holds it, or a
\* lease that the reaper will find.
BusyIsAccounted ==
  \A i \in Pooled \cap busy :
    \/ \E p \in Procs : Holds(p) /\ inst[p] = i
    \/ \E l \in LeaseIds : lease[l] = i

\* The pool never offers an instance that has been stopped, that is about to
\* be, or that a management call in progress will stop; all of them run.
StoppedNeverPooled ==
  /\ Pooled \subseteq up
  /\ Pooled \cap stopping = {}
  /\ \A a \in Admins : Pooled \cap victims[a] = {}

\* The exclusive-use promise, and that a retired instance is never handed out
\* again: the pool implements ExclusiveUse.
Reserved(i) == i[1] < epoch \/ (i[1] = epoch /\ i[2] < nextPort)
InFlight(p) == pc[p] \in {"boot", "publish"}
Retired == {i \in Instances :
  /\ Reserved(i)
  /\ i \notin Pooled
  /\ \A p \in Procs : InFlight(p) => inst[p] # i}
UserOf(i) == IF \E p \in Procs : Holds(p) /\ inst[p] = i
             THEN CHOOSE p \in Procs : Holds(p) /\ inst[p] = i
             ELSE NoLease
Abstract == INSTANCE ExclusiveUse WITH
  Users <- Procs, Nobody <- NoLease,
  user <- [i \in Instances |-> UserOf(i)], retired <- Retired
ImplementsExclusiveUse == Abstract!AbstractSpec

\* With one management call at a time and a store that answers, the registry in
\* memory and the one in the store agree whenever no call is in progress,
\* restarts included.
RegistryDurable == (\A a \in Admins : pc[a] = "idle") => store = functions

\* README.md:514 and gateway/README.md:152: once an upload has returned, calls
\* run the new code.
RunsCurrentCode ==
  \A f \in Functions :
    Registered(f) /\ (\A a \in Admins : fn[a] # f)
      => \A i \in pool[f] : runs[i].code = functions[f].code

\* Every lease ends, whatever becomes of its worker: released or reaped.
LeasesEnd ==
  \A l \in LeaseIds, i \in Instances : lease[l] = i ~> lease[l] # i

\* An instance in the pool never stays busy forever.
BusyEnds == \A i \in Instances : i \in Pooled \cap busy ~> i \notin Pooled \cap busy

\* An instance that leaves the pool is eventually stopped: the gateway leaks
\* none, unless it restarts first.
RetiredStops ==
  \A i \in Instances :
    (i \in Retired /\ i[1] = epoch) ~> (i \notin up \/ i[1] # epoch)
-----------------------------------------------------------------------------
(* The inductive invariant behind OneHolder, IdleIsFree and StoppedNeverPooled *)

Attached(p) == InFlight(p) \/ Holds(p)

\* What the control point of a goroutine says of its locals.
LocalsOK ==
  /\ \A p \in Procs :
       /\ Attached(p) => inst[p] \in Instances /\ p \notin Admins
       /\ pc[p] \in {"acquire", "grant", "leased"} => p \in Workers
       /\ pc[p] = "using" => p \in Invokers \cup Workers
       /\ pc[p] \in {"register", "deregister", "unpack", "object", "upload"} => p \in Admins
       /\ pc[p] \notin {"idle", "grant", "leased", "using"} => fn[p] \in Functions
       /\ pc[p] \in {"boot", "register", "unpack", "object", "upload"} => cfg[p] \in Configs
  /\ \A w \in Workers : held[w] \in LeaseIds <=> pc[w] \in {"leased", "using"}
  /\ \A l \in expired : Active(l)

\* Every instance a caller is attached to, alone; none in flight is known to
\* anybody else.
HoldersOK ==
  /\ \A p, q \in Procs : Attached(p) /\ Attached(q) /\ inst[p] = inst[q] => p = q
  /\ \A p \in Procs : Attached(p) => Reserved(inst[p])
  /\ \A p \in Procs : InFlight(p) =>
       /\ inst[p] \notin Pooled \cup stopping
       /\ \A l \in LeaseIds : lease[l] # inst[p]
       /\ \A a \in Admins : inst[p] \notin victims[a]
       /\ pc[p] = "publish" => inst[p] \in up
  /\ \A p \in Procs : Holds(p) /\ inst[p] \in Pooled => inst[p] \in busy

\* A live lease is its worker's (or nobody's, if the answer was lost), and its
\* instance is busy as long as it is in the pool.
LeasesOK ==
  /\ \A l \in LeaseIds : Active(l) =>
       /\ Reserved(lease[l])
       /\ lease[l] \in Pooled => lease[l] \in busy
  /\ \A l, m \in LeaseIds : Active(l) /\ lease[l] = lease[m] => l = m
  /\ \A l \in LeaseIds, p \in Procs :
       Active(l) /\ Holds(p) /\ inst[p] = lease[l] => p \in Workers /\ held[p] = l
  /\ \A w \in Workers :
       held[w] \in LeaseIds /\ Active(held[w]) => lease[held[w]] = inst[w]
  /\ \A v, w \in Workers : held[v] \in LeaseIds /\ held[v] = held[w] => v = w

\* What is in the pool runs, and no one is about to stop it.
PoolOK ==
  /\ \A f, g \in Functions : f # g => pool[f] \cap pool[g] = {}
  /\ \A i \in Pooled :
       /\ Reserved(i) /\ i \in up /\ i \notin stopping
       /\ \A a \in Admins : i \notin victims[a]
  /\ \A i \in stopping : Reserved(i)
  /\ \A a \in Admins : \A i \in victims[a] : Reserved(i)

IInv == TypeOK /\ LocalsOK /\ HoldersOK /\ LeasesOK /\ PoolOK
=============================================================================
