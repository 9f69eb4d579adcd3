---------------------------- MODULE TriggerReconcile ----------------------------
(***************************************************************************)
(* mqsvc: which triggers have a consumer (main.go), and how the consumers  *)
(* of one MQ instance share its connection (the outer loop of Subscribe in *)
(* rabbitmq.go).  What a subscribed consumer does is in MQDelivery.        *)
(*                                                                         *)
(* A trigger is known by its key; its definition, all that sameTrigger     *)
(* compares, is one value.  The keys in Unknown name an mq_id that mqsvc   *)
(* has no instance for.  A task is the goroutine of startConsumer: it is   *)
(* in the map of consumers from its start, it is cancelled by the          *)
(* reconciliation, and it ends some time later.                            *)
(*                                                                         *)
(* The first sync is Start's.  If it fails, mqsvc may exit: it has no      *)
(* consumer yet, so when started again it is where its loop would be.      *)
(***************************************************************************)
EXTENDS Naturals, FiniteSets

CONSTANTS
  Keys,         \* triggerKey of the triggers, in the order of sort.Strings
  Unknown,      \* those whose mq_id has no MQInstance
  Definitions,  \* what a trigger may be defined to be
  Offers,       \* bound: the definitions that users give each trigger
  Local,        \* cfg.Triggers: the definition of each key, or None
  Tasks,        \* bound: goroutines of startConsumer at a time
  MaxChanges,   \* bound: changes of triggers at the gateway
  MaxFaults,    \* bound: faults of the network
  None

\* validateConfig: the file's own triggers name instances of the file.
ValidConfig == \A k \in Unknown : Local[k] = None

ASSUME ReconcileAssumption ==
  /\ Keys \subseteq Nat /\ IsFiniteSet(Keys)
  /\ Tasks \subseteq Nat /\ IsFiniteSet(Tasks)
  /\ Unknown \subseteq Keys
  /\ None \notin Definitions /\ None \notin [def : Definitions, task : Tasks]
  /\ Local \in [Keys -> Definitions \union {None}]
  /\ ValidConfig
  /\ Offers \in [Keys -> SUBSET Definitions]
  /\ MaxChanges \in Nat /\ MaxFaults \in Nat

VARIABLES
  registered,  \* the enabled triggers the gateway has
  sync,        \* syncTriggers: "idle", "reconcile" or "starting"
  list,        \* the triggers it has fetched and merged
  todo,        \* the keys it still has to start a consumer for
  consumers,   \* s.consumers: definition and task of each key, or None
  listed,      \* s.triggers: what /triggers shows
  broker,      \* the MQ instance has a Broker in s.brokers
  conn,        \* its connection is open
  task,        \* the goroutines
  twins,       \* history: keys whose consumer was started while an earlier
               \* one with the same definition was cancelled but not yet gone
  changes, faults

syncVars == <<sync, list, todo, listed, broker>>
bounds == <<changes, faults>>
vars == <<registered, syncVars, consumers, conn, task, twins, bounds>>

Optional == Definitions \union {None}
Gone == [pc |-> "gone", key |-> None, def |-> None, cancelled |-> FALSE]
Running(g) == task[g].pc # "gone"

Init ==
  /\ registered \in [Keys -> Optional]
  /\ \A k \in Keys : registered[k] \in Offers[k] \union {None}
  /\ sync = "idle" /\ todo = {} /\ broker = FALSE /\ conn = FALSE
  /\ list = [k \in Keys |-> None]
  /\ listed = [k \in Keys |-> None]
  /\ consumers = [k \in Keys |-> None]
  /\ task = [g \in Tasks |-> Gone]
  /\ twins = {} /\ changes = 0 /\ faults = 0

Fault == faults < MaxFaults /\ faults' = faults + 1 /\ UNCHANGED changes

\* A function is registered, changed or removed at the gateway.
Change(k, d) ==
  /\ changes < MaxChanges /\ changes' = changes + 1
  /\ d # registered[k]
  /\ registered' = [registered EXCEPT ![k] = d]
  /\ UNCHANGED <<syncVars, consumers, conn, task, twins, faults>>

-----------------------------------------------------------------------------
(* syncTriggers *)

\* mergeTriggers: what the gateway has overrides the configuration file.
Merge(remote) == [k \in Keys |-> IF remote[k] # None THEN remote[k] ELSE Local[k]]

Fetch ==
  /\ sync = "idle"
  /\ sync' = "reconcile"
  /\ list' = Merge(registered)
  /\ UNCHANGED <<registered, todo, listed, broker, consumers, conn, task, twins, bounds>>

\* The gateway does not answer: without a trigger of its own mqsvc leaves its
\* consumers alone; otherwise it goes on with the triggers of its file.
FetchFails ==
  /\ sync = "idle"
  /\ Fault
  /\ IF \A k \in Keys : Local[k] = None
     THEN UNCHANGED <<sync, list>>
     ELSE sync' = "reconcile" /\ list' = Local
  /\ UNCHANGED <<registered, todo, listed, broker, consumers, conn, task, twins>>

\* Mutant: only a list without any known mq_id is refused.
SomeKnown == \E k \in Keys \ Unknown : list[k] # None

AllKnown == \A k \in Unknown : list[k] = None

\* One unknown mq_id refuses the whole list.
RefuseList ==
  /\ sync = "reconcile"
  /\ ~AllKnown
  /\ sync' = "idle"
  /\ UNCHANGED <<registered, list, todo, listed, broker, consumers, conn, task, twins, bounds>>


Stale(k) == consumers[k] # None /\ consumers[k].def # list[k]

\* Mutant: the context is not cancelled.
CancelNone(keys) == task

Cancel(keys) ==
  [g \in Tasks |-> IF \E k \in keys : consumers[k].task = g
                   THEN [task[g] EXCEPT !.cancelled = TRUE] ELSE task[g]]

\* Mutant: the entry stays in the map.
DeleteNone(keys) == consumers

Delete(keys) == [k \in Keys |-> IF k \in keys THEN None ELSE consumers[k]]

\* The critical section of reconcileTriggers.  What is left in the map is as
\* listed: the keys without an entry are those to start.
Reconcile ==
  /\ sync = "reconcile"
  /\ AllKnown
  /\ LET stale == {k \in Keys : Stale(k)} IN
       /\ task' = Cancel(stale)
       /\ consumers' = Delete(stale)
  /\ todo' = {k \in Keys : list[k] # None /\ consumers'[k] = None}
  /\ listed' = list
  /\ sync' = "starting"
  /\ UNCHANGED <<registered, list, broker, conn, twins, bounds>>

\* startConsumer.  Only syncTriggers adds entries, so the entry is still
\* missing when it is made; the first call makes the broker, which dials.
StartConsumer ==
  /\ sync = "starting"
  /\ \E k \in todo, g \in Tasks :
       LET before == {t \in Tasks : task[t].key = k /\ task[t].def = list[k]}
       IN /\ \A j \in todo : k <= j
          /\ ~Running(g) /\ \A t \in Tasks : ~Running(t) => g <= t
          /\ todo' = todo \ {k}
          /\ consumers' = [consumers EXCEPT ![k] = [def |-> list[k], task |-> g]]
          /\ task' = [task EXCEPT ![g] =
               [pc |-> "subscribing", key |-> k, def |-> list[k], cancelled |-> FALSE]]
          /\ twins' = IF before = {} THEN twins ELSE twins \union {k}
  /\ broker' = TRUE
  /\ conn' = (conn \/ ~broker)
  /\ UNCHANGED <<registered, sync, list, listed, bounds>>

\* newBroker fails; the consumers after this one have to wait for the next sync.
BrokerFails ==
  /\ sync = "starting" /\ todo # {} /\ ~broker
  /\ Fault
  /\ sync' = "idle" /\ todo' = {}
  /\ UNCHANGED <<registered, list, listed, broker, consumers, conn, task, twins>>

SyncDone ==
  /\ sync = "starting" /\ todo = {}
  /\ sync' = "idle"
  /\ UNCHANGED <<registered, list, todo, listed, broker, consumers, conn, task, twins, bounds>>

-----------------------------------------------------------------------------
(* Subscribe, in the goroutine of startConsumer *)

At(g, pc) == task[g].pc = pc
To(g, pc) == task' = [task EXCEPT ![g].pc = pc]

\* Whoever is subscribed on a connection that closes finds its deliveries closed.
Dropped(t) == [g \in Tasks |-> IF t[g].pc = "subscribed"
                               THEN [t[g] EXCEPT !.pc = "dropped"] ELSE t[g]]

\* channel() dials again if the connection is closed; then declare and consume.
Subscribe(g) ==
  /\ At(g, "subscribing")
  /\ To(g, "subscribed")
  /\ conn' = TRUE
  /\ UNCHANGED <<registered, syncVars, consumers, twins, bounds>>
SubscribeFails(g) ==
  /\ At(g, "subscribing")
  /\ Fault
  /\ To(g, "dropped")
  /\ UNCHANGED <<registered, syncVars, consumers, conn, twins>>

\* subscribeOnce has failed: close the connection that all consumers share.
Reconnect(g) ==
  /\ At(g, "dropped") /\ ~task[g].cancelled
  /\ task' = Dropped([task EXCEPT ![g].pc = "backoff"])
  /\ conn' = FALSE
  /\ UNCHANGED <<registered, syncVars, consumers, twins, bounds>>

Retry(g) ==
  /\ At(g, "backoff")
  /\ To(g, "subscribing")
  /\ UNCHANGED <<registered, syncVars, consumers, conn, twins, bounds>>

\* Subscribe returns, and only because its context is cancelled.
Return(g) ==
  /\ task[g].cancelled
  /\ task[g].pc \in {"subscribed", "dropped", "backoff"}
  /\ To(g, "returned")
  /\ UNCHANGED <<registered, syncVars, consumers, conn, twins, bounds>>

\* Mutant: whatever entry the key has is deleted.
OwnEntryByKey(g) == consumers[task[g].key] # None

\* The entry that the goroutine takes for its own: the same trigger.
OwnEntry(g) ==
  /\ consumers[task[g].key] # None
  /\ consumers[task[g].key].def = task[g].def

End(g) ==
  /\ At(g, "returned")
  /\ consumers' = IF OwnEntry(g) THEN Delete({task[g].key}) ELSE consumers
  /\ task' = [task EXCEPT ![g] = Gone]
  /\ UNCHANGED <<registered, syncVars, conn, twins, bounds>>

ConnectionLost ==
  /\ conn
  /\ Fault
  /\ conn' = FALSE
  /\ task' = Dropped(task)
  /\ UNCHANGED <<registered, syncVars, consumers, twins>>

-----------------------------------------------------------------------------
Sync == Fetch \/ FetchFails \/ RefuseList \/ Reconcile \/ StartConsumer \/ BrokerFails \/ SyncDone
Consume(g) ==
  Subscribe(g) \/ SubscribeFails(g) \/ Reconnect(g) \/ Retry(g) \/ Return(g) \/ End(g)

Next ==
  \/ \E k \in Keys : \E d \in Offers[k] \union {None} : Change(k, d)
  \/ Sync
  \/ \E g \in Tasks : Consume(g)
  \/ ConnectionLost

Spec == Init /\ [][Next]_vars

\* The ticker of reconcile goes on, the gateway's client has a timeout, dials and
\* backoffs end, goroutines run.  Nobody has to change a trigger.
FairSpec == Spec /\ WF_vars(Sync) /\ \A g \in Tasks : WF_vars(Consume(g))

-----------------------------------------------------------------------------
(* Properties *)

TypeOK ==
  /\ registered \in [Keys -> Optional]
  /\ sync \in {"idle", "reconcile", "starting"}
  /\ list \in [Keys -> Optional] /\ listed \in [Keys -> Optional]
  /\ todo \subseteq Keys
  /\ broker \in BOOLEAN /\ conn \in BOOLEAN
  /\ consumers \in [Keys -> [def : Definitions, task : Tasks] \union {None}]
  /\ \A g \in Tasks : \/ task[g] = Gone
                      \/ task[g] \in [pc : {"subscribing", "subscribed", "dropped",
                                            "backoff", "returned"},
                                      key : Keys \ Unknown, def : Definitions,
                                      cancelled : BOOLEAN]
  /\ twins \subseteq Keys

\* An entry of the map stands for a consumer that runs, for this key and
\* definition, and that nobody has cancelled: mqsvc never believes a trigger
\* served that is not.
EntryIsLive ==
  \A k \in Keys : consumers[k] # None =>
    LET t == task[consumers[k].task] IN
      Running(consumers[k].task) /\ t.key = k /\ t.def = consumers[k].def /\ ~t.cancelled

\* The consumers of a trigger that nobody has told to stop.
Live(k) == {g \in Tasks : Running(g) /\ task[g].key = k /\ ~task[g].cancelled}

\* A trigger has at most one live consumer, the one in the map, unless it came
\* back in the same definition before its cancelled consumer was gone.
OneConsumer ==
  \A k \in Keys \ twins :
    \A g \in Live(k) : consumers[k] # None /\ consumers[k].task = g

Wanted(k) == Merge(registered)[k]
Sane == \A k \in Unknown : Wanted(k) = None


\* A removed trigger is in the end no longer consumed, nor is a definition that
\* was replaced.
RemovedStops ==
  \A k \in Keys, d \in Optional :
    <>[](Sane /\ Wanted(k) = d) =>
      <>[](\/ k \in twins
           \/ \A g \in Tasks : task[g].key = k => task[g].def = d)

\* main_test.go:59-82, "trigger was not canceled": after a reconciliation without
\* a trigger no consumer of it is left uncancelled.
RemovedIsCancelled ==
  \A k \in Keys : listed[k] = None => Live(k) = {}

=============================================================================
