----------------------- MODULE TriggerReconcileProofs -----------------------
(***************************************************************************)
(* Theorems about TriggerReconcile, for any triggers, definitions, changes *)
(* and faults.                                                             *)
(*                                                                         *)
(* Entries of the map and goroutines go together (EntryIsLive): entries are*)
(* made for keys without one (Starting), a goroutine ends only after it was*)
(* cancelled (EndsCancelled), and what is cancelled has lost its entry.    *)
(* That a goroutine deletes no entry but its own holds only while no other *)
(* has its key and definition (NoTwin).  AsListed adds that the map is the *)
(* listing, and with it what RemovedIsCancelled needs in order to hold.    *)
(***************************************************************************)
EXTENDS TriggerReconcile, TLAPS

USE ReconcileAssumption DEF syncVars, bounds, vars

Steps == {"subscribing", "subscribed", "dropped", "backoff", "returned"}
Task == [pc : Steps, key : Keys \ Unknown, def : Definitions, cancelled : BOOLEAN]

\* Types, without the Boolean variables.
Types ==
  /\ registered \in [Keys -> Optional]
  /\ sync \in {"idle", "reconcile", "starting"}
  /\ list \in [Keys -> Optional] /\ listed \in [Keys -> Optional]
  /\ todo \subseteq Keys
  /\ consumers \in [Keys -> [def : Definitions, task : Tasks] \union {None}]
  /\ DOMAIN task = Tasks
  /\ \A g \in Tasks : task[g] = Gone \/ task[g] \in Task
  /\ twins \subseteq Keys
Flags == broker \in BOOLEAN /\ conn \in BOOLEAN

\* syncTriggers starts consumers only for known triggers that have none.
Starting ==
  /\ sync # "starting" => todo = {}
  /\ \A k \in todo : k \notin Unknown /\ list[k] # None /\ consumers[k] = None

\* A goroutine ends only after it has been cancelled.
EndsCancelled == \A g \in Tasks : task[g].pc = "returned" => task[g].cancelled

\* No two goroutines have the same trigger.
NoTwin ==
  \A k \in Keys \ twins, g, h \in Tasks :
    /\ Running(g) /\ Running(h)
    /\ task[g].key = k /\ task[h].key = k /\ task[g].def = task[h].def
    => g = h

ReconcileInv ==
  /\ Types /\ Flags
  /\ Starting /\ EndsCancelled /\ EntryIsLive
  /\ NoTwin /\ OneConsumer

LEMMA TypesAndFlags == Types /\ Flags => TypeOK
BY DEF TypeOK, Types, Flags, Task, Steps

\* A goroutine that has ended is none.
LEMMA RunningIsTask ==
  ASSUME Types, NEW g \in Tasks
  PROVE  /\ Running(g) <=> task[g] \in Task
         /\ Running(g) <=> task[g] # Gone
BY DEF Types, Running, Task, Steps, Gone

-----------------------------------------------------------------------------
(* Steps *)

\* At the start there is neither an entry nor a goroutine.
LEMMA ReconcileInit == Init => ReconcileInv
<1> SUFFICES ASSUME Init PROVE ReconcileInv
  OBVIOUS
<1> USE DEF Init
<1>1. Types
  BY DEF Types, Optional
<1>2. Flags
  BY Zenon DEF Flags
<1>3. \A g \in Tasks : ~Running(g)
  BY DEF Running, Gone
<1>4. Starting /\ EntryIsLive
  BY DEF Starting, EntryIsLive
<1>5. EndsCancelled
  BY <1>3 DEF EndsCancelled, Running
<1>6. NoTwin /\ OneConsumer
  BY <1>3 DEF NoTwin, OneConsumer, Live
<1>7. QED
  BY <1>1, <1>2, <1>4, <1>5, <1>6 DEF ReconcileInv

\* Flags stay Boolean.
LEMMA FlagsStep == Flags /\ [Next]_vars => Flags'
BY Zenon DEF Flags, Next, Change, Sync, Fetch, FetchFails, RefuseList, Reconcile, StartConsumer,
       BrokerFails, SyncDone, Consume, Subscribe, SubscribeFails, Reconnect, Retry, Return, End,
       ConnectionLost

\* Goroutines move on, the map stays.
LEMMA MoveStep ==
  ASSUME ReconcileInv, Flags',
         UNCHANGED <<registered, sync, list, todo, listed, consumers, twins>>,
         DOMAIN task' = Tasks,
         \A g \in Tasks :
           \/ task'[g] = task[g]
           \/ /\ task[g] \in Task /\ task'[g] \in Task
              /\ task'[g].key = task[g].key /\ task'[g].def = task[g].def
              /\ task'[g].cancelled = task[g].cancelled
              /\ task'[g].pc = "returned" => task[g].cancelled
  PROVE  ReconcileInv'
<1>1. Types'
  BY DEF ReconcileInv, Types
<1>2. Starting'
  BY DEF ReconcileInv, Starting
<1>3. EndsCancelled'
  BY DEF ReconcileInv, EndsCancelled
<1>4. \A g \in Tasks : /\ Running(g)' <=> Running(g)
                       /\ task'[g].key = task[g].key /\ task'[g].def = task[g].def
                       /\ task'[g].cancelled = task[g].cancelled
  BY DEF Running, Task, Steps
<1>5. EntryIsLive'
  <2> SUFFICES ASSUME NEW k \in Keys, consumers[k] # None
               PROVE  /\ Running(consumers[k].task)' /\ task'[consumers[k].task].key = k
                      /\ task'[consumers[k].task].def = consumers[k].def
                      /\ ~task'[consumers[k].task].cancelled
    BY DEF EntryIsLive, Running
  <2>1. consumers[k].task \in Tasks
    BY DEF ReconcileInv, Types
  <2>2. /\ Running(consumers[k].task) /\ task[consumers[k].task].key = k
        /\ task[consumers[k].task].def = consumers[k].def
        /\ ~task[consumers[k].task].cancelled
    BY Zenon DEF ReconcileInv, EntryIsLive
  <2>3. QED
    BY <1>4, <2>1, <2>2
<1>6. NoTwin'
  <2> SUFFICES ASSUME NEW k \in Keys \ twins', NEW g \in Tasks, NEW h \in Tasks,
                      Running(g)', Running(h)',
                      task'[g].key = k, task'[h].key = k, task'[g].def = task'[h].def
               PROVE  g = h
    BY Zenon DEF NoTwin
  <2>1. /\ Running(g) /\ Running(h)
        /\ task[g].key = k /\ task[h].key = k /\ task[g].def = task[h].def
    BY <1>4
  <2>2. k \in Keys \ twins
    OBVIOUS
  <2>3. NoTwin
    BY DEF ReconcileInv
  <2>4. QED
    BY <2>1, <2>2, <2>3 DEF NoTwin
<1>7. OneConsumer'
  <2>1. ASSUME NEW k \in Keys \ twins, NEW g \in Tasks,
               Running(g)', task'[g].key = k, ~task'[g].cancelled
        PROVE  consumers'[k] # None /\ consumers'[k].task = g
    <3>1. Running(g) /\ task[g].key = k
      BY <1>4, <2>1
    <3>2. task[g].cancelled => task'[g].cancelled
      <4>1. CASE task'[g] = task[g]
        BY <4>1
      <4>2. CASE /\ task[g] \in Task /\ task'[g] \in Task
                 /\ task'[g].cancelled = task[g].cancelled
        BY <4>2 DEF Task
      <4>3. QED
        BY <4>1, <4>2
    <3>3. ~task[g].cancelled
      BY <2>1, <3>2, Zenon
    <3>4. consumers[k] # None /\ consumers[k].task = g
      BY <3>1, <3>3, Zenon DEF ReconcileInv, OneConsumer, Live
    <3>5. QED
      BY <3>4
  <2>2. QED
    BY <2>1 DEF OneConsumer, Live, Running
<1>8. QED
  BY <1>1, <1>2, <1>3, <1>5, <1>6, <1>7 DEF ReconcileInv

\* What an entry says of its goroutine.
LEMMA EntryFacts ==
  ASSUME ReconcileInv, NEW k \in Keys, consumers[k] # None
  PROVE  /\ consumers[k].task \in Tasks /\ consumers[k].def \in Definitions
         /\ Running(consumers[k].task) /\ task[consumers[k].task].key = k
         /\ task[consumers[k].task].def = consumers[k].def
         /\ ~task[consumers[k].task].cancelled
<1>1. consumers[k].task \in Tasks /\ consumers[k].def \in Definitions
  BY DEF ReconcileInv, Types
<1>2. /\ Running(consumers[k].task) /\ task[consumers[k].task].key = k
      /\ task[consumers[k].task].def = consumers[k].def
      /\ ~task[consumers[k].task].cancelled
  BY Zenon DEF ReconcileInv, EntryIsLive
<1>3. QED
  BY <1>1, <1>2

\* The critical section cancels exactly the goroutines whose entries it deletes.
LEMMA ReconcileStep == ReconcileInv /\ Flags' /\ Reconcile => ReconcileInv'
<1> SUFFICES ASSUME ReconcileInv, Flags', Reconcile PROVE ReconcileInv'
  OBVIOUS
<1>1. /\ task' = Cancel({k \in Keys : Stale(k)})
      /\ consumers' = Delete({k \in Keys : Stale(k)})
      /\ todo' = {k \in Keys : list[k] # None /\ consumers'[k] = None}
      /\ listed' = list /\ sync' = "starting"
      /\ UNCHANGED <<registered, list, twins>>
      /\ AllKnown
  BY Zenon DEF Reconcile
<1>2. \A k \in Keys : \/ Stale(k) /\ consumers'[k] = None
                      \/ ~Stale(k) /\ consumers'[k] = consumers[k]
  BY <1>1 DEF Delete
<1>3. ASSUME NEW g \in Tasks
      PROVE  \/ /\ \E k \in Keys : Stale(k) /\ consumers[k].task = g
                /\ task'[g] = [task[g] EXCEPT !.cancelled = TRUE]
             \/ /\ ~ \E k \in Keys : Stale(k) /\ consumers[k].task = g
                /\ task'[g] = task[g]
  BY <1>1 DEF Cancel
<1>4. \A k \in Keys : Stale(k) => consumers[k] # None
  BY DEF Stale
<1>5. ASSUME NEW g \in Tasks
      PROVE  /\ task[g] = Gone => task'[g] = Gone
             /\ task[g] \in Task => task'[g] \in Task
             /\ task'[g].pc = task[g].pc /\ task'[g].key = task[g].key
             /\ task'[g].def = task[g].def
  <2>1. CASE task'[g] = task[g]
    BY <2>1
  <2>2. CASE task'[g] = [task[g] EXCEPT !.cancelled = TRUE]
             /\ \E k \in Keys : Stale(k) /\ consumers[k].task = g
    <3>1. task[g] \in Task /\ task[g] # Gone
      BY <1>4, <2>2, EntryFacts, RunningIsTask DEF ReconcileInv
    <3>2. QED
      BY <2>2, <3>1 DEF Task
  <2>3. QED
    BY <1>3, <2>1, <2>2
<1>6. ASSUME NEW g \in Tasks PROVE task[g].cancelled => task'[g].cancelled
  <2>1. CASE task'[g] = task[g]
    BY <2>1
  <2>2. CASE task'[g] = [task[g] EXCEPT !.cancelled = TRUE]
             /\ \E k \in Keys : Stale(k) /\ consumers[k].task = g
    <3>1. task[g] \in Task
      BY <1>4, <2>2, EntryFacts, RunningIsTask DEF ReconcileInv
    <3>2. QED
      BY <2>2, <3>1 DEF Task
  <2>3. QED
    BY <1>3, <2>1, <2>2
<1>7. \A g \in Tasks : Running(g)' <=> Running(g)
  BY <1>5 DEF Running
<1>8. Types'
  <2>1. DOMAIN task' = Tasks
    BY <1>1 DEF Cancel
  <2>2. consumers' \in [Keys -> [def : Definitions, task : Tasks] \union {None}]
    BY <1>1 DEF Delete, ReconcileInv, Types
  <2>3. QED
    BY <1>1, <1>5, <2>1, <2>2 DEF ReconcileInv, Types
<1>9. Starting'
  BY <1>1 DEF Starting, AllKnown
<1>10. EndsCancelled'
  BY <1>5, <1>6 DEF ReconcileInv, EndsCancelled
<1>11. ASSUME NEW k \in Keys, consumers'[k] # None
       PROVE  /\ consumers'[k] = consumers[k] /\ consumers[k] # None /\ ~Stale(k)
              /\ task'[consumers[k].task] = task[consumers[k].task]
  <2>1. consumers'[k] = consumers[k] /\ consumers[k] # None /\ ~Stale(k)
    BY <1>2, <1>11
  <2>2. ASSUME NEW j \in Keys, Stale(j), consumers[j].task = consumers[k].task PROVE FALSE
    <3>1. j = k
      BY <1>4, <2>1, <2>2, EntryFacts
    <3>2. QED
      BY <2>1, <2>2, <3>1
  <2>3. consumers[k].task \in Tasks
    BY <2>1, EntryFacts
  <2>4. QED
    BY <1>3, <2>1, <2>2, <2>3
<1>12. EntryIsLive'
  <2> SUFFICES ASSUME NEW k \in Keys, consumers'[k] # None
               PROVE  /\ task'[consumers'[k].task].pc # "gone" /\ task'[consumers'[k].task].key = k
                      /\ task'[consumers'[k].task].def = consumers'[k].def
                      /\ ~task'[consumers'[k].task].cancelled
    BY DEF EntryIsLive, Running
  <2>1. /\ consumers'[k] = consumers[k] /\ consumers[k] # None
        /\ task'[consumers[k].task] = task[consumers[k].task]
    BY <1>11
  <2>2. QED
    BY <2>1, EntryFacts DEF Running
<1>13. NoTwin'
  <2> SUFFICES ASSUME NEW k \in Keys \ twins, NEW g \in Tasks, NEW h \in Tasks,
                      Running(g)', Running(h)',
                      task'[g].key = k, task'[h].key = k, task'[g].def = task'[h].def
               PROVE  g = h
    BY <1>1 DEF NoTwin
  <2>1. /\ Running(g) /\ Running(h)
        /\ task[g].key = k /\ task[h].key = k /\ task[g].def = task[h].def
    BY <1>5, <1>7
  <2>2. QED
    BY <2>1, Zenon DEF ReconcileInv, NoTwin
<1>14. ASSUME NEW k \in Keys \ twins, NEW g \in Tasks,
              Running(g)', task'[g].key = k, ~task'[g].cancelled
       PROVE  consumers'[k] # None /\ consumers'[k].task = g
  <2>1. Running(g) /\ task[g].key = k /\ ~task[g].cancelled
    BY <1>5, <1>6, <1>7, <1>14
  <2>2. consumers[k] # None /\ consumers[k].task = g
    BY <2>1 DEF ReconcileInv, OneConsumer, Live
  <2>3. ~Stale(k)
    <3>1. SUFFICES ASSUME Stale(k) PROVE task'[g].cancelled
      BY <1>14
    <3>2. task'[g] = [task[g] EXCEPT !.cancelled = TRUE] /\ task[g] \in Task
      BY <1>3, <2>1, <2>2, <3>1, RunningIsTask DEF ReconcileInv
    <3>3. QED
      BY <3>2 DEF Task
  <2>4. QED
    BY <1>2, <2>2, <2>3
<1>15. OneConsumer'
  BY <1>1, <1>14 DEF OneConsumer, Live, Running
<1>16. QED
  BY <1>8, <1>9, <1>10, <1>12, <1>13, <1>15 DEF ReconcileInv

\* A consumer is started for a key without an entry, in a goroutine that was none.
LEMMA StartStep == ReconcileInv /\ Flags' /\ StartConsumer => ReconcileInv'
<1> SUFFICES ASSUME ReconcileInv, Flags', StartConsumer PROVE ReconcileInv'
  OBVIOUS
<1>1. PICK k \in todo, g \in Tasks :
        /\ ~Running(g)
        /\ todo' = todo \ {k}
        /\ consumers' = [consumers EXCEPT ![k] = [def |-> list[k], task |-> g]]
        /\ task' = [task EXCEPT ![g] =
             [pc |-> "subscribing", key |-> k, def |-> list[k], cancelled |-> FALSE]]
        /\ twins' = IF {t \in Tasks : task[t].key = k /\ task[t].def = list[k]} = {}
                    THEN twins ELSE twins \union {k}
        /\ UNCHANGED <<registered, sync, list, listed>>
        /\ sync = "starting"
  BY Zenon DEF StartConsumer
<1>2. /\ k \in Keys \ Unknown /\ list[k] \in Definitions /\ consumers[k] = None
      /\ DOMAIN task = Tasks /\ DOMAIN consumers = Keys
  BY DEF ReconcileInv, Types, Starting, Optional
<1>3. /\ consumers'[k] = [def |-> list[k], task |-> g]
      /\ \A j \in Keys : j # k => consumers'[j] = consumers[j]
  BY <1>1, <1>2
<1>4. /\ task'[g] = [pc |-> "subscribing", key |-> k, def |-> list[k], cancelled |-> FALSE]
      /\ \A h \in Tasks : h # g => task'[h] = task[h]
      /\ task'[g].pc = "subscribing" /\ task'[g].key = k /\ task'[g].def = list[k]
      /\ ~task'[g].cancelled
  BY <1>1, <1>2
<1>5. /\ twins \subseteq twins' /\ twins' \subseteq Keys
      /\ k \notin twins' => \A t \in Tasks : ~(task[t].key = k /\ task[t].def = list[k])
  BY <1>1, <1>2 DEF ReconcileInv, Types
<1>6. consumers'[k].def = list[k] /\ consumers'[k].task = g /\ consumers'[k] # None
  <2>1. consumers'[k] \in [def : Definitions, task : Tasks]
    BY <1>2, <1>3
  <2>2. consumers'[k] # None
    BY <2>1
  <2>3. QED
    BY <1>3, <2>2
<1>7. Types'
  <2>1. task'[g] \in Task
    BY <1>2, <1>4 DEF Task, Steps
  <2>2. DOMAIN task' = Tasks /\ \A h \in Tasks : task'[h] = Gone \/ task'[h] \in Task
    BY <1>1, <1>2, <1>4, <2>1 DEF ReconcileInv, Types
  <2>3. consumers' \in [Keys -> [def : Definitions, task : Tasks] \union {None}]
    BY <1>1, <1>2 DEF ReconcileInv, Types
  <2>4. QED
    BY <1>1, <1>5, <2>2, <2>3 DEF ReconcileInv, Types
<1>8. Starting'
  BY <1>1, <1>3 DEF ReconcileInv, Starting, Types
<1>9. EndsCancelled'
  BY <1>4 DEF ReconcileInv, EndsCancelled
<1>10. EntryIsLive'
  <2> SUFFICES ASSUME NEW j \in Keys, consumers'[j] # None
               PROVE  /\ task'[consumers'[j].task].pc # "gone" /\ task'[consumers'[j].task].key = j
                      /\ task'[consumers'[j].task].def = consumers'[j].def
                      /\ ~task'[consumers'[j].task].cancelled
    BY DEF EntryIsLive, Running
  <2>1. CASE j = k
    BY <1>4, <1>6, <2>1
  <2>2. CASE j # k
    <3>1. consumers'[j] = consumers[j] /\ consumers[j] # None
      BY <1>3, <2>2
    <3>2. consumers[j].task # g
      BY <1>1, <3>1, EntryFacts
    <3>3. task'[consumers[j].task] = task[consumers[j].task]
      BY <1>4, <3>1, <3>2, EntryFacts
    <3>4. QED
      BY <3>1, <3>3, EntryFacts DEF Running
  <2>3. QED
    BY <2>1, <2>2
<1>11. NoTwin'
  <2> SUFFICES ASSUME NEW j \in Keys, j \notin twins', NEW a \in Tasks, NEW b \in Tasks,
                      Running(a)', Running(b)',
                      task'[a].key = j, task'[b].key = j, task'[a].def = task'[b].def
               PROVE  a = b
    BY DEF NoTwin
  <2>1. CASE a # g /\ b # g
    <3>1. /\ Running(a) /\ Running(b) /\ task[a].key = j /\ task[b].key = j
          /\ task[a].def = task[b].def /\ j \notin twins
      BY <1>4, <1>5, <2>1 DEF Running
    <3>2. QED
      BY <3>1, Zenon DEF ReconcileInv, NoTwin
  <2>2. CASE a = g /\ b # g
    BY <1>4, <1>5, <2>2
  <2>3. CASE a # g /\ b = g
    BY <1>4, <1>5, <2>3
  <2>4. QED
    BY <2>1, <2>2, <2>3
<1>12. ASSUME NEW j \in Keys, j \notin twins', NEW a \in Tasks,
              Running(a)', task'[a].key = j, ~task'[a].cancelled
       PROVE  consumers'[j] # None /\ consumers'[j].task = a
  <2>1. CASE a = g
    BY <1>4, <1>6, <1>12, <2>1
  <2>2. CASE a # g
    <3>1. Running(a) /\ task[a].key = j /\ ~task[a].cancelled /\ j \notin twins
      BY <1>4, <1>5, <1>12, <2>2 DEF Running
    <3>2. consumers[j] # None /\ consumers[j].task = a
      BY <3>1 DEF ReconcileInv, OneConsumer, Live
    <3>3. QED
      BY <1>2, <1>3, <3>2
  <2>3. QED
    BY <2>1, <2>2
<1>13. OneConsumer'
  BY <1>12 DEF OneConsumer, Live, Running
<1>14. QED
  BY <1>7, <1>8, <1>9, <1>10, <1>11, <1>13 DEF ReconcileInv

\* A goroutine ends.  The entry it deletes is never that of a live consumer,
\* unless the key has twins.
LEMMA EndStep ==
  ASSUME ReconcileInv, Flags', NEW g \in Tasks, End(g) PROVE ReconcileInv'
<1> DEFINE k == task[g].key
<1>1. /\ task[g].pc = "returned" /\ task' = [task EXCEPT ![g] = Gone]
      /\ consumers' = IF OwnEntry(g) THEN Delete({k}) ELSE consumers
      /\ UNCHANGED <<registered, sync, list, todo, listed, twins>>
  BY DEF End, At
<1>2. /\ task[g].cancelled /\ Running(g) /\ task[g] \in Task /\ k \in Keys
      /\ DOMAIN task = Tasks /\ DOMAIN consumers = Keys
  <2>1. task[g].cancelled /\ Running(g)
    BY <1>1 DEF ReconcileInv, EndsCancelled, Running
  <2>2. task[g] \in Task
    BY <2>1, RunningIsTask DEF ReconcileInv
  <2>3. QED
    BY <2>1, <2>2 DEF ReconcileInv, Types, Task
<1> HIDE DEF k
<1>3. \A h \in Tasks : h # g => task'[h] = task[h]
  BY <1>1, <1>2
<1>4. task'[g] = Gone /\ ~Running(g)'
  BY <1>1, <1>2 DEF Running, Gone
<1>5. \A j \in Keys : consumers'[j] = consumers[j] \/ (j = k /\ OwnEntry(g) /\ consumers'[j] = None)
  BY <1>1, <1>2 DEF Delete
<1>6. k \notin twins => ~OwnEntry(g)
  <2> SUFFICES ASSUME k \notin twins, OwnEntry(g) PROVE FALSE
    OBVIOUS
  <2> DEFINE h == consumers[k].task
  <2>1. consumers[k] # None /\ consumers[k].def = task[g].def
    BY DEF OwnEntry, k
  <2>2. h \in Tasks /\ Running(h) /\ task[h].key = k /\ task[h].def = task[g].def
        /\ ~task[h].cancelled
    BY <1>2, <2>1, EntryFacts
  <2> HIDE DEF h
  <2>3. h = g
    <3>1. task[g].key = k
      BY DEF k
    <3>2. QED
      BY <1>2, <2>2, <3>1, Zenon DEF ReconcileInv, NoTwin
  <2>4. QED
    BY <1>2, <2>2, <2>3
<1>7. Types'
  <2>1. consumers' \in [Keys -> [def : Definitions, task : Tasks] \union {None}]
    BY <1>1, <1>2 DEF Delete, ReconcileInv, Types
  <2>2. DOMAIN task' = Tasks /\ \A h \in Tasks : task'[h] = Gone \/ task'[h] \in Task
    BY <1>1, <1>2, <1>3, <1>4 DEF ReconcileInv, Types
  <2>3. QED
    BY <1>1, <2>1, <2>2 DEF ReconcileInv, Types
<1>8. Starting'
  BY <1>1, <1>5 DEF ReconcileInv, Starting, Types
<1>9. EndsCancelled'
  BY <1>3, <1>4 DEF ReconcileInv, EndsCancelled, Gone
<1>10. EntryIsLive'
  <2> SUFFICES ASSUME NEW j \in Keys, consumers'[j] # None
               PROVE  /\ task'[consumers'[j].task].pc # "gone" /\ task'[consumers'[j].task].key = j
                      /\ task'[consumers'[j].task].def = consumers'[j].def
                      /\ ~task'[consumers'[j].task].cancelled
    BY DEF EntryIsLive, Running
  <2>1. consumers'[j] = consumers[j] /\ consumers[j] # None
    BY <1>5
  <2>2. consumers[j].task # g
    BY <1>2, <2>1, EntryFacts
  <2>3. task'[consumers[j].task] = task[consumers[j].task]
    BY <1>3, <2>1, <2>2, EntryFacts
  <2>4. QED
    BY <2>1, <2>3, EntryFacts DEF Running
<1>11. NoTwin'
  <2> SUFFICES ASSUME NEW j \in Keys \ twins, NEW a \in Tasks, NEW b \in Tasks,
                      Running(a)', Running(b)',
                      task'[a].key = j, task'[b].key = j, task'[a].def = task'[b].def
               PROVE  a = b
    BY <1>1 DEF NoTwin
  <2>1. a # g /\ b # g
    BY <1>4
  <2>2. /\ Running(a) /\ Running(b) /\ task[a].key = j /\ task[b].key = j
        /\ task[a].def = task[b].def
    BY <1>3, <2>1 DEF Running
  <2>3. QED
    BY <2>2, Zenon DEF ReconcileInv, NoTwin
<1>12. ASSUME NEW j \in Keys \ twins, NEW a \in Tasks,
              Running(a)', task'[a].key = j, ~task'[a].cancelled
       PROVE  consumers'[j] # None /\ consumers'[j].task = a
  <2>1. a # g
    BY <1>4, <1>12
  <2>2. Running(a) /\ task[a].key = j /\ ~task[a].cancelled
    <3>1. task'[a] = task[a]
      BY <1>3, <2>1
    <3>2. task'[a].pc = task[a].pc /\ (task[a].cancelled => task'[a].cancelled)
      BY <3>1
    <3>3. Running(a) /\ task[a].key = j
      BY <1>12, <3>1, <3>2 DEF Running
    <3>4. QED
      BY <1>12, <3>2, <3>3, Zenon
  <2>3. consumers[j] # None /\ consumers[j].task = a
    BY <2>2 DEF ReconcileInv, OneConsumer, Live
  <2>4. consumers'[j] = consumers[j]
    BY <1>5, <1>6
  <2>5. QED
    BY <2>3, <2>4
<1>13. OneConsumer'
  BY <1>1, <1>12 DEF OneConsumer, Live, Running
<1>14. QED
  BY <1>7, <1>8, <1>9, <1>10, <1>11, <1>13 DEF ReconcileInv

\* What the gateway and the file have is merged into triggers.
LEMMA MergeType ==
  ASSUME Types
  PROVE  Merge(registered) \in [Keys -> Optional] /\ Local \in [Keys -> Optional]
BY DEF Types, Merge, Optional

\* A step of a user, or of the synchronisation, that starts and stops nothing.
LEMMA SyncStep ==
  ASSUME ReconcileInv, Flags',
         UNCHANGED <<consumers, task, twins>>,
         \/ todo' = todo /\ UNCHANGED <<sync, list>>
         \/ todo' = {}
         \/ todo' = todo /\ sync # "starting",
         registered' \in [Keys -> Optional], list' \in [Keys -> Optional],
         listed' \in [Keys -> Optional], sync' \in {"idle", "reconcile", "starting"}
  PROVE  ReconcileInv'
<1>1. Types'
  BY DEF ReconcileInv, Types
<1>2. Starting'
  BY DEF ReconcileInv, Starting
<1>3. EndsCancelled'
  BY DEF ReconcileInv, EndsCancelled
<1>4. EntryIsLive'
  BY DEF ReconcileInv, EntryIsLive, Running
<1>5. NoTwin'
  BY DEF ReconcileInv, NoTwin, Running
<1>6. OneConsumer'
  BY DEF ReconcileInv, OneConsumer, Live, Running
<1>7. QED
  BY <1>1, <1>2, <1>3, <1>4, <1>5, <1>6 DEF ReconcileInv

\* A goroutine goes to another step of Subscribe.
LEMMA GoroutineStep ==
  ASSUME ReconcileInv, Flags',
         UNCHANGED <<registered, sync, list, todo, listed, consumers, twins>>,
         NEW g \in Tasks, NEW pc \in Steps, task[g].pc \in Steps,
         pc = "returned" => task[g].cancelled,
         \/ task' = [task EXCEPT ![g].pc = pc]
         \/ task' = Dropped([task EXCEPT ![g].pc = pc])
  PROVE  ReconcileInv'
<1> DEFINE moved == [task EXCEPT ![g].pc = pc]
<1>1. task[g] \in Task /\ DOMAIN task = Tasks /\ \A h \in Tasks : task[h] \in Task \/ task[h] = Gone
  BY DEF ReconcileInv, Types, Gone, Steps
<1>2. /\ moved[g] \in Task /\ moved[g].pc = pc
      /\ moved[g].key = task[g].key /\ moved[g].def = task[g].def
      /\ moved[g].cancelled = task[g].cancelled
      /\ DOMAIN moved = Tasks
      /\ \A h \in Tasks : h # g => moved[h] = task[h]
  BY <1>1 DEF Task
<1> HIDE DEF moved
<1>3. ASSUME NEW h \in Tasks
      PROVE  \/ moved[h] = task[h]
             \/ /\ task[h] \in Task /\ moved[h] \in Task
                /\ moved[h].key = task[h].key /\ moved[h].def = task[h].def
                /\ moved[h].cancelled = task[h].cancelled
                /\ moved[h].pc = "returned" => task[h].cancelled
  BY <1>1, <1>2
<1>4. CASE task' = moved
  BY <1>2, <1>3, <1>4, MoveStep
<1>5. CASE task' = Dropped(moved)
  <2>1. DOMAIN task' = Tasks
    BY <1>5 DEF Dropped
  <2>2. ASSUME NEW h \in Tasks
        PROVE  \/ task'[h] = task[h]
               \/ /\ task[h] \in Task /\ task'[h] \in Task
                  /\ task'[h].key = task[h].key /\ task'[h].def = task[h].def
                  /\ task'[h].cancelled = task[h].cancelled
                  /\ task'[h].pc = "returned" => task[h].cancelled
    <3>1. CASE moved[h].pc # "subscribed"
      BY <1>3, <1>5, <3>1 DEF Dropped
    <3>2. CASE moved[h].pc = "subscribed"
      <4>1. task'[h] = [moved[h] EXCEPT !.pc = "dropped"]
        BY <1>5, <3>2 DEF Dropped
      <4>2. moved[h] \in Task /\ task[h] \in Task
        BY <1>1, <1>2, <3>2 DEF Gone
      <4>3. /\ moved[h].key = task[h].key /\ moved[h].def = task[h].def
            /\ moved[h].cancelled = task[h].cancelled
        BY <1>3
      <4>4. QED
        BY <4>1, <4>2, <4>3 DEF Task, Steps
    <3>3. QED
      BY <3>1, <3>2
  <2>3. QED
    BY <2>1, <2>2, MoveStep
<1>6. QED
  BY <1>4, <1>5 DEF moved

\* When the connection goes, whoever is subscribed finds its deliveries closed.
LEMMA LostStep == ReconcileInv /\ Flags' /\ ConnectionLost => ReconcileInv'
<1> SUFFICES ASSUME ReconcileInv, Flags', ConnectionLost PROVE ReconcileInv'
  OBVIOUS
<1>1. /\ task' = Dropped(task)
      /\ UNCHANGED <<registered, sync, list, todo, listed, consumers, twins>>
  BY Zenon DEF ConnectionLost
<1>2. ASSUME NEW h \in Tasks
      PROVE  \/ task'[h] = task[h]
             \/ /\ task[h] \in Task /\ task'[h] \in Task
                /\ task'[h].key = task[h].key /\ task'[h].def = task[h].def
                /\ task'[h].cancelled = task[h].cancelled
                /\ task'[h].pc = "returned" => task[h].cancelled
  <2>1. CASE task[h].pc = "subscribed"
    <3>1. task[h] \in Task
      BY <2>1 DEF ReconcileInv, Types, Gone
    <3>2. task'[h] = [task[h] EXCEPT !.pc = "dropped"]
      BY <1>1, <2>1 DEF Dropped
    <3>3. QED
      BY <3>1, <3>2 DEF Task, Steps
  <2>2. CASE task[h].pc # "subscribed"
    BY <1>1, <2>2 DEF Dropped
  <2>3. QED
    BY <2>1, <2>2
<1>3. DOMAIN task' = Tasks
  BY <1>1 DEF Dropped
<1>4. QED
  BY <1>1, <1>2, <1>3, MoveStep

\* Every step keeps the map and the goroutines together.
LEMMA TriggerStep == ReconcileInv /\ [Next]_vars => ReconcileInv'
<1> SUFFICES ASSUME ReconcileInv, [Next]_vars PROVE ReconcileInv'
  OBVIOUS
<1>1. Flags'
  BY FlagsStep, Zenon DEF ReconcileInv
<1>2. Types
  BY DEF ReconcileInv
<1>3. ASSUME NEW k \in Keys, NEW d \in Offers[k] \union {None}, Change(k, d)
      PROVE  ReconcileInv'
  <2>1. /\ registered' = [registered EXCEPT ![k] = d]
        /\ UNCHANGED <<sync, list, todo, listed, consumers, task, twins>>
    BY <1>3, Zenon DEF Change
  <2>2. d \in Optional
    BY DEF Optional
  <2>3. QED
    BY <1>1, <1>2, <2>1, <2>2, SyncStep DEF Types
<1>4. CASE Sync
  <2>1. CASE Fetch
    BY <1>1, <1>2, <2>1, MergeType, SyncStep DEF Fetch, Types
  <2>2. CASE FetchFails
    <3>1. /\ sync = "idle" /\ todo' = todo
          /\ UNCHANGED <<registered, listed, consumers, task, twins>>
          /\ \/ UNCHANGED <<sync, list>>
             \/ sync' = "reconcile" /\ list' = Local
      BY <2>2, Zenon DEF FetchFails
    <3>2. QED
      BY <1>1, <1>2, <3>1, MergeType, SyncStep DEF Types
  <2>3. CASE RefuseList
    BY <1>1, <1>2, <2>3, SyncStep DEF RefuseList, Types
  <2>4. CASE Reconcile
    BY <1>1, <2>4, ReconcileStep
  <2>5. CASE StartConsumer
    BY <1>1, <2>5, StartStep
  <2>6. CASE BrokerFails
    <3>1. /\ todo' = {} /\ sync' = "idle"
          /\ UNCHANGED <<registered, list, listed, consumers, task, twins>>
      BY <2>6, Zenon DEF BrokerFails
    <3>2. QED
      BY <1>1, <1>2, <3>1, SyncStep DEF Types
  <2>7. CASE SyncDone
    BY <1>1, <1>2, <2>7, SyncStep DEF SyncDone, Types
  <2>8. QED
    BY <1>4, <2>1, <2>2, <2>3, <2>4, <2>5, <2>6, <2>7 DEF Sync
<1>5. ASSUME NEW g \in Tasks, Consume(g) PROVE ReconcileInv'
  <2>1. CASE Subscribe(g)
    <3>1. /\ task[g].pc = "subscribing" /\ task' = [task EXCEPT ![g].pc = "subscribed"]
          /\ UNCHANGED <<registered, sync, list, todo, listed, consumers, twins>>
      BY <2>1, Zenon DEF Subscribe, At, To
    <3>2. QED
      BY <1>1, <3>1, GoroutineStep DEF Steps
  <2>2. CASE SubscribeFails(g)
    <3>1. /\ task[g].pc = "subscribing" /\ task' = [task EXCEPT ![g].pc = "dropped"]
          /\ UNCHANGED <<registered, sync, list, todo, listed, consumers, twins>>
      BY <2>2, Zenon DEF SubscribeFails, At, To
    <3>2. QED
      BY <1>1, <3>1, GoroutineStep DEF Steps
  <2>3. CASE Reconnect(g)
    <3>1. /\ task[g].pc = "dropped" /\ task' = Dropped([task EXCEPT ![g].pc = "backoff"])
          /\ UNCHANGED <<registered, sync, list, todo, listed, consumers, twins>>
      BY <2>3, Zenon DEF Reconnect, At
    <3>2. QED
      BY <1>1, <3>1, GoroutineStep DEF Steps
  <2>4. CASE Retry(g)
    <3>1. /\ task[g].pc = "backoff" /\ task' = [task EXCEPT ![g].pc = "subscribing"]
          /\ UNCHANGED <<registered, sync, list, todo, listed, consumers, twins>>
      BY <2>4, Zenon DEF Retry, At, To
    <3>2. QED
      BY <1>1, <3>1, GoroutineStep DEF Steps
  <2>5. CASE Return(g)
    <3>1. /\ task[g].cancelled /\ task[g].pc \in {"subscribed", "dropped", "backoff"}
          /\ task' = [task EXCEPT ![g].pc = "returned"]
          /\ UNCHANGED <<registered, sync, list, todo, listed, consumers, twins>>
      BY <2>5, Zenon DEF Return, To
    <3>2. QED
      BY <1>1, <3>1, GoroutineStep DEF Steps
  <2>6. CASE End(g)
    BY <1>1, <2>6, EndStep
  <2>7. QED
    BY <1>5, <2>1, <2>2, <2>3, <2>4, <2>5, <2>6 DEF Consume
<1>6. CASE ConnectionLost
  BY <1>1, <1>6, LostStep
<1>7. CASE UNCHANGED vars
  BY <1>1, <1>2, <1>7, SyncStep DEF Types
<1>8. QED
  BY <1>3, <1>4, <1>5, <1>6, <1>7 DEF Next

\* The inductive invariant holds throughout.
LEMMA ReconcileAlways == Spec => []ReconcileInv
<1>1. QED
  BY ReconcileInit, TriggerStep, PTL DEF Spec

-----------------------------------------------------------------------------
(* Theorems *)

\* The synchronisation and the goroutines keep their state well-typed.
THEOREM ReconcileTypes == Spec => []TypeOK
<1>1. ReconcileInv => TypeOK
  BY TypesAndFlags DEF ReconcileInv
<1>2. QED
  BY <1>1, ReconcileAlways, PTL

\* mqsvc never takes a trigger for served whose consumer is gone, cancelled or
\* of another definition.
THEOREM EntriesAreLive == Spec => []EntryIsLive
<1>1. ReconcileInv => EntryIsLive
  BY DEF ReconcileInv
<1>2. QED
  BY <1>1, ReconcileAlways, PTL

\* No trigger has two live consumers, if none came back too early.
THEOREM OneLiveConsumer == Spec => []OneConsumer
<1>1. ReconcileInv => OneConsumer
  BY DEF ReconcileInv
<1>2. QED
  BY <1>1, ReconcileAlways, PTL

-----------------------------------------------------------------------------
(* What is live is what is listed, unless a key has twins.  The finding      *)
(* RemovedIsCancelled says that it need not be; here is that nothing else    *)
(* makes it fail.                                                            *)

\* Every entry is of the definition that /triggers shows for its key.
AsListed ==
  /\ sync = "starting" => list = listed
  /\ \A k \in Keys : consumers[k] # None => consumers[k].def = listed[k]

\* No consumer is live but those of the listed definitions.
LiveAsListed == \A k \in Keys \ twins : \A g \in Live(k) : task[g].def = listed[k]

\* Nothing but the reconciliation changes what is listed, and it changes the map
\* with it.
LEMMA ListedStep ==
  ASSUME ReconcileInv, AsListed, [Next]_vars
  PROVE  AsListed'
<1>1. /\ consumers \in [Keys -> [def : Definitions, task : Tasks] \union {None}]
      /\ list \in [Keys -> Optional] /\ todo \subseteq Keys
      /\ \A g \in Tasks : Running(g) => task[g].key \in Keys
  BY RunningIsTask DEF ReconcileInv, Types, Task
<1>2. CASE UNCHANGED <<list, listed, consumers>> /\ (sync' = "starting" => sync = "starting")
  BY <1>2 DEF AsListed
<1>3. CASE Reconcile
  <2>1. /\ consumers' = Delete({k \in Keys : Stale(k)})
        /\ listed' = list /\ UNCHANGED list
    BY <1>3, Zenon DEF Reconcile
  <2>2. ASSUME NEW k \in Keys, consumers'[k] # None PROVE consumers'[k].def = listed'[k]
    BY <2>1, <2>2 DEF Delete, Stale
  <2>3. QED
    BY <2>1, <2>2 DEF AsListed
<1>4. CASE StartConsumer
  <2>1. PICK k \in todo, g \in Tasks :
          consumers' = [consumers EXCEPT ![k] = [def |-> list[k], task |-> g]]
    BY <1>4, Zenon DEF StartConsumer
  <2>2. list = listed /\ UNCHANGED <<sync, list, listed>>
    BY <1>4 DEF StartConsumer, AsListed
  <2>3. QED
    BY <1>1, <2>1, <2>2 DEF AsListed
<1>5. ASSUME NEW g \in Tasks, End(g) PROVE AsListed'
  <2>1. /\ \A k \in Keys : consumers'[k] = consumers[k] \/ consumers'[k] = None
        /\ UNCHANGED <<sync, list, listed>>
    BY <1>1, <1>5 DEF End, Delete
  <2>2. QED
    BY <2>1 DEF AsListed
<1>6. CASE Fetch \/ FetchFails
  <2>1. /\ UNCHANGED <<listed, consumers>>
        /\ sync' = "starting" => sync = "starting" /\ UNCHANGED list
    BY <1>6, Zenon DEF Fetch, FetchFails
  <2>2. QED
    BY <2>1 DEF AsListed
<1>7. QED
  <2>1. ASSUME NEW k \in Keys, NEW d \in Offers[k] \union {None}, Change(k, d)
        PROVE  AsListed'
    BY <1>2, <2>1 DEF Change
  <2>2. CASE RefuseList \/ BrokerFails \/ SyncDone \/ ConnectionLost \/ UNCHANGED vars
    BY <1>2, <2>2 DEF RefuseList, BrokerFails, SyncDone, ConnectionLost
  <2>3. ASSUME NEW g \in Tasks,
               \/ Subscribe(g) \/ SubscribeFails(g) \/ Reconnect(g) \/ Retry(g) \/ Return(g)
        PROVE  AsListed'
    BY <1>2, <2>3 DEF Subscribe, SubscribeFails, Reconnect, Retry, Return
  <2>4. QED
    BY <1>3, <1>4, <1>5, <1>6, <2>1, <2>2, <2>3, Zenon DEF Next, Sync, Consume

\* From each reconciliation to the next, the live consumers of a trigger are of
\* the definition it was reconciled to, and a removed trigger has none, unless
\* it came back before its cancelled consumer was gone.
THEOREM LiveAreListed == Spec => []LiveAsListed
<1>1. Init => AsListed
  BY DEF Init, AsListed
<1>2. ReconcileInv /\ AsListed /\ [Next]_vars => AsListed'
  BY ListedStep
<1>3. ReconcileInv /\ AsListed => LiveAsListed
  <2> SUFFICES ASSUME ReconcileInv, AsListed, NEW k \in Keys \ twins, NEW g \in Live(k)
               PROVE  task[g].def = listed[k]
    BY DEF LiveAsListed
  <2>1. consumers[k] # None /\ consumers[k].task = g
    BY DEF ReconcileInv, OneConsumer
  <2>2. QED
    BY <2>1, EntryFacts DEF AsListed
<1>4. QED
  BY <1>1, <1>2, <1>3, ReconcileAlways, PTL DEF Spec

\* So twins are the only way to RemovedIsCancelled's failing: without them no
\* consumer of a removed trigger is left uncancelled.
THEOREM OnlyTwinsEscape == Spec => [](twins = {} => RemovedIsCancelled)
<1>1. ReconcileInv /\ LiveAsListed => (twins = {} => RemovedIsCancelled)
  <2> SUFFICES ASSUME ReconcileInv, LiveAsListed, twins = {},
                      NEW k \in Keys, listed[k] = None, NEW g \in Live(k)
               PROVE  FALSE
    BY DEF RemovedIsCancelled
  <2>1. task[g].def = None
    BY DEF LiveAsListed
  <2>2. task[g].def \in Definitions
    BY RunningIsTask DEF ReconcileInv, Live, Task
  <2>3. QED
    BY <2>1, <2>2
<1>2. QED
  BY <1>1, LiveAreListed, ReconcileAlways, PTL
=============================================================================
