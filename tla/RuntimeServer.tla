--------------------------- MODULE RuntimeServer ---------------------------
(***************************************************************************)
(* runtime/cmd/runtime/main.go: the server inside an instance.  Invocations*)
(* wait in a queue; the function's bootstrap process polls for them, runs  *)
(* the handler and posts an answer; a caller waits for it up to a deadline.*)
(*                                                                         *)
(* Every critical section of mu, every access to the sync.Map inflight and *)
(* every channel operation is one action.  notify has room for one token:  *)
(* a send reaches a parked receiver directly, else fills the buffer, else  *)
(* is dropped.  The user's handler may end, fail or never end, and the     *)
(* bootstrap may die at any time.                                          *)
(***************************************************************************)
EXTENDS Integers, Sequences, SequencesExt

CONSTANTS
  Invocations,   \* uuids, each with the goroutine of its caller
  Pollers,       \* goroutines of GET /runtime/invocation/next
  MaxQueue,      \* RUNTIME_MAX_QUEUE
  None

ASSUME RuntimeAssumption ==
  /\ MaxQueue \in Nat \ {0}
  /\ None \notin Invocations \cup Pollers

VARIABLES
  call,       \* where each caller is in handleInvocation
  late,       \* invocations whose deadline has passed
  queue,      \* queue
  inflight,   \* keys of inflight
  result,     \* invocations whose result channel holds a value
  notify,     \* does the notify channel hold a token
  poller,     \* where each poll is in handleNext
  popped,     \* the invocation a poll has taken from the queue
  strict,     \* its language: python, nodejs and java treat a refused answer as
              \* an error, the go bootstrap logs it
  boot,       \* the bootstrap process
  conn,       \* the poll it waits for
  handling,   \* the invocation it works on
  accepting,  \* invocations handleResponse has loaded, and not yet sent to
  begun,      \* history: invocations written to a poll
  orphaned    \* history: a poll has outlived the bootstrap that made it

pollVars == <<poller, popped>>
bootVars == <<strict, boot, conn, handling>>
marks == <<begun, orphaned>>
vars == <<call, late, queue, inflight, result, notify, pollVars, bootVars,
          accepting, marks>>

Init ==
  /\ call = [c \in Invocations |-> "new"]
  /\ late = {}
  /\ queue = <<>>
  /\ inflight = {}
  /\ result = {}
  /\ notify = FALSE
  /\ poller = [p \in Pollers |-> "idle"]
  /\ popped = [p \in Pollers |-> None]
  /\ strict \in BOOLEAN
  /\ boot = "down"
  /\ conn = None
  /\ handling = None
  /\ accepting = {}
  /\ begun = {}
  /\ orphaned = FALSE

CallTo(c, label) == call' = [call EXCEPT ![c] = label]
PollTo(p, label, c) ==
  /\ poller' = [poller EXCEPT ![p] = label]
  /\ popped' = [popped EXCEPT ![p] = c]
BootTo(label, c) ==
  /\ boot' = label
  /\ handling' = c
  /\ conn' = None
  /\ UNCHANGED strict

-----------------------------------------------------------------------------
(* handleInvocation *)

RejectFull(c) ==
  /\ call[c] = "new"
  /\ Len(queue) >= MaxQueue
  /\ CallTo(c, "rejected")
  /\ UNCHANGED <<late, queue, inflight, result, notify, pollVars, bootVars,
                 accepting, marks>>

\* Mutant: the bound is checked with > for >=.
EnqueueOneMore(c) ==
  /\ call[c] = "new"
  /\ Len(queue) <= MaxQueue
  /\ inflight' = inflight \cup {c}
  /\ queue' = Append(queue, c)
  /\ CallTo(c, "notifying")
  /\ UNCHANGED <<late, result, notify, pollVars, bootVars, accepting, marks>>

Enqueue(c) ==
  /\ call[c] = "new"
  /\ Len(queue) < MaxQueue
  /\ inflight' = inflight \cup {c}
  /\ queue' = Append(queue, c)
  /\ CallTo(c, "notifying")
  /\ UNCHANGED <<late, result, notify, pollVars, bootVars, accepting, marks>>

Parked == {p \in Pollers : poller[p] = "parked"}

\* Mutant: a condition variable's signal, which is lost when nobody waits.
NotifyParked(c) ==
  /\ call[c] = "notifying"
  /\ CallTo(c, "waiting")
  /\ IF Parked # {} THEN \E p \in Parked : PollTo(p, "check", None)
                    ELSE UNCHANGED pollVars
  /\ UNCHANGED <<late, queue, inflight, result, notify, bootVars, accepting, marks>>

Notify(c) ==
  /\ call[c] = "notifying"
  /\ CallTo(c, "waiting")
  /\ IF Parked # {}
     THEN /\ \E p \in Parked : PollTo(p, "check", None)
          /\ UNCHANGED notify
     ELSE /\ notify' = TRUE
          /\ UNCHANGED pollVars
  /\ UNCHANGED <<late, queue, inflight, result, bootVars, accepting, marks>>

\* Time: the deadline in the invocation, and a moment later the caller's timer.
DeadlinePasses(c) ==
  /\ call[c] \in {"notifying", "waiting"}
  /\ c \notin late
  /\ late' = late \cup {c}
  /\ UNCHANGED <<call, queue, inflight, result, notify, pollVars, bootVars,
                 accepting, marks>>

\* Mutant: the timer is armed when the invocation is dispatched.
TimeOutDispatched(c) ==
  /\ call[c] = "waiting"
  /\ c \in late \cap begun
  /\ CallTo(c, "expired")
  /\ UNCHANGED <<late, queue, inflight, result, notify, pollVars, bootVars,
                 accepting, marks>>

\* The caller's select: the result, or the timer (either, if both are ready).
ReturnResult(c) ==
  /\ call[c] = "waiting"
  /\ c \in result
  /\ result' = result \ {c}
  /\ CallTo(c, "answered")
  /\ UNCHANGED <<late, queue, inflight, notify, pollVars, bootVars, accepting, marks>>

TimeOut(c) ==
  /\ call[c] = "waiting"
  /\ c \in late
  /\ CallTo(c, "expired")
  /\ UNCHANGED <<late, queue, inflight, result, notify, pollVars, bootVars,
                 accepting, marks>>

\* After the timer: inflight.Delete, then removeQueuedInvocation, then 504.
Forget(c) ==
  /\ call[c] = "expired"
  /\ inflight' = inflight \ {c}
  /\ CallTo(c, "forgotten")
  /\ UNCHANGED <<late, queue, result, notify, pollVars, bootVars, accepting, marks>>
Unqueue(c) ==
  /\ call[c] = "forgotten"
  /\ \/ \E i \in 1..Len(queue) : queue[i] = c /\ queue' = RemoveAt(queue, i)
     \/ c \notin ToSet(queue) /\ UNCHANGED queue
  /\ CallTo(c, "timedout")
  /\ UNCHANGED <<late, inflight, result, notify, pollVars, bootVars, accepting, marks>>

-----------------------------------------------------------------------------
(* handleNext *)

\* The bootstrap polls.
Poll(p) ==
  /\ boot = "ready"
  /\ poller[p] = "idle"
  /\ PollTo(p, "check", None)
  /\ boot' = "polling"
  /\ conn' = p
  /\ UNCHANGED <<call, late, queue, inflight, result, notify, strict, handling,
                 accepting, marks>>

\* Mutant: the head is read and left in the queue.
Peek(p) ==
  /\ poller[p] = "check"
  /\ queue # <<>>
  /\ PollTo(p, IF Head(queue) \in late THEN "drop" ELSE "dispatch", Head(queue))
  /\ UNCHANGED <<call, late, queue, inflight, result, notify, bootVars,
                 accepting, marks>>

\* Under the lock: take the head, and see whether its deadline has passed.
Pop(p) ==
  /\ poller[p] = "check"
  /\ queue # <<>>
  /\ queue' = Tail(queue)
  /\ PollTo(p, IF Head(queue) \in late THEN "drop" ELSE "dispatch", Head(queue))
  /\ UNCHANGED <<call, late, inflight, result, notify, bootVars, accepting, marks>>
FindEmpty(p) ==
  /\ poller[p] = "check"
  /\ queue = <<>>
  /\ PollTo(p, "select", None)
  /\ UNCHANGED <<call, late, queue, inflight, result, notify, bootVars,
                 accepting, marks>>

\* The lock is released; an invocation that came too late is forgotten.
Drop(p) ==
  /\ poller[p] = "drop"
  /\ inflight' = inflight \ {popped[p]}
  /\ PollTo(p, "check", None)
  /\ UNCHANGED <<call, late, queue, result, notify, bootVars, accepting, marks>>

\* The payload is written.  If the client has gone meanwhile it is lost, and
\* its caller waits in vain until the deadline.
Dispatch(p) ==
  /\ poller[p] = "dispatch"
  /\ begun' = begun \cup {popped[p]}
  /\ PollTo(p, "idle", None)
  /\ IF conn = p THEN BootTo("running", popped[p]) ELSE UNCHANGED bootVars
  /\ UNCHANGED <<call, late, queue, inflight, result, notify, accepting, orphaned>>

\* The poll's select.
TakeToken(p) ==
  /\ poller[p] = "select"
  /\ notify
  /\ notify' = FALSE
  /\ PollTo(p, "check", None)
  /\ UNCHANGED <<call, late, queue, inflight, result, bootVars, accepting, marks>>
Park(p) ==
  /\ poller[p] = "select"
  /\ ~notify
  /\ PollTo(p, "parked", None)
  /\ UNCHANGED <<call, late, queue, inflight, result, notify, bootVars,
                 accepting, marks>>

\* 60 seconds without a token (204, and the bootstrap polls again), or the
\* request's context is done.
EndPoll(p) ==
  /\ poller[p] \in {"select", "parked"}
  /\ PollTo(p, "idle", None)
  /\ IF conn = p THEN BootTo("ready", None) ELSE UNCHANGED bootVars
  /\ UNCHANGED <<call, late, queue, inflight, result, notify, accepting, marks>>

-----------------------------------------------------------------------------
(* The bootstrap, and handleResponse *)

\* startFunction: start the process again, a second after it has ended.
Start ==
  /\ boot = "down"
  /\ BootTo("ready", None)
  /\ UNCHANGED <<call, late, queue, inflight, result, notify, pollVars,
                 accepting, marks>>
Crash ==
  /\ boot # "down"
  /\ BootTo("down", None)
  /\ orphaned' = (orphaned \/ conn # None)
  /\ UNCHANGED <<call, late, queue, inflight, result, notify, pollVars,
                 accepting, begun>>

\* Mutant: inflight.Load, without the Delete.
LoadOnly(c, refused) ==
  IF c \in inflight
  THEN /\ accepting' = accepting \cup {c}
       /\ BootTo("accepted", c)
       /\ UNCHANGED inflight
  ELSE /\ BootTo(refused, IF refused = "refused" THEN c ELSE None)
       /\ UNCHANGED <<inflight, accepting>>

\* inflight.LoadAndDelete: the answer is accepted, or 404.
LoadAndDelete(c, refused) ==
  IF c \in inflight
  THEN /\ inflight' = inflight \ {c}
       /\ accepting' = accepting \cup {c}
       /\ BootTo("accepted", c)
  ELSE /\ BootTo(refused, IF refused = "refused" THEN c ELSE None)
       /\ UNCHANGED <<inflight, accepting>>

\* The handler has returned: POST .../response.  Its body may be refused (400:
\* too large) before the lookup.  A refusal makes the strict bootstraps report
\* an error instead.
PostResponse(valid) ==
  /\ boot = "running"
  /\ LET refused == IF strict THEN "refused" ELSE "ready"
     IN IF valid
        THEN LoadAndDelete(handling, refused)
        ELSE /\ BootTo(refused, IF strict THEN handling ELSE None)
             /\ UNCHANGED <<inflight, accepting>>
  /\ UNCHANGED <<call, late, queue, result, notify, pollVars, marks>>

\* The handler has failed, or the response was refused: POST .../error.  If that
\* is refused too, the exception ends a strict bootstrap.
PostError ==
  /\ boot \in {"running", "refused"}
  /\ LoadAndDelete(handling, IF strict THEN "down" ELSE "ready")
  /\ UNCHANGED <<call, late, queue, result, notify, pollVars, marks>>

\* The rest of handleResponse: send to the result channel, and 202.
Deliver(c) ==
  /\ c \in accepting
  /\ accepting' = accepting \ {c}
  /\ result' = result \cup {c}
  /\ IF boot = "accepted" /\ handling = c THEN BootTo("ready", None)
                                          ELSE UNCHANGED bootVars
  /\ UNCHANGED <<call, late, queue, inflight, notify, pollVars, marks>>

-----------------------------------------------------------------------------
Next ==
  \/ \E c \in Invocations :
       \/ RejectFull(c) \/ Enqueue(c) \/ Notify(c) \/ DeadlinePasses(c)
       \/ ReturnResult(c) \/ TimeOut(c) \/ Forget(c) \/ Unqueue(c) \/ Deliver(c)
  \/ \E p \in Pollers :
       \/ Poll(p) \/ Pop(p) \/ FindEmpty(p) \/ Drop(p) \/ Dispatch(p)
       \/ TakeToken(p) \/ Park(p) \/ EndPoll(p)
  \/ Start \/ Crash
  \/ \E valid \in BOOLEAN : PostResponse(valid)
  \/ PostError

Spec == Init /\ [][Next]_vars

\* The server's goroutines run and its timers fire.  Nothing is assumed of the
\* bootstrap, nor of the user's handler.
Fairness ==
  /\ \A c \in Invocations :
       /\ WF_vars(Notify(c))
       /\ WF_vars(DeadlinePasses(c))
       /\ WF_vars(ReturnResult(c) \/ TimeOut(c))
       /\ WF_vars(Forget(c) \/ Unqueue(c))
       /\ WF_vars(Deliver(c))
  /\ \A p \in Pollers :
       /\ WF_vars(Pop(p) \/ FindEmpty(p) \/ Drop(p) \/ Dispatch(p))
       /\ WF_vars(TakeToken(p) \/ Park(p))
  /\ WF_vars(Start)

FairSpec == Spec /\ Fairness

-----------------------------------------------------------------------------
(* Properties *)

TypeOK ==
  /\ call \in [Invocations -> {"new", "rejected", "notifying", "waiting", "answered",
                               "expired", "forgotten", "timedout"}]
  /\ queue \in Seq(Invocations) /\ Len(queue) <= MaxQueue
  /\ late \cup inflight \cup result \cup accepting \cup begun \subseteq Invocations
  /\ notify \in BOOLEAN
  /\ poller \in [Pollers -> {"idle", "check", "drop", "dispatch", "select", "parked"}]
  /\ popped \in [Pollers -> Invocations \cup {None}]
  /\ boot \in {"down", "ready", "polling", "running", "refused", "accepted"}
  /\ strict \in BOOLEAN /\ orphaned \in BOOLEAN
  /\ conn \in Pollers \cup {None}
  /\ handling \in Invocations \cup {None}

Done(c) == call[c] \in {"answered", "timedout", "rejected"}

\* An invocation reaches the bootstrap at most once, whatever the polls, the
\* crashes and the timeouts: once written to a poll, it is nowhere else.
DispatchedOnce ==
  \A c \in begun :
    /\ c \notin ToSet(queue)
    /\ \A p \in Pollers : popped[p] # c

\* When a call is over, nothing in the server refers to it any more; a late
\* answer finds no entry.
NothingLeftBehind ==
  \A c \in Invocations : Done(c) => c \notin inflight /\ c \notin ToSet(queue)

\* The bootstrap never sleeps beside a queued invocation: unless a caller is just
\* about to notify it, a parked poll means an empty queue.  A poll that outlives
\* its bootstrap may take the token meant for the next one.
NoLostWakeup ==
  Parked # {} /\ queue # <<>> /\ ~orphaned => \E c \in Invocations : call[c] = "notifying"

\* At most one answer is on its way to a caller, so handleResponse never blocks
\* on the result channel, and none reaches a call that never ran.
OneAnswer ==
  /\ \A c \in accepting : c \notin result /\ c \notin inflight /\ call[c] # "answered"
  /\ accepting \cup result \subseteq begun

\* Every call ends, whatever the bootstrap does.
CallEnds == \A c \in Invocations : call[c] = "notifying" ~> Done(c)
=============================================================================
