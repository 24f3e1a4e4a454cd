------------------------------ MODULE WorkerPool ------------------------------
(***************************************************************************)
(* workers.WorkerPool and its two users: adminLogsService.LogAction (run  *)
(* synchronously by the roles middleware for every admin request) and     *)
(* contextMessages.SetContextualMessage.  Each service owns one pool of N *)
(* workers whose task queue and ErrorQueue both have capacity N.  A call   *)
(* submits one task per delivery, then reads as many results from the     *)
(* pool's ErrorQueue, returning early on the first error or when its      *)
(* timeout context is done.  Results carry no owner: a call takes          *)
(* whatever result is at the head of the queue, and results a call         *)
(* abandons stay there.                                                    *)
(***************************************************************************)
EXTENDS Naturals, Sequences

CONSTANTS
  LogCallers,   \* request goroutines calling LogAction
  MsgCallers,   \* goroutines calling SetContextualMessage
  N,            \* workers per pool (5 in the code)
  MaxCalls      \* MaxCalls[c]: bound on the calls caller c makes

Callers == LogCallers \cup MsgCallers
Pools   == {"logs", "msgs"}
Results == {"ok", "err"}
PoolOf(c) == IF c \in LogCallers THEN "logs" ELSE "msgs"

VARIABLES
  taskQ,     \* taskQ[p]: the task queue, a task being the call <<c, n>> it belongs to
  errQ,      \* errQ[p]: the ErrorQueue, TRUE for a nil error
  busy,      \* busy[p]: workers of pool p past the task's context check,
             \* waiting on the service mutex or writing
  held,      \* held[p][r]: workers of pool p blocked sending a result r;
             \* the other workers wait on the task queue
  pc,        \* pc[c]: "idle", "submit" or "wait"
  toSubmit,  \* tasks the current call has still to submit
  need,      \* results the current call reads (workerCount)
  got,       \* results it has read
  expired,   \* its operationCtx has timed out
  callNo     \* calls c has started

vars == <<taskQ, errQ, busy, held, pc, toSubmit, need, got, expired, callNo>>
callerVars == <<pc, toSubmit, need, got, expired, callNo>>

\* NewWorkerPool(N) for each service; no call in progress.
Init ==
  /\ taskQ = [p \in Pools |-> <<>>]
  /\ errQ = [p \in Pools |-> <<>>]
  /\ busy = [p \in Pools |-> 0]
  /\ held = [p \in Pools |-> [r \in Results |-> 0]]
  /\ pc = [c \in Callers |-> "idle"]
  /\ toSubmit = [c \in Callers |-> 0]
  /\ need = [c \in Callers |-> 0]
  /\ got = [c \in Callers |-> 0]
  /\ expired = [c \in Callers |-> FALSE]
  /\ callNo = [c \in Callers |-> 0]

\* operationCtx of call n of c is done: it timed out, or the call returned
\* and its deferred cancel ran.
CtxDone(t) ==
  LET c == t[1] IN t[2] < callNo[c] \/ pc[c] = "idle" \/ expired[c]


\* Start a call with k deliveries; k = 0 returns at once.
StartCall(c, k) ==
  /\ callNo' = [callNo EXCEPT ![c] = @ + 1]
  /\ pc' = [pc EXCEPT ![c] = IF k = 0 THEN "idle" ELSE "submit"]
  /\ toSubmit' = [toSubmit EXCEPT ![c] = k]
  /\ need' = [need EXCEPT ![c] = k]
  /\ got' = [got EXCEPT ![c] = 0]
  /\ expired' = [expired EXCEPT ![c] = FALSE]
  /\ UNCHANGED <<taskQ, errQ, busy, held>>

\* LogAction: requests under /admin/logs are not logged; others submit the
\* NATS task and the database task.
LogActionCall(c) ==
  /\ c \in LogCallers /\ pc[c] = "idle" /\ callNo[c] < MaxCalls[c]
  /\ \E skip \in BOOLEAN : StartCall(c, IF skip THEN 0 ELSE 2)

\* SetContextualMessage submits one task per delivery asked for.  Its only
\* caller, the idle-session timer of the auth repository, asks for both
\* Redis and NATS delivery, so the early return for neither is not taken.
Deliveries == [redis |-> TRUE, nats |-> TRUE]

SetMessageCall(c) ==
  /\ c \in MsgCallers /\ pc[c] = "idle" /\ callNo[c] < MaxCalls[c]
  /\ (Deliveries.redis \/ Deliveries.nats)
  /\ StartCall(c, (IF Deliveries.redis THEN 1 ELSE 0) + (IF Deliveries.nats THEN 1 ELSE 0))

\* Mutant: the task queue is taken to be unbounded.
SubmitUnbounded(c) ==
  LET p == PoolOf(c) IN
  /\ pc[c] = "submit"
  /\ taskQ' = [taskQ EXCEPT ![p] = Append(@, <<c, callNo[c]>>)]
  /\ toSubmit' = [toSubmit EXCEPT ![c] = @ - 1]
  /\ pc' = [pc EXCEPT ![c] = IF toSubmit[c] = 1 THEN "wait" ELSE "submit"]
  /\ UNCHANGED <<errQ, busy, held, need, got, expired, callNo>>

\* wp.taskQueue <- task: blocks while the queue is full, whatever the
\* operationCtx says.
Submit(c) ==
  LET p == PoolOf(c) IN
  /\ pc[c] = "submit" /\ Len(taskQ[p]) < N
  /\ taskQ' = [taskQ EXCEPT ![p] = Append(@, <<c, callNo[c]>>)]
  /\ toSubmit' = [toSubmit EXCEPT ![c] = @ - 1]
  /\ pc' = [pc EXCEPT ![c] = IF toSubmit[c] = 1 THEN "wait" ELSE "submit"]
  /\ UNCHANGED <<errQ, busy, held, need, got, expired, callNo>>

\* The timeout of operationCtx fires.
Expire(c) ==
  /\ pc[c] \in {"submit", "wait"} /\ ~expired[c]
  /\ expired' = [expired EXCEPT ![c] = TRUE]
  /\ UNCHANGED <<taskQ, errQ, busy, held, pc, toSubmit, need, got, callNo>>

\* The read loop takes the head of ErrorQueue: an error returns at once,
\* the last nil result returns nil.
ReadResult(c) ==
  LET p == PoolOf(c) IN
  /\ pc[c] = "wait" /\ errQ[p] # <<>>
  /\ errQ' = [errQ EXCEPT ![p] = Tail(@)]
  /\ got' = [got EXCEPT ![c] = @ + 1]
  /\ pc' = [pc EXCEPT ![c] =
              IF ~Head(errQ[p]) \/ got[c] + 1 = need[c] THEN "idle" ELSE "wait"]
  /\ UNCHANGED <<taskQ, busy, held, toSubmit, need, expired, callNo>>

\* The read loop's other select case: operationCtx is done.
TimeoutReturn(c) ==
  /\ pc[c] = "wait" /\ expired[c]
  /\ pc' = [pc EXCEPT ![c] = "idle"]
  /\ UNCHANGED <<taskQ, errQ, busy, held, toSubmit, need, got, expired, callNo>>

Idle(p) == N - busy[p] - held[p]["ok"] - held[p]["err"]

\* A waiting worker takes a task and runs it: err := task().  The closure's
\* select returns operationCtx.Err() when the context is done; otherwise
\* its default case goes on to the write.
WorkerRun(p) ==
  /\ Idle(p) > 0 /\ taskQ[p] # <<>>
  /\ taskQ' = [taskQ EXCEPT ![p] = Tail(@)]
  /\ IF CtxDone(Head(taskQ[p]))
       THEN held' = [held EXCEPT ![p]["err"] = @ + 1] /\ UNCHANGED busy
       ELSE busy' = [busy EXCEPT ![p] = @ + 1] /\ UNCHANGED held
  /\ UNCHANGED <<errQ, callerVars>>

\* The default case: a.mutex.Lock(), then SendToNats or repo.Create, which
\* do not look at operationCtx, or the Redis SET, which is given it; any of
\* them may fail, whether or not the call is over by now.
WorkerWrite(p) ==
  /\ busy[p] > 0
  /\ busy' = [busy EXCEPT ![p] = @ - 1]
  /\ \E r \in Results : held' = [held EXCEPT ![p][r] = @ + 1]
  /\ UNCHANGED <<taskQ, errQ, callerVars>>

WorkerSend(p) ==
  /\ Len(errQ[p]) < N
  /\ \E r \in Results :
       /\ held[p][r] > 0
       /\ errQ' = [errQ EXCEPT ![p] = Append(@, r = "ok")]
       /\ held' = [held EXCEPT ![p][r] = @ - 1]
  /\ UNCHANGED <<taskQ, busy, callerVars>>

-----------------------------------------------------------------------------
CallerStep(c) ==
  Submit(c) \/ ReadResult(c) \/ TimeoutReturn(c)


Next ==
  \/ \E c \in Callers : LogActionCall(c) \/ SetMessageCall(c) \/ Expire(c)
  \/ \E c \in Callers : CallerStep(c)
  \/ \E p \in Pools : WorkerRun(p) \/ WorkerWrite(p) \/ WorkerSend(p)

\* Goroutines run when they can and a started timer fires; when calls
\* start is left to the clients.  The workers of a pool are identical, so
\* a runnable worker of each kind is one fairness condition.
Fairness ==
  /\ \A c \in Callers : WF_vars(CallerStep(c)) /\ WF_vars(Expire(c))
  /\ \A p \in Pools : /\ WF_vars(WorkerRun(p)) /\ WF_vars(WorkerWrite(p))
                     /\ WF_vars(WorkerSend(p))

Spec == Init /\ [][Next]_vars /\ Fairness

-----------------------------------------------------------------------------
TypeOK ==
  /\ \A p \in Pools :
       /\ taskQ[p] \in Seq(Callers \X Nat) /\ Len(taskQ[p]) <= N
       /\ errQ[p] \in Seq(BOOLEAN) /\ Len(errQ[p]) <= N
       /\ busy[p] \in 0..N /\ held[p] \in [Results -> 0..N] /\ Idle(p) >= 0
  /\ pc \in [Callers -> {"idle", "submit", "wait"}]
  /\ toSubmit \in [Callers -> 0..2] /\ need \in [Callers -> 0..2]
  /\ got \in [Callers -> 0..2] /\ expired \in [Callers -> BOOLEAN]
  /\ \A c \in Callers : callNo[c] \in 0..MaxCalls[c]

\* Every LogAction and SetContextualMessage call returns: the timeout
\* context is meant to bound the whole call.
CallsReturn == \A c \in Callers : pc[c] # "idle" ~> pc[c] = "idle"
=============================================================================
