---------------------------- MODULE DatabasePool ----------------------------
(***************************************************************************)
(* The asynchronous half of a DatabaseWorkerPool                           *)
(* (src/server/shared/Database): producers push SQLOperations into one     *)
(* ProducerConsumerQueue, a DatabaseWorker thread per asynchronous         *)
(* connection pops and executes them, and Close() destroys the             *)
(* connections one by one.  The MySQL server is modelled from what the     *)
(* code relies on: a transaction is buffered until COMMIT, a deadlock      *)
(* rolls the victim back, a lost connection rolls back what was open.      *)
(***************************************************************************)
EXTENDS Naturals, Sequences, FiniteSets

CONSTANTS
    Workers,     \* DatabaseWorker threads, one per asynchronous connection
    NoWorker,
    Ops,         \* the SQLOperation objects the core creates
    NoOp,
    Kind,        \* Ops -> "statement" | "task" | "resultTask"
    Size,        \* Ops -> number of queries the operation holds
    RetryLimit,  \* loopBreaker of TransactionWithResultTask::Execute
    MaxFaults,   \* bound: statements the server refuses in a behaviour
    MaxLosses    \* bound: connections the server drops in a behaviour

Kinds == {"statement", "task", "resultTask"}

ASSUME KindAssumption == Kind \in [Ops -> Kinds]
ASSUME SizeAssumption ==
    /\ Size \in [Ops -> Nat]
    /\ \A o \in Ops : Kind[o] = "statement" => Size[o] = 1
ASSUME NoneAssumption == NoOp \notin Ops /\ NoWorker \notin Workers
ASSUME BoundAssumption ==
    RetryLimit \in Nat \ {0} /\ MaxFaults \in Nat /\ MaxLosses \in Nat

VARIABLES
    queue,      \* ProducerConsumerQueue::_queue
    shutdown,   \* ProducerConsumerQueue::_shutdown
    cancelled,  \* workers whose _cancelationToken is set
    closer,     \* where DatabaseWorkerPool::Close stands
    victim,     \* the worker whose destructor is running
    gone,       \* workers whose connection is destroyed
    pc,         \* per worker: the next step of its thread
    cur,        \* per worker: the operation it popped
    at,         \* per worker: the query of the operation it executes next
    err,        \* per worker: why the last attempt failed
    tries,      \* per worker: retries begun under _deadlockLock
    holder,     \* owner of the static TransactionTask::_deadlockLock
    inTrans,    \* server side, per connection: START TRANSACTION is in effect
    open,       \* server side, per connection: queries done, not yet durable
    log,        \* server side: what became durable, one entry at a time
    submitted,  \* history: the operations in the order of their Push
    status,     \* per operation: its fate; for a resultTask, its promise
    faults, losses

queueVars  == <<queue, shutdown, submitted>>
closeVars  == <<cancelled, closer, victim, gone>>
threadVars == <<pc, cur, at, err, tries, holder>>
serverVars == <<inTrans, open, log>>
vars == <<queueVars, closeVars, threadVars, serverVars, status, faults, losses>>

Entry == [op : Ops, queries : SUBSET Nat]

\* "done" and "failed": Execute() returned true or false and the operation
\* was deleted (a resultTask set its promise to the same value); "dropped":
\* deleted by Cancel(); "leaked": popped after the token was set, never run.
Statuses == {"unborn", "pushed", "done", "failed", "dropped", "leaked"}

PCs == {"pop", "wait", "test", "begin", "exec", "commit", "rollback",
        "succeed", "fail", "exited"}

Init ==
    /\ queue = <<>> /\ shutdown = FALSE /\ submitted = <<>>
    /\ cancelled = {} /\ closer = "open" /\ victim = NoWorker /\ gone = {}
    /\ pc = [w \in Workers |-> "pop"]
    /\ cur = [w \in Workers |-> NoOp]
    /\ at = [w \in Workers |-> 1]
    /\ err = [w \in Workers |-> "none"]
    /\ tries = [w \in Workers |-> 0]
    /\ holder = NoWorker
    /\ inTrans = [w \in Workers |-> FALSE]
    /\ open = [w \in Workers |-> {}]
    /\ log = <<>>
    /\ status = [o \in Ops |-> "unborn"]
    /\ faults = 0 /\ losses = 0

----------------------------------------------------------------------------
(* ProducerConsumerQueue: every method holds _queueLock, so it is one step. *)

Goto(w, label) == pc' = [pc EXCEPT ![w] = label]

\* Faults a change could bring in (PROJECT.json names the property each one
\* breaks); this one forgets notify_one, the next one is a stack.
PushSilently(o) ==
    /\ status[o] = "unborn"
    /\ queue' = Append(queue, o) /\ submitted' = Append(submitted, o)
    /\ status' = [status EXCEPT ![o] = "pushed"]
    /\ UNCHANGED <<shutdown, closeVars, threadVars, serverVars, faults, losses>>

PushInFront(o) ==
    /\ status[o] = "unborn"
    /\ queue' = <<o>> \o queue /\ submitted' = Append(submitted, o)
    /\ status' = [status EXCEPT ![o] = "pushed"]
    /\ IF \E w \in Workers : pc[w] = "wait"
         THEN \E w \in Workers : pc[w] = "wait" /\ Goto(w, "pop")
         ELSE pc' = pc
    /\ UNCHANGED <<shutdown, closeVars, cur, at, err, tries, holder,
                   serverVars, faults, losses>>

\* Push: append and notify_one.  Nothing stops a Push after Cancel.
Push(o) ==
    /\ status[o] = "unborn"
    /\ queue' = Append(queue, o)
    /\ submitted' = Append(submitted, o)
    /\ status' = [status EXCEPT ![o] = "pushed"]
    /\ IF \E w \in Workers : pc[w] = "wait"
         THEN \E w \in Workers : pc[w] = "wait" /\ Goto(w, "pop")
         ELSE pc' = pc
    /\ UNCHANGED <<shutdown, closeVars, cur, at, err, tries, holder,
                   serverVars, faults, losses>>

\* WaitAndPop blocks while the queue is empty and not shut down.
PopWait(w) ==
    /\ pc[w] = "pop" /\ queue = <<>> /\ ~shutdown
    /\ Goto(w, "wait")
    /\ UNCHANGED <<queueVars, closeVars, cur, at, err, tries, holder,
                   serverVars, status, faults, losses>>

\* A condition variable may wake without a notification.
SpuriousWakeup(w) ==
    /\ pc[w] = "wait"
    /\ Goto(w, "pop")
    /\ UNCHANGED <<queueVars, closeVars, cur, at, err, tries, holder,
                   serverVars, status, faults, losses>>

PopNothing(w) ==
    /\ pc[w] = "pop" /\ shutdown
    /\ Goto(w, "test")
    /\ UNCHANGED <<queueVars, closeVars, cur, at, err, tries, holder,
                   serverVars, status, faults, losses>>

PopOperation(w) ==
    /\ pc[w] = "pop" /\ queue # <<>> /\ ~shutdown
    /\ cur' = [cur EXCEPT ![w] = Head(queue)]
    /\ queue' = Tail(queue)
    /\ Goto(w, "test")
    /\ UNCHANGED <<shutdown, submitted, closeVars, at, err, tries, holder,
                   serverVars, status, faults, losses>>

----------------------------------------------------------------------------
(* DatabaseWorker::WorkerThread around one operation.                      *)

\* `if (_cancelationToken || !operation) return;`: an operation popped just
\* before the token was set is neither executed nor deleted.
WorkerExit(w) ==
    /\ pc[w] = "test"
    /\ w \in cancelled \/ cur[w] = NoOp
    /\ Goto(w, "exited")
    /\ status' = IF cur[w] = NoOp THEN status
                 ELSE [status EXCEPT ![cur[w]] = "leaked"]
    /\ UNCHANGED <<queueVars, closeVars, cur, at, err, tries, holder,
                   serverVars, faults, losses>>

WorkerExecute(w) ==
    /\ pc[w] = "test" /\ w \notin cancelled /\ cur[w] # NoOp
    /\ Goto(w, IF Kind[cur[w]] = "statement" THEN "exec" ELSE "begin")
    /\ UNCHANGED <<queueVars, closeVars, cur, at, err, tries, holder,
                   serverVars, status, faults, losses>>

----------------------------------------------------------------------------
(* MySQLConnection::ExecuteTransaction and Execute.                        *)

\* An empty transaction answers -1, which is not a deadlock.
BeginEmpty(w) ==
    /\ pc[w] = "begin" /\ Size[cur[w]] = 0
    /\ err' = [err EXCEPT ![w] = "other"]
    /\ Goto(w, "fail")
    /\ UNCHANGED <<queueVars, closeVars, cur, at, tries, holder,
                   serverVars, status, faults, losses>>

\* Fault: no START TRANSACTION.
BeginInAutocommit(w) ==
    /\ pc[w] = "begin" /\ Size[cur[w]] > 0
    /\ at' = [at EXCEPT ![w] = 1]
    /\ Goto(w, "exec")
    /\ UNCHANGED <<queueVars, closeVars, cur, err, tries, holder,
                   serverVars, status, faults, losses>>

BeginTransaction(w) ==
    /\ pc[w] = "begin" /\ Size[cur[w]] > 0
    /\ inTrans' = [inTrans EXCEPT ![w] = TRUE]
    /\ at' = [at EXCEPT ![w] = 1]
    /\ Goto(w, "exec")
    /\ UNCHANGED <<queueVars, closeVars, cur, err, tries, holder,
                   open, log, status, faults, losses>>

\* The server performs one query: buffered inside a transaction, durable at
\* once in autocommit mode.
Perform(w) ==
    IF inTrans[w]
      THEN /\ open' = [open EXCEPT ![w] = @ \cup {at[w]}]
           /\ log' = log
      ELSE /\ log' = Append(log, [op |-> cur[w], queries |-> {at[w]}])
           /\ open' = open

ServerForgets(w) ==
    /\ inTrans' = [inTrans EXCEPT ![w] = FALSE]
    /\ open' = [open EXCEPT ![w] = {}]

\* Fault: the loop over the queries stops one short.
QueryOkShort(w) ==
    /\ pc[w] = "exec"
    /\ Perform(w)
    /\ at' = [at EXCEPT ![w] = @ + 1]
    /\ Goto(w, IF at[w] + 1 < Size[cur[w]] THEN "exec"
               ELSE IF Kind[cur[w]] = "statement" THEN "succeed" ELSE "commit")
    /\ UNCHANGED <<queueVars, closeVars, cur, err, tries, holder, inTrans,
                   status, faults, losses>>

QueryOk(w) ==
    /\ pc[w] = "exec"
    /\ Perform(w)
    /\ at' = [at EXCEPT ![w] = @ + 1]
    /\ Goto(w, IF at[w] < Size[cur[w]] THEN "exec"
               ELSE IF Kind[cur[w]] = "statement" THEN "succeed" ELSE "commit")
    /\ UNCHANGED <<queueVars, closeVars, cur, err, tries, holder, inTrans,
                   status, faults, losses>>

\* ER_LOCK_DEADLOCK (the server rolls the transaction back) or another error
\* the server answers (the transaction stays open until ROLLBACK).
QueryRefused(w, why) ==
    /\ pc[w] = "exec" /\ faults < MaxFaults
    /\ faults' = faults + 1
    /\ err' = [err EXCEPT ![w] = why]
    /\ IF why = "deadlock" THEN ServerForgets(w) ELSE UNCHANGED <<inTrans, open>>
    /\ Goto(w, IF Kind[cur[w]] = "statement" THEN "fail" ELSE "rollback")
    /\ UNCHANGED <<queueVars, closeVars, cur, at, tries, holder,
                   log, status, losses>>

\* CR_SERVER_LOST: _HandleMySQLErrno opens a new session (autocommit on) and
\* Execute sends the same query again on it.  The server rolled back what was
\* open; an autocommitted query may have been applied before the answer was lost.
QueryLost(w, applied) ==
    /\ pc[w] = "exec" /\ losses < MaxLosses
    /\ losses' = losses + 1
    /\ ServerForgets(w)
    /\ log' = IF applied /\ ~inTrans[w]
                THEN Append(log, [op |-> cur[w], queries |-> {at[w]}])
                ELSE log
    /\ UNCHANGED <<queueVars, closeVars, threadVars, status, faults>>

\* Fault: the error path returns before ROLLBACK.
ReturnWithoutRollback(w) ==
    /\ pc[w] = "rollback"
    /\ Goto(w, "fail")
    /\ UNCHANGED <<queueVars, closeVars, cur, at, err, tries, holder,
                   serverVars, status, faults, losses>>

RollbackTransaction(w) ==
    /\ pc[w] = "rollback"
    /\ ServerForgets(w)
    /\ Goto(w, "fail")
    /\ UNCHANGED <<queueVars, closeVars, cur, at, err, tries, holder,
                   log, status, faults, losses>>

\* Fault: the retry loop does not end on success.
CommitAndLoop(w) ==
    /\ pc[w] = "commit"
    /\ log' = Append(log, [op |-> cur[w], queries |-> open[w]])
    /\ ServerForgets(w)
    /\ Goto(w, IF holder = w THEN "fail" ELSE "succeed")
    /\ UNCHANGED <<queueVars, closeVars, cur, at, err, tries, holder,
                   status, faults, losses>>

\* The answer of COMMIT is ignored and ExecuteTransaction returns 0.
CommitTransaction(w) ==
    /\ pc[w] = "commit"
    /\ log' = IF inTrans[w] THEN Append(log, [op |-> cur[w], queries |-> open[w]])
              ELSE log
    /\ ServerForgets(w)
    /\ Goto(w, "succeed")
    /\ UNCHANGED <<queueVars, closeVars, cur, at, err, tries, holder,
                   status, faults, losses>>

\* COMMIT lost on its way: the transaction is rolled back, the new session
\* accepts a COMMIT of nothing.  (Lost on the way back it did commit, and the
\* second COMMIT changes nothing: the step above.)
CommitLost(w) ==
    /\ pc[w] = "commit" /\ losses < MaxLosses
    /\ losses' = losses + 1
    /\ ServerForgets(w)
    /\ Goto(w, "succeed")
    /\ UNCHANGED <<queueVars, closeVars, cur, at, err, tries, holder,
                   log, status, faults>>

----------------------------------------------------------------------------
(* TransactionTask::Execute and TransactionWithResultTask::Execute.        *)

\* The operation is over: its promise is set, the lock_guard leaves its scope
\* and WorkerThread deletes it.
Finish(w, result) ==
    /\ status' = [status EXCEPT ![cur[w]] = result]
    /\ cur' = [cur EXCEPT ![w] = NoOp]
    /\ at' = [at EXCEPT ![w] = 1]
    /\ err' = [err EXCEPT ![w] = "none"]
    /\ tries' = [tries EXCEPT ![w] = 0]
    /\ holder' = IF holder = w THEN NoWorker ELSE holder
    /\ Goto(w, "pop")
    /\ UNCHANGED <<queueVars, closeVars, serverVars, faults, losses>>

Succeed(w) == pc[w] = "succeed" /\ Finish(w, "done")

\* Only a first attempt that failed with ER_LOCK_DEADLOCK is retried.
TakeDeadlockLock(w) ==
    /\ pc[w] = "fail" /\ holder # w
    /\ err[w] = "deadlock" /\ Kind[cur[w]] # "statement"
    /\ holder = NoWorker
    /\ holder' = w
    /\ tries' = [tries EXCEPT ![w] = 1]
    /\ Goto(w, "begin")
    /\ UNCHANGED <<queueVars, closeVars, cur, at, err, serverVars, status,
                   faults, losses>>

\* A retry that failed, whatever the error: a resultTask counts to RetryLimit,
\* a task goes on until DEADLOCK_MAX_RETRY_TIME_MS have passed.
RetryAgain(w) ==
    /\ pc[w] = "fail" /\ holder = w
    /\ Kind[cur[w]] = "resultTask" => tries[w] < RetryLimit
    /\ tries' = [tries EXCEPT ![w] =
                   IF Kind[cur[w]] = "resultTask" THEN @ + 1 ELSE @]
    /\ Goto(w, "begin")
    /\ UNCHANGED <<queueVars, closeVars, cur, at, err, holder, serverVars,
                   status, faults, losses>>

\* Faults: a failure is answered like a success; the error code is the answer.
GiveUpQuietly(w) ==
    /\ pc[w] = "fail"
    /\ holder # w => err[w] # "deadlock" \/ Kind[cur[w]] = "statement"
    /\ holder = w => (Kind[cur[w]] = "resultTask" => tries[w] = RetryLimit)
    /\ Finish(w, "done")

GiveUpWithCode(w) ==
    /\ pc[w] = "fail"
    /\ holder # w => err[w] # "deadlock" \/ Kind[cur[w]] = "statement"
    /\ holder = w => (Kind[cur[w]] = "resultTask" => tries[w] = RetryLimit)
    /\ Finish(w, err[w])

GiveUp(w) ==
    /\ pc[w] = "fail"
    /\ \/ holder # w /\ (err[w] # "deadlock" \/ Kind[cur[w]] = "statement")
       \/ holder = w /\ (Kind[cur[w]] = "resultTask" => tries[w] = RetryLimit)
    /\ Finish(w, "failed")

----------------------------------------------------------------------------
(* DatabaseWorkerPool::Close: `_connections[IDX_ASYNC].clear()` runs        *)
(* ~MySQLConnection, hence ~DatabaseWorker, for one connection at a time.   *)

DestroyWorker ==
    /\ closer \in {"open", "next"}
    /\ \E w \in Workers \ gone :
         /\ victim' = w
         /\ cancelled' = cancelled \cup {w}
    /\ closer' = "cancel"
    /\ UNCHANGED <<queueVars, gone, threadVars, serverVars, status, faults, losses>>

\* Fault: Cancel without notify_all.
CancelSilently ==
    /\ closer = "cancel"
    /\ status' = [o \in Ops |-> IF \E k \in DOMAIN queue : queue[k] = o
                                  THEN "dropped" ELSE status[o]]
    /\ queue' = <<>> /\ shutdown' = TRUE /\ closer' = "join"
    /\ UNCHANGED <<submitted, cancelled, victim, gone, threadVars, serverVars,
                   faults, losses>>

\* ProducerConsumerQueue::Cancel deletes what is queued, for every worker of
\* the pool, and wakes all of them.
CancelQueue ==
    /\ closer = "cancel"
    /\ status' = [o \in Ops |-> IF \E k \in DOMAIN queue : queue[k] = o
                                  THEN "dropped" ELSE status[o]]
    /\ queue' = <<>>
    /\ shutdown' = TRUE
    /\ pc' = [w \in Workers |-> IF pc[w] = "wait" THEN "pop" ELSE pc[w]]
    /\ closer' = "join"
    /\ UNCHANGED <<submitted, cancelled, victim, gone, cur, at, err, tries,
                   holder, serverVars, faults, losses>>

JoinWorker ==
    /\ closer = "join" /\ pc[victim] = "exited"
    /\ gone' = gone \cup {victim}
    /\ victim' = NoWorker
    /\ closer' = IF gone \cup {victim} = Workers THEN "closed" ELSE "next"
    /\ UNCHANGED <<queueVars, cancelled, threadVars, serverVars, status,
                   faults, losses>>

----------------------------------------------------------------------------
WorkerStep(w) ==
    \/ PopWait(w) \/ PopNothing(w) \/ PopOperation(w)
    \/ WorkerExit(w) \/ WorkerExecute(w)
    \/ BeginEmpty(w) \/ BeginTransaction(w)
    \/ QueryOk(w) \/ RollbackTransaction(w) \/ CommitTransaction(w)
    \/ Succeed(w) \/ TakeDeadlockLock(w) \/ RetryAgain(w) \/ GiveUp(w)

\* What the server and the condition variable may do to a worker.
Environment(w) ==
    \/ SpuriousWakeup(w)
    \/ \E why \in {"deadlock", "other"} : QueryRefused(w, why)
    \/ \E applied \in BOOLEAN : QueryLost(w, applied)
    \/ CommitLost(w)

CloseStep == DestroyWorker \/ CancelQueue \/ JoinWorker

Next ==
    \/ \E o \in Ops : Push(o)
    \/ \E w \in Workers : WorkerStep(w) \/ Environment(w)
    \/ CloseStep

Spec == Init /\ [][Next]_vars

\* A running thread takes its next step, a thread blocked on _deadlockLock is
\* served when the lock is free infinitely often, and a Close once begun goes
\* on (the fairness does not make anybody call Close).
Fairness ==
    /\ \A w \in Workers : WF_vars(WorkerStep(w)) /\ SF_vars(TakeDeadlockLock(w))
    /\ WF_vars(closer # "open" /\ CloseStep)

FairSpec == Spec /\ Fairness

----------------------------------------------------------------------------
(* Properties.                                                             *)

TypeOK ==
    /\ queue \in Seq(Ops) /\ submitted \in Seq(Ops) /\ shutdown \in BOOLEAN
    /\ cancelled \in SUBSET Workers /\ gone \in SUBSET Workers
    /\ closer \in {"open", "cancel", "join", "next", "closed"}
    /\ victim \in Workers \cup {NoWorker}
    /\ pc \in [Workers -> PCs]
    /\ cur \in [Workers -> Ops \cup {NoOp}]
    /\ at \in [Workers -> Nat] /\ tries \in [Workers -> Nat]
    /\ err \in [Workers -> {"none", "deadlock", "other"}]
    /\ holder \in Workers \cup {NoWorker}
    /\ inTrans \in [Workers -> BOOLEAN]
    /\ open \in [Workers -> SUBSET Nat]
    /\ log \in Seq(Entry)
    /\ status \in [Ops -> Statuses]
    /\ faults \in Nat /\ losses \in Nat

\* An attempt at a transaction never leaves anything open in the server for
\* the next attempt, or the next operation, of the same connection: every
\* path out of ExecuteTransaction passes a COMMIT or a ROLLBACK, also the one
\* on which the server refused a query or the session was replaced.
NothingLeftOpen ==
    \A w \in Workers : pc[w] \notin {"exec", "commit", "rollback"}
                         => ~inTrans[w] /\ open[w] = {}

AppliedOps == {log[k].op : k \in DOMAIN log}
Whole(e) == e.queries = 1 .. Size[e.op]

\* No part of an operation becomes durable before the rest of it does.
AllOrNothing == \A k \in DOMAIN log : Whole(log[k])

\* "Begins an automanaged transaction pointer that will automatically
\* rollback if not commited. (Autocommit=0)" (DatabaseWorkerPool.h:186): of a
\* transaction that is over, the database holds every query or none.
NoPartialTransaction ==
    \A o \in Ops :
        LET durable == UNION {log[k].queries : k \in {i \in DOMAIN log : log[i].op = o}}
        IN  status[o] \in {"done", "failed"} => durable \in {{}, 1 .. Size[o]}

\* No retry and no second worker applies an operation again.
AtMostOnce == \A j, k \in DOMAIN log : log[j].op = log[k].op => j = k

\* What the future of AsyncCommitTransaction answers is what happened: true
\* only for an operation in the database, false only for one that is not and
\* never will be.
TruthfulAnswer ==
    \A o \in Ops : /\ status[o] = "done" => o \in AppliedOps
                   /\ status[o] = "failed" => o \notin AppliedOps

\* The pool as its callers see it: every durable entry is one operation.
Torn == NoOp
TableOf == [k \in DOMAIN log |-> IF Whole(log[k]) THEN log[k].op ELSE Torn]
Atomic == INSTANCE AtomicExecution WITH table <- TableOf

\* The pool implements the promise made to its callers.
ImplementsAtomic == Atomic!Spec

Position(o) == CHOOSE k \in DOMAIN submitted : submitted[k] = o

\* With one asynchronous connection (the default WorkerThreads = 1) the
\* database sees the operations in the order of their Push, retries included:
\* the save of a character precedes the load that was requested after it.
CommitOrder ==
    \A j, k \in DOMAIN log :
        j < k => Position(log[j].op) <= Position(log[k].op)

\* Close() returns: every worker leaves its wait, its retries and the mutex
\* the retries share, whichever step it was at.
CloseTerminates == closer # "open" ~> closer = "closed"

\* While nobody closes the pool, a pushed operation is executed: no wakeup is
\* lost between Push and WaitAndPop and no failure blocks the queue.
EveryOperationEnds ==
    \A o \in Ops : (status[o] = "pushed" /\ ~shutdown) ~> status[o] # "pushed"

----------------------------------------------------------------------------
(* The inductive invariant behind the safety properties.                   *)

Busy == {"begin", "exec", "commit", "rollback", "succeed", "fail"}

\* A worker between two operations holds none, a busy one holds one.
Holding ==
    \A w \in Workers : /\ pc[w] \in Busy => cur[w] \in Ops
                       /\ pc[w] \in {"pop", "wait"} => cur[w] = NoOp

Held(w) == cur[w] # NoOp /\ pc[w] # "exited"

\* A pushed operation has one owner: the queue or one worker.
OneOwner ==
    /\ \A k \in DOMAIN queue : status[queue[k]] = "pushed"
    /\ \A j, k \in DOMAIN queue : queue[j] = queue[k] => j = k
    /\ \A w \in Workers : Held(w) =>
         /\ status[cur[w]] = "pushed"
         /\ \A k \in DOMAIN queue : queue[k] # cur[w]
         /\ \A v \in Workers : Held(v) /\ cur[v] = cur[w] => v = w

\* What the server has buffered for a connection is exactly what its worker
\* executed since START TRANSACTION, and only transactions hold _deadlockLock.
InStep(w) ==
    /\ ~inTrans[w] => open[w] = {}
    /\ inTrans[w] => /\ pc[w] \in {"exec", "commit", "rollback"}
                     /\ open[w] = 1 .. (at[w] - 1)
    /\ pc[w] = "begin" => Kind[cur[w]] # "statement"
    /\ pc[w] = "exec" => /\ at[w] \in 1 .. Size[cur[w]]
                         /\ inTrans[w] <=> Kind[cur[w]] # "statement"
    /\ pc[w] = "commit" => inTrans[w] /\ at[w] = Size[cur[w]] + 1
    /\ pc[w] \notin Busy => at[w] = 1
    /\ holder = w => pc[w] \in Busy /\ Kind[cur[w]] # "statement"

ServerInStep == \A w \in Workers : InStep(w)

\* An operation is in the log when its worker is about to report success or
\* has reported it, and at no other time.
LogInStep ==
    /\ \A k \in DOMAIN log :
         \/ status[log[k].op] = "done"
         \/ \E w \in Workers : pc[w] = "succeed" /\ cur[w] = log[k].op
    /\ \A o \in Ops : status[o] = "done" => o \in AppliedOps
    /\ \A w \in Workers : pc[w] = "succeed" => cur[w] \in AppliedOps

NoLossInv ==
    Holding /\ OneOwner /\ ServerInStep /\ LogInStep /\ AllOrNothing /\ AtMostOnce

\* The part of it that survives lost connections: a connection has nothing
\* open outside a transaction's attempt, and single statements never begin one.
CleanAt(w) ==
    /\ pc[w] \notin {"exec", "commit", "rollback"} \/ Kind[cur[w]] = "statement"
         => ~inTrans[w] /\ open[w] = {}
    /\ pc[w] \in {"begin", "commit", "rollback"} => Kind[cur[w]] # "statement"
    /\ holder = w => pc[w] \in Busy /\ Kind[cur[w]] # "statement"

Clean == \A w \in Workers : CleanAt(w)
=============================================================================
