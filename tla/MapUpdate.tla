------------------------------ MODULE MapUpdate ------------------------------
(***************************************************************************)
(* The parallel part of World::Update: MapManager::Update hands one task    *)
(* per map to the BackgroundWorker threads through a SyncQueue and waits     *)
(* for all of them with a BackgroundGroupUpdater, a counter of references    *)
(* whose last holder satisfies a promise.  Also the end of the process:      *)
(* Master::Run joins the world thread and calls BackgroundWorker::Shutdown.  *)
(***************************************************************************)
EXTENDS Integers, Sequences, FiniteSets

CONSTANTS
    Workers,     \* threads of the BackgroundWorker
    NoWorker,
    Maps,        \* maps that may exist in a round
    Lfg,         \* the task that runs LFGMgr::Update
    Detached,    \* tasks pushed with DetachedTask (Warden reports)
    NoTask,
    MaxRounds    \* bound: calls of MapManager::Update

Jobs == Maps \cup {Lfg}
Tasks == Jobs \cup Detached

ASSUME WorkersAssumption == Workers # {} /\ NoWorker \notin Workers
ASSUME TaskAssumption ==
    /\ NoTask \notin Tasks /\ Lfg \notin Maps /\ Jobs \cap Detached = {}
    /\ IsFiniteSet(Maps)
ASSUME RoundAssumption == MaxRounds \in Nat

VARIABLES
    queue,      \* SyncQueue::m_queue
    closed,     \* SyncQueue::m_closed, set without the mutex
    mutex,      \* the worker that holds SyncQueue::m_mutex between two steps
    isRunning,  \* BackgroundWorker::m_isRunning
    pc,         \* per worker: its next step
    cur,        \* per worker: the task it popped
    world,      \* where the world thread stands in MapManager::Update
    toRun,      \* the maps of the round that are not queued yet, Lfg first
    next,       \* the task whose reference is taken and which is not pushed
    counter,    \* BackgroundGroupUpdater::m_counter
    ready,      \* its promise is satisfied
    main,       \* where Master::Run stands
    round,      \* history: the jobs of the round
    updated,    \* history: the jobs of the round that are done
    rounds,     \* history: the number of rounds begun
    reported    \* history: detached tasks pushed

queueVars  == <<queue, closed, mutex>>
workerVars == <<pc, cur, isRunning>>
worldVars  == <<world, toRun, next>>
groupVars  == <<counter, ready>>
historyVars == <<round, updated, rounds, reported>>
vars == <<queueVars, workerVars, worldVars, groupVars, main, historyVars>>

Init ==
    /\ queue = <<>> /\ closed = FALSE /\ mutex = NoWorker
    /\ isRunning = TRUE
    /\ pc = [w \in Workers |-> "loop"] /\ cur = [w \in Workers |-> NoTask]
    /\ world = "alone" /\ toRun = {} /\ next = NoTask
    /\ counter = 0 /\ ready = FALSE
    /\ main = "run"
    /\ round = {} /\ updated = {} /\ rounds = 0 /\ reported = {}

Goto(w, label) == pc' = [pc EXCEPT ![w] = label]

----------------------------------------------------------------------------
(* SyncQueue.                                                              *)

\* Fault: no notify_one.
PushSilently(t) ==
    /\ mutex = NoWorker
    /\ queue' = Append(queue, t)
    /\ UNCHANGED <<closed, mutex, pc>>

\* push_back: append and notify_one under the mutex.
PushBack(t) ==
    /\ mutex = NoWorker
    /\ queue' = Append(queue, t)
    /\ IF \E w \in Workers : pc[w] = "asleep"
         THEN \E w \in Workers : pc[w] = "asleep" /\ Goto(w, "lock")
         ELSE pc' = pc
    /\ UNCHANGED <<closed, mutex>>

\* pop: the queue is closed, and the worker gets no task.
PopClosed(w) ==
    /\ pc[w] = "lock" /\ mutex = NoWorker /\ closed
    /\ Goto(w, "loop")
    /\ UNCHANGED <<queueVars, cur, isRunning, worldVars, groupVars, main, historyVars>>

\* Fault: front() without pop_front().
PopByCopy(w) ==
    /\ pc[w] = "lock" /\ mutex = NoWorker /\ ~closed /\ queue # <<>>
    /\ cur' = [cur EXCEPT ![w] = Head(queue)]
    /\ Goto(w, "run")
    /\ UNCHANGED <<queueVars, isRunning, worldVars, groupVars, main, historyVars>>

PopTask(w) ==
    /\ pc[w] = "lock" /\ mutex = NoWorker /\ ~closed /\ queue # <<>>
    /\ cur' = [cur EXCEPT ![w] = Head(queue)]
    /\ queue' = Tail(queue)
    /\ Goto(w, "run")
    /\ UNCHANGED <<closed, mutex, isRunning, worldVars, groupVars, main, historyVars>>

\* The loop's condition holds; until wait() releases it the mutex is held, but
\* close() does not take the mutex.
PopEmpty(w) ==
    /\ pc[w] = "lock" /\ mutex = NoWorker /\ ~closed /\ queue = <<>>
    /\ mutex' = w
    /\ Goto(w, "waits")
    /\ UNCHANGED <<queue, closed, cur, isRunning, worldVars, groupVars, main, historyVars>>

Sleep(w) ==
    /\ pc[w] = "waits"
    /\ mutex' = NoWorker
    /\ Goto(w, "asleep")
    /\ UNCHANGED <<queue, closed, cur, isRunning, worldVars, groupVars, main, historyVars>>

SpuriousWakeup(w) ==
    /\ pc[w] = "asleep"
    /\ Goto(w, "lock")
    /\ UNCHANGED <<queueVars, cur, isRunning, worldVars, groupVars, main, historyVars>>

----------------------------------------------------------------------------
(* The threads of the BackgroundWorker.                                    *)

TestRunning(w) ==
    /\ pc[w] = "loop"
    /\ Goto(w, IF isRunning THEN "lock" ELSE "ended")
    /\ UNCHANGED <<queueVars, cur, isRunning, worldVars, groupVars, main, historyVars>>

\* func() of a task of the group: map->Update or LFGMgr::Update.
RunJob(w) ==
    /\ pc[w] = "run" /\ cur[w] \in Jobs
    /\ updated' = updated \cup {cur[w]}
    /\ Goto(w, "remref")
    /\ UNCHANGED <<queueVars, cur, isRunning, worldVars, groupVars, main,
                   round, rounds, reported>>

RunDetached(w) ==
    /\ pc[w] = "run" /\ cur[w] \in Detached
    /\ cur' = [cur EXCEPT ![w] = NoTask]
    /\ Goto(w, "loop")
    /\ UNCHANGED <<queueVars, isRunning, worldVars, groupVars, main, historyVars>>

\* RemRef: `m_counter.fetch_sub(1) == 1` finds the last reference.
RemRef(w) ==
    /\ pc[w] = "remref"
    /\ counter' = counter - 1
    /\ cur' = [cur EXCEPT ![w] = NoTask]
    /\ Goto(w, IF counter = 1 THEN "satisfy" ELSE "loop")
    /\ UNCHANGED <<queueVars, isRunning, worldVars, ready, main, historyVars>>

Satisfy(w) ==
    /\ pc[w] = "satisfy"
    /\ ready' = TRUE
    /\ Goto(w, "loop")
    /\ UNCHANGED <<queueVars, cur, isRunning, worldVars, counter, main, historyVars>>

\* A handler that runs in the world thread or in a map's task reports to Warden.
Report(t) ==
    /\ t \in Detached \ reported
    /\ world = "alone" \/ \E w \in Workers : pc[w] = "run" /\ cur[w] \in Maps
    /\ PushBack(t)
    /\ reported' = reported \cup {t}
    /\ UNCHANGED <<cur, isRunning, worldVars, groupVars, main, round, updated, rounds>>

----------------------------------------------------------------------------
(* MapManager::Update in the world thread.                                 *)

\* Fault: the constructor takes no reference of its own.
BeginWithoutRef ==
    /\ world = "alone" /\ rounds < MaxRounds
    /\ \E maps \in SUBSET Maps : round' = maps \cup {Lfg}
    /\ toRun' = round' /\ updated' = {} /\ rounds' = rounds + 1
    /\ counter' = 0 /\ ready' = FALSE
    /\ world' = "queue"
    /\ UNCHANGED <<queueVars, workerVars, next, main, reported>>

\* A BackgroundGroupUpdater is constructed and holds one reference itself.
BeginUpdate ==
    /\ world = "alone" /\ rounds < MaxRounds
    /\ \E maps \in SUBSET Maps : round' = maps \cup {Lfg}
    /\ toRun' = round' /\ updated' = {} /\ rounds' = rounds + 1
    /\ counter' = 1 /\ ready' = FALSE
    /\ world' = "queue"
    /\ UNCHANGED <<queueVars, workerVars, next, main, reported>>

\* Fault: the reference is not taken before the task is pushed.
AddNoRef ==
    /\ world = "queue" /\ toRun # {}
    /\ next' \in IF Lfg \in toRun THEN {Lfg} ELSE toRun
    /\ toRun' = toRun \ {next'}
    /\ world' = "push"
    /\ UNCHANGED <<queueVars, workerVars, groupVars, main, historyVars>>

\* BackgroundGroupUpdater::Run: AddRef, then push the task.
AddRef ==
    /\ world = "queue" /\ toRun # {}
    /\ next' \in IF Lfg \in toRun THEN {Lfg} ELSE toRun
    /\ toRun' = toRun \ {next'}
    /\ counter' = counter + 1
    /\ world' = "push"
    /\ UNCHANGED <<queueVars, workerVars, ready, main, historyVars>>

PushTask ==
    /\ world = "push"
    /\ PushBack(next)
    /\ next' = NoTask
    /\ world' = "queue"
    /\ UNCHANGED <<cur, isRunning, toRun, groupVars, main, historyVars>>

\* Wait gives up the updater's own reference, once (m_waitCalled): the
\* destructor's Wait finds the flag set and the future ready.
CallWait ==
    /\ world = "queue" /\ toRun = {}
    /\ counter' = counter - 1
    /\ world' = IF counter = 1 THEN "satisfy" ELSE "wait"
    /\ UNCHANGED <<queueVars, workerVars, toRun, next, ready, main, historyVars>>

SatisfySelf ==
    /\ world = "satisfy"
    /\ ready' = TRUE
    /\ world' = "wait"
    /\ UNCHANGED <<queueVars, workerVars, toRun, next, counter, main, historyVars>>

\* Fault: the future is not waited for.
PassEarly ==
    /\ world = "wait"
    /\ world' = "alone"
    /\ UNCHANGED <<queueVars, workerVars, toRun, next, groupVars, main, historyVars>>

\* The future is ready: DelayedUpdate of the maps and the rest of World::Update,
\* UpdateSessions of the next tick included, run with no task of the group.
PassBarrier ==
    /\ world = "wait" /\ ready
    /\ world' = "alone"
    /\ UNCHANGED <<queueVars, workerVars, toRun, next, groupVars, main, historyVars>>

StopWorld ==
    /\ world = "alone"
    /\ world' = "ended"
    /\ UNCHANGED <<queueVars, workerVars, toRun, next, groupVars, main, historyVars>>

----------------------------------------------------------------------------
(* BackgroundWorker::Shutdown, after the world thread is joined.           *)

StopRunning ==
    /\ main = "run" /\ world = "ended"
    /\ isRunning' = FALSE
    /\ main' = "close"
    /\ UNCHANGED <<queueVars, pc, cur, worldVars, groupVars, historyVars>>

Close ==
    /\ main = "close"
    /\ closed' = TRUE
    /\ main' = "notify"
    /\ UNCHANGED <<queue, mutex, workerVars, worldVars, groupVars, historyVars>>

NotifyAll ==
    /\ main = "notify"
    /\ pc' = [w \in Workers |-> IF pc[w] = "asleep" THEN "lock" ELSE pc[w]]
    /\ main' = "join"
    /\ UNCHANGED <<queueVars, cur, isRunning, worldVars, groupVars, historyVars>>

JoinWorkers ==
    /\ main = "join" /\ \A w \in Workers : pc[w] = "ended"
    /\ main' = "clean"
    /\ UNCHANGED <<queueVars, workerVars, worldVars, groupVars, historyVars>>

----------------------------------------------------------------------------
Locks(w) == PopClosed(w) \/ PopTask(w) \/ PopEmpty(w)

WorkerStep(w) ==
    \/ TestRunning(w) \/ Locks(w) \/ Sleep(w)
    \/ RunJob(w) \/ RunDetached(w) \/ RemRef(w) \/ Satisfy(w)

WorldStep ==
    BeginUpdate \/ AddRef \/ PushTask \/ CallWait \/ SatisfySelf \/ PassBarrier

MainStep == StopRunning \/ Close \/ NotifyAll \/ JoinWorkers

Next ==
    \/ \E w \in Workers : WorkerStep(w) \/ SpuriousWakeup(w)
    \/ \E t \in Detached : Report(t)
    \/ WorldStep \/ StopWorld
    \/ MainStep

Spec == Init /\ [][Next]_vars

\* Every thread takes its next step, an update of a map ends, and a thread that
\* wants the mutex gets it when it is free infinitely often.
Fairness ==
    /\ \A w \in Workers : WF_vars(WorkerStep(w)) /\ SF_vars(Locks(w))
    /\ WF_vars(WorldStep) /\ SF_vars(PushTask)
    /\ WF_vars(MainStep)

FairSpec == Spec /\ Fairness

----------------------------------------------------------------------------
(* Properties.                                                             *)

PCs == {"loop", "lock", "waits", "asleep", "run", "remref", "satisfy", "ended"}

Shape ==
    /\ queue \in Seq(Tasks) /\ closed \in BOOLEAN /\ isRunning \in BOOLEAN
    /\ mutex \in Workers \cup {NoWorker}
    /\ pc \in [Workers -> PCs] /\ cur \in [Workers -> Tasks \cup {NoTask}]
    /\ world \in {"alone", "queue", "push", "satisfy", "wait", "ended"}
    /\ toRun \subseteq Jobs /\ next \in Jobs \cup {NoTask}
    /\ counter \in Int /\ ready \in BOOLEAN
    /\ main \in {"run", "close", "notify", "join", "clean"}
    /\ round \subseteq Jobs /\ updated \subseteq Jobs
    /\ rounds \in Nat /\ reported \subseteq Detached

\* Every variable has its type, and the unsigned m_counter, an integer here,
\* never wraps around below zero.
TypeOK == Shape /\ counter \in Nat

InRound == world \in {"queue", "push", "satisfy", "wait"}

Queued(t) == \E k \in DOMAIN queue : queue[k] = t
HeldBy(w, t) == pc[w] \in {"run", "remref"} /\ cur[w] = t

\* The jobs that hold a reference to the updater.
Pending == {j \in Jobs : \/ next = j \/ Queued(j)
                         \/ \E w \in Workers : HeldBy(w, j)}

\* The counter is the number of references, whatever the threads do meanwhile.
CounterExact ==
    counter = Cardinality(Pending) + IF world \in {"queue", "push"} THEN 1 ELSE 0

\* set_value is called once per promise; a second call would throw.
SatisfiedOnce ==
    /\ \A w \in Workers : pc[w] = "satisfy" => ~ready /\ world # "satisfy"
    /\ world = "satisfy" => ~ready
    /\ \A v, w \in Workers : pc[v] = "satisfy" /\ pc[w] = "satisfy" => v = w

\* Nobody updates a map that another thread updates or that had its update in
\* this round.
OneUpdater ==
    \A w \in Workers : pc[w] = "run" /\ cur[w] \in Jobs =>
        /\ cur[w] \in round \ updated
        /\ \A v \in Workers \ {w} : pc[v] = "run" => cur[v] # cur[w]

\* When MapManager::Update goes on after Wait() and destroys the updater, every
\* job of the round is done and no thread will touch the updater again.
Quiet ==
    ~InRound => /\ Pending = {} /\ round \subseteq updated
                /\ \A w \in Workers : pc[w] # "satisfy"

Round == INSTANCE ParallelRound
             WITH phase <- IF InRound THEN "parallel" ELSE "alone",
                  todo <- round \ updated

\* The world thread and the maps' threads alternate as World::Update assumes.
ImplementsRound == Round!Spec

\* Wait() returns: no wakeup is lost between push_back and pop, and the last
\* reference is noticed by somebody.
RoundEnds == world = "wait" ~> world = "alone"

\* "Clean database before leaving" (Master.cpp:266) follows Shutdown(), which
\* therefore has to return.
ShutdownReturns == main = "close" ~> main = "clean"

----------------------------------------------------------------------------
(* The inductive invariant behind the safety properties.                   *)

\* A job is in at most one place: about to be pushed, in the queue once, or with
\* one worker.
OnePlace ==
    /\ next # NoTask <=> world = "push"
    /\ \A w \in Workers : /\ pc[w] = "run" => cur[w] \in Tasks
                          /\ pc[w] = "remref" => cur[w] \in Jobs
    /\ \A j, k \in DOMAIN queue : queue[j] = queue[k] /\ queue[j] \in Jobs => j = k
    /\ \A j \in Jobs : Queued(j) => next # j
    /\ \A w \in Workers, j \in Jobs : HeldBy(w, j) =>
         /\ next # j /\ ~Queued(j)
         /\ \A v \in Workers : HeldBy(v, j) => v = w

\* The jobs of the round are split into those still to queue, those that hold a
\* reference and those that are done and have given it back.
RoundInStep ==
    /\ Pending \subseteq round /\ toRun \subseteq round /\ updated \subseteq round
    /\ round \subseteq toRun \cup Pending \cup updated
    /\ toRun \cap Pending = {} /\ toRun \cap updated = {}
    /\ \A j \in Jobs : Queued(j) \/ next = j => j \notin updated
    /\ \A w \in Workers : /\ pc[w] = "run" => cur[w] \notin updated
                          /\ pc[w] = "remref" => cur[w] \in updated
    /\ world \notin {"queue", "push"} => toRun = {}

\* The promise is satisfied, or about to be, only when no reference is left.
PromiseInStep ==
    /\ world \in {"queue", "push"} => ~ready
    /\ world = "satisfy" => counter = 0 /\ ~ready
    /\ ready \/ ~InRound => counter = 0
    /\ \A w \in Workers : pc[w] = "satisfy" =>
         /\ world = "wait" /\ counter = 0 /\ ~ready
         /\ \A v \in Workers : pc[v] = "satisfy" => v = w

RoundInv == OnePlace /\ RoundInStep /\ CounterExact /\ PromiseInStep
=============================================================================
