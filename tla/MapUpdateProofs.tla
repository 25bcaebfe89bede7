--------------------------- MODULE MapUpdateProofs ---------------------------
(***************************************************************************)
(* Theorems about MapUpdate for every set of worker threads and of maps.   *)
(***************************************************************************)
EXTENDS MapUpdate, FiniteSetTheorems, TLAPS

(* ---- Queues and references ------------------------------------------- *)

Holds(q, x) == \E k \in DOMAIN q : q[k] = x

\* What pop_front leaves and what it returns.
LEMMA TailHolds ==
    ASSUME NEW S, NEW q \in Seq(S), q # <<>>
    PROVE  /\ Head(q) \in S /\ Tail(q) \in Seq(S)
           /\ 1 \in DOMAIN q /\ q[1] = Head(q)
           /\ \A k \in DOMAIN Tail(q) : k + 1 \in DOMAIN q /\ Tail(q)[k] = q[k + 1] /\ k \in Nat /\ k # 0
           /\ \A x : Holds(q, x) <=> x = Head(q) \/ Holds(Tail(q), x)
<1>1. /\ Head(q) \in S /\ Tail(q) \in Seq(S)
      /\ 1 \in DOMAIN q /\ q[1] = Head(q)
      /\ \A k \in DOMAIN Tail(q) : k + 1 \in DOMAIN q /\ Tail(q)[k] = q[k + 1] /\ k \in Nat /\ k # 0
  OBVIOUS
<1>2. ASSUME NEW x, Holds(q, x), x # Head(q) PROVE Holds(Tail(q), x)
  <2>1. PICK k \in DOMAIN q : q[k] = x
    BY <1>2 DEF Holds
  <2>2. k # 1 /\ k \in 1 .. Len(q)
    BY <1>1, <1>2, <2>1
  <2>3. k - 1 \in DOMAIN Tail(q) /\ Tail(q)[k - 1] = x
    BY <2>1, <2>2
  <2> QED BY <2>3 DEF Holds
<1>3. ASSUME NEW x, Holds(Tail(q), x) PROVE Holds(q, x)
  BY <1>1, <1>3 DEF Holds
<1> QED BY <1>1, <1>2, <1>3 DEF Holds

\* What push_back adds.
LEMMA AppendHolds ==
    ASSUME NEW S, NEW q \in Seq(S), NEW e \in S
    PROVE  /\ Append(q, e) \in Seq(S)
           /\ \A x : Holds(Append(q, e), x) <=> x = e \/ Holds(q, x)
           /\ \A k \in DOMAIN Append(q, e) :
                \/ k \in DOMAIN q /\ Append(q, e)[k] = q[k]
                \/ k = Len(q) + 1 /\ Append(q, e)[k] = e
<1>1. /\ Append(q, e) \in Seq(S)
      /\ \A k \in DOMAIN Append(q, e) :
           \/ k \in DOMAIN q /\ Append(q, e)[k] = q[k]
           \/ k = Len(q) + 1 /\ Append(q, e)[k] = e
      /\ \A k \in DOMAIN q : k \in DOMAIN Append(q, e) /\ Append(q, e)[k] = q[k]
      /\ Len(q) + 1 \in DOMAIN Append(q, e) /\ Append(q, e)[Len(q) + 1] = e
  OBVIOUS
<1>2. ASSUME NEW x, Holds(Append(q, e), x), x # e PROVE Holds(q, x)
  BY <1>1, <1>2 DEF Holds
<1>3. ASSUME NEW x, x = e \/ Holds(q, x) PROVE Holds(Append(q, e), x)
  BY <1>1, <1>3 DEF Holds
<1> QED BY <1>1, <1>2, <1>3

\* There are finitely many references.
LEMMA PendingFinite == IsFiniteSet(Pending) /\ Cardinality(Pending) \in Nat
<1>1. IsFiniteSet(Jobs)
  BY TaskAssumption, FS_AddElement DEF Jobs
<1>2. Pending \in SUBSET Jobs
  BY DEF Pending
<1> QED BY <1>1, <1>2, FS_Subset, FS_CardinalityType

Core == <<queue, cur, next, world, toRun, counter, ready, round, updated>>
Active == {"run", "remref", "satisfy"}

(* ---- Types ----------------------------------------------------------- *)

LEMMA ShapeStep == Shape /\ OnePlace /\ [Next]_vars => Shape'
<1> SUFFICES ASSUME Shape, OnePlace, [Next]_vars PROVE Shape'
  OBVIOUS
<1> USE TaskAssumption, WorkersAssumption
    DEF Shape, queueVars, workerVars, worldVars, groupVars, historyVars, Goto, PCs
<1>1. ASSUME NEW t \in Tasks, PushBack(t)
      PROVE  queue' \in Seq(Tasks) /\ pc' \in [Workers -> PCs] /\ closed' = closed /\ mutex' = mutex
  BY <1>1 DEF PushBack
<1>2. ASSUME NEW w \in Workers, WorkerStep(w) \/ SpuriousWakeup(w) PROVE Shape'
  <2>1. CASE TestRunning(w)
    BY <2>1 DEF TestRunning
  <2>2. CASE PopClosed(w)
    BY <2>2 DEF PopClosed
  <2>3. CASE PopTask(w)
    <3>1. Head(queue) \in Tasks /\ Tail(queue) \in Seq(Tasks)
      BY <2>3, TailHolds DEF PopTask
    <3> QED BY <2>3, <3>1 DEF PopTask
  <2>4. CASE PopEmpty(w)
    BY <2>4 DEF PopEmpty
  <2>5. CASE Sleep(w)
    BY <2>5 DEF Sleep
  <2>6. CASE RunJob(w)
    BY <2>6 DEF RunJob
  <2>7. CASE RunDetached(w)
    BY <2>7 DEF RunDetached
  <2>8. CASE RemRef(w)
    BY <2>8 DEF RemRef
  <2>9. CASE Satisfy(w)
    BY <2>9 DEF Satisfy
  <2>10. CASE SpuriousWakeup(w)
    BY <2>10 DEF SpuriousWakeup
  <2> QED BY <1>2, <2>1, <2>2, <2>3, <2>4, <2>5, <2>6, <2>7, <2>8, <2>9, <2>10
          DEF WorkerStep, Locks
<1>3. ASSUME NEW t \in Detached, Report(t) PROVE Shape'
  <2>1. t \in Tasks /\ PushBack(t)
    BY <1>3 DEF Report, Tasks
  <2> QED BY <1>1, <1>3, <2>1 DEF Report
<1>4. ASSUME WorldStep \/ StopWorld PROVE Shape'
  <2>1. CASE BeginUpdate
    <3>1. PICK maps \in SUBSET Maps : round' = maps \cup {Lfg}
      BY <2>1 DEF BeginUpdate
    <3>2. round' \subseteq Jobs
      BY <3>1 DEF Jobs
    <3>3. toRun' \subseteq Jobs /\ updated' \subseteq Jobs
      BY <2>1, <3>2 DEF BeginUpdate
    <3>6. rounds' \in Nat
      BY <2>1 DEF BeginUpdate
    <3>4. counter' \in Int /\ world' \in {"alone", "queue", "push", "satisfy", "wait", "ended"}
      BY <2>1 DEF BeginUpdate
    <3>7. ready' \in BOOLEAN
      BY <2>1, Zenon DEF BeginUpdate
    <3>5. UNCHANGED <<queue, closed, mutex, pc, cur, isRunning, next, main, reported>>
      BY <2>1 DEF BeginUpdate
    <3> QED BY <3>2, <3>3, <3>4, <3>5, <3>6, <3>7
  <2>2. CASE AddRef
    BY <2>2 DEF AddRef
  <2>3. CASE PushTask
    <3>1. next \in Tasks /\ PushBack(next)
      BY <2>3 DEF PushTask, OnePlace, Tasks
    <3> QED BY <1>1, <2>3, <3>1 DEF PushTask
  <2>4. CASE CallWait
    BY <2>4 DEF CallWait
  <2>5. CASE SatisfySelf
    BY <2>5 DEF SatisfySelf
  <2>6. CASE PassBarrier
    BY <2>6 DEF PassBarrier
  <2>7. CASE StopWorld
    BY <2>7 DEF StopWorld
  <2> QED BY <1>4, <2>1, <2>2, <2>3, <2>4, <2>5, <2>6, <2>7 DEF WorldStep
<1>5. ASSUME MainStep PROVE Shape'
  BY <1>5 DEF MainStep, StopRunning, Close, NotifyAll, JoinWorkers
<1>6. CASE UNCHANGED vars
  BY <1>6 DEF vars
<1> QED BY <1>2, <1>3, <1>4, <1>5, <1>6 DEF Next

(* ---- The counter of references --------------------------------------- *)

LEMMA RoundInit == Init => Shape /\ RoundInv
<1> SUFFICES ASSUME Init PROVE Shape /\ RoundInv
  OBVIOUS
<1> USE TaskAssumption, WorkersAssumption
<1>1. queue \in Seq(Tasks) /\ DOMAIN queue = {}
  BY DEF Init
<1>2. /\ pc \in [Workers -> PCs] /\ cur \in [Workers -> Tasks \cup {NoTask}]
      /\ \A w \in Workers : pc[w] = "loop"
  BY DEF Init, PCs
<1>3. Shape
  <2>1. closed \in BOOLEAN /\ isRunning \in BOOLEAN /\ ready \in BOOLEAN
    BY Zenon DEF Init
  <2>2. /\ mutex \in Workers \cup {NoWorker} /\ next \in Jobs \cup {NoTask}
        /\ world = "alone" /\ main = "run" /\ counter \in Int /\ rounds \in Nat
        /\ toRun \subseteq Jobs /\ round \subseteq Jobs /\ updated \subseteq Jobs
        /\ reported \subseteq Detached
    BY DEF Init
  <2> QED BY <1>1, <1>2, <2>1, <2>2 DEF Shape
<1>4. NoTask \notin Jobs
  BY DEF Tasks
<1>5. Pending = {}
  BY <1>1, <1>2, <1>4 DEF Init, Pending, Queued, HeldBy
<1>6. OnePlace
  BY <1>1, <1>2, <1>4 DEF Init, OnePlace, Queued, HeldBy
<1>7. RoundInStep
  BY <1>1, <1>2, <1>4, <1>5 DEF Init, RoundInStep, Queued
<1>8. CounterExact
  BY <1>5, FS_EmptySet DEF Init, CounterExact
<1>9. PromiseInStep
  BY <1>2 DEF Init, PromiseInStep, InRound
<1> QED BY <1>3, <1>6, <1>7, <1>8, <1>9 DEF RoundInv

\* A step that leaves the jobs where they are: it moves threads that hold none,
\* detached tasks, or the main thread.
LEMMA Frame ==
    ASSUME Shape, RoundInv,
           UNCHANGED <<next, world, toRun, counter, ready, round, updated>>,
           \A j \in Jobs : Queued(j)' <=> Queued(j),
           \A j, k \in DOMAIN queue' : queue'[j] = queue'[k] /\ queue'[j] \in Jobs => j = k,
           \A w \in Workers : pc'[w] \in Active => pc'[w] = pc[w] /\ cur'[w] = cur[w],
           \A w \in Workers : pc[w] \in Active =>
               \/ pc'[w] = pc[w] /\ cur'[w] = cur[w]
               \/ pc[w] = "run" /\ cur[w] \in Detached
    PROVE  RoundInv'
<1> USE TaskAssumption DEF RoundInv, Active
<1>1. \A w \in Workers, j \in Jobs : HeldBy(w, j)' <=> HeldBy(w, j)
  BY DEF HeldBy
<1>2. Pending' = Pending
  BY <1>1 DEF Pending
<1>3. OnePlace'
  BY <1>1 DEF OnePlace
<1>4. RoundInStep'
  BY <1>1, <1>2 DEF RoundInStep
<1>5. CounterExact'
  BY <1>2 DEF CounterExact
<1>6. PromiseInStep'
  BY DEF PromiseInStep, InRound
<1> QED BY <1>3, <1>4, <1>5, <1>6

\* The same, when the queue is untouched as well.
LEMMA Aside ==
    ASSUME Shape, RoundInv, UNCHANGED Core,
           \A w \in Workers : \/ pc'[w] = pc[w]
                              \/ pc[w] \notin Active /\ pc'[w] \notin Active
    PROVE  RoundInv'
<1>1. /\ UNCHANGED <<next, world, toRun, counter, ready, round, updated>>
      /\ queue' = queue /\ cur' = cur
  BY DEF Core
<1>2. \A j \in Jobs : Queued(j)' <=> Queued(j)
  BY <1>1 DEF Queued
<1>3. \A j, k \in DOMAIN queue' : queue'[j] = queue'[k] /\ queue'[j] \in Jobs => j = k
  BY <1>1 DEF RoundInv, OnePlace
<1> QED BY <1>1, <1>2, <1>3, Frame

LEMMA PopStep ==
    ASSUME Shape, RoundInv, NEW w \in Workers, PopTask(w)
    PROVE  RoundInv'
<1> USE TaskAssumption DEF RoundInv
<1> DEFINE t == Head(queue)
<1>1. /\ queue \in Seq(Tasks) /\ queue # <<>> /\ queue' = Tail(queue)
      /\ cur' = [cur EXCEPT ![w] = t] /\ pc' = [pc EXCEPT ![w] = "run"] /\ pc[w] = "lock"
      /\ pc \in [Workers -> PCs] /\ cur \in [Workers -> Tasks \cup {NoTask}]
      /\ UNCHANGED <<next, world, toRun, counter, ready, round, updated>>
  BY DEF PopTask, Shape, Goto, worldVars, groupVars, historyVars
<1>2. /\ t \in Tasks /\ 1 \in DOMAIN queue /\ queue[1] = t
      /\ \A k \in DOMAIN queue' : k + 1 \in DOMAIN queue /\ queue'[k] = queue[k + 1] /\ k \in Nat /\ k # 0
      /\ \A x : Queued(x) <=> x = t \/ Queued(x)'
  <2>1. /\ Head(queue) \in Tasks /\ 1 \in DOMAIN queue /\ queue[1] = Head(queue)
        /\ \A k \in DOMAIN Tail(queue) :
             k + 1 \in DOMAIN queue /\ Tail(queue)[k] = queue[k + 1] /\ k \in Nat /\ k # 0
        /\ \A x : Holds(queue, x) <=> x = Head(queue) \/ Holds(Tail(queue), x)
    BY <1>1, TailHolds
  <2>2. ASSUME NEW x PROVE (Holds(queue, x) <=> Queued(x)) /\ (Holds(Tail(queue), x) <=> Queued(x)')
    BY <1>1 DEF Holds, Queued
  <2> QED BY <1>1, <2>1, <2>2
<1>3. ASSUME NEW j \in Jobs, j = t PROVE ~Queued(j)'
  <2>1. SUFFICES ASSUME NEW k \in DOMAIN queue', queue'[k] = j PROVE FALSE
    BY DEF Queued
  <2>2. k + 1 \in DOMAIN queue /\ queue[k + 1] = queue[1] /\ queue[1] \in Jobs
    BY <1>2, <1>3, <2>1
  <2>3. k + 1 = 1
    BY <1>2, <2>2 DEF OnePlace
  <2> QED BY <1>2, <2>3
<1>4. \A v \in Workers, j \in Jobs : HeldBy(v, j)' <=> HeldBy(v, j) \/ (v = w /\ j = t)
  BY <1>1 DEF HeldBy
<1>5. Pending' = Pending
  BY <1>1, <1>2, <1>4 DEF Pending
<1>6. OnePlace'
  <2>1. \A j, k \in DOMAIN queue' : queue'[j] = queue'[k] /\ queue'[j] \in Jobs => j = k
    BY <1>2 DEF OnePlace
  <2>2. \A v \in Workers : /\ pc'[v] = "run" => cur'[v] \in Tasks
                           /\ pc'[v] = "remref" => cur'[v] \in Jobs
    BY <1>1, <1>2 DEF OnePlace
  <2>3. \A v \in Workers, j \in Jobs : HeldBy(v, j)' =>
          /\ next' # j /\ ~Queued(j)' /\ \A u \in Workers : HeldBy(u, j)' => u = v
    BY <1>1, <1>2, <1>3, <1>4 DEF OnePlace
  <2>4. \A j \in Jobs : Queued(j)' => next' # j
    BY <1>1, <1>2 DEF OnePlace
  <2>5. next' # NoTask <=> world' = "push"
    BY <1>1 DEF OnePlace
  <2> QED BY <2>1, <2>2, <2>3, <2>4, <2>5 DEF OnePlace
<1>7. RoundInStep'
  <2>1. t \notin updated
    BY <1>2 DEF RoundInStep, Shape, Tasks
  <2>2. \A v \in Workers : /\ pc'[v] = "run" => cur'[v] \notin updated'
                           /\ pc'[v] = "remref" => cur'[v] \in updated'
    BY <1>1, <2>1 DEF RoundInStep
  <2>3. \A j \in Jobs : Queued(j)' \/ next' = j => j \notin updated'
    BY <1>1, <1>2 DEF RoundInStep
  <2> QED BY <1>1, <1>5, <2>2, <2>3 DEF RoundInStep
<1>8. CounterExact'
  BY <1>1, <1>5 DEF CounterExact
<1>9. PromiseInStep'
  BY <1>1 DEF PromiseInStep, InRound
<1> QED BY <1>6, <1>7, <1>8, <1>9

LEMMA RunStep ==
    ASSUME Shape, RoundInv, NEW w \in Workers, RunJob(w)
    PROVE  RoundInv'
<1> USE TaskAssumption DEF RoundInv
<1>1. /\ pc[w] = "run" /\ cur[w] \in Jobs /\ pc' = [pc EXCEPT ![w] = "remref"]
      /\ pc \in [Workers -> PCs] /\ updated' = updated \cup {cur[w]}
      /\ UNCHANGED <<queue, cur, next, world, toRun, counter, ready, round>>
  BY DEF RunJob, Shape, Goto, queueVars, worldVars, groupVars
<1>2. \A x : Queued(x)' <=> Queued(x)
  BY <1>1 DEF Queued
<1>3. \A v \in Workers, j \in Jobs : HeldBy(v, j)' <=> HeldBy(v, j)
  BY <1>1 DEF HeldBy
<1>4. Pending' = Pending
  BY <1>1, <1>2, <1>3 DEF Pending
<1>5. HeldBy(w, cur[w]) /\ cur[w] \in Pending
  BY <1>1 DEF HeldBy, Pending
<1>6. OnePlace'
  BY <1>1, <1>2, <1>3 DEF OnePlace
<1>7. RoundInStep'
  <2>1. \A j \in Jobs : Queued(j)' \/ next' = j => j \notin updated'
    BY <1>1, <1>2, <1>5 DEF RoundInStep, OnePlace
  <2>2. \A v \in Workers : pc'[v] = "run" => cur'[v] \notin updated'
    <3>1. SUFFICES ASSUME NEW v \in Workers, pc'[v] = "run" PROVE cur[v] \notin updated'
      BY <1>1
    <3>2. v # w /\ pc[v] = "run"
      BY <1>1, <3>1
    <3>3. cur[v] # cur[w]
      BY <1>1, <1>5, <3>2 DEF OnePlace, HeldBy
    <3> QED BY <1>1, <3>2, <3>3 DEF RoundInStep
  <2>3. \A v \in Workers : pc'[v] = "remref" => cur'[v] \in updated'
    BY <1>1 DEF RoundInStep
  <2>4. updated' \subseteq round' /\ toRun' \cap updated' = {}
    BY <1>1, <1>5 DEF RoundInStep
  <2> QED BY <1>1, <1>4, <2>1, <2>2, <2>3, <2>4 DEF RoundInStep
<1>8. CounterExact'
  BY <1>1, <1>4 DEF CounterExact
<1>9. PromiseInStep'
  BY <1>1 DEF PromiseInStep, InRound
<1> QED BY <1>6, <1>7, <1>8, <1>9

\* The worker's job gives its reference back: one reference and one count less.
LEMMA RemRefStep ==
    ASSUME Shape, RoundInv, NEW w \in Workers, RemRef(w)
    PROVE  RoundInv'
<1> USE TaskAssumption DEF RoundInv
<1>1. /\ pc[w] = "remref" /\ counter' = counter - 1 /\ cur' = [cur EXCEPT ![w] = NoTask]
      /\ pc' = [pc EXCEPT ![w] = IF counter = 1 THEN "satisfy" ELSE "loop"]
      /\ pc \in [Workers -> PCs] /\ cur \in [Workers -> Tasks \cup {NoTask}]
      /\ UNCHANGED <<queue, next, world, toRun, ready, round, updated>>
  BY DEF RemRef, Shape, Goto, queueVars, worldVars, historyVars
<1>2. \A x : Queued(x)' <=> Queued(x)
  BY <1>1 DEF Queued
<1>3. PICK job \in Jobs : job = cur[w]
  BY <1>1 DEF OnePlace
<1>4. HeldBy(w, job) /\ job \in Pending /\ job \in updated
  BY <1>1, <1>3 DEF HeldBy, Pending, RoundInStep
<1>5. \A v \in Workers, j \in Jobs : HeldBy(v, j)' <=> HeldBy(v, j) /\ v # w
  BY <1>1 DEF HeldBy
<1>6. next # job /\ ~Queued(job) /\ \A v \in Workers : HeldBy(v, job) => v = w
  BY <1>4 DEF OnePlace
<1>7. \A j \in Jobs : HeldBy(w, j) => j = job
  BY <1>3 DEF HeldBy
<1>8. Pending' = Pending \ {job}
  BY <1>1, <1>2, <1>5, <1>6, <1>7 DEF Pending
<1>9. Cardinality(Pending') = Cardinality(Pending) - 1 /\ Cardinality(Pending') \in Nat
  BY <1>4, <1>8, PendingFinite, FS_RemoveElement, FS_CardinalityType
<1>10. CounterExact'
  BY <1>1, <1>9, PendingFinite DEF CounterExact
<1>11. counter > 0 /\ (world \in {"queue", "push"} => counter > 1)
  BY <1>9, PendingFinite DEF CounterExact
<1>12. OnePlace'
  BY <1>1, <1>2, <1>5 DEF OnePlace
<1>13. RoundInStep'
  BY <1>1, <1>2, <1>4, <1>8 DEF RoundInStep
<1>14. ~ready /\ InRound /\ world # "satisfy" /\ \A v \in Workers : pc[v] # "satisfy"
  BY <1>11 DEF PromiseInStep
<1>15. counter = 1 => world = "wait"
  BY <1>11, <1>14 DEF InRound
<1>16. PromiseInStep'
  <2>1. \A v \in Workers : pc'[v] = "satisfy" => v = w /\ counter = 1
    BY <1>1, <1>14
  <2> QED BY <1>1, <1>11, <1>14, <1>15, <2>1 DEF PromiseInStep, InRound
<1> QED BY <1>10, <1>12, <1>13, <1>16

LEMMA SatisfyStep ==
    ASSUME Shape, RoundInv, NEW w \in Workers, Satisfy(w)
    PROVE  RoundInv'
<1> USE TaskAssumption DEF RoundInv
<1>1. /\ pc[w] = "satisfy" /\ pc' = [pc EXCEPT ![w] = "loop"] /\ pc \in [Workers -> PCs]
      /\ UNCHANGED <<queue, cur, next, world, toRun, counter, round, updated>>
  BY DEF Satisfy, Shape, Goto, queueVars, worldVars, historyVars
<1>2. \A x : Queued(x)' <=> Queued(x)
  BY <1>1 DEF Queued
<1>3. \A v \in Workers, j \in Jobs : HeldBy(v, j)' <=> HeldBy(v, j)
  BY <1>1 DEF HeldBy
<1>4. Pending' = Pending
  BY <1>1, <1>2, <1>3 DEF Pending
<1>5. OnePlace'
  BY <1>1, <1>2, <1>3 DEF OnePlace
<1>6. RoundInStep'
  BY <1>1, <1>2, <1>4 DEF RoundInStep
<1>7. CounterExact'
  BY <1>1, <1>4 DEF CounterExact
<1>8. world = "wait" /\ counter = 0 /\ \A v \in Workers : pc'[v] # "satisfy"
  BY <1>1 DEF PromiseInStep
<1>9. PromiseInStep'
  BY <1>1, <1>8 DEF PromiseInStep, InRound
<1> QED BY <1>5, <1>6, <1>7, <1>9

(* ---- The world thread ------------------------------------------------- *)

\* Between two rounds nobody holds a reference.
LEMMA NoneBetween ==
    ASSUME Shape, RoundInv, counter = 0
    PROVE  Pending = {} /\ \A w \in Workers : pc[w] # "remref"
<1>1. Cardinality(Pending) = 0
  BY PendingFinite DEF RoundInv, CounterExact
<1>2. Pending = {}
  BY <1>1, PendingFinite, FS_EmptySet
<1>3. ASSUME NEW w \in Workers, pc[w] = "remref" PROVE cur[w] \in Pending
  BY <1>3 DEF RoundInv, OnePlace, Pending, HeldBy
<1> QED BY <1>2, <1>3

LEMMA BeginStep ==
    ASSUME Shape, RoundInv, BeginUpdate
    PROVE  RoundInv'
<1> USE TaskAssumption DEF RoundInv
<1>1. /\ world = "alone" /\ world' = "queue" /\ counter' = 1 /\ toRun' = round' /\ updated' = {}
      /\ UNCHANGED <<queue, pc, cur, next>>
  BY DEF BeginUpdate, queueVars, workerVars
<1>2. ~ready'
  BY Zenon DEF BeginUpdate
<1>3. counter = 0 /\ \A w \in Workers : pc[w] # "satisfy"
  BY <1>1 DEF PromiseInStep, InRound
<1>4. Pending = {} /\ \A w \in Workers : pc[w] # "remref"
  BY <1>3, NoneBetween
<1>5. \A x : Queued(x)' <=> Queued(x)
  BY <1>1 DEF Queued
<1>6. \A v \in Workers, j \in Jobs : HeldBy(v, j)' <=> HeldBy(v, j)
  BY <1>1 DEF HeldBy
<1>7. Pending' = {}
  BY <1>1, <1>4, <1>5, <1>6 DEF Pending
<1>8. OnePlace'
  BY <1>1, <1>5, <1>6 DEF OnePlace
<1>9. RoundInStep'
  <2>1. \A w \in Workers : /\ pc'[w] = "run" => cur'[w] \notin updated'
                           /\ pc'[w] = "remref" => cur'[w] \in updated'
    BY <1>1, <1>4
  <2> QED BY <1>1, <1>7, <2>1 DEF RoundInStep
<1>10. CounterExact'
  BY <1>1, <1>7, FS_EmptySet DEF CounterExact
<1>11. PromiseInStep'
  BY <1>1, <1>2, <1>3 DEF PromiseInStep, InRound
<1> QED BY <1>8, <1>9, <1>10, <1>11

\* A reference is taken before anybody can see the task.
LEMMA AddRefStep ==
    ASSUME Shape, RoundInv, AddRef
    PROVE  RoundInv'
<1> USE TaskAssumption DEF RoundInv
<1>1. /\ world = "queue" /\ world' = "push" /\ counter' = counter + 1
      /\ next' \in toRun /\ toRun' = toRun \ {next'}
      /\ UNCHANGED <<queue, pc, cur, ready, round, updated>>
  BY DEF AddRef, queueVars, workerVars, historyVars
<1>2. PICK job \in Jobs : job = next'
  BY <1>1 DEF Shape
<1>3. next = NoTask /\ NoTask \notin Jobs
  BY <1>1 DEF OnePlace, Tasks
<1>4. job \notin Pending /\ job \notin updated /\ job \in round
  BY <1>1, <1>2 DEF RoundInStep
<1>5. \A x : Queued(x)' <=> Queued(x)
  BY <1>1 DEF Queued
<1>6. \A v \in Workers, j \in Jobs : HeldBy(v, j)' <=> HeldBy(v, j)
  BY <1>1 DEF HeldBy
<1>7. Pending' = Pending \cup {job}
  BY <1>1, <1>2, <1>3, <1>5, <1>6 DEF Pending
<1>8. Cardinality(Pending') = Cardinality(Pending) + 1
  BY <1>4, <1>7, PendingFinite, FS_AddElement
<1>9. CounterExact'
  BY <1>1, <1>8, PendingFinite DEF CounterExact
<1>10. ~Queued(job) /\ \A v \in Workers : ~HeldBy(v, job)
  BY <1>4 DEF Pending
<1>11. OnePlace'
  BY <1>1, <1>2, <1>3, <1>5, <1>6, <1>10 DEF OnePlace
<1>12. RoundInStep'
  <2>1. \A j \in Jobs : Queued(j)' \/ next' = j => j \notin updated'
    BY <1>1, <1>2, <1>4, <1>5 DEF RoundInStep
  <2> QED BY <1>1, <1>2, <1>4, <1>7, <2>1 DEF RoundInStep
<1>13. \A w \in Workers : pc[w] # "satisfy"
  BY <1>1 DEF PromiseInStep
<1>14. PromiseInStep'
  BY <1>1, <1>13 DEF PromiseInStep, InRound
<1> QED BY <1>9, <1>11, <1>12, <1>14

LEMMA PushStep ==
    ASSUME Shape, RoundInv, PushTask
    PROVE  RoundInv'
<1> USE TaskAssumption DEF RoundInv
<1>1. /\ world = "push" /\ world' = "queue" /\ next' = NoTask
      /\ queue \in Seq(Tasks) /\ queue' = Append(queue, next)
      /\ UNCHANGED <<cur, toRun, counter, ready, round, updated>>
  BY DEF PushTask, PushBack, Shape, groupVars, historyVars
<1>2. \A w \in Workers : pc'[w] = pc[w] \/ (pc[w] = "asleep" /\ pc'[w] = "lock")
  BY DEF PushTask, PushBack, Goto, Shape
<1>3. PICK job \in Jobs : job = next /\ job \in Tasks
  BY <1>1 DEF OnePlace, Shape, Tasks
<1>4. NoTask \notin Jobs
  BY DEF Tasks
<1>5. /\ \A x : Queued(x)' <=> x = job \/ Queued(x)
      /\ \A k \in DOMAIN queue' :
           \/ k \in DOMAIN queue /\ queue'[k] = queue[k]
           \/ k = Len(queue) + 1 /\ queue'[k] = job
  <2>1. /\ \A x : Holds(Append(queue, job), x) <=> x = job \/ Holds(queue, x)
        /\ \A k \in DOMAIN Append(queue, job) :
             \/ k \in DOMAIN queue /\ Append(queue, job)[k] = queue[k]
             \/ k = Len(queue) + 1 /\ Append(queue, job)[k] = job
    BY <1>1, <1>3, AppendHolds
  <2>2. ASSUME NEW x PROVE (Holds(Append(queue, job), x) <=> Queued(x)') /\ (Holds(queue, x) <=> Queued(x))
    BY <1>1, <1>3 DEF Holds, Queued
  <2> QED BY <1>1, <1>3, <2>1, <2>2
<1>6. \A v \in Workers, j \in Jobs : HeldBy(v, j)' <=> HeldBy(v, j)
  BY <1>1, <1>2 DEF HeldBy
<1>7. Pending' = Pending
  BY <1>1, <1>3, <1>4, <1>5, <1>6 DEF Pending
<1>8. ~Queued(job) /\ job \in Pending /\ \A w \in Workers : ~HeldBy(w, job)
  BY <1>3 DEF OnePlace, Pending
<1>9. OnePlace'
  <2>1. \A j, k \in DOMAIN queue' : queue'[j] = queue'[k] /\ queue'[j] \in Jobs => j = k
    <3>1. \A k \in DOMAIN queue : queue[k] # job
      BY <1>8 DEF Queued
    <3> QED BY <1>5, <3>1 DEF OnePlace
  <2>2. \A w \in Workers : /\ pc'[w] = "run" => cur'[w] \in Tasks
                           /\ pc'[w] = "remref" => cur'[w] \in Jobs
    BY <1>1, <1>2 DEF OnePlace
  <2>3. \A v \in Workers, j \in Jobs : HeldBy(v, j)' =>
          /\ next' # j /\ ~Queued(j)' /\ \A u \in Workers : HeldBy(u, j)' => u = v
    BY <1>1, <1>4, <1>5, <1>6, <1>8 DEF OnePlace
  <2>4. \A j \in Jobs : Queued(j)' => next' # j
    BY <1>1, <1>4
  <2> QED BY <1>1, <2>1, <2>2, <2>3, <2>4 DEF OnePlace
<1>10. RoundInStep'
  <2>1. \A j \in Jobs : Queued(j)' \/ next' = j => j \notin updated'
    BY <1>1, <1>3, <1>4, <1>5 DEF RoundInStep
  <2>2. \A w \in Workers : /\ pc'[w] = "run" => cur'[w] \notin updated'
                           /\ pc'[w] = "remref" => cur'[w] \in updated'
    BY <1>1, <1>2 DEF RoundInStep
  <2> QED BY <1>1, <1>7, <2>1, <2>2 DEF RoundInStep
<1>11. CounterExact'
  BY <1>1, <1>7 DEF CounterExact
<1>12. PromiseInStep'
  BY <1>1, <1>2 DEF PromiseInStep, InRound
<1> QED BY <1>9, <1>10, <1>11, <1>12

\* What the world thread does after the last task is pushed.
LEMMA WaitStep ==
    ASSUME Shape, RoundInv, CallWait \/ SatisfySelf \/ PassBarrier \/ StopWorld
    PROVE  RoundInv'
<1> USE TaskAssumption DEF RoundInv
<1>1. UNCHANGED <<queue, pc, cur, next, toRun, round, updated>>
  BY DEF CallWait, SatisfySelf, PassBarrier, StopWorld, queueVars, workerVars, historyVars
<1>2. \A x : Queued(x)' <=> Queued(x)
  BY <1>1 DEF Queued
<1>3. \A v \in Workers, j \in Jobs : HeldBy(v, j)' <=> HeldBy(v, j)
  BY <1>1 DEF HeldBy
<1>4. Pending' = Pending
  BY <1>1, <1>2, <1>3 DEF Pending
<1>5. world # "push" /\ world' # "push" /\ world' # "queue" /\ (world = "queue" => toRun = {})
  BY DEF CallWait, SatisfySelf, PassBarrier, StopWorld
<1>6. OnePlace'
  BY <1>1, <1>2, <1>3, <1>5 DEF OnePlace
<1>7. RoundInStep'
  BY <1>1, <1>2, <1>4, <1>5 DEF RoundInStep
<1>8. CASE CallWait
  <2>1. /\ world = "queue" /\ counter' = counter - 1 /\ ready' = ready
        /\ world' = IF counter = 1 THEN "satisfy" ELSE "wait"
    BY <1>8 DEF CallWait
  <2>2. CounterExact'
    BY <1>4, <2>1, PendingFinite DEF CounterExact
  <2>3. PromiseInStep'
    BY <1>1, <2>1 DEF PromiseInStep, InRound, Shape
  <2> QED BY <1>6, <1>7, <2>2, <2>3
<1>9. CASE SatisfySelf
  <2>1. world = "satisfy" /\ world' = "wait" /\ counter' = counter
    BY <1>9 DEF SatisfySelf
  <2>2. CounterExact'
    BY <1>4, <2>1 DEF CounterExact
  <2>3. \A w \in Workers : pc'[w] # "satisfy"
    BY <1>1, <2>1 DEF PromiseInStep
  <2>4. PromiseInStep'
    BY <2>1, <2>3 DEF PromiseInStep, InRound
  <2> QED BY <1>6, <1>7, <2>2, <2>4
<1>10. CASE PassBarrier \/ StopWorld
  <2>1. /\ world' \in {"alone", "ended"} /\ counter' = counter /\ ready' = ready
        /\ ready \/ world = "alone"
        /\ world \in {"wait", "alone"}
    BY <1>10 DEF PassBarrier, StopWorld, groupVars
  <2>2. CounterExact'
    BY <1>4, <2>1, <1>10 DEF CounterExact, PassBarrier, StopWorld
  <2>3. counter = 0 /\ \A w \in Workers : pc'[w] # "satisfy"
    BY <1>1, <2>1 DEF PromiseInStep, InRound
  <2>4. PromiseInStep'
    BY <2>1, <2>3 DEF PromiseInStep, InRound
  <2> QED BY <1>6, <1>7, <2>2, <2>4
<1> QED BY <1>8, <1>9, <1>10

(* ---- Detached tasks --------------------------------------------------- *)

LEMMA DetachedStep ==
    ASSUME Shape, RoundInv, \/ \E w \in Workers : RunDetached(w)
                            \/ \E t \in Detached : Report(t)
    PROVE  RoundInv'
<1>1. UNCHANGED <<next, world, toRun, counter, ready, round, updated>>
  BY DEF RunDetached, Report, worldVars, groupVars, historyVars
<1>2. CASE \E w \in Workers : RunDetached(w)
  <2>1. PICK w \in Workers : RunDetached(w)
    BY <1>2
  <2>2. /\ queue' = queue /\ pc[w] = "run" /\ cur[w] \in Detached
        /\ pc' = [pc EXCEPT ![w] = "loop"] /\ cur' = [cur EXCEPT ![w] = NoTask]
        /\ pc \in [Workers -> PCs] /\ cur \in [Workers -> Tasks \cup {NoTask}]
    BY <2>1 DEF RunDetached, Goto, queueVars, Shape
  <2>3. \A j \in Jobs : Queued(j)' <=> Queued(j)
    BY <2>2 DEF Queued
  <2>4. \A j, k \in DOMAIN queue' : queue'[j] = queue'[k] /\ queue'[j] \in Jobs => j = k
    BY <2>2 DEF RoundInv, OnePlace
  <2>5. \A v \in Workers : pc'[v] \in Active => pc'[v] = pc[v] /\ cur'[v] = cur[v]
    BY <2>2 DEF Active
  <2>6. \A v \in Workers : pc[v] \in Active =>
               \/ pc'[v] = pc[v] /\ cur'[v] = cur[v]
               \/ pc[v] = "run" /\ cur[v] \in Detached
    BY <2>2 DEF Active
  <2> QED BY <1>1, <2>3, <2>4, <2>5, <2>6, Frame
<1>3. CASE \E t \in Detached : Report(t)
  <2>1. PICK t \in Detached : Report(t)
    BY <1>3
  <2>2. /\ queue \in Seq(Tasks) /\ queue' = Append(queue, t) /\ cur' = cur
        /\ t \in Tasks /\ t \notin Jobs
    BY <2>1, TaskAssumption DEF Report, PushBack, Shape, Tasks
  <2>3. \A v \in Workers : pc'[v] = pc[v] \/ (pc[v] = "asleep" /\ pc'[v] = "lock")
    BY <2>1 DEF Report, PushBack, Goto, Shape
  <2>4. /\ \A x : Holds(queue', x) <=> x = t \/ Holds(queue, x)
        /\ \A k \in DOMAIN queue' :
             \/ k \in DOMAIN queue /\ queue'[k] = queue[k]
             \/ k = Len(queue) + 1 /\ queue'[k] = t
    BY <2>2, AppendHolds
  <2>5. \A j \in Jobs : Queued(j)' <=> Queued(j)
    BY <2>2, <2>4 DEF Queued, Holds
  <2>6. \A j, k \in DOMAIN queue' : queue'[j] = queue'[k] /\ queue'[j] \in Jobs => j = k
    BY <2>2, <2>4 DEF RoundInv, OnePlace
  <2>7. \A v \in Workers : pc'[v] \in Active => pc'[v] = pc[v] /\ cur'[v] = cur[v]
    BY <2>2, <2>3 DEF Active
  <2>8. \A v \in Workers : pc[v] \in Active => pc'[v] = pc[v] /\ cur'[v] = cur[v]
    BY <2>2, <2>3 DEF Active
  <2> QED BY <1>1, <2>5, <2>6, <2>7, <2>8, Frame
<1> QED BY <1>2, <1>3

(* ---- The invariant ---------------------------------------------------- *)

LEMMA RoundStep == Shape /\ RoundInv /\ [Next]_vars => RoundInv'
<1> SUFFICES ASSUME Shape, RoundInv, [Next]_vars PROVE RoundInv'
  OBVIOUS
<1> USE DEF queueVars, workerVars, worldVars, groupVars, historyVars
<1>1. ASSUME NEW w \in Workers, WorkerStep(w) \/ SpuriousWakeup(w) PROVE RoundInv'
  <2>1. CASE TestRunning(w) \/ PopClosed(w) \/ PopEmpty(w) \/ Sleep(w) \/ SpuriousWakeup(w)
    <3>1. UNCHANGED Core
      BY <2>1 DEF Core, TestRunning, PopClosed, PopEmpty, Sleep, SpuriousWakeup
    <3>2. /\ pc[w] \notin Active /\ pc \in [Workers -> PCs]
          /\ \E label \in PCs \ Active : pc' = [pc EXCEPT ![w] = label]
      BY <2>1 DEF TestRunning, PopClosed, PopEmpty, Sleep, SpuriousWakeup, Goto, Active, PCs, Shape
    <3>3. \A v \in Workers : \/ pc'[v] = pc[v]
                             \/ pc[v] \notin Active /\ pc'[v] \notin Active
      BY <3>2
    <3> QED BY <3>1, <3>3, Aside
  <2>2. CASE PopTask(w)
    BY <2>2, PopStep
  <2>3. CASE RunJob(w)
    BY <2>3, RunStep
  <2>4. CASE RunDetached(w)
    BY <2>4, DetachedStep
  <2>5. CASE RemRef(w)
    BY <2>5, RemRefStep
  <2>6. CASE Satisfy(w)
    BY <2>6, SatisfyStep
  <2> QED BY <1>1, <2>1, <2>2, <2>3, <2>4, <2>5, <2>6 DEF WorkerStep, Locks
<1>2. ASSUME NEW t \in Detached, Report(t) PROVE RoundInv'
  BY <1>2, DetachedStep
<1>3. ASSUME WorldStep \/ StopWorld PROVE RoundInv'
  BY <1>3, BeginStep, AddRefStep, PushStep, WaitStep DEF WorldStep
<1>4. ASSUME MainStep PROVE RoundInv'
  <2>1. UNCHANGED Core
    BY <1>4 DEF Core, MainStep, StopRunning, Close, NotifyAll, JoinWorkers
  <2>2. \A v \in Workers : \/ pc'[v] = pc[v]
                           \/ pc[v] \notin Active /\ pc'[v] \notin Active
    BY <1>4 DEF MainStep, StopRunning, Close, NotifyAll, JoinWorkers, Active
  <2> QED BY <2>1, <2>2, Aside
<1>5. CASE UNCHANGED vars
  <2>1. UNCHANGED Core /\ \A v \in Workers : pc'[v] = pc[v]
    BY <1>5 DEF vars, Core
  <2> QED BY <2>1, Aside
<1> QED BY <1>1, <1>2, <1>3, <1>4, <1>5 DEF Next

\* The invariant the theorems below follow from.
LEMMA Invariant == Spec => [](Shape /\ RoundInv)
<1>1. Shape /\ RoundInv /\ [Next]_vars => (Shape /\ RoundInv)'
  BY ShapeStep, RoundStep DEF RoundInv
<1> QED BY RoundInit, <1>1, PTL DEF Spec

(* ---- The theorems ----------------------------------------------------- *)

\* The variables keep their types, and BackgroundGroupUpdater::m_counter, an
\* unsigned word in the code, is never decremented below zero.
THEOREM MapTypeCorrect == Spec => []TypeOK
<1>1. Shape /\ RoundInv => TypeOK
  BY PendingFinite DEF RoundInv, CounterExact, TypeOK
<1> QED BY <1>1, Invariant, PTL

\* m_counter is the number of tasks that will still call RemRef, plus the
\* updater's own reference until Wait() gives it up.
THEOREM CounterIsExact == Spec => []CounterExact
<1>1. Shape /\ RoundInv => CounterExact
  BY DEF RoundInv
<1> QED BY <1>1, Invariant, PTL

\* No two threads find the last reference: the promise of a round is satisfied
\* once (std::promise::set_value throws the second time).
THEOREM PromiseOnce == Spec => []SatisfiedOnce
<1>1. Shape /\ RoundInv => SatisfiedOnce
  BY DEF RoundInv, PromiseInStep, SatisfiedOnce
<1> QED BY <1>1, Invariant, PTL

\* A map is updated by one thread at a time and once in a round.
THEOREM Exclusive == Spec => []OneUpdater
<1>1. ASSUME Shape, RoundInv PROVE OneUpdater
  <2>1. ASSUME NEW w \in Workers, pc[w] = "run", cur[w] \in Jobs
        PROVE  /\ cur[w] \in round \ updated
               /\ \A v \in Workers \ {w} : pc[v] = "run" => cur[v] # cur[w]
    <3>1. cur[w] \in Pending /\ HeldBy(w, cur[w])
      BY <2>1 DEF Pending, HeldBy
    <3>2. cur[w] \in round /\ cur[w] \notin updated
      BY <1>1, <2>1, <3>1 DEF RoundInv, RoundInStep
    <3>3. \A v \in Workers : HeldBy(v, cur[w]) => v = w
      BY <1>1, <2>1, <3>1 DEF RoundInv, OnePlace
    <3> QED BY <3>2, <3>3 DEF HeldBy
  <2> QED BY <2>1 DEF OneUpdater
<1> QED BY <1>1, Invariant, PTL

LEMMA Done ==
    ASSUME Shape, RoundInv, counter = 0, world \notin {"queue", "push"}
    PROVE  Pending = {} /\ round \subseteq updated
<1>1. Pending = {}
  BY NoneBetween
<1> QED BY <1>1 DEF RoundInv, RoundInStep

\* After Wait() no job of the round is unfinished and no worker is between
\* fetch_sub and set_value, so the updater may be destroyed.
THEOREM BarrierHolds == Spec => []Quiet
<1>1. ASSUME Shape, RoundInv PROVE Quiet
  <2>1. SUFFICES ASSUME ~InRound
                 PROVE  /\ Pending = {} /\ round \subseteq updated
                        /\ \A w \in Workers : pc[w] # "satisfy"
    BY DEF Quiet
  <2>2. counter = 0 /\ world \notin {"queue", "push"} /\ \A w \in Workers : pc[w] # "satisfy"
    BY <1>1, <2>1 DEF RoundInv, PromiseInStep, InRound
  <2> QED BY <1>1, <2>2, Done
<1> QED BY <1>1, Invariant, PTL

(* ---- Implementation of the abstract round ------------------------------ *)

phase == IF InRound THEN "parallel" ELSE "alone"
todo == round \ updated

\* A step that changes neither where the world thread is nor the history of the
\* round is a stutter of the abstract specification.
LEMMA StepRefines ==
    Shape /\ RoundInv /\ [Next]_vars => [Round!Next]_<<phase, todo>>
<1> SUFFICES ASSUME Shape, RoundInv, [Next]_vars
             PROVE  Round!Next \/ UNCHANGED <<phase, todo>>
  OBVIOUS
<1> USE DEF queueVars, workerVars, worldVars, groupVars, historyVars
<1>1. ASSUME UNCHANGED <<world, round, updated>> PROVE UNCHANGED <<phase, todo>>
  BY <1>1 DEF phase, todo, InRound
<1>2. ASSUME NEW w \in Workers, RunJob(w) PROVE Round!Next
  <2>1. /\ pc[w] = "run" /\ cur[w] \in Jobs /\ updated' = updated \cup {cur[w]}
        /\ world' = world /\ round' = round
    BY <1>2 DEF RunJob
  <2>2. cur[w] \in Pending
    BY <2>1 DEF Pending, HeldBy
  <2>3. cur[w] \in round \ updated
    BY <2>1, <2>2 DEF RoundInv, RoundInStep
  <2>4. counter # 0
    BY <2>2, NoneBetween
  <2>5. InRound /\ InRound'
    BY <2>1, <2>4 DEF RoundInv, PromiseInStep, InRound
  <2>6. phase = "parallel" /\ phase' = phase /\ cur[w] \in todo /\ todo' = todo \ {cur[w]}
    BY <2>1, <2>3, <2>5 DEF phase, todo
  <2>7. Round!Perform(cur[w])
    BY <2>6 DEF Round!Perform, phase, todo
  <2> QED BY <2>1, <2>7 DEF Round!Next
<1>3. ASSUME BeginUpdate PROVE Round!Next
  <2>1. /\ world = "alone" /\ world' = "queue" /\ updated' = {} /\ round' \subseteq Jobs
    <3>1. PICK maps \in SUBSET Maps : round' = maps \cup {Lfg}
      BY <1>3 DEF BeginUpdate
    <3> QED BY <1>3, <3>1 DEF BeginUpdate, Jobs
  <2>2. Round!Begin(round')
    BY <2>1 DEF Round!Begin, InRound
  <2> QED BY <2>1, <2>2 DEF Round!Next
<1>4. ASSUME PassBarrier PROVE Round!Next
  <2>1. world = "wait" /\ ready /\ world' = "alone" /\ round' = round /\ updated' = updated
    BY <1>4 DEF PassBarrier
  <2>2. counter = 0
    BY <2>1 DEF RoundInv, PromiseInStep
  <2>3. round \ updated = {}
    BY <2>1, <2>2, Done
  <2>4. Round!End
    BY <2>1, <2>3 DEF Round!End, InRound
  <2> QED BY <2>4 DEF Round!Next
<1>5. ASSUME AddRef \/ PushTask \/ CallWait \/ SatisfySelf \/ StopWorld
      PROVE  UNCHANGED <<phase, todo>>
  <2>1. round' = round /\ updated' = updated
    BY <1>5 DEF AddRef, PushTask, CallWait, SatisfySelf, StopWorld
  <2>2. InRound' <=> InRound
    BY <1>5 DEF AddRef, PushTask, CallWait, SatisfySelf, StopWorld, InRound
  <2> QED BY <2>1, <2>2 DEF phase, todo
<1>6. ASSUME NEW w \in Workers, WorkerStep(w) \/ SpuriousWakeup(w), ~RunJob(w)
      PROVE  UNCHANGED <<world, round, updated>>
  BY <1>6 DEF WorkerStep, Locks, TestRunning, PopClosed, PopTask, PopEmpty, Sleep,
              SpuriousWakeup, RunDetached, RemRef, Satisfy
<1>7. ASSUME NEW t \in Detached, Report(t) PROVE UNCHANGED <<world, round, updated>>
  BY <1>7 DEF Report
<1>8. ASSUME MainStep PROVE UNCHANGED <<world, round, updated>>
  BY <1>8 DEF MainStep, StopRunning, Close, NotifyAll, JoinWorkers
<1>9. CASE UNCHANGED vars
  BY <1>1, <1>9 DEF vars
<1> QED BY <1>1, <1>2, <1>3, <1>4, <1>5, <1>6, <1>7, <1>8, <1>9 DEF Next, WorldStep

\* MapManager::Update, for any number of threads and maps, is a round in which
\* every job runs once while the world thread waits.
THEOREM RefinesRound == Spec => ImplementsRound
<1>1. Init => Round!Init
  BY DEF Init, Round!Init, InRound
<1>2. Shape /\ RoundInv /\ [Next]_vars => [Round!Next]_<<phase, todo>>
  BY StepRefines
<1> QED BY <1>1, <1>2, Invariant, PTL DEF ImplementsRound, Round!Spec, Spec, phase, todo
=============================================================================
