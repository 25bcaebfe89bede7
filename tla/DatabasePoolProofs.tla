------------------------- MODULE DatabasePoolProofs -------------------------
(***************************************************************************)
(* Theorems about DatabasePool for every set of workers and operations.    *)
(***************************************************************************)
EXTENDS DatabasePool, TLAPS

(* ---- Type correctness ------------------------------------------------ *)

\* A thread between `test` and the end of Execute() holds an operation, and
\* ~DatabaseWorker runs for an existing worker: TypeOK needs both to be
\* preserved by the steps that read cur[w] and victim.
TypeInv ==
    /\ TypeOK
    /\ \A w \in Workers : pc[w] \in Busy => cur[w] \in Ops
    /\ closer \in {"cancel", "join"} => victim \in Workers

\* A record of an operation and some of its queries is a log entry.
LEMMA EntryType == \A o \in Ops, q \in SUBSET Nat : [op |-> o, queries |-> q] \in Entry
  BY DEF Entry

\* Appending an element of S to a sequence over S gives one.
LEMMA AppendType ==
    ASSUME NEW S, NEW s \in Seq(S), NEW e \in S
    PROVE  Append(s, e) \in Seq(S)
  OBVIOUS

LEMMA TypeInit == Init => TypeInv
<1>1. \A S : <<>> \in Seq(S)
  OBVIOUS
<1> SUFFICES ASSUME Init PROVE TypeInv
  OBVIOUS
<1>2. queue \in Seq(Ops) /\ submitted \in Seq(Ops) /\ log \in Seq(Entry)
  BY <1>1 DEF Init
<1>3. \A w \in Workers : pc[w] = "pop"
  BY DEF Init
<1>4. /\ inTrans \in [Workers -> BOOLEAN] /\ open \in [Workers -> SUBSET Nat]
      /\ at \in [Workers -> Nat] /\ tries \in [Workers -> Nat]
      /\ faults \in Nat /\ losses \in Nat
  BY DEF Init
<1> QED BY <1>2, <1>3, <1>4 DEF Init, TypeInv, TypeOK, PCs, Statuses, Busy

LEMMA TypeStep == TypeInv /\ [Next]_vars => TypeInv'
<1> SUFFICES ASSUME TypeInv, [Next]_vars PROVE TypeInv'
  OBVIOUS
<1> USE NoneAssumption
    DEF TypeInv, TypeOK, PCs, Statuses, Busy, queueVars, closeVars, threadVars,
        serverVars, Goto
<1>1. ASSUME NEW o \in Ops, Push(o) PROVE TypeInv'
  <2>1. pc' \in [Workers -> PCs] /\ \A w \in Workers : pc'[w] \in Busy => pc[w] \in Busy
    BY <1>1 DEF Push
  <2>2. queue' \in Seq(Ops) /\ submitted' \in Seq(Ops) /\ status' \in [Ops -> Statuses]
    BY <1>1 DEF Push
  <2> QED BY <1>1, <2>1, <2>2 DEF Push
<1>2. ASSUME NEW w \in Workers, WorkerStep(w) PROVE TypeInv'
  <2>1. CASE PopWait(w)
    BY <2>1 DEF PopWait
  <2>2. CASE PopNothing(w)
    BY <2>2 DEF PopNothing
  <2>3. CASE PopOperation(w)
    BY <2>3 DEF PopOperation
  <2>4. CASE WorkerExit(w)
    BY <2>4 DEF WorkerExit
  <2>5. CASE WorkerExecute(w)
    BY <2>5 DEF WorkerExecute
  <2>6. CASE BeginEmpty(w)
    BY <2>6 DEF BeginEmpty
  <2>7. CASE BeginTransaction(w)
    BY <2>7 DEF BeginTransaction
  <2>8. CASE QueryOk(w)
    <3>1. cur[w] \in Ops /\ at[w] \in Nat /\ log \in Seq(Entry)
      BY <2>8 DEF QueryOk
    <3>2. Append(log, [op |-> cur[w], queries |-> {at[w]}]) \in Seq(Entry)
      BY <3>1, EntryType, AppendType
    <3>3. log' \in Seq(Entry)
      BY <2>8, <3>1, <3>2 DEF QueryOk, Perform
    <3>4. open' \in [Workers -> SUBSET Nat]
      <4>1. open[w] \cup {at[w]} \in SUBSET Nat
        BY <3>1
      <4>2. open' = [open EXCEPT ![w] = open[w] \cup {at[w]}] \/ open' = open
        BY <2>8 DEF QueryOk, Perform
      <4> QED BY <4>1, <4>2, ZenonT(60)
    <3>5. pc' \in [Workers -> PCs] /\ at' \in [Workers -> Nat]
      BY <2>8 DEF QueryOk
    <3>6. \A v \in Workers : pc'[v] \in Busy => pc[v] \in Busy
      BY <2>8 DEF QueryOk
    <3> QED BY <2>8, <3>3, <3>4, <3>5, <3>6 DEF QueryOk
  <2>9. CASE RollbackTransaction(w)
    BY <2>9 DEF RollbackTransaction, ServerForgets
  <2>10. CASE CommitTransaction(w)
    <3>1. cur[w] \in Ops /\ open[w] \in SUBSET Nat /\ log \in Seq(Entry)
      BY <2>10 DEF CommitTransaction
    <3>2. Append(log, [op |-> cur[w], queries |-> open[w]]) \in Seq(Entry)
      BY <3>1, EntryType, AppendType
    <3>3. log' \in Seq(Entry)
      BY <2>10, <3>1, <3>2 DEF CommitTransaction
    <3>4. /\ inTrans' \in [Workers -> BOOLEAN] /\ open' \in [Workers -> SUBSET Nat]
          /\ pc' \in [Workers -> PCs]
      BY <2>10 DEF CommitTransaction, ServerForgets
    <3>5. \A v \in Workers : pc'[v] \in Busy => pc[v] \in Busy
      BY <2>10 DEF CommitTransaction
    <3> QED BY <2>10, <3>3, <3>4, <3>5 DEF CommitTransaction
  <2>11. CASE Succeed(w)
    BY <2>11 DEF Succeed, Finish
  <2>12. CASE TakeDeadlockLock(w)
    BY <2>12 DEF TakeDeadlockLock
  <2>13. CASE RetryAgain(w)
    BY <2>13 DEF RetryAgain
  <2>14. CASE GiveUp(w)
    BY <2>14 DEF GiveUp, Finish
  <2> QED BY <1>2, <2>1, <2>2, <2>3, <2>4, <2>5, <2>6, <2>7, <2>8, <2>9,
             <2>10, <2>11, <2>12, <2>13, <2>14 DEF WorkerStep
<1>3. ASSUME NEW w \in Workers, Environment(w) PROVE TypeInv'
  <2>1. CASE SpuriousWakeup(w)
    BY <2>1 DEF SpuriousWakeup
  <2>2. ASSUME NEW why \in {"deadlock", "other"}, QueryRefused(w, why) PROVE TypeInv'
    <3>1. inTrans' \in [Workers -> BOOLEAN] /\ open' \in [Workers -> SUBSET Nat]
      BY <2>2 DEF QueryRefused, ServerForgets
    <3>2. faults' \in Nat /\ err' \in [Workers -> {"none", "deadlock", "other"}]
      BY <2>2 DEF QueryRefused
    <3> QED BY <2>2, <3>1, <3>2 DEF QueryRefused
  <2>3. ASSUME NEW applied \in BOOLEAN, QueryLost(w, applied) PROVE TypeInv'
    <3>1. log' \in Seq(Entry)
      BY <2>3, EntryType DEF QueryLost
    <3> QED BY <2>3, <3>1 DEF QueryLost, ServerForgets
  <2>4. CASE CommitLost(w)
    BY <2>4 DEF CommitLost, ServerForgets
  <2> QED BY <1>3, <2>1, <2>2, <2>3, <2>4 DEF Environment
<1>4. ASSUME CloseStep PROVE TypeInv'
  <2>1. CASE DestroyWorker
    BY <2>1 DEF DestroyWorker
  <2>2. CASE CancelQueue
    BY <2>2 DEF CancelQueue
  <2>3. CASE JoinWorker
    BY <2>3 DEF JoinWorker
  <2> QED BY <1>4, <2>1, <2>2, <2>3 DEF CloseStep
<1>5. CASE UNCHANGED vars
  BY <1>5 DEF vars
<1> QED BY <1>1, <1>2, <1>3, <1>4, <1>5 DEF Next

\* Type correctness of the asynchronous pool, for any number of connections,
\* operations, refused queries and lost connections.
THEOREM TypeCorrect == Spec => []TypeOK
<1>1. TypeInv => TypeOK
  BY DEF TypeInv
<1> QED BY <1>1, TypeInit, TypeStep, PTL DEF Spec

(* ---- Safety while no connection is lost ------------------------------ *)

IInv == TypeInv /\ NoLossInv

LEMMA SafetyInit == Init => NoLossInv
  BY NoneAssumption DEF Init, NoLossInv, Holding, OneOwner, Held, ServerInStep,
     InStep, LogInStep, AllOrNothing, AtMostOnce, Busy

\* A step of one thread touches no other thread and no other connection.
LEMMA OtherWorkers ==
    ASSUME TypeInv, NEW w \in Workers, WorkerStep(w) \/ Environment(w),
           NEW v \in Workers, v # w
    PROVE  /\ pc'[v] = pc[v] /\ cur'[v] = cur[v] /\ at'[v] = at[v]
           /\ inTrans'[v] = inTrans[v] /\ open'[v] = open[v]
           /\ holder' = v <=> holder = v
<1> USE NoneAssumption DEF TypeInv, TypeOK, Goto, queueVars, closeVars, threadVars, serverVars
<1>1. CASE WorkerStep(w)
  <2>1. CASE PopWait(w) \/ PopNothing(w) \/ PopOperation(w) \/ WorkerExit(w) \/ WorkerExecute(w)
    BY <2>1 DEF PopWait, PopNothing, PopOperation, WorkerExit, WorkerExecute
  <2>2. CASE BeginEmpty(w) \/ BeginTransaction(w) \/ TakeDeadlockLock(w) \/ RetryAgain(w)
    BY <2>2 DEF BeginEmpty, BeginTransaction, TakeDeadlockLock, RetryAgain
  <2>3. CASE QueryOk(w) \/ RollbackTransaction(w) \/ CommitTransaction(w)
    BY <2>3 DEF QueryOk, Perform, RollbackTransaction, CommitTransaction, ServerForgets
  <2>4. CASE Succeed(w) \/ GiveUp(w)
    BY <2>4 DEF Succeed, GiveUp, Finish
  <2> QED BY <1>1, <2>1, <2>2, <2>3, <2>4 DEF WorkerStep
<1>2. CASE Environment(w)
  <2>1. CASE SpuriousWakeup(w) \/ CommitLost(w)
    BY <2>1 DEF SpuriousWakeup, CommitLost, ServerForgets
  <2>2. ASSUME NEW why \in {"deadlock", "other"}, QueryRefused(w, why)
        PROVE  /\ pc'[v] = pc[v] /\ cur'[v] = cur[v] /\ at'[v] = at[v]
               /\ inTrans'[v] = inTrans[v] /\ open'[v] = open[v]
               /\ holder' = v <=> holder = v
    BY <2>2 DEF QueryRefused, ServerForgets
  <2>3. ASSUME NEW applied \in BOOLEAN, QueryLost(w, applied)
        PROVE  /\ pc'[v] = pc[v] /\ cur'[v] = cur[v] /\ at'[v] = at[v]
               /\ inTrans'[v] = inTrans[v] /\ open'[v] = open[v]
               /\ holder' = v <=> holder = v
    BY <2>3 DEF QueryLost, ServerForgets
  <2> QED BY <1>2, <2>1, <2>2, <2>3 DEF Environment
<1> QED BY <1>1, <1>2

\* Hence the invariant of the connections is the one of the moving thread.
LEMMA InStepOfOthers ==
    ASSUME IInv, NEW w \in Workers, WorkerStep(w) \/ Environment(w), InStep(w)'
    PROVE  ServerInStep'
<1>1. ASSUME NEW v \in Workers, v # w PROVE InStep(v)'
  BY <1>1, OtherWorkers DEF IInv, NoLossInv, ServerInStep, InStep
<1> QED BY <1>1 DEF ServerInStep

LEMMA HoldingOfOthers ==
    ASSUME IInv, NEW w \in Workers, WorkerStep(w) \/ Environment(w),
           /\ pc'[w] \in Busy => cur'[w] \in Ops
           /\ pc'[w] \in {"pop", "wait"} => cur'[w] = NoOp
    PROVE  Holding'
<1>1. \A v \in Workers : v # w => pc'[v] = pc[v] /\ cur'[v] = cur[v]
  BY OtherWorkers DEF IInv
<1> QED BY <1>1 DEF IInv, NoLossInv, Holding

\* Steps that move one thread between two labels and change nothing the
\* invariant reads besides.
LEMMA QuietStep ==
    ASSUME IInv, NEW w \in Workers,
           PopWait(w) \/ PopNothing(w) \/ SpuriousWakeup(w) \/ BeginEmpty(w)
             \/ TakeDeadlockLock(w) \/ RetryAgain(w) \/ WorkerExecute(w)
    PROVE  NoLossInv'
<1> USE DEF IInv, TypeInv, TypeOK, NoLossInv
<1>1. UNCHANGED <<queue, cur, at, inTrans, open, log, status>>
  BY DEF PopWait, PopNothing, SpuriousWakeup, BeginEmpty, TakeDeadlockLock, RetryAgain,
     WorkerExecute, queueVars, serverVars
<1>2. PICK l \in PCs : pc' = [pc EXCEPT ![w] = l]
  BY DEF PopWait, PopNothing, SpuriousWakeup, BeginEmpty, TakeDeadlockLock, RetryAgain,
     WorkerExecute, Goto, PCs
<1>3. Holding'
  BY <1>1, <1>2 DEF PopWait, PopNothing, SpuriousWakeup, BeginEmpty, TakeDeadlockLock,
     RetryAgain, WorkerExecute, Goto, Holding, Busy, PCs
<1>4. pc[w] # "exited" /\ l \notin {"exited", "commit", "rollback", "succeed"}
  BY <1>2 DEF PopWait, PopNothing, SpuriousWakeup, BeginEmpty, TakeDeadlockLock, RetryAgain,
     WorkerExecute, Goto, PCs
<1>5. OneOwner'
  BY <1>1, <1>2, <1>4 DEF OneOwner, Held
<1>6. ServerInStep'
  <2>1. CASE PopWait(w) \/ PopNothing(w) \/ SpuriousWakeup(w) \/ WorkerExecute(w)
    <3>1. InStep(w)'
      BY <2>1, SizeAssumption, KindAssumption
         DEF PopWait, PopNothing, SpuriousWakeup, WorkerExecute, Goto, ServerInStep,
             InStep, Busy, Kinds, serverVars
    <3> QED BY <2>1, <3>1, InStepOfOthers DEF WorkerStep, Environment
  <2>2. CASE BeginEmpty(w) \/ TakeDeadlockLock(w) \/ RetryAgain(w)
    <3>1. InStep(w)'
      BY <2>2 DEF BeginEmpty, TakeDeadlockLock, RetryAgain, Goto, ServerInStep, InStep,
                  Busy, serverVars
    <3> QED BY <2>2, <3>1, InStepOfOthers DEF WorkerStep
  <2> QED BY <2>1, <2>2
<1>7. pc[w] # "succeed"
  BY DEF PopWait, PopNothing, SpuriousWakeup, BeginEmpty, TakeDeadlockLock, RetryAgain,
     WorkerExecute
<1>8. \A v \in Workers : pc'[v] = "succeed" <=> pc[v] = "succeed"
  BY <1>2, <1>4, <1>7
<1>9. LogInStep'
  BY <1>1, <1>8 DEF LogInStep, AppliedOps
<1>10. AllOrNothing' /\ AtMostOnce'
  BY <1>1 DEF AllOrNothing, Whole, AtMostOnce
<1> QED BY <1>3, <1>5, <1>6, <1>9, <1>10

\* Steps that change the transaction of one connection and nothing durable.
LEMMA ConnectionStep ==
    ASSUME IInv, NEW w \in Workers, pc[w] \in Busy \ {"succeed"}, InStep(w)',
           WorkerStep(w) \/ Environment(w), UNCHANGED <<queue, cur, log, status>>,
           NEW l \in Busy \ {"succeed"}, pc' = [pc EXCEPT ![w] = l]
    PROVE  NoLossInv'
<1> USE DEF IInv, TypeInv, TypeOK, NoLossInv
<1>1. Holding'
  BY DEF Holding, Busy
<1>2. OneOwner'
  BY DEF OneOwner, Held, Busy
<1>3. ServerInStep'
  BY InStepOfOthers
<1>4. \A v \in Workers : pc'[v] = "succeed" <=> pc[v] = "succeed"
  BY DEF Busy
<1>5. LogInStep'
  BY <1>4 DEF LogInStep, AppliedOps
<1>6. AllOrNothing' /\ AtMostOnce'
  BY DEF AllOrNothing, Whole, AtMostOnce
<1> QED BY <1>1, <1>2, <1>3, <1>5, <1>6

LEMMA BeginStep ==
    ASSUME IInv, NEW w \in Workers, BeginTransaction(w)
    PROVE  NoLossInv'
<1> USE DEF IInv, TypeInv, TypeOK, NoLossInv
<1>1. cur[w] \in Ops /\ Size[cur[w]] \in Nat /\ Size[cur[w]] > 0
  BY SizeAssumption DEF BeginTransaction, Holding, Busy
<1>2. ~inTrans[w] /\ open[w] = {} /\ Kind[cur[w]] # "statement"
  BY DEF BeginTransaction, ServerInStep, InStep
<1>3. InStep(w)'
  BY <1>1, <1>2 DEF BeginTransaction, Goto, ServerInStep, InStep, Busy
<1> QED BY <1>3, ConnectionStep
         DEF BeginTransaction, Goto, Busy, WorkerStep, queueVars, closeVars

LEMMA RollbackStep ==
    ASSUME IInv, NEW w \in Workers, RollbackTransaction(w)
    PROVE  NoLossInv'
<1>1. InStep(w)'
  BY DEF IInv, TypeInv, TypeOK, NoLossInv, RollbackTransaction, ServerForgets, Goto,
         ServerInStep, InStep, Busy
<1> QED BY <1>1, ConnectionStep
         DEF RollbackTransaction, Goto, Busy, WorkerStep, queueVars, closeVars

LEMMA RefusedStep ==
    ASSUME IInv, NEW w \in Workers, NEW why \in {"deadlock", "other"}, QueryRefused(w, why)
    PROVE  NoLossInv'
<1> USE DEF IInv, TypeInv, TypeOK, NoLossInv
<1>1. CASE Kind[cur[w]] = "statement"
  <2>1. InStep(w)'
    BY <1>1 DEF QueryRefused, ServerForgets, Goto, ServerInStep, InStep, Busy
  <2> QED BY <1>1, <2>1, ConnectionStep
           DEF QueryRefused, Goto, Busy, Environment, queueVars, closeVars
<1>2. CASE Kind[cur[w]] # "statement"
  <2>1. InStep(w)'
    BY <1>2 DEF QueryRefused, ServerForgets, Goto, ServerInStep, InStep, Busy
  <2> QED BY <1>2, <2>1, ConnectionStep
           DEF QueryRefused, Goto, Busy, Environment, queueVars, closeVars
<1> QED BY <1>1, <1>2

\* What a thread executes is in nobody's hands else and not yet durable.
LEMMA NotYetApplied ==
    ASSUME IInv, NEW w \in Workers, pc[w] \in Busy \ {"succeed"}
    PROVE  /\ cur[w] \in Ops /\ status[cur[w]] = "pushed"
           /\ cur[w] \notin AppliedOps
<1>1. cur[w] \in Ops /\ Held(w) /\ status[cur[w]] = "pushed"
  BY NoneAssumption DEF IInv, NoLossInv, Holding, OneOwner, Held, Busy
<1>2. ASSUME NEW v \in Workers, pc[v] = "succeed", cur[v] = cur[w] PROVE FALSE
  <2>1. Held(v)
    BY <1>1, <1>2, NoneAssumption DEF Held
  <2>2. v = w
    BY <1>1, <1>2, <2>1 DEF IInv, NoLossInv, OneOwner
  <2> QED BY <1>2, <2>2
<1> QED BY <1>1, <1>2 DEF IInv, NoLossInv, LogInStep, AppliedOps

\* The whole operation becomes durable in the step that completes it.
LEMMA ApplyStep ==
    ASSUME IInv, NEW w \in Workers, pc[w] \in Busy \ {"succeed"}, InStep(w)',
           WorkerStep(w), UNCHANGED <<queue, cur, status>>,
           pc' = [pc EXCEPT ![w] = "succeed"],
           log' = Append(log, [op |-> cur[w], queries |-> 1 .. Size[cur[w]]])
    PROVE  NoLossInv'
<1> DEFINE e == [op |-> cur[w], queries |-> 1 .. Size[cur[w]]]
           n == Len(log)
<1> USE DEF IInv, TypeInv, TypeOK, NoLossInv
<1>1. cur[w] \in Ops /\ status[cur[w]] = "pushed" /\ cur[w] \notin AppliedOps
  BY NotYetApplied
<1>2. n \in Nat /\ DOMAIN log = 1 .. n /\ DOMAIN log' = 1 .. (n + 1)
  OBVIOUS
<1>3. log'[n + 1] = e /\ \A k \in 1 .. n : log'[k] = log[k]
  OBVIOUS
<1>4. Holding'
  BY <1>1 DEF Holding, Busy
<1>5. OneOwner'
  BY <1>1 DEF OneOwner, Held, Busy
<1>6. ServerInStep'
  BY InStepOfOthers
<1>7. AppliedOps' = AppliedOps \cup {cur[w]}
  <2>1. \A k \in DOMAIN log' : k = n + 1 \/ (k \in DOMAIN log /\ log'[k] = log[k])
    BY <1>2, <1>3
  <2>2. \A k \in DOMAIN log : k \in DOMAIN log' /\ log'[k] = log[k]
    BY <1>2, <1>3
  <2>3. n + 1 \in DOMAIN log' /\ log'[n + 1].op = cur[w]
    BY <1>2, <1>3
  <2> QED BY <2>1, <2>2, <2>3 DEF AppliedOps
<1>8. \A v \in Workers : pc'[v] = "succeed" <=> pc[v] = "succeed" \/ v = w
  OBVIOUS
<1>9. LogInStep'
  <2>1. ASSUME NEW k \in DOMAIN log'
        PROVE  \/ status'[log'[k].op] = "done"
               \/ \E v \in Workers : pc'[v] = "succeed" /\ cur'[v] = log'[k].op
    <3>1. CASE k = n + 1
      <4>1. log'[k].op = cur[w] /\ pc'[w] = "succeed" /\ cur'[w] = cur[w]
        BY <1>3, <1>8, <3>1
      <4> QED BY <4>1
    <3>2. CASE k \in 1 .. n
      <4>1. log'[k] = log[k] /\ k \in DOMAIN log
        BY <1>2, <1>3, <3>2
      <4> QED BY <4>1, <1>8 DEF LogInStep
    <3> QED BY <1>2, <3>1, <3>2
  <2>2. \A o \in Ops : status'[o] = "done" => o \in AppliedOps'
    BY <1>7 DEF LogInStep
  <2>3. \A v \in Workers : pc'[v] = "succeed" => cur'[v] \in AppliedOps'
    BY <1>7, <1>8 DEF LogInStep
  <2> QED BY <2>1, <2>2, <2>3 DEF LogInStep
<1>10. AllOrNothing'
  <2>1. ASSUME NEW k \in DOMAIN log' PROVE Whole(log'[k])
    BY <1>2, <1>3 DEF AllOrNothing, Whole
  <2> QED BY <2>1 DEF AllOrNothing, Whole
<1>11. AtMostOnce'
  <2>1. ASSUME NEW j \in DOMAIN log', NEW k \in DOMAIN log', log'[j].op = log'[k].op
        PROVE  j = k
    <3>1. \A i \in 1 .. n : log'[i].op # cur[w]
      <4>1. \A i \in DOMAIN log : log[i].op # cur[w]
        BY <1>1 DEF AppliedOps
      <4> QED BY <4>1, <1>2, <1>3
    <3>2. log'[n + 1].op = cur[w]
      BY <1>3
    <3>3. CASE j \in 1 .. n /\ k \in 1 .. n
      BY <1>2, <1>3, <2>1, <3>3 DEF AtMostOnce
    <3>4. CASE j = n + 1 \/ k = n + 1
      BY <1>2, <2>1, <3>1, <3>2, <3>4
    <3> QED BY <1>2, <3>3, <3>4
  <2> QED BY <2>1 DEF AtMostOnce
<1> QED BY <1>4, <1>5, <1>6, <1>9, <1>10, <1>11

LEMMA CommitStep ==
    ASSUME IInv, NEW w \in Workers, CommitTransaction(w)
    PROVE  NoLossInv'
<1> USE DEF IInv, TypeInv, TypeOK, NoLossInv
<1>1. pc[w] = "commit" /\ cur[w] \in Ops /\ Size[cur[w]] \in Nat
  BY SizeAssumption DEF CommitTransaction, Holding, Busy
<1>2. inTrans[w] /\ at[w] = Size[cur[w]] + 1 /\ open[w] = 1 .. (at[w] - 1)
  BY <1>1 DEF ServerInStep, InStep
<1>3. open[w] = 1 .. Size[cur[w]]
  BY <1>1, <1>2
<1>4. InStep(w)'
  BY DEF CommitTransaction, ServerForgets, Goto, ServerInStep, InStep, Busy
<1> QED BY <1>1, <1>2, <1>3, <1>4, ApplyStep
         DEF CommitTransaction, Goto, Busy, WorkerStep, queueVars, closeVars

LEMMA QueryStep ==
    ASSUME IInv, NEW w \in Workers, QueryOk(w)
    PROVE  NoLossInv'
<1> USE DEF IInv, TypeInv, TypeOK, NoLossInv
<1>1. /\ pc[w] = "exec" /\ cur[w] \in Ops /\ Size[cur[w]] \in Nat
      /\ at[w] \in 1 .. Size[cur[w]] /\ (inTrans[w] <=> Kind[cur[w]] # "statement")
  BY SizeAssumption DEF QueryOk, Holding, Busy, ServerInStep, InStep
<1>2. CASE Kind[cur[w]] = "statement"
  <2>1. Size[cur[w]] = 1 /\ at[w] = 1 /\ ~inTrans[w]
    BY <1>1, <1>2, SizeAssumption
  <2>2. {at[w]} = 1 .. Size[cur[w]]
    BY <2>1
  <2>3. log' = Append(log, [op |-> cur[w], queries |-> 1 .. Size[cur[w]]])
    BY <2>1, <2>2 DEF QueryOk, Perform
  <2>4. pc' = [pc EXCEPT ![w] = "succeed"]
    BY <1>2, <2>1 DEF QueryOk, Goto
  <2>5. InStep(w)'
    BY <2>1, <2>4 DEF QueryOk, Perform, ServerInStep, InStep, Busy
  <2> QED BY <1>1, <2>3, <2>4, <2>5, ApplyStep DEF QueryOk, Busy, WorkerStep, queueVars
<1>3. CASE Kind[cur[w]] # "statement"
  <2>1. inTrans[w] /\ open[w] = 1 .. (at[w] - 1) /\ log' = log
    BY <1>1, <1>3 DEF QueryOk, Perform, ServerInStep, InStep
  <2>2. open'[w] = 1 .. at[w] /\ inTrans'[w] /\ at'[w] = at[w] + 1
    <3>1. inTrans' = inTrans /\ at' = [at EXCEPT ![w] = at[w] + 1]
          /\ open' = [open EXCEPT ![w] = open[w] \cup {at[w]}]
      BY <2>1 DEF QueryOk, Perform
    <3>2. (1 .. (at[w] - 1)) \cup {at[w]} = 1 .. at[w]
      <4>1. at[w] \in Nat /\ at[w] >= 1
        BY <1>1
      <4> QED BY <4>1
    <3> QED BY <2>1, <3>1, <3>2
  <2>3. holder' = holder /\ cur' = cur
    BY DEF QueryOk
  <2>4. PICK l \in {"exec", "commit"} :
            /\ pc' = [pc EXCEPT ![w] = l]
            /\ l = "exec" => at[w] < Size[cur[w]]
            /\ l = "commit" => at[w] = Size[cur[w]]
    <3>1. CASE at[w] < Size[cur[w]]
      BY <3>1 DEF QueryOk, Goto
    <3>2. CASE ~(at[w] < Size[cur[w]])
      <4>1. at[w] = Size[cur[w]]
        BY <1>1, <3>2
      <4> QED BY <1>3, <3>2, <4>1 DEF QueryOk, Goto
    <3> QED BY <3>1, <3>2
  <2>5. InStep(w)'
    <3>1. pc'[w] = l /\ holder' = holder /\ cur'[w] = cur[w]
      BY <2>3, <2>4
    <3>2. open'[w] = 1 .. (at'[w] - 1)
      <4>1. at[w] \in Nat /\ at'[w] - 1 = at[w]
        BY <1>1, <2>2
      <4> QED BY <2>2, <4>1
    <3>3. l = "exec" => at'[w] \in 1 .. Size[cur[w]]
      BY <1>1, <2>2, <2>4
    <3>4. l = "commit" => at'[w] = Size[cur[w]] + 1
      BY <1>1, <2>2, <2>4
    <3> QED BY <1>3, <2>2, <2>4, <3>1, <3>2, <3>3, <3>4 DEF InStep, Busy
  <2> QED BY <1>1, <2>1, <2>4, <2>5, ConnectionStep DEF QueryOk, Busy, WorkerStep, queueVars
<1> QED BY <1>2, <1>3

LEMMA LoggedOperation ==
    ASSUME TypeOK, NEW k \in DOMAIN log
    PROVE  log[k].op \in Ops
<1>1. log \in Seq(Entry)
  BY DEF TypeOK
<1>2. log[k] \in Entry
  BY <1>1
<1> QED BY <1>2 DEF Entry

\* The end of an operation, with the answer the log justifies.
LEMMA FinishStep ==
    ASSUME IInv, NEW w \in Workers, Succeed(w) \/ GiveUp(w)
    PROVE  NoLossInv'
<1> USE NoneAssumption DEF IInv, TypeInv, TypeOK, NoLossInv
<1>1. cur[w] \in Ops /\ Held(w) /\ status[cur[w]] = "pushed"
  BY DEF Succeed, GiveUp, Holding, Busy, OneOwner, Held
<1>2. PICK result \in {"done", "failed"} :
          /\ Finish(w, result)
          /\ result = "done" => pc[w] = "succeed"
          /\ result = "failed" => pc[w] = "fail"
  BY DEF Succeed, GiveUp
<1>3. /\ UNCHANGED <<queue, log>>
      /\ cur' = [cur EXCEPT ![w] = NoOp]
      /\ pc' = [pc EXCEPT ![w] = "pop"]
      /\ status' = [status EXCEPT ![cur[w]] = result]
      /\ at'[w] = 1 /\ holder' # w
      /\ inTrans' = inTrans /\ open' = open
  BY <1>2 DEF Finish, Goto, queueVars, serverVars
<1>4. Holding'
  BY <1>3 DEF Holding, Busy
<1>5. OneOwner'
  BY <1>1, <1>3 DEF OneOwner, Held
<1>6. ServerInStep'
  <2>1. ~inTrans[w] /\ open[w] = {}
    BY <1>2 DEF ServerInStep, InStep
  <2>2. InStep(w)'
    BY <1>3, <2>1 DEF InStep, Busy
  <2> QED BY <2>2, InStepOfOthers DEF WorkerStep
<1>7. LogInStep'
  <2>1. ASSUME NEW k \in DOMAIN log
        PROVE  \/ status'[log[k].op] = "done"
               \/ \E v \in Workers : pc'[v] = "succeed" /\ cur'[v] = log[k].op
    <3>0. log[k].op \in Ops
      BY LoggedOperation
    <3>1. CASE log[k].op = cur[w]
      <4>1. pc[w] = "succeed"
        <5>1. CASE pc[w] \in Busy \ {"succeed"}
          BY <3>1, <5>1, NotYetApplied DEF AppliedOps
        <5> QED BY <5>1 DEF Succeed, GiveUp, Busy
      <4>2. result = "done"
        BY <1>2, <4>1
      <4> QED BY <1>1, <1>3, <3>1, <4>2
    <3>2. CASE log[k].op # cur[w]
      <4>1. CASE status[log[k].op] = "done"
        BY <1>3, <3>0, <3>2, <4>1
      <4>2. ASSUME NEW v \in Workers, pc[v] = "succeed", cur[v] = log[k].op
            PROVE  pc'[v] = "succeed" /\ cur'[v] = log[k].op
        BY <1>3, <3>2, <4>2
      <4> QED BY <4>1, <4>2 DEF LogInStep
    <3> QED BY <3>1, <3>2
  <2>2. ASSUME NEW o \in Ops, status'[o] = "done" PROVE o \in AppliedOps
    <3>1. CASE o = cur[w]
      <4>1. pc[w] = "succeed"
        BY <1>1, <1>2, <1>3, <2>2, <3>1
      <4> QED BY <3>1, <4>1 DEF LogInStep
    <3>2. CASE o # cur[w]
      BY <1>3, <2>2, <3>2 DEF LogInStep
    <3> QED BY <3>1, <3>2
  <2>3. ASSUME NEW v \in Workers, pc'[v] = "succeed" PROVE cur'[v] \in AppliedOps
    BY <1>3, <2>3 DEF LogInStep
  <2>4. AppliedOps' = AppliedOps
    BY <1>3 DEF AppliedOps
  <2> QED BY <1>3, <2>1, <2>2, <2>3, <2>4 DEF LogInStep
<1>8. AllOrNothing' /\ AtMostOnce'
  BY <1>3 DEF AllOrNothing, Whole, AtMostOnce
<1> QED BY <1>4, <1>5, <1>6, <1>7, <1>8

LEMMA ExitStep ==
    ASSUME IInv, NEW w \in Workers, WorkerExit(w)
    PROVE  NoLossInv'
<1> USE NoneAssumption DEF IInv, TypeInv, TypeOK, NoLossInv
<1>1. /\ UNCHANGED <<queue, cur, at, inTrans, open, log, holder>>
      /\ pc[w] = "test" /\ pc' = [pc EXCEPT ![w] = "exited"]
      /\ status' = IF cur[w] = NoOp THEN status
                   ELSE [status EXCEPT ![cur[w]] = "leaked"]
  BY DEF WorkerExit, Goto, queueVars, serverVars
<1>2. Holding'
  BY <1>1 DEF Holding, Busy
<1>3. \A o \in Ops : status'[o] # status[o] => o = cur[w] /\ cur[w] # NoOp
  BY <1>1
<1>4. cur[w] # NoOp => Held(w) /\ cur[w] \in Ops /\ status[cur[w]] = "pushed"
  BY <1>1 DEF Held, OneOwner
<1>5. OneOwner'
  BY <1>1, <1>4 DEF OneOwner, Held
<1>6. ServerInStep'
  <2>1. InStep(w)'
    BY <1>1 DEF ServerInStep, InStep, Busy
  <2> QED BY <2>1, InStepOfOthers DEF WorkerStep
<1>7. \A v \in Workers : pc'[v] = "succeed" <=> pc[v] = "succeed"
  BY <1>1
<1>8. \A o \in Ops : status'[o] = "done" <=> status[o] = "done"
  BY <1>1, <1>4
<1>9. LogInStep'
  BY <1>1, <1>7, <1>8 DEF LogInStep, AppliedOps, Entry
<1>10. AllOrNothing' /\ AtMostOnce'
  BY <1>1 DEF AllOrNothing, Whole, AtMostOnce
<1> QED BY <1>2, <1>5, <1>6, <1>9, <1>10

\* Removing the head of a queue moves every other element one place forward.
LEMMA TailElements ==
    ASSUME NEW S, NEW s \in Seq(S), s # <<>>
    PROVE  /\ Tail(s) \in Seq(S) /\ 1 \in DOMAIN s /\ Head(s) = s[1]
           /\ \A k \in DOMAIN Tail(s) : k + 1 \in DOMAIN s /\ Tail(s)[k] = s[k + 1]
  OBVIOUS

LEMMA PopStep ==
    ASSUME IInv, NEW w \in Workers, PopOperation(w)
    PROVE  NoLossInv'
<1> USE NoneAssumption DEF IInv, TypeInv, TypeOK, NoLossInv
<1>1. /\ UNCHANGED <<at, inTrans, open, log, holder, status>>
      /\ pc[w] = "pop" /\ pc' = [pc EXCEPT ![w] = "test"]
      /\ cur' = [cur EXCEPT ![w] = queue[1]]
      /\ queue # <<>> /\ queue' = Tail(queue)
  BY TailElements DEF PopOperation, Goto, serverVars
<1>2. /\ 1 \in DOMAIN queue /\ queue[1] \in Ops
      /\ \A k \in DOMAIN queue' : k + 1 \in DOMAIN queue /\ queue'[k] = queue[k + 1]
                                /\ k \in Nat
  BY <1>1, TailElements
<1>3. Holding'
  BY <1>1, <1>2 DEF Holding, Busy
<1>4. OneOwner'
  <2>1. \A k \in DOMAIN queue' : status'[queue'[k]] = "pushed" /\ queue'[k] # queue[1]
    BY <1>1, <1>2 DEF OneOwner
  <2>2. \A j, k \in DOMAIN queue' : queue'[j] = queue'[k] => j = k
    <3>1. ASSUME NEW j \in DOMAIN queue', NEW k \in DOMAIN queue', queue'[j] = queue'[k]
          PROVE  j = k
      <4>1. j + 1 = k + 1
        BY <1>2, <3>1 DEF OneOwner
      <4> QED BY <4>1, <1>2
    <3> QED BY <3>1
  <2>3. \A v \in Workers : Held(v)' /\ v # w => Held(v) /\ cur'[v] = cur[v] /\ cur[v] # queue[1]
    BY <1>1, <1>2 DEF Held, OneOwner
  <2>4. cur'[w] = queue[1] /\ status[queue[1]] = "pushed"
    BY <1>1, <1>2 DEF OneOwner
  <2>5. ASSUME NEW v \in Workers, Held(v)'
        PROVE  /\ status'[cur'[v]] = "pushed"
               /\ \A k \in DOMAIN queue' : queue'[k] # cur'[v]
               /\ \A u \in Workers : Held(u)' /\ cur'[u] = cur'[v] => u = v
    <3>1. CASE v = w
      BY <1>1, <2>1, <2>3, <2>4, <3>1
    <3>2. CASE v # w
      BY <1>1, <1>2, <2>3, <2>4, <2>5, <3>2 DEF OneOwner
    <3> QED BY <3>1, <3>2
  <2> QED BY <2>1, <2>2, <2>5, SMTT(40) DEF OneOwner
<1>5. ServerInStep'
  <2>1. InStep(w)'
    BY <1>1 DEF ServerInStep, InStep, Busy
  <2> QED BY <2>1, InStepOfOthers DEF WorkerStep
<1>6. \A v \in Workers : pc'[v] = "succeed" <=> pc[v] = "succeed"
  BY <1>1
<1>7. \A v \in Workers : pc[v] = "succeed" => cur'[v] = cur[v]
  BY <1>1
<1>8. LogInStep'
  <2>1. ASSUME NEW k \in DOMAIN log, NEW v \in Workers, pc[v] = "succeed", cur[v] = log[k].op
        PROVE  pc'[v] = "succeed" /\ cur'[v] = log[k].op
    BY <1>6, <1>7, <2>1
  <2> QED BY <1>1, <1>6, <1>7, <2>1 DEF LogInStep, AppliedOps
<1>9. AllOrNothing' /\ AtMostOnce'
  BY <1>1 DEF AllOrNothing, Whole, AtMostOnce
<1> QED BY <1>3, <1>4, <1>5, <1>8, <1>9

\* The elements of a sequence with one more at its end.
LEMMA AppendElements ==
    ASSUME NEW S, NEW s \in Seq(S), NEW e \in S
    PROVE  /\ \A k \in DOMAIN Append(s, e) :
                 \/ k \in DOMAIN s /\ Append(s, e)[k] = s[k]
                 \/ k = Len(s) + 1 /\ Append(s, e)[k] = e
           /\ Len(s) + 1 \notin DOMAIN s
  OBVIOUS

LEMMA PushStep ==
    ASSUME IInv, NEW o \in Ops, Push(o)
    PROVE  NoLossInv'
<1> USE NoneAssumption DEF IInv, TypeInv, TypeOK, NoLossInv
<1>1. /\ UNCHANGED <<cur, at, inTrans, open, log, holder>>
      /\ status[o] = "unborn" /\ status' = [status EXCEPT ![o] = "pushed"]
      /\ queue' = Append(queue, o)
  BY DEF Push, serverVars
<1>2. \A v \in Workers : pc'[v] = pc[v] \/ (pc[v] = "wait" /\ pc'[v] = "pop")
  BY DEF Push, Goto
<1>3. \A k \in DOMAIN queue' : \/ k \in DOMAIN queue /\ queue'[k] = queue[k]
                               \/ k = Len(queue) + 1 /\ queue'[k] = o
  BY <1>1, AppendElements
<1>4. Holding'
  BY <1>1, <1>2 DEF Holding, Busy
<1>5. OneOwner'
  <2>1. \A k \in DOMAIN queue : queue[k] # o /\ queue[k] \in Ops
    BY <1>1 DEF OneOwner
  <2>2. \A v \in Workers : Held(v)' <=> Held(v)
    BY <1>1, <1>2 DEF Held
  <2>3. \A v \in Workers : Held(v) => cur[v] # o /\ cur[v] \in Ops
    BY <1>1 DEF Held, OneOwner
  <2>4. \A k \in DOMAIN queue' : status'[queue'[k]] = "pushed"
    BY <1>1, <1>3, <2>1 DEF OneOwner
  <2>5. \A j, k \in DOMAIN queue' : queue'[j] = queue'[k] => j = k
    BY <1>3, <2>1, ZenonT(60) DEF OneOwner
  <2>6. ASSUME NEW v \in Workers, Held(v)
        PROVE  /\ status'[cur[v]] = "pushed"
               /\ \A k \in DOMAIN queue' : queue'[k] # cur[v]
    BY <1>1, <1>3, <2>3, <2>6 DEF OneOwner
  <2> QED BY <1>1, <2>2, <2>4, <2>5, <2>6, SMTT(40) DEF OneOwner
<1>6. ServerInStep'
  BY <1>1, <1>2, ZenonT(60) DEF ServerInStep, InStep, Busy
<1>7. \A v \in Workers : pc'[v] = "succeed" <=> pc[v] = "succeed"
  BY <1>2
<1>8. \A p \in Ops : status'[p] = "done" <=> status[p] = "done"
  BY <1>1
<1>9. LogInStep'
  BY <1>1, <1>7, <1>8, LoggedOperation DEF LogInStep, AppliedOps
<1>10. AllOrNothing' /\ AtMostOnce'
  BY <1>1 DEF AllOrNothing, Whole, AtMostOnce
<1> QED BY <1>4, <1>5, <1>6, <1>9, <1>10

LEMMA CloseSafe ==
    ASSUME IInv, CloseStep
    PROVE  NoLossInv'
<1> USE NoneAssumption DEF IInv, TypeInv, TypeOK, NoLossInv
<1>1. CASE DestroyWorker \/ JoinWorker
  <2>1. UNCHANGED <<queue, pc, cur, at, inTrans, open, log, holder, status>>
    BY <1>1 DEF DestroyWorker, JoinWorker, queueVars, threadVars, serverVars
  <2> QED BY <2>1 DEF Holding, OneOwner, Held, ServerInStep, InStep, LogInStep,
                      AppliedOps, AllOrNothing, Whole, AtMostOnce
<1>2. CASE CancelQueue
  <2>1. /\ UNCHANGED <<cur, at, inTrans, open, log, holder>>
        /\ queue' = <<>>
        /\ status' = [o \in Ops |-> IF \E k \in DOMAIN queue : queue[k] = o
                                      THEN "dropped" ELSE status[o]]
        /\ \A v \in Workers : pc'[v] = pc[v] \/ (pc[v] = "wait" /\ pc'[v] = "pop")
    BY <1>2 DEF CancelQueue, serverVars
  <2>2. Holding'
    BY <2>1 DEF Holding, Busy
  <2>3. OneOwner'
    <3>1. \A v \in Workers : Held(v)' <=> Held(v)
      BY <2>1 DEF Held
    <3>2. ASSUME NEW v \in Workers, Held(v) PROVE status'[cur[v]] = "pushed"
      BY <2>1, <3>2 DEF Held, OneOwner
    <3>3. DOMAIN queue' = {}
      BY <2>1
    <3>4. \A u, v \in Workers : Held(u) /\ Held(v) /\ cur[u] = cur[v] => u = v
      BY DEF OneOwner
    <3> HIDE DEF TypeInv, TypeOK, NoLossInv, Held
    <3> QED BY <2>1, <3>1, <3>2, <3>3, <3>4 DEF OneOwner
  <2>4. ServerInStep'
    BY <2>1 DEF ServerInStep, InStep, Busy
  <2>5. \A v \in Workers : pc'[v] = "succeed" <=> pc[v] = "succeed"
    BY <2>1
  <2>6. \A p \in Ops : status'[p] = "done" <=> status[p] = "done"
    BY <2>1 DEF OneOwner
  <2>7. LogInStep'
    BY <2>1, <2>5, <2>6, LoggedOperation DEF LogInStep, AppliedOps
  <2>8. AllOrNothing' /\ AtMostOnce'
    BY <2>1 DEF AllOrNothing, Whole, AtMostOnce
  <2> QED BY <2>2, <2>3, <2>4, <2>7, <2>8
<1> QED BY <1>1, <1>2 DEF CloseStep

LEMMA SafetyStep ==
    ASSUME MaxLosses = 0
    PROVE  IInv /\ [Next]_vars => NoLossInv'
<1> SUFFICES ASSUME IInv, [Next]_vars PROVE NoLossInv'
  OBVIOUS
<1>1. ASSUME NEW w \in Workers, WorkerStep(w) PROVE NoLossInv'
  BY <1>1, QuietStep, PopStep, ExitStep, BeginStep, QueryStep, RollbackStep, CommitStep,
     FinishStep DEF WorkerStep
<1>2. ASSUME NEW w \in Workers, Environment(w) PROVE NoLossInv'
  <2>1. ~(losses < MaxLosses)
    BY DEF IInv, TypeInv, TypeOK
  <2> QED BY <1>2, <2>1, QuietStep, RefusedStep DEF Environment, QueryLost, CommitLost
<1>3. CASE UNCHANGED vars
  BY <1>3 DEF vars, queueVars, threadVars, serverVars, IInv, NoLossInv, Holding, OneOwner,
     Held, ServerInStep, InStep, LogInStep, AppliedOps, AllOrNothing, Whole, AtMostOnce
<1> QED BY <1>1, <1>2, <1>3, PushStep, CloseSafe DEF Next

\* The invariant behind the theorems below.
LEMMA Safety == MaxLosses = 0 => (Spec => []IInv)
<1> SUFFICES ASSUME MaxLosses = 0 PROVE Spec => []IInv
  OBVIOUS
<1>1. Init => IInv
  BY TypeInit, SafetyInit DEF IInv
<1>2. IInv /\ [Next]_vars => IInv'
  BY TypeStep, SafetyStep DEF IInv
<1> QED BY <1>1, <1>2, PTL DEF Spec

\* While the server keeps its connections, no part of an operation becomes
\* durable before the rest, however often it is refused, retried or cancelled.
THEOREM DurableIsWhole == MaxLosses = 0 => (Spec => []AllOrNothing)
<1>1. IInv => AllOrNothing
  BY DEF IInv, NoLossInv
<1> QED BY <1>1, Safety, PTL

\* Neither the retries under _deadlockLock nor a second connection applies an
\* operation again.
THEOREM AppliedOnce == MaxLosses = 0 => (Spec => []AtMostOnce)
<1>1. IInv => AtMostOnce
  BY DEF IInv, NoLossInv
<1> QED BY <1>1, Safety, PTL

\* The answer of AsyncCommitTransaction's future is what the database holds.
THEOREM AnswerIsTrue == MaxLosses = 0 => (Spec => []TruthfulAnswer)
<1>1. ASSUME IInv PROVE TruthfulAnswer
  <2>1. ASSUME NEW o \in Ops, status[o] = "failed", o \in AppliedOps PROVE FALSE
    <3>1. PICK k \in DOMAIN log : log[k].op = o
      BY <2>1 DEF AppliedOps
    <3>2. PICK w \in Workers : pc[w] = "succeed" /\ cur[w] = o
      BY <1>1, <2>1, <3>1 DEF IInv, NoLossInv, LogInStep
    <3>3. Held(w)
      BY <3>2, NoneAssumption DEF Held
    <3> QED BY <1>1, <2>1, <3>2, <3>3 DEF IInv, NoLossInv, OneOwner
  <2> QED BY <1>1, <2>1 DEF IInv, NoLossInv, LogInStep, TruthfulAnswer
<1> QED BY <1>1, Safety, PTL

(* ---- What lost connections do not break ------------------------------- *)

LEMMA CleanStep == TypeInv /\ Clean /\ [Next]_vars => Clean'
<1> SUFFICES ASSUME TypeInv, Clean, [Next]_vars PROVE Clean'
  OBVIOUS
<1> USE NoneAssumption DEF TypeInv, TypeOK, Goto, queueVars, closeVars, threadVars, serverVars
<1>1. ASSUME NEW w \in Workers, WorkerStep(w) \/ Environment(w) PROVE Clean'
  <2>0. CleanAt(w) /\ (pc[w] \in Busy => cur[w] \in Ops)
    BY DEF Clean
  <2>1. CleanAt(w)'
    <3>1. CASE WorkerStep(w)
      <4>1. CASE PopWait(w) \/ PopNothing(w) \/ PopOperation(w) \/ WorkerExit(w)
        BY <2>0, <4>1 DEF PopWait, PopNothing, PopOperation, WorkerExit, CleanAt, Busy
      <4>2. CASE WorkerExecute(w) \/ BeginEmpty(w) \/ BeginTransaction(w)
        BY <2>0, <4>2 DEF WorkerExecute, BeginEmpty, BeginTransaction, CleanAt, Busy
      <4>3. CASE TakeDeadlockLock(w) \/ RetryAgain(w)
        BY <2>0, <4>3 DEF TakeDeadlockLock, RetryAgain, CleanAt, Busy
      <4>4. CASE QueryOk(w)
        BY <2>0, <4>4 DEF QueryOk, Perform, CleanAt, Busy
      <4>5. CASE RollbackTransaction(w) \/ CommitTransaction(w)
        BY <2>0, <4>5 DEF RollbackTransaction, CommitTransaction, ServerForgets, CleanAt, Busy
      <4>6. CASE Succeed(w) \/ GiveUp(w)
        BY <2>0, <4>6 DEF Succeed, GiveUp, Finish, CleanAt, Busy
      <4> QED BY <3>1, <4>1, <4>2, <4>3, <4>4, <4>5, <4>6 DEF WorkerStep
    <3>2. CASE Environment(w)
      <4>1. CASE SpuriousWakeup(w) \/ CommitLost(w)
        BY <2>0, <4>1 DEF SpuriousWakeup, CommitLost, ServerForgets, CleanAt, Busy
      <4>2. ASSUME NEW why \in {"deadlock", "other"}, QueryRefused(w, why) PROVE CleanAt(w)'
        BY <2>0, <4>2 DEF QueryRefused, ServerForgets, CleanAt, Busy
      <4>3. ASSUME NEW applied \in BOOLEAN, QueryLost(w, applied) PROVE CleanAt(w)'
        BY <2>0, <4>3 DEF QueryLost, ServerForgets, CleanAt, Busy
      <4> QED BY <3>2, <4>1, <4>2, <4>3 DEF Environment
    <3> QED BY <1>1, <3>1, <3>2
  <2>2. ASSUME NEW v \in Workers, v # w PROVE CleanAt(v)'
    BY <1>1, <2>2, OtherWorkers, SMTT(40) DEF Clean, CleanAt
  <2> QED BY <2>1, <2>2 DEF Clean
<1>2. ASSUME UNCHANGED <<cur, inTrans, open, holder>>,
             \A v \in Workers : pc'[v] = pc[v] \/ (pc[v] = "wait" /\ pc'[v] = "pop")
      PROVE  Clean'
  BY <1>2 DEF Clean, CleanAt, Busy
<1>3. ASSUME NEW o \in Ops, Push(o) PROVE Clean'
  BY <1>2, <1>3 DEF Push
<1>4. CASE CloseStep
  <2>1. CASE DestroyWorker \/ JoinWorker
    BY <1>2, <2>1 DEF DestroyWorker, JoinWorker
  <2>2. CASE CancelQueue
    BY <1>2, <2>2 DEF CancelQueue
  <2> QED BY <1>4, <2>1, <2>2 DEF CloseStep
<1>5. CASE UNCHANGED vars
  BY <1>2, <1>5 DEF vars
<1> QED BY <1>1, <1>3, <1>4, <1>5 DEF Next

\* Every path out of ExecuteTransaction ends the transaction in the server,
\* also when connections are lost and opened again in its middle.
THEOREM ConnectionIsClean == Spec => []NothingLeftOpen
<1>1. Init => TypeInv /\ Clean
  BY TypeInit, NoneAssumption DEF Init, Clean, CleanAt
<1>2. TypeInv /\ Clean /\ [Next]_vars => (TypeInv /\ Clean)'
  BY TypeStep, CleanStep
<1>3. TypeInv /\ Clean => NothingLeftOpen
  BY DEF Clean, CleanAt, NothingLeftOpen
<1> QED BY <1>1, <1>2, <1>3, PTL DEF Spec

(* ---- The order of one connection -------------------------------------- *)

OneWorker == \A v, w \in Workers : v = w

Submitted(o) == \E k \in DOMAIN submitted : submitted[k] = o

\* Nothing is pushed twice, and what was pushed is on record.
PushedOnce ==
    /\ \A j, k \in DOMAIN submitted : submitted[j] = submitted[k] => j = k
    /\ \A k \in DOMAIN submitted : status[submitted[k]] # "unborn"

\* Along the log, then the operation in the worker's hands, then the queue,
\* the operations stand in the order of their Push.
InOrder ==
    /\ \A k \in DOMAIN log : Submitted(log[k].op)
    /\ \A w \in Workers : cur[w] # NoOp => Submitted(cur[w])
    /\ \A k \in DOMAIN queue : Submitted(queue[k])
    /\ \A k \in DOMAIN log, w \in Workers :
         cur[w] # NoOp => Position(log[k].op) <= Position(cur[w])
    /\ \A k \in DOMAIN log, j \in DOMAIN queue : Position(log[k].op) <= Position(queue[j])
    /\ \A w \in Workers, j \in DOMAIN queue :
         cur[w] # NoOp => Position(cur[w]) <= Position(queue[j])
    /\ \A j, k \in DOMAIN queue : j < k => Position(queue[j]) <= Position(queue[k])

OrderInv == TypeInv /\ PushedOnce /\ InOrder /\ CommitOrder

LEMMA PositionFact ==
    ASSUME NEW o, Submitted(o), submitted \in Seq(Ops)
    PROVE  Position(o) \in DOMAIN submitted /\ submitted[Position(o)] = o /\ Position(o) \in Nat
<1>1. Position(o) \in DOMAIN submitted /\ submitted[Position(o)] = o
  BY DEF Submitted, Position
<1> QED BY <1>1

\* Steps that push nothing, append nothing to the log and pop nothing: the
\* worker keeps its operation or lets go of it, the queue stays or is emptied.
LEMMA OrderKept ==
    ASSUME OrderInv, UNCHANGED <<submitted, log>>,
           queue' = queue \/ queue' = <<>>,
           \A w \in Workers : cur'[w] = cur[w] \/ cur'[w] = NoOp,
           \A o \in Ops : status[o] # "unborn" => status'[o] # "unborn"
    PROVE  PushedOnce' /\ InOrder' /\ CommitOrder'
<1>1. \A o : /\ Submitted(o)' <=> Submitted(o)
             /\ Position(o)' = Position(o)
  BY DEF Submitted, Position
<1>2. \A k \in DOMAIN submitted : submitted[k] \in Ops
  BY DEF OrderInv, TypeInv, TypeOK
<1>3. PushedOnce'
  BY <1>2 DEF OrderInv, PushedOnce
<1>4. DOMAIN queue' \subseteq DOMAIN queue /\ \A k \in DOMAIN queue' : queue'[k] = queue[k]
  OBVIOUS
<1> HIDE DEF Position, Submitted
<1>5. InOrder'
  BY <1>1, <1>4 DEF OrderInv, InOrder
<1>6. CommitOrder'
  BY <1>1 DEF OrderInv, CommitOrder
<1> QED BY <1>3, <1>5, <1>6

\* An entry of the only worker's operation goes to the end of the order.
LEMMA OrderAppend ==
    ASSUME OrderInv, OneWorker, NEW w \in Workers, NEW q \in SUBSET Nat, cur[w] \in Ops,
           log' = Append(log, [op |-> cur[w], queries |-> q]),
           UNCHANGED <<submitted, queue, cur, status>>
    PROVE  PushedOnce' /\ InOrder' /\ CommitOrder'
<1>1. \A o : /\ Submitted(o)' <=> Submitted(o)
             /\ Position(o)' = Position(o)
  BY DEF Submitted, Position
<1>2. PushedOnce'
  BY DEF OrderInv, PushedOnce
<1> DEFINE e == [op |-> cur[w], queries |-> q]
<1>3. e \in Entry /\ e.op = cur[w] /\ log \in Seq(Entry)
  BY EntryType DEF OrderInv, TypeInv, TypeOK
<1>4. /\ \A k \in DOMAIN log' : \/ k \in DOMAIN log /\ log'[k] = log[k]
                                \/ k = Len(log) + 1 /\ log'[k] = e
      /\ \A k \in DOMAIN log : k <= Len(log) /\ k \in Nat
      /\ Len(log) \in Nat
  BY <1>3, AppendElements
<1>5. \A k \in DOMAIN log' : \/ k \in DOMAIN log /\ log'[k].op = log[k].op
                             \/ k = Len(log) + 1 /\ log'[k].op = cur[w]
  BY <1>3, <1>4
<1>6. /\ cur[w] # NoOp /\ Submitted(cur[w])
      /\ \A v \in Workers : cur[v] = cur[w]
  BY NoneAssumption DEF OrderInv, InOrder, OneWorker
<1>7. Position(cur[w]) \in Nat
  BY <1>6, PositionFact DEF OrderInv, TypeInv, TypeOK
<1>8. Position(cur[w]) <= Position(cur[w])
  BY <1>7
<1> HIDE DEF Position, Submitted, e
<1>9. InOrder'
  <2>1. \A k \in DOMAIN log' : Submitted(log'[k].op)
    BY <1>5, <1>6 DEF OrderInv, InOrder
  <2>2. \A k \in DOMAIN log', v \in Workers :
          cur[v] # NoOp => Position(log'[k].op) <= Position(cur[v])
    BY <1>5, <1>6, <1>8 DEF OrderInv, InOrder
  <2>3. \A k \in DOMAIN log', j \in DOMAIN queue : Position(log'[k].op) <= Position(queue[j])
    BY <1>5, <1>6 DEF OrderInv, InOrder
  <2> QED BY <1>1, <2>1, <2>2, <2>3 DEF OrderInv, InOrder
<1>10. CommitOrder'
  <2>1. ASSUME NEW j \in DOMAIN log', NEW k \in DOMAIN log', j < k
        PROVE  Position(log'[j].op) <= Position(log'[k].op)
    <3>1. CASE k \in DOMAIN log
      <4>1. j \in DOMAIN log
        BY <1>4, <2>1, <3>1
      <4> QED BY <1>3, <1>4, <1>5, <2>1, <3>1, <4>1 DEF OrderInv, CommitOrder
    <3>2. CASE k = Len(log) + 1 /\ log'[k].op = cur[w] /\ j \in DOMAIN log
      BY <1>5, <1>4, <1>6, <3>2, <2>1 DEF OrderInv, InOrder
    <3>3. CASE k = Len(log) + 1 /\ log'[k].op = cur[w] /\ j = Len(log) + 1
      BY <1>4, <2>1, <3>3
    <3> QED BY <1>5, <2>1, <3>1, <3>2, <3>3
  <2> QED BY <1>1, <2>1 DEF CommitOrder
<1> QED BY <1>2, <1>9, <1>10

LEMMA OrderPush ==
    ASSUME OrderInv, NEW o \in Ops, Push(o)
    PROVE  PushedOnce' /\ InOrder' /\ CommitOrder'
<1>1. /\ UNCHANGED <<cur, log>> /\ queue' = Append(queue, o) /\ status[o] = "unborn"
      /\ submitted' = Append(submitted, o) /\ status' = [status EXCEPT ![o] = "pushed"]
  BY DEF Push, serverVars
<1>2. submitted \in Seq(Ops) /\ queue \in Seq(Ops) /\ status \in [Ops -> Statuses]
  BY DEF OrderInv, TypeInv, TypeOK
<1>3. /\ \A k \in DOMAIN submitted' : \/ k \in DOMAIN submitted /\ submitted'[k] = submitted[k]
                                      \/ k = Len(submitted) + 1 /\ submitted'[k] = o
      /\ \A k \in DOMAIN submitted : k \in DOMAIN submitted' /\ submitted'[k] = submitted[k]
      /\ \A k \in DOMAIN submitted : k <= Len(submitted) /\ k \in Nat
      /\ Len(submitted) + 1 \in DOMAIN submitted'
      /\ submitted'[Len(submitted) + 1] = o /\ submitted' \in Seq(Ops)
      /\ Len(submitted) \in Nat
  BY <1>1, <1>2, AppendElements
<1>4. \A k \in DOMAIN submitted : submitted[k] # o
  BY <1>1 DEF OrderInv, PushedOnce
<1>5. PushedOnce'
  <2>1. \A k \in DOMAIN submitted' : status'[submitted'[k]] # "unborn"
    BY <1>1, <1>2, <1>3, <1>4 DEF OrderInv, PushedOnce
  <2>2. \A j, k \in DOMAIN submitted' : submitted'[j] = submitted'[k] => j = k
    BY <1>3, <1>4 DEF OrderInv, PushedOnce
  <2> QED BY <2>1, <2>2 DEF PushedOnce
<1>6. ASSUME NEW p, Submitted(p)
      PROVE  Submitted(p)' /\ Position(p)' = Position(p)
             /\ Position(p) \in Nat /\ Position(p) <= Len(submitted)
  <2>1. Position(p) \in DOMAIN submitted /\ submitted[Position(p)] = p
    BY <1>2, <1>6, PositionFact
  <2>2. Submitted(p)'
    BY <1>3, <2>1 DEF Submitted
  <2>3. Position(p)' \in DOMAIN submitted' /\ submitted'[Position(p)'] = p
    BY <2>2 DEF Submitted, Position
  <2>4. Position(p)' = Position(p)
    BY <1>3, <1>5, <2>1, <2>3 DEF PushedOnce
  <2> QED BY <1>3, <2>1, <2>2, <2>4
<1>7. Submitted(o)' /\ Position(o)' = Len(submitted) + 1
  <2>1. Submitted(o)'
    BY <1>3 DEF Submitted
  <2>2. Position(o)' \in DOMAIN submitted' /\ submitted'[Position(o)'] = o
    BY <2>1 DEF Submitted, Position
  <2> QED BY <2>1, <2>2, <1>3, <1>4
<1>8. /\ \A k \in DOMAIN queue' : \/ k \in DOMAIN queue /\ queue'[k] = queue[k]
                                  \/ k = Len(queue) + 1 /\ queue'[k] = o
      /\ \A k \in DOMAIN queue : k <= Len(queue) /\ k \in Nat
      /\ Len(queue) \in Nat
  BY <1>1, <1>2, AppendElements
<1> HIDE DEF Position, Submitted
<1>9. \A p : Submitted(p) => Position(p)' <= Position(o)'
  BY <1>3, <1>6, <1>7
<1>10. InOrder'
  <2>1. /\ \A k \in DOMAIN log : Submitted(log[k].op)
        /\ \A v \in Workers : cur[v] # NoOp => Submitted(cur[v])
        /\ \A k \in DOMAIN queue : Submitted(queue[k])
    BY DEF OrderInv, InOrder
  <2>2. ASSUME NEW k \in DOMAIN queue' PROVE Submitted(queue[k])'
    <3>1. CASE k \in DOMAIN queue /\ queue'[k] = queue[k]
      BY <1>6, <2>1, <3>1
    <3>2. CASE queue'[k] = o
      BY <1>7, <3>2
    <3> QED BY <1>8, <2>2, <3>1, <3>2
  <2>3. ASSUME NEW p, Submitted(p), NEW j \in DOMAIN queue',
               \A i \in DOMAIN queue : Position(p) <= Position(queue[i])
        PROVE  Position(p)' <= Position(queue[j])'
    <3>1. CASE j \in DOMAIN queue /\ queue'[j] = queue[j]
      BY <1>6, <2>1, <2>3, <3>1
    <3>2. CASE queue'[j] = o
      BY <1>9, <2>3, <3>2
    <3> QED BY <1>8, <2>3, <3>1, <3>2
  <2>4. \A k \in DOMAIN log, v \in Workers :
          cur[v] # NoOp => Position(log[k].op)' <= Position(cur[v])'
    BY <1>1, <1>6, <2>1 DEF OrderInv, InOrder
  <2>5. \A k \in DOMAIN log, j \in DOMAIN queue' : Position(log[k].op)' <= Position(queue[j])'
    BY <1>1, <2>1, <2>3 DEF OrderInv, InOrder
  <2>6. \A v \in Workers, j \in DOMAIN queue' :
          cur[v] # NoOp => Position(cur[v])' <= Position(queue[j])'
    BY <1>1, <2>1, <2>3 DEF OrderInv, InOrder
  <2>7. ASSUME NEW j \in DOMAIN queue', NEW k \in DOMAIN queue', j < k
        PROVE  Position(queue[j])' <= Position(queue[k])'
    <3>1. j \in DOMAIN queue /\ queue'[j] = queue[j]
      BY <1>8, <2>7
    <3>2. CASE k \in DOMAIN queue /\ queue'[k] = queue[k]
      <4>1. Position(queue[j]) <= Position(queue[k])
        BY <2>7, <3>1, <3>2 DEF OrderInv, InOrder
      <4> QED BY <1>6, <2>1, <3>1, <3>2, <4>1
    <3>3. CASE queue'[k] = o
      BY <1>9, <2>1, <3>1, <3>3
    <3> QED BY <1>8, <2>7, <3>2, <3>3
  <2> QED BY <1>1, <1>6, <2>1, <2>2, <2>4, <2>5, <2>6, <2>7 DEF InOrder
<1>11. CommitOrder'
  BY <1>1, <1>6 DEF OrderInv, InOrder, CommitOrder
<1> QED BY <1>5, <1>10, <1>11

LEMMA OrderPop ==
    ASSUME OrderInv, OneWorker, NEW w \in Workers, PopOperation(w)
    PROVE  PushedOnce' /\ InOrder' /\ CommitOrder'
<1>1. /\ UNCHANGED <<log, submitted, status>> /\ queue # <<>> /\ queue' = Tail(queue)
      /\ cur' = [cur EXCEPT ![w] = Head(queue)]
      /\ queue \in Seq(Ops) /\ cur \in [Workers -> Ops \cup {NoOp}]
  BY DEF PopOperation, serverVars, OrderInv, TypeInv, TypeOK
<1>2. \A o : /\ Submitted(o)' <=> Submitted(o)
             /\ Position(o)' = Position(o)
  BY <1>1 DEF Submitted, Position
<1>3. PushedOnce'
  BY <1>1 DEF OrderInv, PushedOnce
<1>4. /\ 1 \in DOMAIN queue /\ \A v \in Workers : cur'[v] = queue[1]
      /\ \A k \in DOMAIN queue' : /\ k + 1 \in DOMAIN queue /\ queue'[k] = queue[k + 1]
                                  /\ k \in Nat /\ 1 < k + 1
  BY <1>1, TailElements DEF OneWorker
<1> HIDE DEF Position, Submitted
<1>5. InOrder'
  <2>1. \A j, k \in DOMAIN queue' : j < k => Position(queue[j])' <= Position(queue[k])'
    <3>1. ASSUME NEW j \in DOMAIN queue', NEW k \in DOMAIN queue', j < k
          PROVE  Position(queue[j])' <= Position(queue[k])'
      <4>1. j + 1 < k + 1
        BY <1>4, <3>1
      <4>2. Position(queue[j + 1]) <= Position(queue[k + 1])
        BY <1>4, <3>1, <4>1 DEF OrderInv, InOrder
      <4> QED BY <1>2, <1>4, <4>2
    <3> QED BY <3>1
  <2>2. \A k \in DOMAIN queue' : Submitted(queue[k])'
    BY <1>2, <1>4 DEF OrderInv, InOrder
  <2>3. \A v \in Workers : Submitted(cur[v])'
    BY <1>2, <1>4 DEF OrderInv, InOrder
  <2>4. \A k \in DOMAIN log, v \in Workers : Position(log[k].op)' <= Position(cur[v])'
    BY <1>1, <1>2, <1>4 DEF OrderInv, InOrder
  <2>5. \A k \in DOMAIN log, j \in DOMAIN queue' : Position(log[k].op)' <= Position(queue[j])'
    BY <1>1, <1>2, <1>4 DEF OrderInv, InOrder
  <2>6. \A v \in Workers, j \in DOMAIN queue' : Position(cur[v])' <= Position(queue[j])'
    BY <1>1, <1>2, <1>4 DEF OrderInv, InOrder
  <2> QED BY <1>1, <1>2, <2>1, <2>2, <2>3, <2>4, <2>5, <2>6 DEF OrderInv, InOrder
<1>6. CommitOrder'
  BY <1>1, <1>2 DEF OrderInv, CommitOrder
<1> QED BY <1>3, <1>5, <1>6

LEMMA OrderStep ==
    ASSUME OneWorker
    PROVE  OrderInv /\ [Next]_vars => OrderInv'
<1> SUFFICES ASSUME OrderInv, [Next]_vars PROVE PushedOnce' /\ InOrder' /\ CommitOrder'
  BY TypeStep DEF OrderInv
<1> USE DEF OrderInv, TypeInv, TypeOK
<1>1. ASSUME NEW w \in Workers, WorkerStep(w) PROVE PushedOnce' /\ InOrder' /\ CommitOrder'
  <2>1. CASE PopWait(w) \/ PopNothing(w) \/ WorkerExecute(w) \/ BeginEmpty(w)
    BY <2>1, OrderKept DEF PopWait, PopNothing, WorkerExecute, BeginEmpty, queueVars, serverVars
  <2>2. CASE BeginTransaction(w) \/ RollbackTransaction(w) \/ TakeDeadlockLock(w) \/ RetryAgain(w)
    BY <2>2, OrderKept DEF BeginTransaction, RollbackTransaction, TakeDeadlockLock, RetryAgain,
                           ServerForgets, queueVars, serverVars
  <2>3. CASE WorkerExit(w)
    BY <2>3, OrderKept DEF WorkerExit, queueVars, serverVars
  <2>4. CASE Succeed(w) \/ GiveUp(w)
    BY <2>4, OrderKept DEF Succeed, GiveUp, Finish, queueVars, serverVars
  <2>5. CASE QueryOk(w)
    <3>1. cur[w] \in Ops /\ {at[w]} \in SUBSET Nat
      BY <2>5 DEF QueryOk, Busy
    <3>2. CASE inTrans[w]
      BY <2>5, <3>2, OrderKept DEF QueryOk, Perform, queueVars
    <3>3. CASE ~inTrans[w]
      BY <2>5, <3>1, <3>3, OrderAppend DEF QueryOk, Perform, queueVars
    <3> QED BY <3>2, <3>3
  <2>6. CASE CommitTransaction(w)
    <3>1. cur[w] \in Ops /\ open[w] \in SUBSET Nat
      BY <2>6 DEF CommitTransaction, Busy
    <3>2. CASE ~inTrans[w]
      BY <2>6, <3>2, OrderKept DEF CommitTransaction, queueVars
    <3>3. CASE inTrans[w]
      BY <2>6, <3>1, <3>3, OrderAppend DEF CommitTransaction, queueVars
    <3> QED BY <3>2, <3>3
  <2> QED BY <1>1, <2>1, <2>2, <2>3, <2>4, <2>5, <2>6, OrderPop DEF WorkerStep
<1>2. ASSUME NEW w \in Workers, Environment(w) PROVE PushedOnce' /\ InOrder' /\ CommitOrder'
  <2>1. CASE SpuriousWakeup(w) \/ CommitLost(w)
    BY <2>1, OrderKept DEF SpuriousWakeup, CommitLost, queueVars, serverVars
  <2>2. ASSUME NEW why \in {"deadlock", "other"}, QueryRefused(w, why)
        PROVE  PushedOnce' /\ InOrder' /\ CommitOrder'
    BY <2>2, OrderKept DEF QueryRefused, queueVars
  <2>3. ASSUME NEW applied \in BOOLEAN, QueryLost(w, applied)
        PROVE  PushedOnce' /\ InOrder' /\ CommitOrder'
    <3>1. cur[w] \in Ops /\ {at[w]} \in SUBSET Nat
      BY <2>3 DEF QueryLost, Busy
    <3>2. CASE log' = log
      BY <2>3, <3>2, OrderKept DEF QueryLost, queueVars, threadVars
    <3>3. CASE log' = Append(log, [op |-> cur[w], queries |-> {at[w]}])
      BY <2>3, <3>1, <3>3, OrderAppend DEF QueryLost, queueVars, threadVars
    <3> QED BY <2>3, <3>2, <3>3 DEF QueryLost
  <2> QED BY <1>2, <2>1, <2>2, <2>3 DEF Environment
<1>3. CASE DestroyWorker \/ JoinWorker
  BY <1>3, OrderKept DEF DestroyWorker, JoinWorker, queueVars, threadVars, serverVars
<1>4. CASE CancelQueue
  BY <1>4, OrderKept DEF CancelQueue, serverVars
<1>5. CASE UNCHANGED vars
  BY <1>5, OrderKept DEF vars, queueVars, threadVars, serverVars
<1> QED BY <1>1, <1>2, <1>3, <1>4, <1>5, OrderPush DEF Next, CloseStep

\* With the one asynchronous connection of the default configuration the
\* database sees the operations in the order of their Push: retries under
\* _deadlockLock, lost connections and Close reorder nothing.
THEOREM CommitsInPushOrder == OneWorker => (Spec => []CommitOrder)
<1> SUFFICES ASSUME OneWorker PROVE Spec => []CommitOrder
  OBVIOUS
<1>1. Init => OrderInv
  BY TypeInit DEF Init, OrderInv, PushedOnce, InOrder, CommitOrder
<1>2. OrderInv /\ [Next]_vars => OrderInv'
  BY OrderStep
<1>3. OrderInv => CommitOrder
  BY DEF OrderInv
<1> QED BY <1>1, <1>2, <1>3, PTL DEF Spec

(* ---- The pool as its callers see it ----------------------------------- *)

\* While every entry is whole, the abstract table lists the operations of the log.
LEMMA TableFacts ==
    ASSUME TypeInv, AllOrNothing
    PROVE  /\ TableOf = [k \in 1 .. Len(log) |-> log[k].op]
           /\ TableOf \in Seq(Ops) /\ Len(TableOf) = Len(log)
           /\ Atomic!Applied = AppliedOps
<1>1. /\ DOMAIN log = 1 .. Len(log) /\ Len(log) \in Nat
      /\ \A k \in DOMAIN log : log[k].op \in Ops
  <2>1. log \in Seq(Entry)
    BY DEF TypeInv, TypeOK
  <2>2. \A e \in Entry : e.op \in Ops
    BY DEF Entry
  <2> QED BY <2>1, <2>2
<1>2. TableOf = [k \in 1 .. Len(log) |-> log[k].op]
  BY <1>1 DEF TableOf, AllOrNothing
<1>3. TableOf \in Seq(Ops) /\ Len(TableOf) = Len(log)
  BY <1>1, <1>2
<1>4. Atomic!Applied = AppliedOps
  BY <1>1, <1>2 DEF Atomic!Applied, AppliedOps
<1> QED BY <1>2, <1>3, <1>4

LEMMA TableKept ==
    ASSUME UNCHANGED log
    PROVE  TableOf' = TableOf
  BY DEF TableOf, Whole

\* A whole entry at the end of the log is one more operation in the table.
LEMMA TableAppend ==
    ASSUME TypeInv, AllOrNothing, TypeInv', AllOrNothing', NEW o \in Ops,
           NEW q \in SUBSET Nat, log' = Append(log, [op |-> o, queries |-> q])
    PROVE  TableOf' = Append(TableOf, o)
<1>1. log \in Seq(Entry) /\ [op |-> o, queries |-> q] \in Entry
  BY EntryType DEF TypeInv, TypeOK
<1>2. /\ Len(log') = Len(log) + 1 /\ Len(log) \in Nat
      /\ \A k \in 1 .. Len(log) : log'[k] = log[k]
      /\ log'[Len(log) + 1] = [op |-> o, queries |-> q]
  BY <1>1
<1>3. /\ TableOf = [k \in 1 .. Len(log) |-> log[k].op]
      /\ TableOf \in Seq(Ops) /\ Len(TableOf) = Len(log)
  BY TableFacts
<1>4. TableOf' = [k \in 1 .. Len(log') |-> log'[k].op]
  BY <1>1 DEF TableOf, AllOrNothing
<1> HIDE DEF TableOf
<1>5. Append(TableOf, o) = [k \in 1 .. Len(log) + 1 |->
                              IF k = Len(log) + 1 THEN o ELSE TableOf[k]]
  BY <1>3
<1> QED BY <1>2, <1>3, <1>4, <1>5

\* Who holds an operation that is not over has not made it durable, unless he
\* is about to say so.
LEMMA HeldIsNotApplied ==
    ASSUME IInv, NEW o \in Ops, status[o] # "done",
           \A w \in Workers : ~(pc[w] = "succeed" /\ cur[w] = o)
    PROVE  o \notin AppliedOps
  BY DEF IInv, NoLossInv, LogInStep, AppliedOps

LEMMA AtomicInit == Init => Atomic!Init
<1> SUFFICES ASSUME Init PROVE Atomic!Init
  OBVIOUS
<1>1. TableOf = <<>>
  BY DEF Init, TableOf
<1> QED BY <1>1 DEF Init, Atomic!Init

\* Every step of the pool is one step of the promise, or none.
LEMMA AtomicStep ==
    ASSUME MaxLosses = 0, IInv, IInv', [Next]_vars
    PROVE  [Atomic!Next]_<<TableOf, status>>
<1> USE DEF IInv, TypeInv, TypeOK, NoLossInv
<1>1. ASSUME UNCHANGED <<log, status>> PROVE [Atomic!Next]_<<TableOf, status>>
  BY <1>1, TableKept
<1>2. ASSUME NEW w \in Workers, WorkerStep(w) PROVE [Atomic!Next]_<<TableOf, status>>
  <2>1. CASE PopWait(w) \/ PopNothing(w) \/ PopOperation(w) \/ WorkerExecute(w)
    BY <1>1, <2>1 DEF PopWait, PopNothing, PopOperation, WorkerExecute, serverVars
  <2>2. CASE BeginEmpty(w) \/ BeginTransaction(w) \/ RollbackTransaction(w)
               \/ TakeDeadlockLock(w) \/ RetryAgain(w)
    BY <1>1, <2>2 DEF BeginEmpty, BeginTransaction, RollbackTransaction, TakeDeadlockLock,
                      RetryAgain, serverVars
  <2>3. ASSUME NEW q \in SUBSET Nat, pc[w] \in Busy \ {"succeed"}, UNCHANGED status,
               log' = Append(log, [op |-> cur[w], queries |-> q])
        PROVE  Atomic!Next
    <3>1. cur[w] \in Ops /\ status[cur[w]] = "pushed" /\ cur[w] \notin Atomic!Applied
      BY <2>3, NotYetApplied, TableFacts
    <3>2. TableOf' = Append(TableOf, cur[w])
      BY <2>3, <3>1, TableAppend
    <3>3. Atomic!Apply(cur[w])
      BY <2>3, <3>1, <3>2 DEF Atomic!Apply
    <3> QED BY <3>1, <3>3 DEF Atomic!Next
  <2>4. CASE QueryOk(w)
    <3>1. {at[w]} \in SUBSET Nat /\ pc[w] \in Busy \ {"succeed"} /\ UNCHANGED status
      BY <2>4 DEF QueryOk, Busy
    <3>2. log' = log \/ log' = Append(log, [op |-> cur[w], queries |-> {at[w]}])
      BY <2>4 DEF QueryOk, Perform
    <3> QED BY <1>1, <2>3, <3>1, <3>2
  <2>5. CASE CommitTransaction(w)
    <3>1. open[w] \in SUBSET Nat /\ pc[w] \in Busy \ {"succeed"} /\ UNCHANGED status
      BY <2>5 DEF CommitTransaction, Busy
    <3>2. log' = log \/ log' = Append(log, [op |-> cur[w], queries |-> open[w]])
      BY <2>5 DEF CommitTransaction
    <3> QED BY <1>1, <2>3, <3>1, <3>2
  <2>6. CASE Succeed(w) \/ GiveUp(w)
    <3>1. /\ cur[w] \in Ops /\ status[cur[w]] = "pushed" /\ TableOf' = TableOf
          /\ status' = [status EXCEPT ![cur[w]] = IF cur[w] \in AppliedOps THEN "done"
                                                  ELSE "failed"]
      <4>1. CASE Succeed(w)
        <5>1. cur[w] \in Ops /\ Held(w) /\ cur[w] \in AppliedOps
          BY <4>1, NoneAssumption DEF Succeed, Held, Busy, LogInStep
        <5> QED BY <4>1, <5>1, TableKept DEF OneOwner, Succeed, Finish, serverVars
      <4>2. CASE GiveUp(w)
        BY <4>2, NotYetApplied, TableKept DEF GiveUp, Finish, serverVars, Busy
      <4> QED BY <2>6, <4>1, <4>2
    <3>2. Atomic!Report(cur[w])
      BY <3>1, TableFacts DEF Atomic!Report
    <3> QED BY <3>1, <3>2 DEF Atomic!Next
  <2>7. CASE WorkerExit(w)
    <3>1. CASE cur[w] = NoOp
      BY <1>1, <2>7, <3>1 DEF WorkerExit, serverVars
    <3>2. CASE cur[w] # NoOp
      <4>1. cur[w] \in Ops /\ status[cur[w]] = "pushed" /\ Held(w) /\ pc[w] = "test"
        BY <2>7, <3>2 DEF WorkerExit, Held, OneOwner
      <4>2. \A v \in Workers : ~(pc[v] = "succeed" /\ cur[v] = cur[w])
        BY <4>1, <3>2 DEF Held, OneOwner
      <4>3. cur[w] \notin Atomic!Applied
        BY <4>1, <4>2, HeldIsNotApplied, TableFacts
      <4>4. status' = [o \in Ops |-> IF o \in {cur[w]} THEN "leaked" ELSE status[o]]
        BY <2>7, <3>2 DEF WorkerExit
      <4>5. TableOf' = TableOf
        BY <2>7, TableKept DEF WorkerExit, serverVars
      <4>6. Atomic!Discard({cur[w]}, "leaked")
        BY <4>1, <4>3, <4>4, <4>5 DEF Atomic!Discard
      <4> QED BY <4>1, <4>6 DEF Atomic!Next
    <3> QED BY <3>1, <3>2
  <2> QED BY <1>2, <2>1, <2>2, <2>4, <2>5, <2>6, <2>7 DEF WorkerStep
<1>3. ASSUME NEW w \in Workers, Environment(w) PROVE [Atomic!Next]_<<TableOf, status>>
  BY <1>1, <1>3 DEF Environment, SpuriousWakeup, QueryRefused, QueryLost, CommitLost, serverVars
<1>4. ASSUME NEW o \in Ops, Push(o) PROVE [Atomic!Next]_<<TableOf, status>>
  <2>1. TableOf' = TableOf
    BY <1>4, TableKept DEF Push, serverVars
  <2>2. Atomic!Submit(o)
    BY <1>4, <2>1 DEF Push, Atomic!Submit
  <2> QED BY <2>2 DEF Atomic!Next
<1>5. CASE DestroyWorker \/ JoinWorker
  BY <1>1, <1>5 DEF DestroyWorker, JoinWorker, serverVars
<1>6. CASE CancelQueue
  <2> DEFINE dropped == {o \in Ops : \E k \in DOMAIN queue : queue[k] = o}
  <2>1. status' = [o \in Ops |-> IF o \in dropped THEN "dropped" ELSE status[o]]
    BY <1>6 DEF CancelQueue
  <2>2. ASSUME NEW o \in dropped PROVE status[o] = "pushed" /\ o \notin Atomic!Applied
    <3>1. PICK k \in DOMAIN queue : queue[k] = o
      OBVIOUS
    <3>2. status[o] = "pushed" /\ o \in Ops
      BY <3>1 DEF OneOwner
    <3>3. ASSUME NEW v \in Workers, pc[v] = "succeed", cur[v] = o PROVE FALSE
      <4>1. Held(v)
        BY <3>2, <3>3, NoneAssumption DEF Held
      <4> QED BY <3>1, <3>3, <4>1 DEF OneOwner
    <3> QED BY <3>2, <3>3, HeldIsNotApplied, TableFacts
  <2>3. TableOf' = TableOf
    BY <1>6, TableKept DEF CancelQueue, serverVars
  <2>4. Atomic!Discard(dropped, "dropped")
    BY <2>1, <2>2, <2>3 DEF Atomic!Discard
  <2> QED BY <2>4 DEF Atomic!Next
<1>7. CASE UNCHANGED vars
  BY <1>1, <1>7 DEF vars, serverVars
<1> QED BY <1>2, <1>3, <1>4, <1>5, <1>6, <1>7 DEF Next, CloseStep

\* The pool implements what its callers rely on: an operation handed over is
\* applied whole and once or not at all, and its answer says which.
THEOREM PoolIsAtomic == MaxLosses = 0 => (Spec => ImplementsAtomic)
<1> SUFFICES ASSUME MaxLosses = 0 PROVE Spec => ImplementsAtomic
  OBVIOUS
<1>1. IInv /\ IInv' /\ [Next]_vars => [Atomic!Next]_<<TableOf, status>>
  BY AtomicStep
<1> QED BY <1>1, AtomicInit, Safety, PTL DEF Spec, ImplementsAtomic, Atomic!Spec
=============================================================================
