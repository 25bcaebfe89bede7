# TLA+ models of the Sunwell world server

This directory holds formal models of the concurrent core of the world server in `src/`:
TLA+ modules translated from the code, the instances TLC explores, and theorems proved with
TLAPS.  Paths in this file are relative to the root of the repository; the game code is under
`src/server` and `src/common`.

The repository is a server for a 3.3.5 client.  It has no tests, and most of its bulk is
game content (`src/server/scripts`, 368 k lines) and vendored code (`dep`).  What every feature stands on
is small and concurrent: a pool of database threads, network threads that create sessions, one world
thread, and worker threads that update maps in parallel.  The models start there.

## 1. Inventory

### Processes and threads

`worldserver` runs (`worldserver/Master.cpp`):

- the **world thread** (`Threads/ServerThreads.cpp`): a loop of `World::Update`, at the end
  `KickAll` and `OnShutdown`;
- **network threads** (`shared/Networking`): read packets, authenticate, construct a `WorldSession`
  and put it on `World::m_newSessions`;
- **database workers** (`shared/Database/DatabaseWorker.cpp`): one per asynchronous connection of each
  of the three pools (login, character, world), fed by a `ProducerConsumerQueue`;
- **BackgroundWorker threads** (`common/Threading/BackgroundWorker.*`): run map updates, the dungeon
  finder and detached tasks; other consumers of `SyncQueue` are the chat processor, the auction listing and the
  command line;
- the **main thread**: starts everything, joins the world thread, shuts the workers down, closes
  the databases.

### Components

| Component | State | Operations | What makes it correct | Module |
|---|---|---|---|---|
| Operation queue and workers (`ProducerConsumerQueue.h`, `DatabaseWorker.cpp`, `DatabaseWorkerPool::Close`) | `_queue`, `_shutdown`, `_cancelationToken`, connections | Push, WaitAndPop, Cancel, join | no lost wakeup, no operation twice, Close returns | `DatabasePool` |
| Asynchronous transactions (`Transaction.cpp`, `MySQLConnection.cpp`) | server transaction, `_deadlockLock`, retry counters, promise | execute, retry, rollback, commit, reconnect | all or nothing, at most once, true answers, order of commits | `DatabasePool`, `AtomicExecution` |
| Synchronous connections (`GetFreeConnection`, `DirectCommitTransaction`) | one mutex per connection | query, commit | a connection has one user | planned (`Shutdown`) |
| Query callbacks (`AsyncCallbackProcessor`, `QueryHolder`) | futures kept by a session | add, process | every answer is processed once, in its owner | as used by `WorldSessions` |
| World sessions (`World.cpp`, `WorldSession.cpp`, `CharacterHandler.cpp`) | `m_newSessions`, `m_sessions`, `m_offlineSessions`, `m_QueuedPlayer`; per session the socket, player, login and logout state, transactions | AddSession, UpdateSessions, Update, login, takeover, logout, kick, destruction | one owner per session, fair queue, one character per account, load after save | `WorldSessions` |
| Parallel map update (`SyncQueue.hpp`, `BackgroundWorker.*`, `MapManager::Update`) | task queue, `m_closed`, `m_counter`, promise | push_back, pop, close, AddRef, RemRef, Wait, Shutdown | each map once per round, barrier, no lost wakeup | `MapUpdate`, `ParallelRound` |
| Life cycle (`Master.cpp`, `ServerThreads.cpp`) | stop flag, order of shutdown | stop, kick, join, close | nothing that must be saved is lost; shutdown ends | in part: `WorldSessions`, `MapUpdate`; `Shutdown` planned |
| Auction house (`AuctionHouseHandler.cpp`, `AuctionHouseMgr.cpp`) | auctions, money, items, mails in two transactions | sell, bid, buy out, cancel, expire | gold and items are conserved, an auction is settled once, memory agrees with the database | `AuctionHouse`, `AuctionLedger` |
| Mail (`MailHandler.cpp`, `Mail.cpp`, `ObjectMgr::ReturnOrDeleteOldMails`) | rows and items in the database, boxes of players in the world | send, read, return, delete, take, expire, load, save | nothing twice or lost over a crash, a box is what the database will hold | `Mailbox` |
| Lock-free queues (`MPSCQueue.hpp`, `LockedQueue.h`) | linked nodes, head, tail | Enqueue, Dequeue | nothing lost, order kept, no node used after its deletion | `MpscQueue` |
| Network (`Socket.h`, `NetworkThread.h`, `WorldSocket.cpp`) | write queue, closing flags, authentication, session pointer | read, write, close, delayed close | an ordered stream, a closed socket is released, no deleted session is used | `WorldSocket`, `PacketStream` |
| Maps and instances, groups and rolls, trade, battleground queues, dungeon finder queue | invitations, bindings, timers | per feature | no member or item counted twice, expiry against acceptance | planned, in this order |
| Guilds, calendar, arena teams | rows and caches | many small ones | cache equals database | later, if at all |
| Entities, spells, movement, AI, scripts | the game world | | rules of the game | not modelled |
| Data stores, config, logging, cryptography, vmaps, tools, `authserver` | | | | not modelled |

`PROJECT.json` lists all of them with their status and the reason.

### How they interact

A packet handler (world thread, or a map's worker) pushes an operation on a pool and keeps a
future.  A database worker executes it and satisfies the promise.  `WorldSession::Update` looks at
the future in a later tick: in between, the socket may have closed, the session may be kicked or
replaced, or the account may be online again with another session.  `World::Update` calls
`UpdateSessions` while no map runs, then `MapManager::Update`, which runs all maps in parallel and
waits.  At the end of the process the three parts stop in order: sessions, map workers, databases.

The 40 `hazards` of `PROJECT.json` are the places where this goes wrong without a test
noticing; each one names the properties below that watch it, or why none does yet.

## 2. Modules and how they correspond to the code

`PROJECT.json` (`map`) gives the source lines of each definition.  Operators introduced by a
comment "Fault:" (or "Faults:") are not part of the models: they are plausible mistakes, one for each
property, and stand before the definition they would replace to document what the property guards against.

### DatabasePool (with AtomicExecution)

One asynchronous pool: producers, worker threads, `Close`, and the MySQL server behind each connection.

- A **step** is one critical section or one exchange with the server.  All methods of
  `ProducerConsumerQueue` hold `_queueLock` throughout, so `Push`, `PopWait`/`PopOperation`/`PopNothing`
  and `CancelQueue` are one step each; the sleep on the condition variable (`pc = "wait"`), notifications to *some*
  sleeper and spurious wakeups are explicit.
- `WorkerExit` and `WorkerExecute` are the test of the cancellation token, which is set
  without any lock (`DestroyWorker`); an operation popped before that test is never run (`"leaked"`).
- `BeginTransaction`, `QueryOk`, `QueryRefused`, `RollbackTransaction`, `CommitTransaction` follow
  `MySQLConnection::ExecuteTransaction` query by query.  `QueryLost` and `CommitLost` are the reconnect
  inside `Execute`: the same statement is sent again on a new session.
- `TakeDeadlockLock`, `RetryAgain`, `GiveUp` are the retries of `TransactionTask` (bounded by time, so by nothing here)
  and `TransactionWithResultTask` (bounded by `RetryLimit`), which share one static mutex.
- The **MySQL server** is external and is modelled by what the code expects of it: statements inside a
  transaction are buffered until COMMIT, a deadlock or a lost session rolls them back, any other error leaves them open.

`AtomicExecution` is the promise made to callers: submit, apply as a whole at most once,
report truthfully, or discard unexecuted.  The map is `table <- TableOf`: each entry of the log that holds
all queries of its operation is that operation, and anything else is a value no abstract step produces.

Not modelled here: the first connection and the preparation of statements, errors after which the code aborts
the process, and a reconnect that fails (it sleeps and tries again, for ever).  The server refuses queries, but never START TRANSACTION, COMMIT or ROLLBACK: the code
ignores the answer of all three (`MySQLConnection.cpp` 357-370, 419), so a COMMIT that is refused, and not only one that loses its connection, is reported as
done although nothing is durable.  `TruthfulAnswer` says nothing about that.

### WorldSessions

The containers of sessions and the life of a session, from the network thread's constructor to the destructor.

- `NewSession` and `LoseSocket` happen at any step of the world thread.  Idle timers and errors are a `LoseSocket`.
- The world thread's tick is cut where other threads can interfere: `BeginTick`, one step per
  collected session (`RefuseSession`, `AddFirstSession`, `ReplaceSession` are the branches of `AddSession`), then one session
  after the other.  `m_sessions` is a hash map, so `Advance` visits the entries in any order.
  For each session: `KeepOffline` (the first test of `UpdateSessions`), or
  `BeginUpdate`, any packets, `ProcessCallbacks`, and `FinishUpdate` or `RemoveSession`.  `SweepOffline` walks `m_offlineSessions`.
- Packet handlers that change this state are actions: `LoginPacket` (with the takeover of a character that stayed in the world),
  `LogoutPacket`, `BidPacket` (any auction handler that leaves a transaction callback), `KickPacket`.
- `RemoveQueuedPlayer` is the operator `Removal`: it returns the queue that is left and the session that is admitted.
- `charDB` is the queue of the character database with one worker.  That answers
  come in the order of the questions is `DatabasePool!CommitOrder`, proved of its own module.
- `KickAll` is the end of `WorldThread` together with the single `UpdateSessions` of `OnShutdown`.

Kept open (nondeterministic) rather than modelled: whether a character may stay in the world when the connection is
lost (it depends on flight, teleport and the map), whether a load succeeds, whether a logout is accepted.
`online` is written by the constructor, by a login that enters the world (`ProcessCallbacks`) and by the destructor.
Left out: the disconnect tolerance (0 by default), a change of the player limit at run time, account deletion, and
`characters.online`.  `World::IsStopped` is set in the step of `KickAll`; a stop raised in the middle of a tick only
makes `MayStay` false earlier, a choice every walk already has.

### MapUpdate (with ParallelRound)

- `PushBack`, `PopClosed`, `PopTask`, `PopEmpty`, `Sleep` are `SyncQueue`.  `push_back` holds the mutex,
  `close` does not, so the test of the loop and the wait are two steps during which the worker holds `mutex`.
- `RunJob`, `RemRef`, `Satisfy` are a task of a `BackgroundGroupUpdater`: the update of a map,
  `fetch_sub` on the counter, and `set_value` of the promise, by whoever found the last reference.
  `set_value` is one step.
- `BeginUpdate`, `AddRef`, `PushTask`, `CallWait`, `SatisfySelf`, `PassBarrier` are `MapManager::Update` in the
  world thread; the dungeon finder is queued first.
- `Report` is `DetachedTask`, whose callers in the running server are the reports of Warden.
- `StopRunning`, `Close`, `NotifyAll`, `JoinWorkers` are `BackgroundWorker::Shutdown`, which `Master::Run` calls after the world thread ended.

`ParallelRound` is what `World::Update` assumes: alone, then every job of the round once, in parallel, then alone again.
A number of threads of 0 (the configuration allows it) is excluded by `WorkersAssumption`: `Wait` would never return.
What a map does inside its update is not modelled.

### AuctionHouse (with AuctionLedger)

The auctions of one house, the money, bags and mails of players in memory, the tables, and the queue of the character
database between them.

- A packet handler is one action, as it runs in the world thread without interruption: `SellItem`, `PlaceBid` (a bid, or a
  buyout when the price is met), `RemoveItem`, `TakeMoney`, `TakeItem`; `Update` is the expiry of the hour.  The money rules (`Cut`, `OutBid`, `Cost`)
  are the integer arithmetic of the code.
- `SellItem`, `PlaceBid` and the buyout change memory at once and send their mails or insert the auction in the **callback** of the first
  transaction (`ProcessCallback`), which runs when the session is next updated.  `callbacks` is a function from the futures the callbacks wait for;
  a transaction names its future in `asks`, and `Commit` and `Fail`, the database worker, answer it.
- Any transaction can fail: `Fail` is one a callback waits for and is told of (`TransactionWithResultTask`), `Drop` one that nobody waits for, which
  is cleaned up while memory goes on as if it had been executed (`TransactionTask`).
- `Init` is `LoadAuctions`.  A loaded bid is below the buyout: the bid that reaches it deletes the auction in the transaction that pays it
  (`AuctionHouseHandler.cpp` 482-508).
- `Leave` is `HandleSocketClosed` and the end of the offline session that follows: nobody looks at its callbacks, and `~WorldSession` saves the
  character only if there are none, answered or not.  A transaction whose callback is gone can still fail.  `Return` is the next login: it
  reads gold, items and mails from the tables (`Loaded`), whatever memory held.  What `WorldSessions` models is not repeated: that the body stays in the
  world for a minute, where a login takes it over with its memory, and that the load is queued behind the save (here a guard: nothing for the player is queued).
- Memory and tables have one place of each kind for an item: who has it in a bag, and who in a mail.  Two bags at once, which a dropped
  transaction can lead to, are not counted; nothing is claimed then (`Intact`).  Mails that are written while their receiver loads are the subject of `Mailbox`.

`AuctionLedger` is what players expect: an item is with one owner, in the house or in the mail, gold moves with it, an auction
ends by one of sale, buyout, withdrawal or expiry.  Two steps of it are not what they expect.  `Mishap`: a transaction fails or a
session leaves before its callback, and what that callback had to give out is lost.  `Recover`, only after a failure and a departure: a player who comes
back finds in the tables an item, or gold, that the failed transaction had not taken from them, even if the bid it paid for
stands in memory.  The ledger is kept as long as no player left and returned to tables that miss a dropped transaction (`kept <- Intact`); from then on it promises nothing.

### Mailbox

Mail between players, over the same queue, with crashes.

- `Login`, `EnterWorld`, `Logout`: the load is queued like everything else, so its answer is the database as it will be at that place.
- `SendMail`, `ReturnToSender`, `TakeItem`, `TakeMoney` change memory and queue one transaction; `MarkAsRead` and `Delete` only mark the mail (`MailState`), and `SaveMail`
  writes all such marks with the next of the others.
- `Scan` is `ReturnOrDeleteOldMails(true)`, every six hours: it reads the tables **now**, past the queue, and queues single
  statements.  Which mails are old is a choice.  A step expires one mail; a scan that finds several is several such steps in a row, since
  the statements of one mail touch no other.
- `Crash` loses memory and queue and keeps the tables; ids go on after the highest stored one.

`Execute` always succeeds.  In the code a transaction nobody waits for can fail and is dropped (`Transaction.cpp` 72-112; `AuctionHouse!Drop` models it there): what was
taken from a mail is then durable twice with the next save of the inventory, and a mail that was sent is durable nowhere.  The properties and theorems of `Mailbox` are about runs in which
the database executes what is enqueued.

A mail has at most one of each field the code tells apart; the delay of delivery, templates, the limit of 100 mails and copies of
the text are left out.  The clean-up of `mail_items` at start-up deletes rows that no property looks at.

### MpscQueue and WorldSocket (with PacketStream)

`MpscQueue` is `MPSCQueueIntrusive`: a step is one access to a link or to `_head` that another thread may see.  `Exchange` and `Link` are
the two halves of `Enqueue`, which the reader runs too, for the dummy; the other actions are the loads of `Dequeue`.
`sent` is the order of the exchanges, `out` what was returned and thereby deleted.  The memory order of the code (release before each
acquire of the same link) is taken as sequentially consistent.

`WorldSocket` composes it with the rest of a connection:

- `npc` is where the network thread is.  `StartUpdate`, the dequeues, `MovePacket`, `Drained`, `Update`, `HandleQueue` and the callbacks are one
  `WorldSocket::Update`; `WriteReady` is `WriteHandlerWrapper`; `ReadError`, `PacketArrives` and the `AuthArrives` actions are the read handler.
- `CloseSocket` (the exchange of `_closed`), `Shutdown` and `OnClose` are three steps of whoever closes; `OnClose` waits for
  `m_SessionLock`, which `PacketArrives` takes and `QueuePacket` gives back.
- `SendPacket` tests `IsOpen` before, not while, it enqueues.
- The client is external: it may leave at any time, authenticates once, when it has the challenge, and sends packets once it was let in.
- Left out are pings (`HandlePing`, answered by the network thread with a packet of its own, `WorldSocket.cpp` 640-642, and closing the socket of a client that pings too
  fast), malformed headers and packets, which close the socket (142-146, 265-271, 598-613), and packets other than the authentication before there is a session.
- `DeleteSession` also stands for the session that stays offline without its socket.  It happens while no map thread is in
  `SendPacket`: that is the barrier of `MapManager::Update` (`MapUpdate!Quiet`).

`PacketStream` is what the rest of the server takes a connection for.

### MC modules

`MCDatabasePool`, `MCWorldSessions`, `MCMapUpdate`, `MCAuctionHouse`, `MCMailbox`, `MCWorldSocket` name the model values of the instances and fix the functions
among the constants (kinds and sizes of operations, owners of sessions and characters).  All bounds are in the `.cfg` files.

## 3. What the runs show

| Run | Instance | Distinct states | Shows |
|---|---|---|---|
| `database_pool` | 2 workers, a transaction with a result and one without (2 queries each), 2 refused statements, retry limit 1, fair | 31 k | answers are true; the pool implements `AtomicExecution`, with `Close` at any time; every operation ends, `Close` returns |
| `database_order` | 1 worker, 3 kinds of operation, 6 refused statements, 1 lost connection, retry limit 5 as in the code, fair | 44 k | durable in the order of Push; nothing stays open between attempts; every operation ends |
| `database_loss` | 1 worker, 1 lost connection | violation | a transaction becomes durable in part (section 6) |
| `world_sessions` | account 1 connects twice and has 2 characters, account 2 once; limit 1; 1 auction transaction | 448 k | ownership, queue, one character per account, load after save |
| `login_queue` | 3 accounts, one privileged; limit 1; fair | 180 k | the queue is fair; a closed session is destroyed |
| `shutdown_save` | 1 session | violation | a kicked character is not saved (section 6) |
| `online_flag` | account 1 connects twice | violation | a connected account is marked offline (section 6) |
| `map_update` | 3 workers, 2 maps, the dungeon finder, 1 detached task, 2 rounds, fair | 57 k | counter, promise, barrier; `ParallelRound`; `Wait` returns |
| `auction_house` | 3 players with 2 gold, 1 item, put up for sale once, queue of 2, 2 callbacks at a time, 1 failed transaction, awaited or not, and 2 lost sessions; symmetric players | 504 k | items and gold, memory against database, `AuctionLedger` |
| `mailbox` | 2 players, 1 item, 2 mails, with and without gold and payment on delivery, queue of 2, 2 expiries, 1 crash; symmetric players | 1118 k | nothing twice or lost over a crash; boxes agree with the database |
| `world_socket` | network, world and one map thread, 5 packets (challenge, refusal, 3 of the session, one of them large), 1 incomplete write, fair | 101 k | no use after deletion, `PacketStream`, a delayed close with something to send closes, every closed connection is forgotten |
| `worker_shutdown` | 2 workers, 1 round, fair | violation | a lost wakeup at shutdown (section 6) |

Passing runs take between a few seconds and three minutes.  Deadlock is not checked in any run: each system really stops (all operations done, the process at its end) or runs into
a bound.  The liveness properties say what must not stop before.

**Why the bounds are enough to be interesting.**  Two workers are needed for the shared retry mutex, the shared queue and a
`Close` that destroys one connection while another works; two queries for a transaction that fails in its middle.
Six refusals are as many as a result task (1 attempt and 5 retries) needs to give up, so both the exhausted
and the successful end of the retry loop are reached, and other operations run after it.  A session that
reconnects is needed for `ReplaceSession`, `RefuseSession` and the takeover, a second account for the login queue (`Limit` 1), and
a third, privileged one for exceeding the limit.  `OfflineTicks` 1 distinguishes a character that stays from one
whose time is over.  In `MapUpdate` three workers and three jobs let a worker be in each phase
(running, giving back, satisfying) at once; two rounds let a late worker of the first meet the second.
In `AuctionHouse` three players are needed for a seller who is not the bidder that is outbid, and a queue of two for a bid whose mails
wait behind another transaction.  A bid that fails, the departure without a save and the return to the old gold are one failure and one departure; the second departure
lets another player's callback be lost beside it.  In `Mailbox` two mails are needed for a mail and its return or its payment; the crash may
fall between any two steps, so on any prefix of the queue.  In `WorldSocket` two threads besides the reader put two unfinished
`Enqueue`s in the queue at once, in either order; the large packet makes an empty buffer, and the incomplete write a
message that is resumed by the write handler.
`MaxFaults`, `MaxLosses`, `MaxBids`, `MaxRounds`, `OfflineTicks`, `MaxSales`, `MaxLeaves`, `MaxFailures`, `MaxQueue`, `Futures`, `MaxMails`, `MaxScans`, `MaxCrashes`, `MaxBlocks` and the numbers of
auctions and packets are the only bounds; each is in a guard or a constant.  `MCMailbox` has a state constraint: after an expiry
that raced (section 6) nothing is claimed, and nothing is explored.

**Fairness.**  A running thread takes its next step (weak fairness of each thread's steps), including map updates and SQL
statements that end.  A thread that waits for a mutex gets it when it is free again and again (strong
fairness of `TakeDeadlockLock`, `Locks`, `PushTask`): this is what the operating system's mutexes give in practice and the
code relies on.  In `WorldSocket` every kind of handler that is ready runs
in the end (strong fairness, as a timer is always ready again: asio takes handlers in turn), the world thread gets `m_SessionLock`, and a client that stays
connected reads, so that a write succeeds after at most `MaxBlocks` incomplete ones.  Nobody is forced to call `Close`, to send a packet, to lose a socket or to stop the world; a
`Close` once begun goes on.  Server faults, lost connections and spurious wakeups are never required, and they are finite by their
bounds, without which a task could be retried for ever.

## 4. What is proved

TLAPS checks these for **every** number of workers, operations, sessions, maps, tasks, faults, retries and rounds.

`DatabasePoolProofs`:

- `TypeCorrect`: `TypeOK`.  The types are inductive together with `cur[w] \in Ops` for busy workers (`Holding`), because `CancelQueue`
  and `Finish` write `status` of the operation in hand.
- `DurableIsWhole`, `AppliedOnce`, `AnswerIsTrue`: `AllOrNothing`, `AtMostOnce`, `TruthfulAnswer`, assuming `MaxLosses = 0` (no
  lost connections; with them a transaction can become durable in part, see `database_loss`).  None is inductive.  The
  invariant is `NoLossInv`: a pushed operation has one owner, the queue or one worker (`OneOwner`);
  the server's buffer holds exactly the queries executed since START TRANSACTION (`ServerInStep`);
  an operation is in the log exactly from the commit of its worker on (`LogInStep`).  `OneOwner` is what makes a
  second application impossible, `ServerInStep` what makes a commit whole.
- `ConnectionIsClean`: `NothingLeftOpen`, with lost connections too, from the invariant `Clean`.
- `CommitsInPushOrder`: with one worker, `CommitOrder`, with lost connections and retries too.  The invariant places every logged operation before
  the one in hand and that one before the queue, in the order of `submitted`.
- `PoolIsAtomic`: without lost connections the pool implements `AtomicExecution` (`ImplementsAtomic`).  Each step is mapped to a push, an execution, a cancel, the
  closing or a stutter; `NoLossInv` is what makes the commit of a worker an execution of the whole operation.

`WorldSessionsProofs` (the seven invariants of `world_sessions`; any number of sessions, accounts and characters, any limit):

- `TypeCorrect`: `TypeOK`.  The walks stay inside their maps while sessions are erased under them (`Walking`), and a map holds a session only under its
  own account (`Places`).
- `SessionsHaveOneHome`: `OneContainer`, from `Boxes`, which adds that nobody stands in a queue twice and that only listed sessions wait.  The actions that move sessions
  are instances of one relation, `Change`, which says what enters, leaves, stays offline and dies; the later proofs use it in place of the actions.
- `WaitingIsUninitialised`: `QueueSound`, from `QueueInv`: an answer to an account query can only meet a session that was initialised.
- `CharacterHasOneBody`: `NoSecondBody`, from `CharInv`: a body belongs to the account of its session, and only listed sessions load.
- `LoadsSeeSaves`: `LoadAfterSave`, from `LoadInv`: a queued load is the only one of its session and is for the character the session waits for.
- `OneCharacterBetweenTicks`: `OneCharacter`, from `KickInv`: where a login leaves two characters of an account, the offline one is kicked (`Overlap`), and
  the walk that follows leaves no kicked session behind it (`Swept`).
- `NobodyWaitsInVain`: `QueueFair`, from `FairInv`: `active` as `RemoveQueuedPlayer` computes it is the number of
  listed sessions outside the queue (`Counting`), for every session that can leave.

`MapUpdateProofs`:

- `MapTypeCorrect`, `CounterIsExact`, `PromiseOnce`, `Exclusive`, `BarrierHolds`: the five invariants of the run, from the inductive
  `RoundInv`.  The counter can be compared to the number of references only if a job is in one place
  at a time (`OnePlace`); the barrier needs that the jobs of a round are exactly those still to queue, those with a reference and those done (`RoundInStep`);
  and that the last reference is found once needs `PromiseInStep`.
- `RefinesRound`: the whole of `MapUpdate` implements `ParallelRound`.

`MpscQueueProofs`:

- `DeletedIsUnseen`, `QueueIsFifo`, `NothingCutOff`: no node is used after its deletion; what is returned is what was sent, in order; a missing link
  is one that some thread has still to set.  The links alone do not describe the queue, as one is missing inside every unfinished
  `Enqueue`.  The invariant `QueueInv` therefore says that a row of nodes **exists** (`Row`) that starts at the tail and ends at the
  head, holds what was sent and not returned in order, the dummy at most once between it (`Waits`), and is linked wherever no thread is about to link (`Linked`).  An
  exchange appends to the row, setting a link leaves it, and `Dequeue` takes its first node.  That the dummy is returned only when it is not in the row
  (`dequeue = "swap" => d = 0`) is what the comparison of tail and head is for.

`WorldSocketProofs`:

- `SentNodesSafe`: `NodesSafe` for the whole connection.  Every step of it is a step of the queue (`QueueMoves`), because no packet is
  sent twice (`Fresh`) and the queue is read only by the timer (`Calls`).
- `SessionIsSafe`: `SessionSafe`, from `Life`: a socket is closed before its session exists only by a client that never gets one, a closed socket has lost `m_Session`
  unless some thread is still inside `CloseSocket`, and a packet handler holds `m_SessionLock`.
- `SocketTypeCorrect`: `TypeOK`.
- `StreamIsImplemented`: `ImplementsStream`, from `StreamInv` on top of the invariants above.  As long as the socket can be written to, the bytes on the wire, the
  messages that wait for it and the buffer are consecutive pieces of the packets `Dequeue` returned (`Account`); instead of flattening that
  queue the invariant gives the packet at which each message is cut (`Laid`, `Lies`).  Before there is a session only the network thread
  sends (`Early`), so a client that authenticates has received all that was sent.  After `DelayedCloseSocket` nobody sends any more,
  so `Dequeue` finds the queue empty only when it is (`Drains`), and what is owed has left the queue or the next timer takes it
  (`Owes`).  Hence the end that the abstract stream calls orderly comes after everything that was due (`Ends`); that there is one end is the
  exchange of `_closed` (`Orderly`).

`AuctionHouseProofs` (any finite sets of players, lots and futures, any prices):

- `TypeCorrect`: `TypeOK`: whatever fails, no handler spends gold that memory does not have, a mail that is missing from the tables is not emptied below 0, and
  a transaction in the queue asks only a callback that is there and mails nothing itself (`Asking`).  While nothing was dropped, a `Trace` leads from the mails in the tables to
  those in memory, so that a player who returns reads what he had.
- `ItemsKept`: `OneItem`, from `LotInv`, one invariant per item, which holds as long as no player left and read tables that miss a dropped transaction (`Intact`).
  Draining the queue leads the item from its place in the tables, or from where they would have it had nothing been dropped, through places to one
  that memory and the callbacks agree with (`Drains`, `Agrees`): memory has it there; or memory has it nowhere
  and one callback is about to list it or to mail it; or it is lost.  What waits for an answer about an item is the last in the queue to touch it
  (`Untouched`), so its failure loses one item and confuses no other.
- `FlushedAlways`, `DurableAlways`: `Flushed` and `DurableSound`.  While no transaction failed, draining the queue passes only through states worth no more than
  the start (`Rich`, `Saves`) and ends in one that follows memory: same gold, bags and mails, the same auctions but for those a callback has still to register, and
  worth no more than the start less what the callbacks still have to mail (`Follows`, `Pending`).  So a purchase is never durable before its price, and
  a refund not before the bid it returns.  That an item is in the tables at most once survives awaited failures, which roll back an item and its auction together;
  it does not survive a dropped transaction (section 6), and the property does not say so.
- `LedgerIsImplemented`: `ImplementsLedger`.  What the ledger shows of an item (`Entry`) and of a purse is a function of memory and of the callbacks that
  count, so one lemma per action says which entry of the ledger it is: a bid and the refund its callback will mail are one `Raise`, the callback itself
  changes nothing (`CallbackLedger`), a callback that is lost is a `Mishap` (`LostCallbacks`).  Besides `LotInv` this needs `LedgerInv`: an auction that is gone has no
  bid left (`Clear`); and a bid is below the buyout (`Cheap`), or a buyout would not raise it.  A return is an entry of its own: without a failure every handler has
  queued the gold of its player, so skipping the save loses nothing and he finds what he had; after an awaited failure he finds no less (`PursesInv`,
  `Backed`: drained, the queue leaves each player at least the gold he has in memory), which is `Recover`.

`MailboxProofs` (any finite sets of players and items, any amounts, any number of mails, expiries and crashes):

- `TypeCorrect`: `TypeOK`.  The invariant types the queue as well (`Entry`): an item is put into a mail only by the transaction that inserts the mail, gold
  written to a character is never negative, and a box holds letters of known items only.
- `DurableOnceAlways`, `OneHolderAlways`, `MemoryAheadAlways`: `DurableOnce`, `OneHolder` and `MemoryAhead`, all from one invariant, `Inv`; none of the three is inductive.
  As long as no expiry raced (finding 5), there is a row of tables `h` that starts at the tables as they are and takes in one entry of the queue after the other (`Drains`), such that (`Good`)
  - in every one of them an item is in one inventory or in one mail that says it has items, a destroyed one in no inventory (`Whole`), and there
    is no more gold than at the start (`Wealth`, `Bound`): this is what a crash may leave;
  - the last one has no mail with an id still to be given out (`Fresh`), and what each player in the world has in memory fits it (`Fits`);
  - so does what a loading player has been answered, or will be by the entry in the queue that loads him, of which there is one: mails that are
    written after his load are those in `unseen`.

  A handler appends an entry that touches nothing but what its player has (`Sound`, `Owned`), so it keeps tables whole (`WholeAfter`) and what the others
  have in memory or wait for (`OthersFit`), but for the new mail (`NewMail`); what is left to prove for each handler is that memory follows
  its own entry (`SaveFits`) and that its gold adds up (`WealthStep`).  The expiry reads the first of these tables and writes after the last: `StaysPut` shows that they hold
  the same mail with the same items when nothing queued is about it, and `DestroyStep` follows its statements one by one, since they are not one
  transaction.  A crash starts again from the first table, the execution of an entry drops it (`Shift`).

`FoldTheorems`: what `SumFunction` of the community modules computes on finite sets, and the traces of a queue.  The induction theorems of the library take a
predicate, which the provers cannot instantiate; these proofs look for a smallest counterexample instead (`WFMin`).

Assumptions: those named in the modules (a nonempty set of workers, finitely many maps, distinct dummies, retry limit at least 1, packets that are each sent once, amounts
that are natural numbers, finitely many players and items).

**Only model-checked:** all liveness (`CloseTerminates`, `EveryOperationEnds`, `ClosedLeaves`, `RoundEnds`, `SocketEnds`), which the prover cannot do
with fairness.

## 5. Properties

Each property is stated above its definition.  For every property of a passing run `PROJECT.json` (`mutants`) names a
fault of the code that breaks it, such as a missing `notify_one`, a retry after a commit, a
reference taken after the push, or an admitted player left in the queue.

## 6. Where the code and its comments disagree

1. `database_loss`: `Execute` repairs a lost connection by repeating one query on a session in autocommit mode, so the rest of a
   transaction becomes durable query by query without its beginning.  The comment on `BeginTransaction` promises a rollback.
2. `shutdown_save`: "save and kick all players".  A session with an unanswered auction transaction survives the only
   `UpdateSessions` of the shutdown with its character, and its destructor then skips the save.
3. `online_flag`: the account is set offline by an older or a refused session although a newer or the older one is connected.
4. `worker_shutdown`: `SyncQueue::close` notifies without the mutex; a worker between test and wait sleeps for ever and `Shutdown` does not return.

Two more, for which the project has no run of their own:

5. **Old mails.**  `ReturnOrDeleteOldMails` takes the database for the present although changes of it are queued, and looks for the receiver only
   among players in the world.  If it returns or deletes a mail of a player who is loading, or one that a queued transaction has still to
   change, TLC finds (remove `Undisturbed` and `~raced`) a mail in two boxes with the same item, and an item in a bag
   without an instance.  `HandleMailTakeItem` logs such an item ("not yet, im trying to catch the duper", `MailHandler.cpp`).  The
   properties of `mailbox` therefore exclude what follows such an expiry, by the history variable `raced`; that they hold before it is proved (section 4).
6. **Delayed close.**  "Marks the socket for closing after write buffer becomes empty" (`Socket.h:112`).  When it is empty already,
   as after an authentication packet that is too short (`RefuseShort`), nothing closes the socket: `HandleQueue` returns
   before it looks at `_closing`, and no read is asked for again that could notice the client leaving.  `closing ~> closed` fails under `FairSpec`;
   `SocketEnds` claims `closing /\ wire # sent ~> closed`, the case with something to send.  A client refused by `HandleAuthAccount`, on the other hand,
   is not closed at all but left to leave.

What `AuctionLedger` admits beside the trades is of the same kind:

- A session that goes offline with an unanswered auction transaction never runs its callback, and the mails or the refund in it are never sent (`Mishap`).
- A bid whose transaction fails stays in memory, where it can win the auction.  If the bidder then leaves before his callback has run, his character is not saved, and the
  gold of the bid is his again when he returns (`Recover`).
- A transaction nobody waits for that fails is repaired by nothing.  If it was the taking of an item from a mail and the item is then put up
  for sale, the tables hold the item in the mail and in the auction; its owner may load it again while it is sold.  `DurableSound` and `Flushed` exclude such
  a failure, `OneItem` and `ImplementsLedger` exclude it together with a departure.

`auction_house` shows that without a failed transaction the first is the only loss and nothing is gained, and that after an awaited failure nobody gains but a
player who returns from the tables: in gold, or an item that was missing.

## 7. Plan

Done: all modules above with their abstract specifications, and the theorems of section 4.

Next, in this order:

1. `Shutdown`: composition of the end of sessions, map workers and pools; which queued saves `Cancel` drops; synchronous connections.
2. `InstanceSaves`, `LootRoll`, `Trade`, `BattlegroundQueue`, `LfgProposal`: timers and departures against acceptance.

Runs: at most one per module and question, two or three actors each, merged where two runs share an instance.

## 8. Not modelled

The models cover the protocols under the game, a small share of its lines.  The bulk is content and rules: scripts, spells, auras, movement, data
stores and their loading, one opcode handler after the other.  These are sequential within one thread, numeric, and wide rather
than deep; a model of them would repeat them.  The features that do have protocol state of their own and are still missing (instances, loot, trade, battlegrounds,
the dungeon finder, guild banks) are in the plan.  The vendored code under `dep` and the tools are not part of the server's logic.
