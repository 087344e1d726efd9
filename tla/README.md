# A verification model of CodeRunner

CodeRunner executes code for the readers of a blog. A *server* accepts requests
over gRPC and HTTP and hands them to *workers*, which keep a websocket to the
server open and run the code in a pool of Docker containers. Beside it, an
*agent* answers questions about an article and may propose code, which runs only
after the reader has confirmed it.

The modules here model the parts of that system in which several goroutines,
processes or users meet. TLC checks them on small instances; TLAPS proves
every safety property the passing runs check, for every size.
`PROJECT.json` maps every definition to the lines it stands for, and lists the
runs, the hazards of the code with the properties that watch them, and the
theorems.

## The system

| part | state | operations | what is hard about it |
|---|---|---|---|
| dispatch (`application/service/server`) | one goroutine per call and per connection | `Execute`, `ExecuteSync`, `Run` | calls, disconnects, ACKs and redispatches interleave; a request must be neither forked nor sent again once acknowledged |
| client manager (`domain/server/service`) | `clients`, `pendingReqs` | `AddClient`, `RemoveClient`, `GetClientByBalance`, `TrackRequest`, `AcknowledgeRequest`, `DrainPending` | three registries updated one after the other, with early returns in between |
| P2C balancer (`balanceStrategy/p2cBalance`) | nodes with `inflight` | `Add`, `Remove`, `Get`, `Done` | a counter raised and lowered by different functions |
| server websocket (`websocket/server`) | `isClosed`, `pendingSync` | `Send`, `SendSync`, `Read`, `Close`, `HeartBeat` | a timeout races a late answer; `Close` races itself; two calls may share an id |
| worker link (`websocket/client`, `application/service/client`, `domain/client`) | `conn`, `stopCh`, `closed` | `Dail`, `connect`, `reconnect`, `heartBeat`, `Read`, `Close`, `CallBackSend` | `Close` at any point of a reconnect; connections lost while code runs |
| container pool (`containerBasic`) | a buffered channel per language | `Acquire`, `Release`, `replenish`, `Close`, `RunCode` | slots lent, timed out, restarted and returned while the pool closes |
| agent handlers (`agent/handler`, `agent/checkpoint`) | `InterruptIDs`, `Proposals`, `Cancels`, checkpoints | `/agent/chat`, `/agent/confirm`, `/agent/cancel` | maps per session without a common lock, shared by streams that last minutes |
| session store (`agent/session`) | `metas`, `locks`, a meta file and a JSONL file per session | `Create`, `CreateWithArticle`, `GetMeta`, `GetMessages`, `Append`, `Delete`, `cleanExpired` | two levels of locks, memory and disk, restarts, a cleanup goroutine |
| login and tokens (`auth`, `common/token`, `application/service/auth`, gRPC interceptor) | the global `jwt.TimeFunc`; cookies and signed states with the browser | login, callback, `/auth/me`, logout, `Public`, `Verify` | one clock for the process, swapped by every check of a cookie |
| feedback (`ratelimit`, `application/feedback`, `infrastructure/mail`) | a bucket per IP; one goroutine per mail | `Allow`, the janitor, `Submit`, `Send` | counting in a bucket that is being deleted; timers that race the result |
| etcd registration, weighted round robin, metrics, logging, configuration, prompts | see *Not modelled* | | |

How they interact: a caller's `Execute` asks the client manager for a client
(the balancer chooses), sends on its websocket and tracks the request until the
worker's ACK. The worker acknowledges, runs the code in a container and answers
by HTTP callback (asynchronous) or by a result message (synchronous), which the
server's `Read` routes to the waiting `SendSync`. When a connection ends, `Run`
drains the requests tracked for it and calls `Execute` again for each. The
agent's confirmation handler calls `ExecuteSync` under the proposal id; its chat
and confirmation handlers append to the session store, which a cleanup goroutine
empties of expired sessions. A login ends in a cookie that `Parse` checks with a
clock of its own, put into the variable from which the check of a gRPC token
reads the time.

## The modules

| module | models | composed with |
|---|---|---|
| `Dispatch` | dispatch, client manager, balancer and the server end of the websockets | |
| `RequestLife` | the abstract specification: the life of one request as its caller may rely on it | implemented by `Dispatch` |
| `Delivery` | `Dispatch` and the workers at the other end, which run requests and crash | EXTENDS `Dispatch` |
| `SyncCall` | the inside of `SendSync` and `Read` on one connection | stands behind `Dispatch!SendSync` |
| `WorkerLink` | the worker's connection and its serial loop | |
| `ContainerPool` | the pool and `RunCode` around it | |
| `AgentSession` | the three agent handlers over one session | takes the operations of the store as atomic |
| `SessionStore` | the inside of `FileStore` for one session, on disk and in memory | stands behind the store steps of `AgentSession` |
| `Feedback` | `POST /api/feedback` from one IP: rate limiter, janitor, mail | |
| `Login` | GitHub login, cookie, gRPC tokens and the clock they share | |
| `...Proofs` | theorems | EXTEND the module they are about; `DispatchProofs` is also about `Delivery` |
| `MC...` | the instances for TLC | |

A definition named `Faulty...` is a plausible mistake in the definition that
follows it. It is not part of any specification; replacing the right definition
by it must break a property, which shows that the property can be broken.

**Dispatch.** A thread is the goroutine of a handler (named by its request) or
`Run(c)` (named by its connection), which calls `Execute` itself. `pc` follows
`Execute` from one access to shared state to the next: `Get` (the balancer picks
and counts), `Load` (`clients.Load` and `IsClosed`), `Evict`/`EvictLB`
(`RemoveClient` of a dead node), `Send` or `SendSync`, `Done`, `Track`. `run`
follows `Run`: `ReadError` drains, `Redispatch` enters `Execute` for a drained
request, `RemoveClient`, `RunCloseConn` and `RunLBRemove` are the deferred
removal, cut where another goroutine can come in between: `Close` tests
`isClosed` and closes in two steps (`PingFail`/`HbCloseConn` are the same for the
heartbeat and the ping handler), and the error of a second `conn.Close` makes
`RemoveClient` return before it touches the maps. The loads that P2C compares are
decayed floats; any node may win, so the choice is left open. A write to a broken
connection may fail or vanish into a buffer.

**Delivery.** `WorkerRead` acknowledges before it runs, as `Read` does; the
worker has one request in hand and may die with it. `finished` records what has
been run to the end.

**SyncCall.** Calls, the goroutine in `Read` with its blocking send to a channel
of capacity one, a worker that answers or not, a connection that breaks. `IdOf`
gives each call its request id; two calls may share one, for a proposal that is
confirmed twice is executed under one id.

**WorkerLink.** A section under `lifecycleMu` is one step, so `Close` can come
between any two of `Teardown`, `Check`, `DialFails`/`DialSucceeds`, `Install`
and `Sleep`. `Read` works on a copy of the connection, and `Receive` can return a
message that had arrived before that connection was lost or closed; `backlog`
bounds how often. `fault` records a panic and ends the process. The program itself
never calls the client's `Close` (the signal handler closes the pool and exits);
the tests do, and its contract is what the lifecycle lock is there for.

**ContainerPool.** A channel is the set of its idle slots. `Release` tests
`closed` under the read lock and sends after it, so the two are separate steps
and `CloseFlag`, `CloseChan` may come between; a send to a closed channel panics
into `recover` and drops the slot. Docker may fail any call. `replenish` ignores
an error of `ContainerStop`, and `ContainerStart` does nothing to a container that
runs: `Stop` may therefore leave a task running (`overdue`), and `unstopped` records
the slots that were put back so.

**AgentSession.** One step per access to the session store or to one of the
maps. The runner is a library: it ends, or it interrupts with a new proposal
after saving a checkpoint; a resume continues only the interrupt its checkpoint
belongs to. Any handlers may overlap, as in the code: nothing there keeps a second
stream from starting, and handlers go on when their client has left. A cancel
request takes the function out of `Cancels` before it checks who asks, and puts it
back if a stranger does. `os.Create` may fail when the new meta is on disk.

The properties are about what is left to rely on, and variables of their own
record where it ends: `late` are the confirmations that came when a run of their
proposal had cleared the maps, unless the resume of another proposal put it back
(`restored`); `mixed` says that two pairs of writes to `InterruptIDs` and
`Proposals` overlapped, `blurred` are the confirmations that loaded them then, or
while one pair was half written, and `misled` those whose result went to another
interrupt; `shared` are the streams that were open together, or met a function
that a stranger put back; `strays` those under way when the session was deleted
or created.

**SessionStore.** A request is the script of store calls that its handler makes:
a first chat creates, a chat that brings another article resets, both append; a
listing reads. Inside a call, `getLock`, `Lock`, each file operation, each write
of `metas` and `Unlock` are steps of their own. `Restart` ends all calls and leaves
the files; a file operation may fail; a write of the meta file that is cut short
leaves it `Corrupt`, since `os.WriteFile` truncates first. A write of a message
may leave a part of its line (`Torn`); the message written next is glued to it,
and `GetMessages` skips the whole (`Junk`). A confirmation appends once or twice
(`confirm.go:153`, `220`). `crossed` records the
two events after which the code promises nothing: a `Delete` has dropped a mutex
that another call had fetched, or `GetMeta`, which takes no lock, has cached a
meta that was outdated.

**Feedback.** `Allow` looks the bucket of the IP up and counts in it in two
steps, the janitor inspects and deletes in two; a bucket nobody refers to is used
again. `admitted` is the list of the instants at which `Allow` has admitted a call,
over which the properties count. `Submit` then validates (a free choice) and waits for the goroutine that
dials the mail server, or for a timer. `raced` records that the janitor deleted
a bucket in use.

**Login.** `Parse` saves `jwt.TimeFunc`, installs its own, validates and restores
by a deferred function: `Save`, `Swap`, `Valid`, `Restore`. gRPC tokens are issued by
`Public` and checked by `Verify`, which reads the clock it finds. The clock
counts seconds, to which the library cuts the times in a token; whether a
signature or a password is right is taken as given. `crossed` records that the
Parse that found the real clock put it back while another was running.

## What the runs show

| run | instance | shows |
|---|---|---|
| `dispatch` | two connections, one asynchronous and one synchronous request | `SingleCustodian`, `SettledNotResent`, `InflightExact`, `RegistriesAgree`, `ExitedRunUnusable`; `Dispatch` implements `RequestLife` |
| `delivery` | two connections with workers, one request | `RerunCostsConnection`: n ended connections cost at most n more executions; `EveryCallReturns`, `DeadConnReaped` with redispatches and crashes going on |
| `sync` | three calls, two under one id | `OwnResult`, `NoLeftover`, `ResultRouted`, `CallReturns`, `ReaderFree` |
| `link` | four connections, the real backoff constants, two buffered messages | `NoDoubleClose`, `OneHeartbeat`, `NoSocketLeak`, `CloseStops`, `LinkHeals` |
| `pool` | two pools of two and one slots, two callers, two restarts | `SlotConserved`, `PutNeverBlocks`, `ShrinksOnlyByRestarts`, `OverdueRestarted`, `RunCodeReturns`, `ReplenishEnds` |
| `agent` | any three of two chats, two confirmations, a cancel request by the owner and one by a stranger; two articles, two proposals | `HumanGate`: code runs only if a confirmation named that very proposal, and no more often; `LateConfirmRefused`, `ResultToItsInterrupt`, `RunCancellable`, `ResetClean` |
| `store` | two requests and the cleaner, two articles, one restart or failed file operation, which may cut a line short | `LockDiscipline`, `TurnsWhole`, `CacheMatchesDisk`, `WaitersServed` |
| `feedback` | two calls at a time, five admitted, limits 1 a minute and 2 a day, over more than a day | `WindowBounds`, `SentIsDelivered`, `RefusedOnlyWhenFull` |
| `login` | two requests at a time, four seconds | `NoEarlyExpiry`: no gRPC token is refused as expired before its time (a refusal as "used before issued" does occur, see below); `ClockHome`, `SoleVerdictRight` |

Three runs show a disagreement between the code and what the repository says of
it; their property is violated.

| run | the code | the repository says |
|---|---|---|
| `delivery_unacked` | `Execute` tracks a request after `Send`; if `Run` drains the client in between, the entry is gone, `TrackRequest` does nothing, and an accepted request that no worker has is held nowhere (`service.go:49`) | `websocket-reliable-delivery-design.md:81`: "消息在被明确 ACK 之前，视为未处理，随时可重投" |
| `delivery_acked` | the ACK goes out before the request is run and settles it: a worker that dies between the two loses it (`websocket/client/client.go:97`) | the same document, line 178: "ACK 发出到 Execute 完成之间 Client 崩溃，request 会被重发" |
| `link_result` | the duration message fails on a lost connection, `RunCode` returns a nil response, and the answer dereferences it: the worker panics before the callback (`innerServer.go:42`) | the same document, line 120: "执行过程中断线 → 结果通过 callback 机制的重试保障" |

`TypeOK` is stated in every module. TLAPS proves it where the module has proofs,
so the runs spend their time on the other properties.

### Bounds

Two connections let a request fail on one and move to the other, and let the
retry loop meet a node that dies under it; three attempts (`MaxRetry`, the code's
value) are more than there are nodes. A connection is never reused, as in the
code, where each gets a fresh id. One asynchronous request is enough for the
custody properties and for `RerunCostsConnection` because TLAPS proves them for
any number. In `WorkerLink` the connections are numbered; the last one does not
fail, so that running out of numbers is not taken for a failure to heal. The
backoff constants are the code's. One pool with two slots and one with one give
both a pool in which nobody waits and one in which two callers compete. Two
proposals are a pending one and the one that replaces it; two articles are a
session and its reset.

`agent`: `MaxOpened = 3` (the constraint `FewOpened`) lets any three of the six
handlers run. Three are enough for each way in which they meet: two chats that
replace each other's proposal under a confirmation, two confirmations of the
proposal of one chat, a cancel request between two runs. The theorems hold for
any number. `pool`: `MaxRestart = 2`, one less than the code, has a restart that
fails and is repeated and one that fails for good; the theorems hold for any
limit. `link`: `MaxBacklog = 2` lets a lost connection hand over a message, and
another one after it.

`store`: `TTL = 0` and `MaxTime = 1`, so that a session is expired one tick after
its last use and both answers of the comparison occur; three mutexes, so that
there is always a fresh one while two are in use; `MaxFaults = 1`, since each
property speaks of one fault and what is left by it. `feedback`: a minute of one
tick, a day of seven, a janitor every four ticks and a clock up to eight let both
windows be renewed and the janitor come before, at and after the end of a day;
`MaxAdmitted = 5` is one more than twice the daily limit, so that `WindowBounds`
could fail. `login`: a cookie lives two ticks, a login and a gRPC token one, and
the clock runs to three, so that everything can expire while a `Parse` is held
up; two Parses are enough for a stopped clock.

`CHECK_DEADLOCK FALSE` everywhere: the number of requests, connections, handlers
or ticks is finite, and when all are used up the system rests.

### Fairness

Weak fairness of goroutines that can take a step, which Go's scheduler gives;
`Timeout` and `Refused` because timers fire; a read on a dead connection fails
because of the read deadline. `Delivery` asks nothing more: its workers may stop
at any point. In `WorkerLink` strong fairness of `DialSucceeds` says that the
server can be reached again from time to time; without it nothing can be promised
about healing. Nothing obliges a caller to call, a worker to answer, a connection
to be made or to fail, or anybody to close.

`SessionStore`, `Feedback`, `Login` and `AgentSession` state no liveness. For the
store, `WaitersServed` is the safety form of it: whoever waits for a mutex waits
for a call that is inside its section, and the steps of a section have no guard
beyond the `pc`.

## What is proved

For every value of the constants that meets the named assumption of the module.
Each theorem follows from an inductive invariant, because the property alone does
not survive a step.

`ContainerPoolProofs` (`PoolAssumption`: the slots are finite and each has a
language):

* `PoolTypeCorrect`, `SlotsConserved`, `PutsNeverBlock`,
  `PoolShrinksOnlyByRestarts`. `SlotConserved` does not say that a caller about to
  release holds a slot, nor that the slot belongs to the pool it will be sent to.
  `PoolInv` adds both (`CallShape`), splits "in exactly one place" into `Apart`
  and `Covered`, and records that `Close` sets the flag before it closes a channel
  (`FlagFirst`). `PutsNeverBlock` follows by counting: a slot that is out leaves
  its channel a proper subset of the pool.
* `OverdueAlwaysRestarted`, with `OverdueHeld`: a slot whose task ran into the
  deadline and may still run is with a caller that will give it up as unhealthy,
  under restart, or dropped, unless a `ContainerStart` succeeded after every
  `ContainerStop` had failed.

`DispatchProofs`, about `Dispatch` and `Delivery` (`DispatchAssumption`:
connections and requests have different names):

* `DispatchTypeCorrect`. `TypeOK` needs `Shape`: at each point of `Execute` the
  locals `cur` and `node` have been assigned.
* `OneCustodian` and `SettledStaysOut`, from `CustodyInv`: a request is in at most
  one call, tracked or queued under at most one client and never both; one that
  nobody has called is nowhere; and what is tracked is tracked under a key that
  exists, for otherwise an ACK would settle a request and leave it pending.
* `RegistriesStayTogether` and `NothingAfterExit`, from `RegistryInv`: a
  connection that has not been added is unknown to everybody (`Fresh`); a removal
  that has left `clients` is finished while the client stays out of it
  (`Removing`); only a closed node is evicted (`SeenClosed`); once `Read` has
  failed nothing is tracked for the client any more (`AfterRead`); and a node that
  `Run` leaves in the balancer is closed (`ExitClosed`).
* `CountersExact`, by counting the threads between `Get` and `Done` on a node,
  with the cardinality facts of `FiniteSetTheorems`.
* `DispatchImplementsLife`: `Dispatch` implements `RequestLife` under the mapping
  `LifeOf`. `Stages` computes the stage of a request from the place it is in;
  a step of the code moves one request (`OneMoves`) or none (`NobodyMoves`), and
  the moves are steps of `RequestLife`.

* `DeliveryIsDispatch`: whatever the workers do, the dispatcher behaves as
  `Dispatch` says, so that the theorems above hold of `DSpec` too.
* `RerunsArePaidFor`, from `CostInv`: the executions of a request, plus its copies
  on their way to a worker, plus one if a call will still send it, are at most one
  more than the connections that have ended. Each message written uses up the
  "will still send", and only the drain of an ended connection brings it back.

`SyncCallProofs` (`SyncAssumption`: each call has an id; ids may be shared):

* `SyncTypeCorrect`; `AnswersReachTheirCaller` from `IdKept` (what is in a channel
  carries its id); `NothingLeftBehind`; `AnswersFindTheirCaller` from
  `StoredWhileWaiting`.
* `ReadNeverWaits`: `Read` always finds room in the channel of a call that has an
  id of its own, from `Once` (a call's answer exists at most once). It is the
  safety half of `ReaderFree`.

`WorkerLinkProofs` (`LinkAssumption`):

* `LinkTypeCorrect`, `ClosedOnce`, `HeartbeatUnique`, `SocketsAccountedFor`, from
  `LinkInv`: the stop channel in the field is that of the connection in the field
  and still open (`OnePair`), connections not yet made are untouched
  (`Untouched`), between teardown and install there is nothing to replace
  (`NothingToReplace`), and a connection that was dialled but not installed has no
  heartbeat and an open stop channel (`Dialled`).
* `NoReadLeftBehind`: `Read` works on a copy of the connection that it took before;
  if that socket is open, then it is the one in the field and the client is not
  closed, so `Close` or the network will wake the read. It is the safety half of
  `CloseStops` and `LinkHeals`. A read on a lost connection may still return what
  was buffered.

`SessionStoreProofs` (`StoreAssumption`: there are more mutexes than requests, so
that `getLock` can always make one; `None` and `Corrupt` are no metas and no
sequences, `Torn` and `Junk` are no messages):

* `SectionsExclude` and `NoOrphanedLock`, from `LockInv`: an owner is inside its
  section (`Owners`), a call has a mutex exactly between `getLock` and `Unlock`
  (`Fetched`), and until one in use is dropped they all have the same
  (`OneMutex`).
* `StoreTypeCorrect`, from `Shape`: only a request with an article has a `create`
  to make (`Scripted`), a call that is about to write a meta holds one (`Copied`),
  and an `Append` writes to a file that is there or was unlinked (`Opened`).
* `AcknowledgedTurnsWhole`, from `Turns`: between its two writes an `Append` has
  its first message at the end of the file, or has ended a torn line with it, after
  them its turn is there in one piece, and nobody holds an unlinked file. Each
  crash or failed write damages one line at most.
* `CacheIsDisk`, from `Coherent`: `Phase` says, for each point inside a section,
  how far the cache and the meta file may differ there; when nobody is at such a
  point they agree (`Settled`). Only `StoreMeta` of `GetMeta` comes in without the
  mutex: if it is not to cache something outdated it finds the file as it read it,
  which `Phase` shows is harmless at every point.

`FeedbackProofs` (`FeedbackAssumption`: positive windows, the minute no longer than
the day, and as many bucket objects as calls):

* `FeedbackTypeCorrect` and `WindowsBounded`, from `LimitInv`. The bound over every
  interval is not inductive: what a bucket will still admit has to be known. As
  long as nothing is `raced`, all calls count in one bucket (`OneBucket`), which
  knows each admission since its window began; the others are older than the window,
  and those a limit further back are older by another length; and the bucket that replaces a deleted one starts
  when every admission is at least a day old, for `lastSeen` is no earlier than the
  last of them. The proof is about one window at a time, with limit and length as
  parameters.
* `RefusalsJustified`, an action property, without the hypothesis on the janitor:
  a bucket never counts more than was admitted within its windows.
* `ThanksForDeliveredMail`, from `Unanswered`: a call that waits has been told
  nothing yet, so the answer it gets is about this mail.

`LoginProofs` (`LoginAssumption`):

* `LoginTypeCorrect`; `ExpiryNeverEarly`, from `ExpiryInv`: every instant a `Parse`
  keeps or has installed is over (`PastOnly`), a token lives for `TTL`
  (`LivesTTL`), and a request that is told "expired" carries an expired token
  (`ToldOfToken`).
* `RealClockComesHome` and `SoleParseJudgesRight`, from `ClockInv`: the Parse that
  found the real clock still has it to put back (`FirstKeepsReal`), and one that
  is alone (`AloneParsing`) reads its own clock (`AloneClock`).

`AgentSessionProofs` (`AgentAssumption`):

* `AgentTypeCorrect` and `OnlyWhatWasConfirmedRuns`: `Accounted` counts, for each
  proposal, the confirmations that have passed the execution of it.
* `LateConfirmationsRefused`, from `Cleared`: a proposal that a run has cleared is
  neither stored nor about to be, unless it was put back.
* `ResultsStayWithInterrupt`, from `Paired`: until two pairs of writes overlap, one
  stream at most is between its two writes, and the two maps name the same
  proposal when none is; a confirmation that is not blurred has loaded them then.
* `EveryRunCancellable`, from `Apart`: streams that are in flight together are
  `shared`, so the others have `Cancels` to themselves.
* `ResetStartsClean`, from `Settled`: a stream that is not a stray works on the
  article of the session.

None of them assumes anything about how the handlers overlap.

Only model-checked is the liveness (`EveryCallReturns`, `DeadConnReaped`,
`CallReturns`, `ReaderFree`, `CloseStops`, `LinkHeals`, `RunCodeReturns`,
`ReplenishEnds`): liveness under fairness is beyond what the proof system decides
here. `ReadNeverWaits`, `NoReadLeftBehind`, `PutsNeverBlock` and `NoOrphanedLock`
prove the safety facts that some of it rests on.

## Other differences between code and documents

These follow from the modules but are not kept as runs.

Dispatch and connections:

* A redispatch can pick the very node that just failed, because `Run` redispatches
  before its deferred `RemoveClient` (`service.go:110`; the design, line 160, says
  "分发给其他 Client").
* When the heartbeat closes the connection inside the deferred `RemoveClient`, the
  second `conn.Close` fails and the node stays in both registries
  (`clientManager.go:61`; the comment at `service.go:85` says "无论因何退出，都要把节点从
  ClientManager / LoadBalancer 摘除"). `ExitedRunUnusable` is what holds instead:
  such a node is closed, and `GetClientByBalance` evicts it.
* An ACK that is read before `TrackRequest` removes nothing; the request stays
  tracked and is executed again when the client disconnects (`service.go:49`).
  `RerunCostsConnection` bounds the effect.
* When two `SendSync` calls share an id, the first to return deletes the channel
  of the other (`websocket/server/client.go:90`), and two results for that id can
  block `Read` for good, so that the disconnect is never noticed (line 56; the
  comment at `service.go:103` expects `Read` to report it). `ReaderFree` shows that
  ids of one's own exclude it.
* `reconnect` sleeps only after a failed dial; a server that accepts and drops
  connections is redialled without pause (`websocket/client/client.go:316`; the
  heartbeat design, line 357, relies on a backoff in every round).
* After an execution error that is not the deadline, the container goes back to
  the pool without a restart; and when every `ContainerStop` of a replenish fails,
  the `ContainerStart` that succeeds changes nothing and the container goes back
  with its task running (`runCode.go:230`, `pool.go:137`); `README.md:204` says that every task runs in a
  container of its own.

Agent and session store:

* Two confirmations that load a proposal before one of them clears it both execute
  it (`confirm.go:93`; the agent design, line 272, says 409). `LateConfirmRefused`
  says that later ones are refused, `HumanGate` that there are no more executions
  than confirmations.
* `InterruptIDs` and `Proposals` are loaded one after the other, and stored so: a
  confirmation can pair an interrupt with another one's proposal, and its result
  goes to a tool call it is not of (`confirm.go:62`). Two overlapping pairs of
  stores can leave such a pair behind for all later confirmations.
  `ResultToItsInterrupt` says that nothing else does it.
* Streams of one session that are open together overwrite and delete each other's
  cancel function (`chat.go:241`), which a stop followed by a new message is enough
  for; line 168 of the agent design says that a new chat tells the open stream
  "interrupted" and closes it, which no handler does. `RunCancellable` is about streams that had `Cancels` to
  themselves.
* A stream that is under way when the session is reset, expired or deleted appends
  its turn to the session as it is then (`chat.go:325`). `ResetClean` says that
  nothing else of the old session gets into the new one, but for a failing
  `os.Create` after the new meta was written (`store.go:103`).
* The resume of a confirmation that meets the checkpoint of another proposal puts
  that proposal back into the maps, though it may have been executed already
  (`confirm.go:174`).
* A cancel request of a stranger takes the function out of `Cancels` and puts it
  back. If the run ended in between, a stale function is stored, and it replaces
  that of a run that has started since, which nobody can cancel then
  (`cancel.go:41`).
* A new chat does not discard the pending proposal (`chat.go:239`; the design, line
  169, says it does), and its age is never checked (`confirm.go:69`; line 273 says
  410).
* Two first chats of a session both find no meta and both create it; the second
  truncates the turn of the first (`chat.go:157`).
* `Delete` drops the mutex while another call may have fetched it; the next caller
  makes a new one, and two sections of the session overlap (`store.go:212`).
* `GetMeta` takes no lock and can cache a meta that was deleted or replaced since
  it read the file (`store.go:144`).
* A write that is cut short leaves a line without a newline; the first message of
  the next turn is glued to it and skipped when the messages are read, although
  its `Append` succeeded (`store.go:194`, `169`). `TurnsWhole` bounds the damage.
* An append that was waiting when the session was deleted makes a JSONL file
  without a meta, which nothing removes (`store.go:184`); `cleanExpired` tests the
  age without the lock and can delete a session that an append has just revived
  (`store.go:228`).
* `cleanExpired` ranges over the cached metas, so a session that nobody asks for
  after a restart stays on disk (`store.go:226`; the agent design, line 231, says
  that expired files are scanned for).
* A process that dies while `os.WriteFile` has the meta file truncated leaves a
  session that cannot be loaded although its messages are there (`store.go:221`;
  line 164 says "重启可恢复"). One that dies inside `Delete` leaves a meta without
  messages, since the JSONL file goes first (`store.go:209`).

Feedback and login:

* The windows of the rate limiter are fixed: twice the limit can pass within one
  minute, or one day, across a boundary (`ratelimit.go:46`; the feedback design,
  line 142, says "3 次/分钟、20 次/天"). `WindowBounds` states the bound that does
  hold.
* The janitor can delete a bucket between its lookup and the count
  (`ratelimit.go:75`), also one just made, whose `lastSeen` is still zero; the
  visitor then starts from zero.
* A feedback that is refused as invalid has used up a token, and a mail reported as
  failed can still be delivered; the design accepts the latter (line 180).
* Two overlapping `Parse` calls can judge by each other's time, so that a valid
  cookie is refused as "used before issued" (`jwt.go:56`; the login design, line
  362, says that a valid cookie is answered with the user), and the last one to
  restore can leave the clock stopped, after which gRPC tokens never expire.
  `ClockHome` shows exactly which overlap does it.
* A callback with a bad state is answered with 502; the design, line 141, says 400.

## Not modelled

* `etcd`: the lease and its renewal are inside the library; the package keeps no
  state of its own that another part reads.
* `weightedRRBalance`: not used by the program.
* `NoopMailer`, the extraction of the visitor's IP, the normalisation of the
  `returnTo` URL, the session listing beyond its reads of the store: stateless.
* The goroutine of `chat.go:225` that writes keep-alive comments to the response
  while the stream does: the response writer is the library's.
* Real time. How fast the healing loop turns, and a read deadline that passes on a
  healthy connection because the worker reads only between two requests, are
  covered as events, not as durations.
* Working directories, the substring match of container names, messages' contents,
  metrics, logging, tracing, configuration, prompts, generated code.

## Plan

1. Done: `ContainerPool`, `Dispatch` with `RequestLife`, `Delivery`, `SyncCall`,
   `WorkerLink`, `AgentSession`, `SessionStore`, `Feedback`, `Login`, and the
   theorems above.
2. Extend: `AgentSession` over the steps of `SessionStore`, so that a crash in the
   middle of an append meets a confirmation; `Delivery` over those of `SyncCall`,
   so that a synchronous request is followed to its worker and back; what should
   happen to the result of code that ran when the resume fails (`confirm.go:131`),
   once the documents say it.
3. Prove: that `SessionStore`, until a mutex in use is dropped, implements a store
   whose calls are atomic, which is what `AgentSession` takes it for.

## Running

In this directory: `tlc -config MCDispatch.cfg MCDispatch` for the run `dispatch`
(`PROJECT.json` names module and configuration of each), and
`tlapm DispatchProofs.tla`, likewise for the other modules named `...Proofs`.
