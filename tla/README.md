# A verification project for breUtils

breUtils (`src/breUtils`) is a header-only C++ library: a blocking queue, two timers, an
asynchronous log, connection pools for MySQL and Redis, TCP and UDP transfer, a key exchange,
a signal, an ID generator, JSON and a number of sequential helpers. This directory holds TLA+
models of its components, the TLC configurations that check them, and TLAPS proofs of what
matters most for every value of the constants. File names below are relative to
`src/breUtils` unless they end in `.tla` or `.cfg`.

Contents: 1 inventory, 2 modules and how they follow the code, 3 runs, 4 fairness,
5 where code and documents disagree, 6 proofs, 7 what is not modelled, 8 plan.

## 1. Inventory

### Components with state of their own

| component | state | operations | what is hard, and what must hold |
|---|---|---|---|
| BlockQueue (`BlockQueue.hpp`) | a `std::queue`, `isClose`, a capacity, one mutex, two condition variables | `Push`, `Pop`, timed `Pop`, `Close`, `Flush`, readers | notify_one per item or place, threads that overtake a woken one, expiry against notification, Close in three steps: bounded FIFO, no wakeup lost, sleepers served or released |
| Timer (`Timer.hpp`) | `m_Stop`, a condition variable, a thread | `AsyncWait`, `Wait`, `Cancel`, destructor | Cancel against a thread at any point of its wait: callbacks after Cancel, a destructor that returns |
| MultiTaskTimer (`Timer.hpp`) | a priority queue of due times, a condition variable | `Add`, `Run` | `Add` between the runner's test and its sleep: never oversleep, never early, never twice |
| Log (`Log.hpp`) | a mutex, a line count, a day, a file, a BlockQueue and a writer thread | `Write`, the writer's loop, destructor | a push under a mutex the writer needs, rotation against lines still queued, a next file that cannot be opened, the destructor against Write: order, what may be lost, no deadlock |
| MySqlPool (`database/MysqlPool.hpp`) | a queue of connections, `_b_stop`, a mutex, a condition variable, a checking timer | `getConnection`, `returnConnection`, `checkConnection`, `Close`, destructor | notification without the mutex, a check that takes and puts back: no connection shared or lost, who can stay asleep |
| RedisPool, RedisMgr (`database/`) | the same, over hiredis contexts; the server's answers | every command, `checkThread`, `Close`, `ClearConnections`, `Inst` | early returns on every kind of reply: each context comes back, what answers tell of what happened |
| UdpSender, UdpReceiver (`net/UDPManager.hpp`) | the next `group_id`; per group the fragments that arrived | `Send`, `Receive` | loss, duplication, reordering, restarts and number wrap: messages whole, unmixed, once |
| TCPServer, TCPSession, NetLogic, AsioIOContextPool (`net/`) | sessions by id; a send queue, a write thread and one `_header` per session; one logic queue and thread | accept, read, handle, `Send`, `Stop`, destructors, leaving clients | five kinds of threads and two bounded queues: order of replies, a header used by two threads, a handler stuck on a dead session, destructors under a mutex |
| TCPSender, TCPReceiver (`net/TCPManager.hpp`) | queues, `_is_closed`, a thread each, sockets | constructors, `Send`, `SendDirect`, `Get`, `Close` | header and data read apart, two writers of one socket, threads that start before their object is ready, notification without the mutex: streams intact |
| EchoGate (`net/EchoGate.hpp`) | a sender, a receiver, a key | `GetAESKey`, destructor | two programs that connect to each other and wait for each other: the exchange ends |
| SnowWorker, IdGenerator (`uuid/uuid.hpp`) | the last tick, the next sequence number | `setOptions`, `NextId`, `Next` | clocks set back, more IDs than a tick has numbers: IDs unique, drift bounded |
| Signal (`signal/Signal.hpp`) | slots in ascending groups, `m_block` | `Connect`, `Disconnect*`, `Emit`, `Block` | swap-and-pop removal while an emission is between two calls: order, exact removal |
| Buffer (`Buffer.hpp`) | a byte array, a read and a write position | `Append`, `Retrieve*`, `Clear`, moves | growing against moving data to the front: bytes out as they went in |
| flag (`flag/flag.hpp`) | registered flags and their values | `Parse` | dashes, `=`, negative numbers, words that are values or stop the parse |
| TestTime (`TestTime.hpp`) | hits of each place and the order of the places, a mutex; passings of each place | `Hit`, `HitClear`, `Interval` | a first round, a new round, lists that were cleared: times that add up while places are hit equally often |
| IniConfigLoad (`configLoad/iniConfigLoad.hpp`) | one map of sections, keys and values | `Inst` (which reads a file), `GetValue` | comments, blanks, sections that come again: the last assignment of a file counts; a second `Inst` |
| NifixExpression (`NifixExpression.hpp`) | a stack, a postfix text in a buffer of spaces | `calculate_expression` | ranks, parentheses, the spaces behind and before a text: the value of what is written |
| Json (`Json.hpp`, `Json/`) | a Value tree; a parser's position | `generate`, `parse`, strict and by default | texts that end anywhere, escapes, types: what is written is read back |

### Components without state worth a model

Stopwatches (`CountTimer`, `ProgressTimer`), `EasyTest`, `Singleton`, `Defer`, `FileReader`,
`FileWriter`, `Date`, `System`, `HexLook`, `FFHelp`, `StringFunc`, `crypto`, `Math/big`, `Learn`,
`netMsgNode`, `TCPClinet`, `Broadcast`, `Finder`, `BinaryTree`, `PrefixTree`, `base64` and
`HexCov`: section 7 and the entries of `PROJECT.json` say why.

### How components interact

* Log calls BlockQueue: loggers `Push` and test `Full` under the log's mutex, the writer thread
  `Pop`s without it and writes with it, the destructor closes the queue.
* TCPServer gives each TCPSession a BlockQueue for replies and all of them NetLogic's BlockQueue
  for messages. A handler of NetLogic calls `TCPServer`'s session again to answer. A session's
  destructor calls the server back, which locks the mutex that `Stop` and `~TCPServer` hold.
* EchoGate owns one TCPSender and one TCPReceiver; two EchoGates in two programs talk to each
  other.
* MySqlPool owns a Timer whose callback is `checkConnection`; RedisMgr owns a RedisPool with a
  checking thread. Their waiting lines are the same and are modelled once (`ConnectionPool`).
* IdGenerator owns a SnowWorker behind a `once_flag`.
* Signal, Buffer, flag, Json, SnowWorker, the two timers, TestTime, IniConfigLoad and
  NifixExpression use nothing else of the library.

The behaviours hard to test are listed as `hazards` in `PROJECT.json`, each at its line with the
properties that would catch it going wrong.

## 2. Modules

An action is a critical section, or the stretch of code between two points where another thread
can come in: a wait, an unlock, a blocking call. A thread's place in the code is a value of a
state variable (`pc`, `thread`, `stage`, `runner`, ...). A condition variable is the set of the
threads asleep in it; `notify_one` takes any one out, `notify_all` all, and a thread may also wake
for nothing. Variables are named as the members they stand for; those marked *history* in the
comment of their declaration exist for a property only and no guard reads them, except those
that also serve as a bound.

| module | of | notes |
|---|---|---|
| `BoundedBuffer` | what a blocking queue promises | abstract: calls in progress, a sequence, closed or not; an untimed Pop fails only after Close |
| `BlockQueue` | `BlockQueue.hpp` | `Push`/`Pop` by a thread that gets the mutex at once, `PushResume`/`PopResume` by one that was woken, `PopTimeout` by one whose wait_for expired; Close is three actions (the flag, `CloseNotifyProducers`, `CloseNotifyConsumers`). `Buffer == INSTANCE BoundedBuffer WITH ...` is the refinement mapping |
| `Timer` | `Timer.hpp:26-105` | the thread of `AsyncWait` at "while", "lock", "asleep", "fire", "running"; owner and cancellers |
| `MultiTaskTimer` | `Timer.hpp:108-174` | tasks with due times, a clock that ticks; the priority queue is the set of tasks and its top a minimum |
| `Log` | `Log.hpp` | `Q == INSTANCE BlockQueue` with the loggers as producers, the writer as the consumer and the destroyer as the controller; every step on the queue is an action of `BlockQueue`. Lines are model values, and a logger remembers the day its call read. `RotateFails` is a rotation whose file cannot be opened: `WriteThrow` tells the caller, the stream stays closed, and `Out` drops what comes to it until a file is opened again |
| `ConnectionPool` | what MySqlPool and RedisPool share | clients, free connections, waiting line, Close |
| `MySqlPool` | `database/MysqlPool.hpp` | `MySqlSpec`, `MySqlNext`, ...; adds the periodic check, step by step, against a server that answers, is replaced or is gone |
| `RedisPool` | `database/RedisPool.hpp` | adds the check under the mutex, `ClearConnections`, the destructor |
| `RedisMgr` | `database/RedisMgr.hpp` | adds the commands and the server: one key that is missing, a string, a list or a hash, and connections that break before or after the server acted. `AnswerIsTrue` has a conjunct for each of the twelve commands |
| `UdpTransfer` | `net/UDPManager.hpp` | fragments are (group, number, total, message); the network is a set from which a fragment is received, duplicated or lost |
| `TcpServer` | `net/TCP.hpp`, `TCPServer.hpp`, `TCPSession.hpp`, `NetLogic.hpp`, `AsioIOContextPool.hpp` | a header and each part of the data is a unit on the wire, so that a wrong size reads the wrong units; `_header` is written and read in the steps of both its users; the owner may stop and destroy the server; queues are the bounded buffers `BlockQueueProofs` shows BlockQueue to be |
| `TcpManager` | `net/TCPManager.hpp` | header and data are two units on the wire; constructors with retries; both threads; `SendDirect` next to the sending one |
| `EchoGate` | `net/EchoGate.hpp` | EXTENDS `TcpManager`; `Program` is the sequence of its operations in each of the two programs |
| `SnowWorker` | `uuid/uuid.hpp:14-102` | any options `setOptions` accepts, any tick at each call |
| `IdGenerator` | `uuid/uuid.hpp:104-127` | EXTENDS `SnowWorker`; `instance()` as it is, which rebuilds the worker |
| `Signal` | `signal/Signal.hpp` | groups and slots with the indices the code keeps; an emission is between two of its calls while slots change, until a change leaves its iterators dangling, where the model stops following it |
| `Buffer` | `Buffer.hpp` | the array, both positions; the bytes that should come out are history |
| `Flag` | `flag/flag.hpp` | a command line is a sequence of arguments, each with its dashes (a third one belongs to the name), word and what follows `=`, and it may be empty; the property compares with a reading of the line from left to right |
| `TestTime` | `TestTime.hpp` | `Hit` in one step, as it holds the mutex; a clock that may stand still between two calls; the times told so far are history, kept while the places are hit in order and equally often |
| `IniConfigLoad` | `configLoad/iniConfigLoad.hpp` | a line at a time, as an author writes them; what the first file says by then is history, as is that no second one was loaded |
| `NifixExpression` | `NifixExpression.hpp` | both passes as folds over the characters, compared with the tree the text was written from |
| `Json` | `Json/json_generator.hpp`, `json_parse.hpp`, `json_value.hpp` | texts as sequences of characters and numerals, both sides as recursive operators; a document is generated, cut off anywhere, and parsed |

`BlockQueueProofs`, `PartsProofs`, `MorePartsProofs`, `TimerProofs`, `LogProofs`, `RedisMgrProofs`,
`PoolAndTransferProofs` and `TcpServerProofs` hold theorems (section 6). `PROJECT.json` maps each
definition to the lines it stands for.

In modules checked with it, `MaxIds`, `MaxCalls`, `MaxSlots`, `MaxBytes`, `MaxArguments`,
`MaxElements`, `MaxDuplicates`, `MaxRestarts`, `MaxTime`, `LastTime`, `MaxHits`, `LastDay`,
`SessionCount` and `MaxMessages` are bounds of the model: guards keep the counters they name below
them. So are the sets of inputs (`Sizes`, `Documents`, `Expressions`, `Arguments`, the names and
values of `IniConfigLoad`). All other constants are parameters of the program or its users.

An operator named `...Keeps`, `...Once`, `...Forgets...` and the like with the comment *Mutant of
X* is X with a plausible mistake in it. It takes no part in a specification: put in the place
of X it must violate the property it belongs to, which shows that the property can fail.

### Several parts in one model

Five MC modules put components that share nothing side by side. A variable `part` is chosen in
the initial state and never changes; only the actions of that part are taken and the other
variables keep their initial values. The state graph is the union of the graphs of the parts
(every part keeps all its interleavings). An invariant of one part holds of the others' states
because they are initial states of that part, or is looked at in its part only. Fairness is
stated so that it holds vacuously elsewhere: in `MCWaiting` and `MCTimers` under `part = ...`, in
`MCTransfers` because what is fair in one part is never enabled in the other (no datagram is
sent, the gates have returned).

* `MCWaiting`: BlockQueue without timeouts, MySqlPool.
* `MCParts`: BlockQueue with timed consumers, SnowWorker, Signal, Buffer, Flag,
  IniConfigLoad, TcpManager (with two senders, or with `SendDirect`).
* `MCTexts`: RedisMgr, Json, NifixExpression.
* `MCTimers`: Timer, MultiTaskTimer, TestTime.
* `MCTransfers`: UdpTransfer, EchoGate over TcpManager.

## 3. Runs

States are distinct states, times those of a desktop machine with two workers.

| run | model, configuration | properties | states, time |
|---|---|---|---|
| `waiting` | `MCWaiting` | NoLostItem, NoLostRoom, ImplementsBuffer, SleepersAreServed, CloseReleasesConsumers, PoolIntact, AtMostOneUnannounced, AtMostOneMissesClose, CloseReleases | 35,207, 90 s |
| `parts` | `MCParts` | NoLostRoom, DriftBounded, IdsIncrease, EmissionReachesSlots, DisconnectsMatching, BytesInOrder, EveryArgumentIsRead, LastAssignmentHolds, StreamIntact | 442,284, 85 s |
| `timers` | `MCTimers` | AtMostOneLateCallback, OnTimeAndOnce, DestructorReturns, TaskRuns, TasksAreServed, LapsAddUp | 76,369, 25 s |
| `log` | `MCLog` | PushNeverSleeps, ReturnedLinesKept, QueuedInOrder, LinesGetWritten, JoinReturnsFromSleep | 342,591, 60 to 95 s |
| `texts` | `MCTexts` | ContextsComeBack, EveryFreeContextIsAnnounced, AnswersAreTrue, TextsReadBack, EvaluatesAsWritten | 295,897, 55 to 80 s |
| `transfers` | `MCTransfers` | DeliveredIntact, AgainOnlyIfAllDuplicated, DeliveredIfNothingLost, ExchangeCompletes | 174,205, 85 s |
| `tcp_server` | `MCTcpServer` | AnsweredInOrder, MessagesAreHandled | 198,320, 80 to 90 s |
| `id_generator_repeats` | `MCIdGenerator` | NextIdDiffers: violated | short |
| `timer_late_callback` | `MCTimer`, `MCTimerLate.cfg` | NoCallbackAfterCancel: violated | short |
| `server_destroyed` | `MCTcpServer`, `MCServerDestroyed.cfg` | DestructorReturns: violated | short |
| `gates_return` | `MCTransfers`, `MCGatesReturn.cfg` | GatesReturn: violated | 50 s |
| `json_default` | `MCTexts`, `MCJsonDefault.cfg` | DefaultReadsText: violated | 14 s |

### What they show, on which instance, and why it is enough

* **waiting, queue**. Two producers, two consumers, a place for two items, and a thread that closes and
  flushes, at any moment and again. A lost wakeup needs a woken thread, one that overtakes it
  and one that still sleeps: two threads on each side and two places give all three.
  `NoLostItem` counts a woken consumer for every item while one sleeps; `SleepersAreServed` and
  `CloseReleasesConsumers` are what follows for a sleeper; `ImplementsBuffer` is the refinement
  of `BoundedBuffer`.
* **parts, queue**. One untimed and two timed consumers and one place, so that an expiry can
  race a notification for the only place. `NoLostItem` is *not* claimed here: `wait_for` without
  a predicate (`BlockQueue.hpp:97`) can time out although its thread took a notification, and
  an item then stays in while an untimed consumer sleeps. Nothing is lost (`ImplementsBuffer`)
  and the next Push notifies again.
* **parts, worker**. One to three bits of sequence numbers, ticks from -1 to 4 in any order,
  nine IDs: enough to exhaust a tick, move to the next, be overtaken by the clock and have the
  clock fall back, with options that `setOptions` refuses among the choices.
* **parts, signal**. Three slots in two groups, of a function and of member functions on two
  objects: every removal that swaps a slot which also matches, and every place of an emission.
* **parts, buffer**. A capacity of 2 and at most 4 bytes of two kinds: each branch of the
  growing, moving and retrieving code, and several after each other.
* **parts, flag**. All command lines of up to three arguments: flags of four types with none to
  three dashes, `=`, values that fit or do not, negative numbers and an empty argument. A flag, its
  value and what comes after are three arguments; the theorem has lines of any length.
  `EveryArgumentIsRead` says nothing of a bool with a word other than `true` and `false` behind
  its `=`, where code and usage comment differ (section 5).
* **parts, ini**. Two sections beside the nameless one, two keys and two values, among them names
  with blanks, `=` and brackets, any order of lines, any number of files: an assignment can be
  overwritten and its section can come again. `LastAssignmentHolds` speaks of the first file only,
  as the comment and the code disagree about a second (section 5).
* **parts, tcp**. Two senders, of two messages and of one that may have no bytes, and one receiver;
  one sender may die or lose its connection anywhere, between a header and its data too.
  `StreamIntact` says that what a receiver hands on is a prefix of what was sent, message by
  message, and that a Close of a sender that does not fail has everything sent. In part *direct*
  there is one sender of two messages, each of which may go through `Send` or `SendDirect`, and a
  thread that gets: one message of each kind is what two writers need to meet between a header and
  its data, and the second of one kind shows the order.
* **timers**. A Timer with up to three callbacks counted (any further look the same) and
  cancellers at every moment; three tasks with delays of 0 to 2 added at any of four times:
  a task that comes before, with or after the one the runner sleeps for. Three places to hit, five
  hits and a place that measures itself, over three times: a full round, the next one and a list
  that was cleared; with three places one is neither the first nor the last. `LapsAddUp` is about
  places that were hit equally often, which the comment asks for (`TestTime.hpp:18`).
* **log**. Two loggers, three lines, a queue of one, files of two lines, one midnight and the
  destructor at any moment: the queue is full, the file rotates by count and by day, and lines go
  the direct way past queued ones. One file cannot be opened: at midnight, which closes the stream
  for as long as two lines, or by count, after which the next line tries again. Lines lost so are
  counted: `ReturnedLinesKept` says that a line comes to a closed stream only if it was accepted before
  the failure, and still waits, or at most `MAX_LINES` after it. A failure in `Init`
  itself, before the first line, is left out. Lines are logged in their order and an idle first
  logger goes before the second (`LinesInOrder`, `FirstLogs`), which leaves out permutations only: in
  the model neither lines nor loggers differ but by name.
* **waiting, mysql**. Four clients, two connections: two sleepers while two hold connections; the
  fifth party is the check. `AtMostOneUnannounced` is exact: line 109 puts a connection back
  without a notification, and one sleeper can miss it.
* **texts, redis**. Three clients, two contexts, lists of up to two elements, every kind of value under
  every command. `AnswersAreTrue` says of each command what true and what false mean to its
  caller: what was written, read or taken, or why nothing was. It cannot say more than the code
  gives away: a value told by `LPop`, `RPop` or `HGet` can be the text of the server's error, if the
  key is of another type (`RedisMgr.hpp:164`), and false after a lost reply tells nothing.
* **texts, json**. All scalars and containers of depth 2 with up to two elements, every text cut
  off after every character, the parser in all its modes. Strings hold the characters that must
  be escaped. `Decimals` = 2 and `MaxInt` = 99 put the limits within reach.
* **texts, nifix**. Trees of up to three operations over numbers of one and two digits, written
  with the parentheses they need and with all they can have: every pair of ranks on either
  side, quotients of either sign, divisions by zero. `BufferSize` is 24 instead of 100, enough
  for the longest of them, so that the spaces at the end are as many as matter.
* **transfers**. One UDP sender with three messages of 2, 2 and 1 fragments, three group ids,
  two duplicates, one restart: ids wrap and repeat after a restart, groups are merged, a group
  is complete twice. Two gates with three attempts to connect.
* **tcp_server**. Two clients on one io_context with two messages and one, queues of one
  place: a session's full queue stops the one handler thread, and both sessions share a reader.
  Messages of one and three units and a prefix of one tell every size from every other, so that a
  header that was raced for shows. `AnsweredInOrder` also says who can race: a client that sends
  before it has all its answers.

In most runs `CHECK_DEADLOCK FALSE` is given because these systems may stop: all lines are
logged, all messages sent, the program has crashed or returned. In `waiting` deadlock is checked:
somebody can always make another call of the queue. Its pool may stop, and may stutter then.

## 4. Fairness

Nobody is ever obliged to call: no Push, Write, Send, Cancel or Close is fair. What is fair:

* a thread woken from a wait gets the mutex (`BlockQueue`: weak fairness, as a woken thread
  stays able to go on; `MySqlPool`: strong fairness of `Resume`, as others hold the mutex in
  between). `std::mutex` does not promise this to the letter; every scheduler it runs on does;
* a thread inside an operation goes on with it (Close's notifications, a timed-out wait, the
  Timer's and the runner's steps, the loggers, inside a call, and the writer of the log, logic and write threads of the server).
  A logger whose rotation may fail goes on by `WriteLock` or by `WriteThrow`: neither of the two is
  fair, so `LinesGetWritten` holds with files that do open and with one that does not;
* the clock of MultiTaskTimer ticks. For Timer the expiry of an interval is *not* fair:
  `DestructorReturns` must not need it, and `TaskRuns` assumes it in the property itself;
* `TcpServer`: weak fairness of each thread (the acceptor's insertion, NetLogic's and the write
  threads, a handler that was begun), strong fairness of a push into NetLogic's queue and of a
  session's read, since others may fill the queue or use the io_context whenever it is free. Only that
  no sender is overtaken for ever is assumed, not in which order they come. Nobody has to accept,
  stop or destroy;
* `UdpTransfer`: a Send goes on, and some datagram in flight arrives. Losing and duplicating
  are not fair, and `DeliveredIfNothingLost` excepts lossy behaviours;
* `EchoGate`: each gate's own thread and its background threads run.

What liveness then says is exact about what can stop the system: `ExchangeCompletes` names the three
races that keep two gates from their key, `MessagesAreHandled` the two ways NetLogic's thread
gets stuck (in `Send` to a session whose write thread has ended, or at the mutex of a destructor that
waits for itself) and excepts sessions whose header was raced for or that were freed,
`JoinReturnsFromSleep` that the log's join returns if the writer slept when Close
came (it may not if the writer begins a Pop on the closed, empty queue). `TaskRuns` excuses an
`m_Stop` that was set by `Wait`, `TasksAreServed` a runner that has left, `CloseReleases` a program the
check has ended. What a property excuses it does not show. So no
property covers: a `Wait` that ends an asynchronous task (`Timer.hpp:74`), a task added just after Run
read `_tasks.empty()` without the mutex (`Timer.hpp:157`), the hang of `~Log` (`Log.hpp:257`), a check that
ends the program (`MysqlPool.hpp:100`) or makes the pool smaller (`RedisPool.hpp:120`), UDP groups that are never
given up (`UDPManager.hpp:145`), the two ways NetLogic's thread gets stuck, the three races of the gates, and
emissions whose iterators dangle. Most are hazards of `PROJECT.json` with a note.

## 5. Where the code does something else than is said of it

Five runs state what a comment, a test or an output says, and are violated by what the code does.

* `uuid/uuid.hpp:112`, run `id_generator_repeats`. The `once_flag` of `IdGenerator::instance()` is a
  local variable, so every call builds a new worker, which begins its sequence again: two calls in
  one millisecond return the same ID. Line 27 says a call generates the *next* ID, `uuid/main.cpp:8`
  draws ten in a row.
* `Timer.hpp:90`, run `timer_late_callback`. The callback runs after the mutex was released and
  `m_Stop` was tested for the last time. A Cancel in between returns first and the callback begins
  then, which `test_Timer.hpp:48` asserts does not happen. `AtMostOneLateCallback` is what holds.
* `net/TCPServer.hpp:58`, run `server_destroyed`. `~TCPServer` clears `_sessions` with `_mutex` held. The
  last reference to a session goes, `~TCPSession` calls `ClearSession`, which still finds the session
  in the map and locks `_mutex` again: the destructor does not come to its last line, which prints
  "Server stop" (line 59), as soon as one client was ever accepted.
* `net/TCPManager.hpp:275`, run `gates_return`. At the end of a stream the receiver's thread goes back
  to `accept` without a look at `_is_closed`, and nothing closes the acceptor. `Close` joins that
  thread, so after a successful exchange no EchoGate's destructor returns, and the joins of
  `net/test_EchoGate.hpp:40` do not either.
* `Json/json_parse.hpp:17`, run `json_default`. Without `is_strict` the cleaned text goes into a variable
  that hides the one that is parsed. `Json.hpp:12` says that strict mode is off by default, and
  `Json/test_json.hpp:155` reads a document that way and asserts (line 231) that it equals the one
  written.

Met while modelling, and followed by the models where they do not say otherwise:

* `flag/flag.hpp:54`: `-truebool=T` sets false, since only "true" is true; the usage comment at line 9
  shows it as a way to set a bool. `Flag` reads `=T` as the code does, and no property says that it
  is right.
* `flag/flag.hpp:421-426`: of three dashes the third belongs to the name, and two dashes with a `=` take the
  `=` into it: neither names a flag.
* `Log.hpp:162-165, 259`: if the next file cannot be opened, Write throws with the old one closed and the day
  changed. Lines that come then, and those still queued, vanish without a word (`Log`, `lost`).
* `Log.hpp:129`: the day is read before the mutex is taken, so that around midnight a slow call
  switches back to yesterday's file.
* `BlockQueue.hpp:97`: a timed Pop can time out with a notification in hand (section 3).
* `Signal.hpp:590`: `Emit` iterates over vectors that another thread, or the slot it calls, may
  change. `Signal` stops an emission there; its properties speak of undisturbed ones.
* `database/RedisPool.hpp`: the check keeps a context whose connection is broken.
* `net/TCPManager.hpp:62`: the constructor starts the sending thread before it clears `_is_closed`; a
  quick thread ends at once and nothing is ever sent ("stillborn" in `TcpManager`).
* `net/TCPManager.hpp:330`: the receiver notifies without the mutex; a `Get` between its test and its
  sleep misses it.
* `net/TCPManager.hpp:285`: the first bytes that are compared with BREZ are those of the last header
  that was one, since `Parse` keeps nothing else; "Invalid header" cannot be printed, and the size
  before is taken again.
* `net/TCPManager.hpp:120`: `SendDirect` takes no lock; next to the sending thread it spoils the stream
  (`mixed` in `TcpManager`).
* `net/TCPSession.hpp:138`: replies are written with the `_header` that requests are parsed into.
* `configLoad/iniConfigLoad.hpp:76`: a `once_flag` that is not static, as in `uuid.hpp`: every call of
  `Inst` reads the file it is given, although the comment at line 8 says that the first call loads it.
  `LastAssignmentHolds` says nothing once a second file is read. Line 120 takes `[k=v]` for a section. `ConfigLoad.hpp` includes a file that does not exist.
* `TestTime.hpp:131`: a hit is compared with the latest hit of the place before, not with the one of the
  same count, as the comments at lines 19 to 22 and 129 say. The two are one as long as both were
  hit equally often; `LapsAddUp` claims no more.
* `Json/json_parse.hpp:187-233`: `ParseUnicode` skips the first hex digit. `throwException` cuts its
  message out of the text and throws `std::out_of_range` at the text's end. `parse` accepts text
  that follows a value. The model has the last two.

## 6. Proofs

All proofs are checked by TLAPS to the last leaf, for every value of the constants under the
named assumptions of the modules, which TLC evaluates in the runs. The form is the same
throughout: an invariant that is strong enough to be inductive, `Init => IInv`,
`IInv /\ [Next]_vars => IInv'` with a step for each action, and a temporal step by PTL.

* **BlockQueueProofs** assumes `Capacity` positive, finitely many threads, each of one kind, and
  that the markers are no items. `TypeInv` is the type invariant and `CallsAccounted`, which ties a
  thread's place to what it holds. From it
  `QueueImplementsBuffer` (`Spec => ImplementsBuffer`) follows step by step: sleeping, waking and notifying
  stutter, the critical sections are the steps of `BoundedBuffer`. `NoRoomLost` and `NoItemLost`
  are inductive over `TypeInv`: the lemmas `ConsumerWoken` and `ProducerWoken` count the thread that a
  notification wakes, `RemoveOne` the one that goes on. `NoItemLost` is under the assumption
  that there are no timed consumers, without which it is false (section 3).
* **PartsProofs** extends `MCParts` and takes its parts one after the other. A step of `MCParts` is a step
  of one part and leaves the variables of the others alone, so a theorem `PartsSpec => []P` needs `P`'s
  invariant over the steps of one part only (`BufferSteps`, `QueueSteps` and their like). The constants are
  those of the parts under the assumptions `MCParts` names.
  * *Induction.* `Least` gives a set of numbers its least element, from the well-foundedness of `<`;
    `Induction` is stated of a set of numbers, so that a proof names the set of the n its claim holds of;
    `Recursion` says that a recursive function over the numbers exists and obeys its equations. The
    functions that the models define by recursion or as folds are reasoned about through these.
  * *SnowWorker*: options in bytes and integer ticks. `WorkerInv` says that the next sequence
    number is at most one past the maximum, the maximum below `2^SeqBitLength`, and the last ID
    below tick * range + next number; with it `IdsAreUnique`: IDs increase for any clock.
    `DriftInv` charges each tick of lead with the IDs it took; `DriftIsBounded` follows. The
    arithmetic is in lemmas on products (`LaterTick`, `DriftStep`). `PowerAssumption` only says that 2^b is
    a positive natural number for the lengths in question, which the provers do not know of `^`.
  * *Buffer*: any bytes, strings of them and initial size. `Holds` says that between the positions of the
    array stand the bytes that wait to be read, in order; growing and moving keep it (`BytesComeOutInOrder`).
  * *TcpManager*: any senders, receivers and getters, each sender with its receiver
    (`StreamsAreIntact`). Its invariant `TcpInv` has, besides the types, where a sender, its thread and its
    connection can be at a time, and whom a receiver reads from (`Life`, `Linked`). `Shape`: with what the
    reader expects before the wire and what the writers still owe behind it, every header of a message
    that is not empty is followed by its data; so the size the reader goes by is the right one.
    `Flow`: what arrived, is being read, is on the wire, is in the thread's hands and is in the queue
    is, in this order, what was sent; what is left of it when the program crashed or the connection
    was reset is a prefix. `Of` picks one sender's messages out of a sequence by recursion; its
    lemmas (`OfJoin`, `OfAppend`) come from `Induction` and `Recursion`. `Shape` and `Flow` say
    nothing of a sender whose direct writes met those of its thread, and every step is shown to
    leave the streams of the other senders alone.
* **MorePartsProofs** extends `PartsProofs` in the same way with the other parts.
  * *Signal*: groups with integer ids, any slots. `GroupsOK`: groups are in order, no slot is in two places
    and each knows its index. `EmissionOK`: an emission has called every slot behind its place
    that was there when it began and is connected (`Behind`), none ahead of it (`Ahead`), and stands in its
    group where the slots it called end (`Inside`), in order and each once. Hence `EmissionsReachSlots`. Removing a
    slot swaps the last one into its place, so `OnlyMatchingTaken` follows the loop of a Disconnect
    over the slots it has yet to look at.
  * *Flag*: any arguments, types and texts of numbers. The reading from left to right and Parse agree on the part of
    the line before the parser's position: which words are flags or values of one (`Line`), the
    last value said of every flag (`SaidLast`), the arguments so far (`Listed`): `CommandLineRead`.
  * *IniConfigLoad*: names, keys, values and noise as `IniAssumption` has them, which says what can be written down at
    all (no `;` in a text, no `=` in a key, no outer blanks, no noise that looks like a section). Trimming and
    cutting off comments are shown to give back what was padded and commented; hence the map is
    what was meant after every line of the first file: `FilesRead`.
  * *BlockQueue*: an instance of `BlockQueueProofs` carries its theorem over to the behaviours
    of `MCParts` (`RoomIsNotLost`).
* **TimerProofs**. `CancelInv`: after Cancel the flag is set, and the one late callback uses up the
  only thread that had passed the test. `OneShotInv` and `SpawnInv` locate the thread. From them
  `OneLateCallback` and `CallbacksContained` (a one-shot task calls back once at most, none
  outlives the destructor). The module extends `MCTimers`, whose instances `M` and `H` are
  MultiTaskTimer and TestTime, and assumes no more than natural times and delays. `TasksAreOnTime`: a task is
  waiting, taken out or begun, never two of them (`PlaceInv`), one that was taken out is due
  (`DueInv`), and the runner's deadline is not behind any task that waits. `TimesAddUp`: the latest hit of
  the round is the last of its list (`ListInv`), and the sum of what was told ends there (`LapInv`,
  and `IntervalInv` for a place that measures itself), so that a new round or a list that was cleared starts
  where the last ended; of places hit unequally often nothing is claimed.
* **LogProofs** assumes a positive queue, that loggers, writer and destroyer differ, and that "no line" is
  no line. The invariant says what the holder of the mutex found and that it still holds (`MutexInv`,
  `DayInv`): a logger that tested `Full` pushes into no longer a queue, hence `LoggersNeverSleep`.
  `KeptInv` locates every line that must not be lost, also between the destructor's look at an
  empty queue and its Close. A line that is nowhere else was dropped by a closed stream, and a stream is only
  closed while fewer than `MAX_LINES` lines came since a failed opening (`ClosedSince`, in `LostInv`): with this
  `NoReturnedLineIsLost`. `LineInv` makes the holder's line the last accepted one
  and new to queue, hand and file; `OrderInv` orders these three places among
  each other, each direct line being in none but the file: `LinesKeepTheirOrder`.
* **PoolAndTransferProofs** holds the proofs of two components that share nothing.
  *MySqlPool* assumes finite sets, and that the checker is no client. Besides the types and the
  partition of the connections, the invariant says where
  connections can be (`HandsInv`), who holds the mutex over two steps (`MutexInv`), and who can
  be on the way to sleep after the notification of Close (`CloseInv`). Hence
  `ConnectionsStayIntact` and `CloseMissesAtMostOne`. `SleepersMissAtMostOne` adds `WaitInv` and counts connections
  against woken clients, the check's connection being the exception.
  *UdpTransfer* assumes `Packets \in [Messages -> Nat]` and natural bounds. While group ids are unique, a
  group belongs to one message and so do all its pieces (`GroupsInv`); a complete group is
  therefore merged into what was sent: `MessagesArriveIntact`, for any network and arrival order.
  `RepeatsAreCopies` rests on an account kept for each message: fragments that may still come, fragments held,
  and a full set for every delivery are together at most one set and the duplicates made so far
  (`AccountInv`). Duplicating adds one to both sides, losing takes one from the left, completing a
  group turns the set it held into a delivery.
* **RedisMgrProofs** assumes finite sets. A step of the manager is, to its pool, a call of one client, of the
  check or of Close (`PoolChange`), so the pool's invariant is proved once, of those: the partition of the
  contexts with what each stage of a command holds (`HandsInv`), the mutex (`MutexInv`), what the check has
  still to look at (`LoopInv`) and an end after which nobody comes back (`CloseInv`). Hence `EveryPathGivesBack`.
  `SleepersMissNoContext` counts free contexts against woken clients as for MySqlPool, without an
  exception since the check keeps the mutex. `CallersAreToldTheTruth` is an action property: with the store
  in one of its forms (`StoreInv`) it is proved command by command, in lemmas for those that answer with a
  number or a status, those that read, those that add and those that take.
* **TcpServerProofs** assumes natural numbers of sessions and of contexts (at least one), requests that have
  data, and queues of any size. A request is followed by its number through the seven places it can be
  at: the wire or the reader's hands, the handler that pushes it, NetLogic's queue, NetLogic's thread, the
  session's queue, its write thread, the client. Every step takes the oldest number of a place to the end of
  the place before it (`Advances`), drops it, or leaves the places alone, so all numbers of one place stay below all of the
  places behind it (`OrderInv`). `WireInv` and `ReaderInv` say that, while no header was raced for, the
  reader is at a header or has the data of one request in front; `GapInv` that nothing is missing
  between a request in hand and the next to be read; `ContentInv` that data and frames are those of
  the request with that number. Sessions of the same context share a pool thread, so every
  step is also shown to leave the other sessions alone (`Untouched`). The invariant speaks of the places,
  `AnsweredInOrder` of the one sequence `Pipeline`: `PipelineIs` joins the places to it. Hence
  `EveryClientIsAnsweredInOrder`; that a header can only be raced for by a client that is ahead
  of its answers (`RacersAreAhead`) follows from the same order.

Counters bounded for TLC (`MaxIds`, `MaxCalls`, `MaxDuplicates`, `MaxRestarts`) are arbitrary
natural numbers in the proofs (`MaxCalls` above one).

Only model-checked: everything about liveness and ENABLED, which the prover does not reach
(`SleepersAreServed`, `CloseReleases`, `ExchangeCompletes`, `MessagesAreHandled` and their like); EchoGate, of which
only such a property is claimed; and Json and NifixExpression (`TextsReadBack`, `EvaluatesAsWritten`), whose
recursive operators are out of the prover's reach.

## 7. What is not modelled

Left out inside modelled components:

* Files that do not compile as they stand are modelled in their evident reading: `MysqlPool.hpp` lacks a
  semicolon (line 54); `RedisPool::Close` joins a member that does not exist; `RedisMgr.hpp` has a
  function without return type and an undeclared class; `TCPManager.hpp` holds merge markers whose
  sides agree, and calls `connect()` for `startConnect()`. `BlockQueue::Clear` calls a member
  `std::queue` does not have, so nobody can use it.
* Undefined behaviour that ends what can be said: an emission after its iterators dangle, a second
  `AsyncWait` on a running Timer, `IdGenerator` and `RedisMgr::Inst` destroying an object that
  another thread is inside of.
* The insertion into `_sessions` without the mutex is taken as atomic, before or after a lookup.
  What a pool thread does in a session that was freed, or with a server that was destroyed, is
  undefined behaviour: the model drops the session's read and lets the rest go on.
* `~NetLogic`, whose thread would call a pure virtual function if it still had messages, and
  `AsioIOContextPool::Stop`: both come after `~TCPServer`, which returns only where no session is left.
* A second call of `Connect` of a TCPSender from outside; nothing makes one.
* What NifixExpression makes of texts that are no expressions, and overflows of int in it.
* `IniConfigLoad` from more than one thread: the map has no lock. Values are text; what `GetValue`
  converts them to is left out.
* The units of TestTime and the file it writes; `Interval` from more than one thread.
* Two overlapping `Send` calls of one UdpSender; datagrams of another origin.
* Json: Unicode escapes, exponents, doubles finer than they are printed, `Value`'s accessors.
* Moving a Signal; blocking single slots, which its interface gives no handle for.
* What RSA, AES and the servers compute, formatting, the console, log levels.

Components left out: stopwatches and test helpers (one clock reading), `Singleton` and `Defer`
(language features), pure I/O (`FileReader`, `FileWriter`, `Broadcast`, `Finder`, `TCPClinet`),
formatting and system calls (`Date`, `System`, `HexLook`, `FFHelp`, `StringFunc`), OpenSSL wrappers
(`crypto`), declarations without code (`Math/big`), `BinaryTree` and `PrefixTree`, which do not
compile and are used nowhere, `base64` and `HexCov`, table lookups that nothing in the library calls,
`netMsgNode` (a record) and an exercise (`Learn`).

## 8. Order and plan

The modules were written from the piece everything concurrent rests on outward: BlockQueue and its
proofs; SnowWorker; the timers; Log over BlockQueue; the pools over their common part; UDP; the
TCP server over the abstract queue; TcpManager and EchoGate over it; then Signal, Buffer, Flag and
Json; TestTime, IniConfigLoad and NifixExpression. Next, most valuable first:

1. Proofs: that `MySqlPool` implements a pool that hands each connection to one client at a time; what
   Json's generator writes as recursive functions, so that `TextsReadBack` can be proved.
2. Json's Unicode escapes with their surrogate pairs, and the accessors of `Value`.
3. `AsioIOContextPool::Stop` and `~NetLogic`; `base64` and `HexCov` as a part of `MCParts`.
