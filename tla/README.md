# AdbClient: a TLA+ verification project

AdbClient talks to the adb server on 127.0.0.1:5037. A program makes a client
object (`HostCommand`, `HostSerialCommand` or `LocalCommand`), calls
`createsocket()` on its TCP client, and then calls one command method after
another. Each method sends a request on a connection of its own and blocks until
the server has closed that connection. Two threads are involved: the caller,
and the event-loop thread of the TCP client, which runs the callbacks.

These modules say how those two threads and the server interact, and how a
reply is read; TLC checks them on small instances, and TLAPS proves the most
important properties for every value of the constants.

## 1. Inventory

| Component | State | Operations | Interacts through | Hard behaviour |
|---|---|---|---|---|
| `AdbCommand` (adb_command.cpp) | `m_command_finished`, `m_mutex`, `m_cv`, `m_command` | `waits`, `weak_up`, `resume` | the flag is cleared by the caller, raised by the loop thread | the flag is cleared with no lock, notified outside the lock: the one who is woken may be gone before the notify |
| `HostCommand`, `HostSerialCommand`, `LocalCommand` | `m_command`, the local `status`, output strings, the callbacks installed in the client | 26 commands of the same shape; `track_devices` | callbacks that capture locals by reference | callbacks that outlive the command, a connection that is opened twice |
| adb_protocol.cpp | none; reads libhv's buffer | `read_protocol_string`, `respond_transport_command` | called for each TCP chunk | the stream may be cut anywhere, and each chunk is searched for a header; C strings are read past the chunk |
| `TcpClient` (TcpClient.h) | `channel`, settings, the count and delay of its retries | `createsocket`, `startConnect`, `start`, `stop`, `closesocket`, `startReconnect` | called by the caller and, through the functor queue, by the loop; a reconnect timer of the loop | `startConnect` runs on both threads without a lock; a timer that outlives what it was armed for |
| `Channel` (Channel.h) | `status`, `io_`, callbacks | connect, read, write, close | libhv callbacks | asynchronous close, destruction while open |
| `EventLoop` (EventLoop.h) | `loop_`, `customEvents`, `timers`, status | `run`, `stop`, `postEvent`, `runInLoop`; `setTimer`, `killTimer`, `resetTimer`, `onTimer` | eventfd and timers of libhv | `loop_` becomes NULL while the thread still runs; two accounts of each timer; callbacks that kill or reset their own |
| `EventLoopThread` | status, `thread_` | `start`, `stop`, `join` | | start and stop racing with the thread's own status changes; `stop()` before the loop was entered |
| `EventLoopThreadPool` | status, threads, two counters, `next_loop_idx` | `start`, `stop`, `join`, `nextLoop` | its threads count themselves in and out | the last thread sets a status that `start` and `stop` set, too |
| `TcpServer` (TcpServer.h) | `channels`, `mutex_`, the acceptor's thread, `connectionNum` of each loop | `start`, `stop`, `onAccept`, `newConnEvent`, `onclose` | the acceptor posts each connection to a loop of the pool; `AdbCommand` has one as a member and never starts it | a limit tested before the insertion; connections on their way to loops that stop |
| `TimerThread` | an `EventLoopThread` | the timers of its loop, from another thread | as `EventLoop` | a call can be overtaken by one made on the loop |
| `UdpClient`, `UdpServer` | | | not used by the programs | |
| utils.cpp, device_info.cpp, stringprintf.cpp | none | parsing and formatting | the text of `get_devices` and its kind | short lines, lines without newline, names of two words |
| main.cpp, unittest | | scripts of commands | | ending with and without `stop()` |

What makes each correct:

* the latch: a caller leaves `waits()` only when the flag is raised, and is never
  left asleep when it is;
* a command: it gets the reply to its own request, the whole reply, and the
  server is asked once; it reports success only if the server answered; it
  returns, whatever the network does;
* the client object: no callback runs on a command, a latch or a loop that is
  gone; `start()` returns with a running loop, `stop()` with none;
* `track_devices`: the caller that waits has the newest list, or will be woken;
* the lists of devices: what the server lists is what the program reads, as far as no character is lost on the way;
* timers: the loop's account and libhv's agree, every callback that was asked for
  is given, and none after a kill;
* reconnecting: the client tries for as long as it is told to, with the delays
  it announces, in one chain of timers and not in several, and `closesocket()` ends it;
* pool and server: the status that is set by counting is true, the counters that
  choose a loop count what they are said to count (and what was turned away or dropped), the limit holds, a connection is lost only to `stop()`,
  which leaves neither thread nor channel;
* the protocol: the text handed to the caller is the message, each byte once; a
  FAIL is a failure; client and server do not wait for each other.

The hazards, each at its line with the properties that cover it, are in
PROJECT.json.

## 2. Modules

| Module | What it is |
|---|---|
| `Latch` | abstract: a binary latch (clear, raise, arrive, leave) |
| `CommandLatch` | `waits`, `weak_up`, `resume` step by step; implements `Latch` |
| `CommandLatch_proofs` | its invariant and the refinement |
| `AdbProtocol` | what the callbacks make of one chunk |
| `AdbCommands` | the 26 commands as records: initial status, reader, use of the text |
| `CommandSession` | one client object: caller, loop thread, connection, from the first command to the destructor |
| `CommandSession_proofs` | its invariants |
| `ReplyReader` | one reply, byte by byte, cut into chunks by TCP |
| `ReplyReader_proofs` | its invariants, for messages of any length |
| `TrackDevices` | the command that does not wait, and the loop around it |
| `TrackDevices_proofs` | its invariants |
| `LoopThread` | abstract: a thread that comes up and ends while it is asked to |
| `EventLoopThread` | start, stop and destruction of the loop thread; implements `LoopThread` for one user |
| `EventLoopThread_proofs` | its invariants and the refinement |
| `EventLoopTimers` | the timers of a loop: their calls from inside and outside, the functor queue, libhv's heap |
| `Reconnect` | extends `EventLoopTimers`: a client that reconnects, beside other users of its loop |
| `Reconnect_proofs` | the invariants of both |
| `EventLoopThreadPool` | start, stop and counting of the pool's threads, choice of a loop |
| `TcpServer` | extends `EventLoopThreadPool`: acceptor, connections, channels |
| `TcpServer_proofs` | the invariants of both |
| `DeviceList` | the functions of utils.cpp on the text of a list of devices |
| `DeviceList_proofs` | its invariants, for texts of any length |
| `MC...` | instances for TLC |

The modules meet in the following way. `CommandSession` takes from `AdbCommands`
what distinguishes the commands and from `AdbProtocol` what a chunk does. Of the latch it
has the flag, which changes as in `Latch`, which `CommandLatch` implements, and its lifetime, which `CommandLatch` has not; its loop
thread comes up in `Start` and has ended in `Join`, as in `LoopThread`, which `EventLoopThread` implements for one user.
`ReplyReader` and `TrackDevices` read chunks with the operators of `AdbProtocol`, too. `Reconnect`
and `TcpServer` compose a component with the one it runs on: their actions are those of the timers
and of the pool, and their own.

### CommandLatch

`pc` says where each thread is. `waits()` is `Waits` (call), `WaitLock`
(unique_lock, and relocking after a wake-up), then either `WaitReturn` or
`WaitFalse` and `Block` (the two halves of `m_cv.wait`: test, then sleep and
unlock in one step). `SpuriousWake` is what the C++ standard allows. `weak_up()`
is `WeakUp`, `WeakLock`, `WeakSet`, `WeakUnlock`, `NotifyAll`. `Resume` is the
unlocked store of 0, by a caller that is not waiting. `m_mutex` is the set of
its holders, so that mutual exclusion is something to prove.

Refinement: `flag <- m_command_finished`, `waiting <-` the callers inside
`waits()`. `WeakSet` is `Raise`, `WaitReturn` is `Leave`, the rest stutters.

### AdbProtocol and AdbCommands

All commands have the same body: set `m_command`, install the callbacks, clear
the flag, `startConnect()`, `start()`, `waits()`, return `status`. They differ in the
request, the initial `status`, the way a chunk is read and what is done with the
text; `AdbCommands` has one record per command for the last three. A chunk is
abstracted to what the code looks at: shorter than, equal to or longer than
four bytes, and beginning with OKAY, FAIL or something else.

### CommandSession

| Actions | Code |
|---|---|
| `SetCommand`, `SetCallbacks`, `ClearFinished` | the first lines of a command |
| `CallerCheck`, `CallerCreate`, `CallerCreateFails`, `CallerTest`, `CallerConnect` | `startConnect()` on the caller's thread: the first test of `channel`, `createsocket`, the second test (TcpClient.h:107), the connect |
| `Start` | `TcpClient::start()`: starts the thread or posts a functor |
| `Return` | the end of `waits()` and the return |
| `StopCloseSocket`, `StopLoop`, `Join`, `DestroyLatch` | `stop()`, the destructor, and the destruction of `m_cv` and `m_mutex`, which comes before that of `m_tcp_client` |
| `RunStartConnect`, `LoopCreate`, `LoopCreateFails`, `LoopTest`, `LoopConnect` | the same `startConnect()` on the loop thread |
| `RunCloseSocket`, `LoopExit` | the posted `closesocket`, and the end of the loop |
| `OnConnect`, `OnRead`, `OnClose` | the events of the connection, with the callbacks of the first two |
| `WeakUp`, `NotifyAll`, `CloseReturns` | the callback of a connection that has closed, from whatever step closed it: the flag and the unlock (adb_command.cpp:12-16), the notify (17), and what is left of the callback after it (host_command.cpp:37, TcpClient.h:154) |

The loop thread that is in a close callback (`callback`) takes no other step, but the caller does: it can find the
flag raised, return, issue its next command, or end the object, while the notify and the rest of
the callback are still to come. What it destroys under the callback, the channel by `createsocket()` or
the latch, is noted in `overtook` until the callback has ended. `Overtakes = FALSE` is the schedule on which no
command returns before the callback has. The sleep of the caller is not here: `Return` needs the
flag only, as `waits()` does, and that a sleeper is woken is the matter of `CommandLatch`. That `set_client_on_connection_callback`
assigns a `std::function` the loop may be returning from is left out: nothing of the old one is read any more.
Of the connection the model keeps its
state, the call whose request it carries and how much of the reply was read.
libhv is external: a connect can succeed or fail, `connect()` on a connected
socket fails and closes it, the loop closes what is open when it ends. The
functors posted to the loop arrive through an eventfd, the socket's events
through the socket; with `FunctorsFirst = FALSE` the loop takes them in any
order, with `TRUE` functors first. Undefined behaviour (a callback on a dead
frame, a dead latch, a dead channel, a NULL loop) is recorded in `undefined` and the model goes on as if it
had done no harm: the properties speak of builds in which it does none. `NoUndefined` says that, `late` apart, there is no other
than the caller's overtaking of a callback that still has to use what it destroys: a race of the code
that cannot be excluded, since the caller is woken before the callback ends. With `Overtakes = FALSE` there is
none at all (`DefinedUnlessOvertaken`). The server's duties are only: it may
refuse, drop, or answer and close.

The variables `asked`, `got`, `failed`, `starved`, `late`, `overtook` are history: they
appear in properties and in no guard of the code. `late` deserves a word. A
command calls `startConnect()` twice, once itself and once through `start()`. The
second call is superfluous unless the first got no socket, and normally does
nothing because the connection is open. But if the connection has already come
and gone, it opens another one. This is a defect (run `session_duplicate_start`),
and after it almost nothing can be said: hence the premise `~late` of four
properties. Without the defect they hold, and they hold in all runs of the
program in which the caller gets from the one call to the other and the loop
to the functor before the server has closed. `NoStuck`, `CallReturns` and
`StopReturns` have no such premise.

### ReplyReader

A byte is its position in the server's stream, a text a sequence of positions.
The stream is made of writes: status word; length and message; raw output.
The `delivery` of a conversation says what a chunk can be: one write, several writes, or
any piece. `LayoutIsRead` is what the comment in adb_protocol.cpp promises; `ReplyIsMessage`
claims it for the deliveries in which it holds, and not for a chunk of image data of four
bytes, which screencap takes for a status word (`Orderly`).
The buffer is kept from chunk to chunk, because the code reads C strings past
the end of a chunk, and relies on the `memset` at the end of each callback.
The reading of a chunk is the one of `AdbProtocol`, with `cursor`, `sink` and `writes`.
The server is external and is what the comment in adb_protocol.cpp and the
callbacks take it to be; it waits for the service request after its first OKAY.
Text that happens to begin with OKAY or FAIL is left out. The server's `answer` is
OKAY, FAIL to the first request, or (`noservice`) FAIL to the service request of a
transport that it has accepted.

### TrackDevices

`track_devices` returns at once (`Track`; its caller goes on to `waits()`). The callback runs in
three steps, `OnRead` (clear), `AppendList` (`read_protocol_string`) and `WeakUp`, any of which may come between
the caller's `WaitsReturn`, `CopyBegin`, `CopyEnd` and `Resume`. A copy that races with a write gives
any text. The connection may be refused or lost (`OnClose`), and the second
`startConnect()`, which `start()` posts, then opens another (`RunStartConnect`). A list is a number;
`torn`, `lost` and `overtaken` are history. The callback also writes the local `status` of
the call that has returned; this is left out, since what it overwrites is not
in the model.

### EventLoopThread

A user is in one of `start` (`StartCheck` ... `WaitStarted`), `stop` (`StopCheck` ... `Join`) or the destructor, which
is `stop`, `join` and then `~EventLoop`. A created thread goes through `Begin` ... `End`. The tests and assignments
of the four shared variables `status`, `loop_status`, `loop_`, `thread_` are steps of their own, so that each test
is followed by a use of what may have changed: `RunCheck` and `HloopRun` read `loop_` twice (EventLoop.h:50 and 54), `LoopStopCheck`,
`LoopHalt` and `LoopForget` test, use and clear it. Only `tid()` reads `loop_` twice in one step (`StopTid`).
What `stop()` learns from it is kept in `own`: with a NULL `loop_`, or a loop that nobody has entered and that the caller
has made (`Creator`), the tid is the caller's own, and `stop()` does not join (EventLoopThread.h:64,68).
libhv is external: its loop frees itself when it ends, and whether it honours a stop
that comes before `hloop_run` is left open. What would end the program or be undefined is recorded in
`broken`.

`Hasty = TRUE` lets a user stop a thread before its loop has run anything. `start()` returns when the
loop's status is `kRunning`, which is before `hloop_run`, and a `stop()` that comes in between can return
without joining, hand NULL to `hloop_run`, or be overlooked by the loop: `Sound`, `StopBlocks`, `CallsReturn` and
`ImplementsLoopThread` all fail then. The programs are not hasty: main.cpp and the tests stop a
client after a command has returned, and what wakes a command is a callback in this loop. The run and
the theorems are about them (`Hasty = FALSE`).

Refinement (one user, no restart, not hasty): `call <-` the call it is in, `stop` for the destructor, too;
`phase <-` up from the step that sets the loop's status to `kRunning` to the last of the thread. The other
steps of the two status machines are stutters.

### EventLoopTimers

A timer has an entry in `timers` (the loop's, with its own count of repetitions) and an `htimer_t` (libhv's, in
`htimers`, freed when it expires for the last time). `OnTimer` is `onTimer` up to the callback, `TimerDone` the
rest; in between `UserSets` and `UserCalls` with `inside` are the calls that the callback makes, on any timer, its own included.
They take effect at once; a call from outside is a functor, which `RunTimerFunctor` runs in the order of
the queue. Ids are 64-bit numbers that only grow; an id that nobody can name any more is used again
here, with the smallest first. libhv is external: which timer expires next is left open, and its
`htimer_reset` revives an `htimer_t` that has just expired for the last time. `owed`, `killed` and
`overtaken` are history. `TimerThread` is the case in which all calls come from outside.

### Reconnect

The client's loop is running. `Start` and `CloseSocket` are `start()` and `closesocket()` on the caller's thread, which post a
functor; `RunStartConnect` and `RunCloseSocket` run it. `OnConnect` and `OnClose` are the callbacks of the channel with
`onconnect` and `onclose`, `startReconnect` counts the retry, computes the delay and sets the timer,
`Retry` is that timer with `startConnect()` as its callback. The server may go down and come back,
connections may drop, `::socket` may fail. `row` counts the closes since the last connection,
`ran` the calls of `start()` that the loop has run.

### EventLoopThreadPool and TcpServer

One user calls `start()` (`StartPool`, `Create`, `PoolStarted`, `StartAcceptor`, `StartReturns`) and `stop()` (`StopAcceptor`, `StopPool`, `Tell`,
`Join`, `StopReturns`). A thread is created, counts itself in (`Pre`; the last one then sets the status, `PreLast`), runs, is
told to stop, and counts itself out (`Post`, within `WorkerEnds`). A connection is accepted and given to a
worker (`OnAccept` with `NextRoundRobin` or `NextLeastConnections`), compared with the limit (`CheckLimit`), inserted (`AddChannel`),
closed (`OnClose`, `RemoveChannel`). Each use of the mutex is a step, and between the two of a handler other
threads may run; a worker runs one handler at a time (`Busy`). A functor posted to a loop that was
told to stop, or not run by it, is dropped. A handler that has passed the limit when its worker is told to stop
hands libhv a NULL loop (`nullLoop`, TcpServer.h:203): what then happens is undefined, and in the model the handler and its thread
stay where they are (`astray`). So `StopCleans` and `CallsReturn` have `~nullLoop` as a premise, and
`OnlyStopLoses` says when it can come to that. A second start makes new threads, whose loops know no
connection.

### DeviceList

The operators are the functions of utils.cpp; `get_device_info_from_buf` splits the text into lines, `DeviceOf` one line into words,
and `Info` takes the fields out of these. `Receive` is the callback of `get_devices` or
`get_devices_with_path`: it appends what `read_protocol_string` makes of a chunk, and the latter then removes repeated spaces from the whole text
if the status is not -1. The reply (`Stream`) is cut anywhere, and most cuts cost characters: of a chunk that is not the first, four
are taken for the length when it is longer than three, or eight when it begins with OKAY or FAIL, as a serial may. `Harmless` names
the cuts that cost nothing: OKAY and the rest apart or together, as the server writes them, and then at most three
characters at a time. `torn` is history: some cut was not harmless. `ParsedBack` and `WholeLines` speak of replies that are not
torn; what a torn one comes to is the matter of `reply_layout`. `CleanedOnce` holds of all.
The server's two formats are external; in the long one every line has its four fields.
`Chars` is what texts are made of; a serial and an id are words (`FormatAssumption`), or the format itself would be ambiguous.

## 3. Runs

| Run | Shows | Bounds |
|---|---|---|
| `latch` | no lost wake-up, no sleeper overtaken, waiters return, refinement | 2 callers, 1 loop, 3 `weak_up`, 4 `waits`: each caller can wait, be woken, clear and wait again |
| `session_faults` | own reply, asked once, no undefined behaviour but for what an overtaken callback meets, never stuck, success means an answer; every command returns, `stop()` returns | 3 commands, all faults; a start posted by one command can be run in the next and disturb the third, and each may overtake the callback that woke it (635 847 states) |
| `session_duplicate_start` | violation: HostCommandTest fails on a good network | its 3 commands, functors first |
| `reply` | every reader collects exactly the message when each write is a chunk, the host services also when writes arrive together; no standstill; under any segmentation no stale byte | payloads 0 to 8, around the word size of 4 and its double, 0 to 14 for writes together, 0 and 3 for all cuts |
| `reply_layout` | violation: a header cut by TCP | one reply |
| `reply_fail` | violation: FAIL, then its text, gives status 0 | one reply |
| `track_devices` | a list is missed only when `resume()` erases its wake-up | 3 lists, the connection may fail: one that is missed can be followed by one that is not |
| `track_devices_test` | violation: the test's first wake-up with an empty text | one list, no fault |
| `thread` | `start()` returns with a running loop, `stop()` with none, nothing is used after it was freed, calls return, refinement | one user that is not hasty, 5 calls: also a second start, a second stop, and a destructor with and without them |
| `reconnect` | timers: the two accounts agree, all callbacks and none after a kill; client: one chain per start, keeps trying, backs off as announced, runs out after `closesocket()` | 2 ids; three mixtures of calls: 2 timers with 3 calls on them; a client with 2 starts, a close, an outage, 2 drops and a failing `::socket`; a client beside a timer. Repeats 1, 2 and INFINITE, `max_retry_cnt` 3 and INFINITE, `max_delay` 10: a timer can be reset or killed before, in and after its last callback, and two chains can meet (74 923 states) |
| `server` | the status is true, the limit holds, the counters count what is under way and what was turned away or dropped, connections are lost and a NULL loop is used only under `stop()`, which otherwise leaves nothing; calls return | 2 workers, 2 starts, 3 connections, limit 1, both policies: the limit is reached, exceeded by the other worker, reached again (14 620 states) |
| `device_list` | spaces are removed as if once; lists are read back, and only whole lines, where no character is lost | up to 2 of 2 devices, one with three spaces of padding and a serial that reads like a status word; 4 chunks, cut anywhere: OKAY, a piece, and two more that meet inside a run of spaces (441 196 states) |

The type invariants are proved, and not repeated in the runs; only that of `ReplyReader`, which says
that the read buffer is clean between two callbacks, stays in its run.
The runs were also made with them, and with the inductive invariants, before these were proved.

Deadlock is not checked because every one of these systems may stop: a program
ends, a conversation ends, a latch that nobody raises any more is waited on.
What must not stop is stated as liveness.

Three commands are enough for the sessions because a functor is posted by one
command and can outlive it; the theorems remove the bound.

### Violations

1. *A command is started twice* (host_command.cpp:100-101 and the same lines of every
   command). In the counterexample functors have precedence and nothing fails: the
   caller of `get_devices` is held up between `startConnect()` and `start()` until the
   server has replied and closed; the posted `startConnect()` then reconnects and
   repeats `get_devices`, and the close of this connection ends the wait of
   `get_devices_with_path`, which returns with an empty list.
2. *The layout is looked for in each chunk* (adb_protocol.cpp:15).
3. *FAIL is forgotten* (adb_protocol.cpp:30 and 59) when its text comes in a chunk of its own.
4. *track_devices wakes its caller too early* (host_command.cpp:188), after an OKAY without a list.

More disagreements have no run, most of them because they lie outside what the programs do.
Each is seen by one change of a constant:

* *shell drops output* (local_command.cpp:63) that comes together with OKAY: in `ReplyReader`, with coalesced
  deliveries of `shell` among the `Cases`, `ReplyIsMessage` fails.
* *start(false) and stop(false)* of the server (TcpServer.h:282 and 302): with `Waits = {TRUE, FALSE}` a thread's late
  `kRunning` overwrites `kStopping` (none of this can happen with `{TRUE}`), and `StatusTrue`, `StopCleans`, `OnlyStopLoses` and `CallsReturn` fail; `LimitHeld` and
  `CountersExact` hold all the same.
* *start() after stop()* (EventLoopThread.h:52): with `Restart = TRUE` `StartedRuns` fails. The
  loop's status says `kStopped`, which is past `kRunning`, and `loop_` is NULL, so `start()` does not wait and
  the new thread ends at once. A command issued then would wait for ever.
* *stop() right after start()* (EventLoopThread.h:62-69): with `Hasty = TRUE` `Sound`, `StopBlocks`, `CallsReturn` and
  `ImplementsLoopThread` fail, as section 2 says.
* *start() and stop() are not thread-safe* (EventLoopThread.h:46): with two `Users` `Sound` fails.
  Two starts create two threads; with a start and a stop the assertion of
  `loop_thread` fails, or the thread runs an hloop that was freed.
* *The state "no permissions"* (utils.cpp:48) is read as `no`: with a device in the state `kCsNoPerm` among
  `Devices` `ParsedBack` fails.
* *A kill that overtakes the functor that sets its timer* (EventLoop.h:163), a handler that finds the loop of its
  worker gone (TcpServer.h:203), and a counter that goes on counting what was turned away (TcpServer.h:194-199) need no
  other constant: these are written into `KilledStaysDead`, `OnlyStopLoses` and `CountersExact` as what the code does. The properties say that nothing else
  goes wrong, not that this does not.

### Fairness

Weak fairness of the caller's steps inside a command, of the loop's functors and
exit, of a close callback that has begun (`Callback`, not held up by anything but the mutex of
the latch), and of `stop()` and `join()`: threads run. Of `OnConnect` or `OnClose`: a connect
is decided, if need be by libhv's connect timeout, and a connection that is
over is closed. Of the last chunk of a reply: the server answers a request and
closes; the sockets have no read timeout, so without this a command can wait
for ever. No fairness for issuing a command, clearing the flag, spurious
wake-ups, or ending the object. In `CommandLatch` weak fairness of taking the
mutex suffices because `MaxWakes` and `MaxWaits` bound the contention; this run
checks the code of the latch, not the scheduler. In `ReplyReader`: TCP delivers. In `TrackDevices` the caller and a callback that has
begun go on; the server need not send. In `EventLoopThread` threads run; nobody needs to call.
In `Reconnect` the loop takes in every turn the events that are pending and the timers that are due, so that none
is passed over for ever although others may come first and a callback may occupy the loop (strong
fairness of `RunFunctor`, `Due(i)` and `OnConnect`); a callback ends, and a server that is down comes
back: that is when "keeps trying" means something. In `TcpServer` threads run, a posted functor is run, and a loop that was told to
stop closes what it has open; no connection needs to be made or closed otherwise.

## 4. Proofs

All theorems hold for every value of the constants under the assumptions in the
modules: `LatchAssumption` (callers and loop threads are different, the bounds are
naturals), `SessionAssumption` (a finite script of known commands, a subset of
the faults, two Booleans), `ReplyAssumption` (known commands, messages of any length that leave room in the buffer),
`ReconnectAssumption` (any `max_delay`; no limit on the retries, or one that the model counts up to), `ListAssumption`
and `FormatAssumption` (the lists that the server can send), and those of the other modules, which say that bounds are naturals.

*CommandLatch.* `NoLostWakeup` is not inductive by itself. The invariant `IInv`
adds that the mutex is held exactly by the threads in a locked region, one at
most, and that a caller about to sleep sees the flag 0: while it holds the mutex
nobody can raise the flag, and clearing it does no harm. So a caller asleep
while the flag is 1 was asleep when it was raised, and the raising thread has
not notified yet. Theorems: `Invariance`, `TypeCorrect`, `NoWakeupIsLost`, and
`LatchRefinement` (`Spec => AbstractLatch!Spec`).

*CommandSession.* `WakeInv` says why a waiting caller will be woken: a connection will close, or the close
callback has not yet set the flag, or it is set. It is
inductive with superfluous starts and overtaken callbacks included, and gives `NeverStuck`. The other
theorems need to know that the connection keeps step with the caller: quiet
between commands, open while a call waits, closed exactly when the callback that
raises the latch has begun (`CallerPhase`); that the loop works on the connection only for a call
that got no socket (`LoopPhase`); that each call has posted one start, and one
that is needed finds the call as it left it (`QueuePhase`); and whose request and
reply the connection then carries (`Data`). Their conjunction `Clean` holds until a
superfluous start takes effect, `CleanInv == ~late => Clean` is inductive, and
`OwnReplyOnly`, `AskedOnce`, `Defined` and `SuccessMeansAnswer` follow from it. `Clean` also says that what is undefined
has been noted in `overtook`, which only a caller that overtakes fills: hence `DefinedUnlessOvertaken`.

*ReplyReader.* The buffer is all NUL between two callbacks, because each clears what libhv wrote into
it (`TypeOK`). So the C string that a callback reads, past the end of the chunk even, ends where the chunk
ends (`CStringIsFresh`), and a text only grows by bytes not read before (`NothingIsStale`).
For `MessageIsRead` (`ReplyIsMessage`) one has to know where the stream can be cut. It is one to three OKAYs, then, for two of the readers,
the length, then the text (`AnswerLayout`). In an orderly conversation a chunk is one OKAY, or all that follows the
OKAYs, or, for a service of the host, the whole (`OrderlyChunk`). So the status is 0 from the first chunk on, nothing is kept
before the last one (`LayoutInv`), and this one is read as the message, whole.

*EventLoopThread.* `TypeOK` for any number of users; the rest for one user that does not restart and is not hasty, under the
assumptions that say so, and any number of calls. The invariant says that the system is in one of five phases: not started, coming up, running,
stopping, ended. Each names, for every position of the user and of the one thread there is, the values
of the four shared variables. From it `Sound`, `StartedRuns`, `StopBlocks` and `ThreadRefinement` (`Spec => Abstract!Spec`).

*TrackDevices.* `StaleOnlyIfOvertaken` needs that the flag is raised whenever a chunk came since the caller's
copy, or a callback is under way that will raise it; `FirstListSeen` that no wake-up precedes the first list.

*TcpServer.* For every `Waits`: the threads are counted exactly (`started_cnt` is the number of those that
have started, `exited_cnt` of those that have ended); a worker has one connection at most between two
uses of the mutex; channels and workers that have passed the test of the limit are together at most the
limit and `ThreadNum - 1`, which is what makes `LimitHeld` inductive. With `Waits = {TRUE}`, the default of `start` and `stop`,
the steps of a call follow each other: acceptor and pool are in the phase that the position of the user
says, which gives `StatusTrue`, `StopCleans` (without a NULL loop) and `OnlyStopLoses`.

*Reconnect.* Of the timers: an id in the queue was issued and is set at most once, an entry that is
gone and was not killed owes nothing, an entry and its `htimer_t` have the same count
(`BooksAgree`, `AllCallbacksGiven`, `KilledStaysDead`). Of the client: its timers have the repeat count 1, users cannot name them, and
each close arms one timer for the connection it takes away (`OneChainPerStart`, `StillTrying`).
`cur_retry_cnt` is the number of closes in a row whatever led to them (`Backoff`), and doubling the n-th delay, up to
`max_delay`, gives the next (`NextDelay`): hence `BacksOff`. `ClosedRunsOut` is an action property; only `OnClose` arms a
timer, and only while `reconn_setting` is there, and only a retry or a start opens a closed connection.

*DeviceList.* The text may have any length, and what `string_split` and `unique_spaces` make of it is shown character by
character: the set of the lengths for which a statement holds contains 0 and the successor of each member, hence every number
(`SetInduction`, from the well-foundedness of `<`; `AppendInduction` says the same of sequences). Cleaning a text
whose beginning is clean already changes nothing (`CleanedFirst`): that is the step of `CleanedOnce`. While the cuts are
harmless, what was collected is the text up to where the reply has arrived (`Untorn`, `HarmlessResult`, from what `read_protocol_string`
makes of a piece of the stream, `Result` and `BehindHeader`). Cleaning
or splitting a longer text begins as for the shorter one (`CleanedGrows`, `WordsStay`), which gives `WholeLines`.
For `ParsedBack` the cleaned text is the list of the cleaned lines, splitting it gives these lines (`FlattenLines`), and each
line is read word by word (`NextWord`, `FieldFacts`, `ShortLine`, `LongLine`). This theorem has the premise that no device is in
the state `kCsNoPerm`, whose name has two words; with it the property is false (section 3).

Only model-checked: liveness, which is beyond the prover (`WaitersReturn`, `CallReturns`, `StopReturns`,
`ConversationEnds`, `ListIsSeen`, `CallsReturn`, `KeepsTrying`). Every other property of the passing runs is a theorem.
`FailIsReported`, `LayoutIsRead` and the other claims of the violating runs are false.

## 5. Not modelled, and what is left

Ideas for further work: an abstract specification of a command (asked, answered, returned) that `CommandSession` implements
for as long as no superfluous start takes effect; the safety of several `Users` of a thread, once the code has a lock there.

Left out:

* `UdpClient` and `UdpServer`: nothing here makes one, their threads are those of `EventLoopThread`, and what is
  left is a mutex around one call of libhv;
* of `TcpClient` and `TcpServer` TLS, `send` and `broadcast`, unpacking, and `stopAccept`: no program uses them;
* of `EventLoopThreadPool` `LB_Random`, of which nothing could be claimed, and the pool of no thread;
* of `EventLoop` `pause` and `resume`, which only pass on to libhv;
* of `Channel` reading modes, timeouts, heartbeat and context pointers, which the commands do not use;
* logging, the formatting in device_info.cpp and stringprintf.cpp, and the text of requests;
* libhv, whose submodule is not in the repository: it is modelled from how the headers use it.
