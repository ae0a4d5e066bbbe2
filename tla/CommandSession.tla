-------------------------- MODULE CommandSession --------------------------
(***************************************************************************)
(* A client object (HostCommand, HostSerialCommand or LocalCommand) that   *)
(* runs one command after another, with the two threads that work on it    *)
(* and the adb server at the other end:                                    *)
(*                                                                         *)
(*   caller  the thread that calls get_version, shell, ... : it sets the   *)
(*           request and the callbacks, clears the latch, connects, starts *)
(*           the client, waits, and in the end stops and destroys it;      *)
(*   loop    the event-loop thread of the TcpClient: it runs the functors  *)
(*           posted to it and the callbacks of the connection;             *)
(*   server  accepts or refuses, replies, closes.                          *)
(*                                                                         *)
(* TcpClient::startConnect runs on BOTH threads, on the same `channel`,    *)
(* without a lock: every command calls it and then calls start(), which    *)
(* has the loop call it again.  It is split here: its two tests of the     *)
(* channel, the creation of a socket between them, and the connect.        *)
(*                                                                         *)
(* The callback of a closed connection is split too: it wakes the caller   *)
(* before it ends, and the caller may issue its next command or destroy    *)
(* the object while the rest of the callback still has to run.             *)
(*                                                                         *)
(* Assigning to `channel` destroys the channel it held (~Channel closes    *)
(* it), so that one connection exists at any time and the variables below  *)
(* describe that one.                                                      *)
(*                                                                         *)
(* The functors reach the loop through an eventfd, the events of the       *)
(* connection through its socket.  The code says nothing of their order;   *)
(* FunctorsFirst selects whether the loop serves the eventfd first or      *)
(* takes the two in any order.  Nothing in the code keeps a command from   *)
(* returning as soon as the flag is raised; Overtakes = FALSE is the       *)
(* schedule on which it never does before the callback has returned.       *)
(***************************************************************************)
EXTENDS AdbCommands, Sequences

CONSTANTS Script,         \* the commands the program runs, in order
          Faults,         \* what may go wrong: see PossibleFaults
          FunctorsFirst,  \* the loop serves posted functors before events
          Overtakes       \* a command may return before the callback that woke it

(***************************************************************************)
(*   nosocket  ::socket fails (the process has no descriptor left)         *)
(*   refused   the connection is refused or times out                      *)
(*   dropped   the server closes before the reply is complete              *)
(***************************************************************************)
PossibleFaults == {"nosocket", "refused", "dropped"}

ASSUME SessionAssumption ==
  /\ Script \in Seq(CommandRecords)
  /\ Faults \subseteq PossibleFaults
  /\ FunctorsFirst \in BOOLEAN /\ Overtakes \in BOOLEAN

Calls == 1 .. Len(Script)

VARIABLES
  pc,            \* where the caller is
  cmd,           \* the running, or the last, call (0 before the first)
  status,        \* its local variable `status`
  m_command,     \* the call whose request m_command holds
  onMessage,     \* the call whose lambda is the message callback
  m_command_finished,
  latch,         \* m_cv, m_mutex and m_command_finished: "alive" or "dead"
  chan,          \* the state of `channel`
  aborted,       \* libhv has been told to close it (hio_close_async)
  sent,          \* the call whose request it carried (0: none yet)
  reply,         \* how much of the reply has been read from it
  loop,          \* where the loop thread is
  callback,      \* where it is in the close callback that interrupts this
  stopping,      \* hloop_stop was called and EventLoop::loop_ is NULL
  queue,         \* EventLoop::customEvents
  undefined,     \* undefined behaviour met (what overtook explains: till it returns)
  asked,         \* history: how often the server got the request of a call
  got,           \* history: requests whose reply the running call has read
  failed,        \* history: a fault met the running call
  starved,       \* history: its startConnect got no socket
  late,          \* history: a start that was not needed took effect
  overtook       \* what the caller has destroyed under this close callback

caller == <<pc, cmd, status, m_command, onMessage, latch>>
conn   == <<chan, aborted, sent, reply>>
thread == <<loop, callback, stopping, queue>>
hist   == <<undefined, asked, got, failed, starved, late, overtook>>
vars   == <<caller, m_command_finished, conn, thread, hist>>

CallerPc == {"out", "callbacks", "clear", "check", "create", "test", "connect",
             "start", "waits", "stopping", "joining", "gone"}
LoopPc == {"down", "idle", "create", "test", "connect", "exited"}
\* Before the lock, the notify and the last lines of the callback.
CallbackPc == {"none", "weak_up", "notify", "rest"}
Posted == [op : {"startConnect"}, call : Calls] \cup [op : {"closesocket"}]

Init == /\ pc = "out" /\ cmd = 0 /\ status = 0
        /\ m_command = 0 /\ onMessage = 0
        /\ m_command_finished = 0 /\ latch = "alive"
        \* createsocket() has succeeded: the programs exit when it fails
        /\ chan = "OPENED" /\ aborted = FALSE /\ sent = 0 /\ reply = "none"
        /\ loop = "down" /\ callback = "none" /\ stopping = FALSE /\ queue = <<>>
        /\ undefined = {} /\ asked = [c \in Calls |-> 0] /\ got = {}
        /\ failed = FALSE /\ starved = FALSE /\ late = FALSE /\ overtook = {}

\* The lambda in onMessage captures variables of a call that still runs.
FrameAlive == /\ onMessage = cmd
              /\ pc \in {"clear", "check", "create", "test", "connect", "start", "waits"}

\* The callbacks are set and libhv works on the connection: when it closes,
\* onclose calls onConnection, which calls weak_up().
Hooked == chan \in {"CONNECTING", "CONNECTED"}

\* A flag that stays set.
Noted(flag, event) == IF event THEN TRUE ELSE flag

\* The close callback starts, if the connection that ends is hooked.
Closing == callback' = IF Hooked THEN "weak_up" ELSE "none"

\* The loop thread is at `at` and in no callback.
LoopAt(at) == loop = at /\ callback = "none"
---------------------------------------------------------------------------
(***************************************************************************)
(* The caller: a command                                                   *)
(***************************************************************************)
\* Mutant: the status is 0 until something goes wrong.
SetCommandOptimistic ==
  /\ pc = "out" /\ cmd < Len(Script) /\ latch = "alive"
  /\ cmd' = cmd + 1 /\ m_command' = cmd + 1
  /\ status' = 0
  /\ pc' = "callbacks"
  /\ got' = {} /\ failed' = FALSE /\ starved' = FALSE
  /\ UNCHANGED <<onMessage, latch, m_command_finished, conn, thread,
                 undefined, asked, late, overtook>>

SetCommand ==
  /\ pc = "out" /\ cmd < Len(Script) /\ latch = "alive"
  /\ cmd' = cmd + 1
  /\ m_command' = cmd + 1
  /\ status' = Script[cmd + 1].initial
  /\ pc' = "callbacks"
  /\ got' = {} /\ failed' = FALSE /\ starved' = FALSE
  /\ UNCHANGED <<onMessage, latch, m_command_finished, conn, thread,
                 undefined, asked, late, overtook>>

SetCallbacks ==
  /\ pc = "callbacks"
  /\ onMessage' = cmd
  /\ pc' = "clear"
  /\ UNCHANGED <<cmd, status, m_command, latch, m_command_finished, conn, thread, hist>>

\* Mutant: the latch is not cleared before the command.
ClearFinishedNot ==
  /\ pc = "clear"
  /\ pc' = "check"
  /\ UNCHANGED <<cmd, status, m_command, onMessage, latch, m_command_finished,
                 conn, thread, hist>>

ClearFinished ==
  /\ pc = "clear"
  /\ m_command_finished' = 0
  /\ pc' = "check"
  /\ UNCHANGED <<cmd, status, m_command, onMessage, latch, conn, thread, hist>>

\* startConnect() on the caller's thread: is there a channel that is not closed?
CallerCheck ==
  /\ pc = "check"
  /\ pc' = IF chan = "CLOSED" THEN "create" ELSE "test"
  /\ UNCHANGED <<cmd, status, m_command, onMessage, latch, m_command_finished,
                 conn, thread, hist>>

\* createsocket().  Assigning `channel` destroys the one it held.  If the loop
\* thread is in the close callback of that one, its last line will read a
\* destroyed closure.  A channel that is not closed yet is closed asynchronously
\* and detached; the loop may begin its onclose before it is detached.
CallerCreate ==
  /\ pc = "create"
  /\ pc' = "test"
  /\ chan' = "OPENED" /\ aborted' = FALSE /\ sent' = 0 /\ reply' = "none"
  /\ \/ UNCHANGED callback
     \/ Hooked /\ LoopAt("idle") /\ callback' = "weak_up"
  /\ LET under == IF callback' # "none" THEN {"deadChannel"} ELSE {}
     IN  undefined' = undefined \cup under /\ overtook' = overtook \cup under
  /\ failed' = Noted(failed, chan # "CLOSED")
  /\ UNCHANGED <<cmd, status, m_command, onMessage, latch, m_command_finished,
                 loop, stopping, queue, asked, got, starved, late>>

\* ::socket fails; the result of startConnect() is ignored.
CallerCreateFails ==
  /\ pc = "create" /\ "nosocket" \in Faults
  /\ pc' = "start"
  /\ failed' = TRUE /\ starved' = TRUE
  /\ UNCHANGED <<cmd, status, m_command, onMessage, latch, m_command_finished,
                 conn, thread, undefined, asked, got, late, overtook>>

\* The second test: only a channel that was never connected is connected.
CallerTest ==
  /\ pc = "test"
  /\ pc' = IF chan = "OPENED" THEN "connect" ELSE "start"
  /\ UNCHANGED <<cmd, status, m_command, onMessage, latch, m_command_finished,
                 conn, thread, hist>>

\* Channel::startConnect: a socket the other thread has connected meanwhile
\* makes connect() fail, and libhv closes it; a closed one stays closed.
Connect == /\ chan' = IF chan = "OPENED" THEN "CONNECTING" ELSE chan
           /\ aborted' = Noted(aborted, Hooked)
           /\ failed' = Noted(failed, Hooked)
           /\ UNCHANGED <<sent, reply>>

CallerConnect ==
  /\ pc = "connect"
  /\ pc' = "start"
  /\ Connect
  /\ UNCHANGED <<cmd, status, m_command, onMessage, latch, m_command_finished,
                 thread, undefined, asked, got, starved, late, overtook>>

\* TcpClient::start(): the first time it starts the loop thread, later it
\* posts to it.  Either way the loop calls startConnect() once more.
Start ==
  /\ pc = "start"
  /\ pc' = "waits"
  /\ loop' = IF loop = "down" THEN "idle" ELSE loop
  /\ queue' = Append(queue, [op |-> "startConnect", call |-> cmd])
  /\ UNCHANGED <<cmd, status, m_command, onMessage, latch, m_command_finished,
                 conn, callback, stopping, hist>>

\* Mutant: waits() returns without looking at the flag.
ReturnAnyway ==
  /\ pc = "waits"
  /\ pc' = "out"
  /\ UNCHANGED <<cmd, status, m_command, onMessage, latch, m_command_finished,
                 conn, thread, hist>>

\* waits() and the return of the command: the flag is enough, the caller need
\* not sleep or wait for the notify (CommandLatch has the steps of waits()).
Return ==
  /\ pc = "waits" /\ m_command_finished = 1
  /\ Overtakes \/ callback = "none"
  /\ pc' = "out"
  /\ UNCHANGED <<cmd, status, m_command, onMessage, latch, m_command_finished,
                 conn, thread, hist>>
---------------------------------------------------------------------------
(***************************************************************************)
(* The caller: the end of the client object.  main.cpp and two of the      *)
(* tests call stop() and closesocket(); HostCommandTest leaves it to       *)
(* ~TcpClient, which runs after m_cv and m_mutex have been destroyed.      *)
(***************************************************************************)
Post(fn) == queue' = IF stopping THEN queue ELSE Append(queue, fn)

StopCloseSocket ==
  /\ pc = "out" /\ cmd > 0 /\ ~stopping
  /\ pc' = "stopping"
  /\ Post([op |-> "closesocket"])
  /\ UNCHANGED <<cmd, status, m_command, onMessage, latch, m_command_finished,
                 conn, loop, callback, stopping, hist>>

\* Mutant: stop() returns early and the loop is never told.
StopLoopForgets ==
  /\ pc = "stopping"
  /\ pc' = "joining"
  /\ UNCHANGED <<cmd, status, m_command, onMessage, latch, m_command_finished,
                 conn, thread, hist>>

StopLoop ==
  /\ pc = "stopping"
  /\ pc' = "joining"
  /\ stopping' = TRUE
  /\ UNCHANGED <<cmd, status, m_command, onMessage, latch, m_command_finished,
                 conn, loop, callback, queue, hist>>

\* join(); the closesocket() that follows in main.cpp posts nothing any more.
Join ==
  /\ pc = "joining" /\ LoopAt("exited")
  /\ pc' = "gone"
  /\ UNCHANGED <<cmd, status, m_command, onMessage, latch, m_command_finished,
                 conn, thread, hist>>

DestroyLatch ==
  /\ pc = "gone" \/ (pc = "out" /\ cmd > 0)
  /\ latch = "alive"
  /\ latch' = "dead"
  /\ overtook' = IF callback \in {"weak_up", "notify"} THEN overtook \cup {"deadLatch"}
                                                      ELSE overtook
  /\ UNCHANGED <<pc, cmd, status, m_command, onMessage, m_command_finished,
                 conn, thread, undefined, asked, got, failed, starved, late>>
---------------------------------------------------------------------------
(***************************************************************************)
(* The loop thread: the functors posted to it                              *)
(***************************************************************************)
\* A startConnect taken from the queue is needed only if the running call
\* posted it after its own startConnect() had got no socket.
Needed(fn) == fn.call = cmd /\ starved

\* Mutant: a socket is created without asking whether the old one is closed.
RunStartConnectAlways ==
  /\ LoopAt("idle") /\ queue # <<>> /\ Head(queue).op = "startConnect"
  /\ queue' = Tail(queue)
  /\ loop' = "create"
  /\ late' = Noted(late, ~Hooked /\ ~Needed(Head(queue)))
  /\ UNCHANGED <<caller, m_command_finished, conn, callback, stopping,
                 undefined, asked, got, failed, starved, overtook>>

RunStartConnect ==
  /\ LoopAt("idle") /\ queue # <<>> /\ Head(queue).op = "startConnect"
  /\ queue' = Tail(queue)
  /\ loop' = IF chan = "CLOSED" THEN "create" ELSE "test"
  /\ late' = Noted(late, ~Hooked /\ ~Needed(Head(queue)))
  /\ UNCHANGED <<caller, m_command_finished, conn, callback, stopping,
                 undefined, asked, got, failed, starved, overtook>>

\* The channel that is replaced is closed at once, on the loop's own thread:
\* if it is hooked its onclose runs first.  After stop() the loop_ is NULL.
LoopCreate ==
  /\ LoopAt("create")
  /\ loop' = "test"
  /\ chan' = "OPENED" /\ aborted' = FALSE /\ sent' = 0 /\ reply' = "none"
  /\ IF stopping THEN undefined' = undefined \cup {"nullLoop"} /\ UNCHANGED callback
                 ELSE Closing /\ UNCHANGED undefined
  /\ failed' = Noted(failed, chan # "CLOSED")
  /\ UNCHANGED <<caller, m_command_finished, stopping, queue, asked, got, starved,
                 late, overtook>>

LoopCreateFails ==
  /\ LoopAt("create") /\ "nosocket" \in Faults
  /\ loop' = "idle"
  /\ UNCHANGED <<caller, m_command_finished, conn, callback, stopping, queue, hist>>

LoopTest ==
  /\ LoopAt("test")
  /\ loop' = IF chan = "OPENED" THEN "connect" ELSE "idle"
  /\ UNCHANGED <<caller, m_command_finished, conn, callback, stopping, queue, hist>>

LoopConnect ==
  /\ LoopAt("connect")
  /\ loop' = "idle"
  /\ Connect
  /\ UNCHANGED <<caller, m_command_finished, callback, stopping, queue,
                 undefined, asked, got, starved, late, overtook>>

\* channel->close(), which calls on_close.
RunCloseSocket ==
  /\ LoopAt("idle") /\ queue # <<>> /\ Head(queue).op = "closesocket"
  /\ queue' = Tail(queue)
  /\ chan' = "CLOSED" /\ aborted' = FALSE /\ sent' = 0
  /\ Closing
  /\ failed' = Noted(failed, chan # "CLOSED")
  /\ UNCHANGED <<caller, m_command_finished, reply, loop, stopping,
                 undefined, asked, got, starved, late, overtook>>
---------------------------------------------------------------------------
(***************************************************************************)
(* The loop thread: the events of the connection                           *)
(***************************************************************************)
TakesEvents == LoopAt("idle") /\ (FunctorsFirst => queue = <<>>)

\* on_connect, defualt_on_connection_callback: m_command is read and written
\* to the connection.
OnConnect ==
  /\ TakesEvents /\ chan = "CONNECTING"
  /\ chan' = "CONNECTED"
  /\ sent' = m_command
  /\ asked' = IF m_command \in Calls THEN [asked EXCEPT ![m_command] = @ + 1] ELSE asked
  /\ undefined' = IF latch = "alive" THEN undefined ELSE undefined \cup {"deadLatch"}
  /\ UNCHANGED <<caller, m_command_finished, aborted, reply, thread,
                 got, failed, starved, late, overtook>>

\* The message callback, for one chunk c of the reply; `last` when the server
\* has nothing more to say.
OnRead(c, last) ==
  /\ TakesEvents /\ chan = "CONNECTED" /\ reply # "whole"
  /\ reply' = IF last THEN "whole" ELSE "partial"
  /\ IF FrameAlive
     THEN /\ status' = Reading(Script[cmd].reader, c, status).status
          /\ got' = got \cup {sent}
          /\ UNCHANGED undefined
     ELSE /\ undefined' = undefined \cup {"dangling"}
          /\ UNCHANGED <<status, got>>
  /\ UNCHANGED <<pc, cmd, m_command, onMessage, latch, m_command_finished,
                 chan, aborted, sent, thread, asked, failed, starved, late, overtook>>

\* Why a connection closes: the server has replied, or something went wrong.
Ends == \/ chan = "CONNECTED" /\ reply = "whole"
        \/ aborted
        \/ chan = "CONNECTING" /\ "refused" \in Faults
        \/ chan = "CONNECTED" /\ "dropped" \in Faults

\* Mutant: only a connection that was established wakes the caller.
OnCloseConnectedOnly ==
  /\ TakesEvents /\ Hooked /\ Ends
  /\ chan' = "CLOSED"
  /\ callback' = IF chan = "CONNECTED" THEN "weak_up" ELSE "none"
  /\ failed' = Noted(failed, reply # "whole")
  /\ UNCHANGED <<caller, m_command_finished, aborted, sent, reply, loop, stopping, queue,
                 undefined, asked, got, starved, late, overtook>>

\* on_close sets the status and calls onclose.
OnClose ==
  /\ TakesEvents /\ Hooked /\ Ends
  /\ chan' = "CLOSED" /\ aborted' = FALSE /\ sent' = 0
  /\ Closing
  /\ failed' = Noted(failed, reply # "whole")
  /\ UNCHANGED <<caller, m_command_finished, reply, loop, stopping, queue,
                 undefined, asked, got, starved, late, overtook>>

\* hloop_run returns and frees the loop, which closes what is still open.
LoopExit ==
  /\ LoopAt("idle") /\ stopping
  /\ loop' = "exited"
  /\ chan' = "CLOSED" /\ aborted' = FALSE /\ sent' = 0
  /\ Closing
  /\ failed' = Noted(failed, chan # "CLOSED")
  /\ UNCHANGED <<caller, m_command_finished, reply, stopping, queue,
                 undefined, asked, got, starved, late, overtook>>
---------------------------------------------------------------------------
(***************************************************************************)
(* The loop thread: the close callback, onConnection of a connection that  *)
(* is not connected                                                        *)
(***************************************************************************)
\* The use of a latch that may be dead.
LatchUsed == undefined' = IF latch = "alive" THEN undefined ELSE undefined \cup {"deadLatch"}

\* weak_up(): the flag is set under the mutex, which is then released ...
WeakUp ==
  /\ callback = "weak_up"
  /\ callback' = "notify"
  /\ m_command_finished' = 1
  /\ LatchUsed
  /\ UNCHANGED <<caller, conn, loop, stopping, queue,
                 asked, got, failed, starved, late, overtook>>

\* ... and the condition variable is notified without it.
NotifyAll ==
  /\ callback = "notify"
  /\ callback' = "rest"
  /\ LatchUsed
  /\ UNCHANGED <<caller, m_command_finished, conn, loop, stopping, queue,
                 asked, got, failed, starved, late, overtook>>

\* isReconnect() and the test of reconn_setting, through the object and the
\* closure; whoever has destroyed the closure has noted it (CallerCreate).
CloseReturns ==
  /\ callback = "rest"
  /\ callback' = "none"
  /\ undefined' = undefined \ overtook /\ overtook' = {}
  /\ UNCHANGED <<caller, m_command_finished, conn, loop, stopping, queue,
                 asked, got, failed, starved, late>>
---------------------------------------------------------------------------
Command == \/ SetCommand \/ SetCallbacks \/ ClearFinished
           \/ CallerCheck \/ CallerCreate \/ CallerCreateFails \/ CallerTest
           \/ CallerConnect \/ Start \/ Return
Finish  == StopCloseSocket \/ StopLoop \/ Join \/ DestroyLatch
Functor == \/ RunStartConnect \/ LoopCreate \/ LoopCreateFails \/ LoopTest
           \/ LoopConnect \/ RunCloseSocket \/ LoopExit
Callback == WeakUp \/ NotifyAll \/ CloseReturns
Event   == OnConnect \/ OnClose \/ \E c \in Chunks, last \in BOOLEAN : OnRead(c, last)

\* Undefined behaviour is recorded, and the model goes on as if it had done no
\* harm: what a build makes of it the properties cannot say.
Next == Command \/ Finish \/ Functor \/ Callback \/ Event

Spec == Init /\ [][Next]_vars

(***************************************************************************)
(* Both threads run.  The server (or the connect timeout of libhv) decides *)
(* every connect, and a server that accepted a request replies and closes. *)
(* Nobody is obliged to issue another command or to end the object.        *)
(***************************************************************************)
FairSpec ==
  /\ Spec
  /\ WF_vars(\/ SetCallbacks \/ ClearFinished \/ CallerCheck \/ CallerCreate
             \/ CallerCreateFails \/ CallerTest \/ CallerConnect \/ Start \/ Return)
  /\ WF_vars(StopLoop \/ Join)
  /\ WF_vars(Functor)
  /\ WF_vars(Callback)
  /\ WF_vars(OnConnect \/ OnClose)
  /\ WF_vars(\E c \in Chunks : OnRead(c, TRUE))
---------------------------------------------------------------------------
Values ==
  /\ pc \in CallerPc
  /\ cmd \in 0 .. Len(Script) /\ (cmd = 0 => pc = "out")
  /\ status \in Statuses
  /\ m_command \in 0 .. Len(Script)
  /\ onMessage \in 0 .. Len(Script)
  /\ m_command_finished \in {0, 1}
  /\ latch \in {"alive", "dead"}
  /\ chan \in {"OPENED", "CONNECTING", "CONNECTED", "CLOSED"}
  /\ sent \in 0 .. Len(Script)
  /\ reply \in {"none", "partial", "whole"}
  /\ loop \in LoopPc /\ callback \in CallbackPc
  /\ queue \in Seq(Posted)
  /\ undefined \subseteq {"dangling", "nullLoop", "deadLatch", "deadChannel"}
  /\ overtook \subseteq {"deadLatch", "deadChannel"}
  /\ asked \in [Calls -> Nat]
  /\ got \subseteq 0 .. Len(Script)

Flags ==
  /\ aborted \in BOOLEAN /\ stopping \in BOOLEAN
  /\ failed \in BOOLEAN /\ starved \in BOOLEAN /\ late \in BOOLEAN

TypeOK == Values /\ Flags

Returned == pc = "out" /\ cmd > 0

(***************************************************************************)
(* Unless a superfluous start took effect: a command reads the reply to    *)
(* its own request and to no other, and when it returns and nothing failed *)
(* the reply has been read to its end.                                     *)
(***************************************************************************)
OwnReply == ~late => /\ got \subseteq {cmd}
                     /\ Returned /\ ~failed => got = {cmd} /\ reply = "whole"

(***************************************************************************)
(* Unless a superfluous start took effect: the server is asked at most     *)
(* once for each command (forward, reverse, kill, ... are not idempotent). *)
(***************************************************************************)
AtMostOnce == ~late => \A c \in Calls : asked[c] <= 1

(***************************************************************************)
(* Unless a superfluous start took effect: no callback runs on the frame   *)
(* of a command that has returned, on a destroyed latch or on a stopped    *)
(* loop, even when the object is destroyed without stop(), but for one     *)
(* race.  The caller that was woken by the flag overtakes the callback     *)
(* that set it: its next createsocket() destroys the channel, or the end   *)
(* of the object (without stop() only) destroys the latch, while the       *)
(* callback still has to use them.  Nothing else is ever met.              *)
(***************************************************************************)
NoUndefined == ~late => undefined \subseteq overtook

(***************************************************************************)
(* A command that waits can be woken: the latch is raised or about to be,  *)
(* or there is a connection whose close will raise it, or startConnect()   *)
(* had no socket.  This holds with superfluous starts too.                 *)
(***************************************************************************)
NoStuck ==
  pc = "waits" /\ m_command_finished = 0 /\ ~starved => Hooked \/ callback = "weak_up"

(***************************************************************************)
(* Unless a superfluous start took effect: success means that the server   *)
(* got the request and answered it.  A command whose status is -1 until it *)
(* reads a reply returns 0 only then, whatever failed.  (get_devices and   *)
(* shell start with 0 and promise less.)                                   *)
(***************************************************************************)
SuccessIsAnswered ==
  ~late /\ Returned /\ Script[cmd].initial = -1 /\ status = 0
    => asked[cmd] = 1 /\ cmd \in got

(***************************************************************************)
(* Every command returns, whatever the network does, as long as a socket   *)
(* can be created.                                                         *)
(***************************************************************************)
CallReturns == pc = "waits" ~> (pc = "out" \/ starved)

\* stop() returns: the loop thread always gets to the end of its loop.
StopReturns == pc = "stopping" ~> pc = "gone"

(***************************************************************************)
(* What HostCommandTest asserts: when a command returns and nothing went   *)
(* wrong, the caller has read a reply (its list is not empty).             *)
(***************************************************************************)
TestExpectsReply == Returned /\ ~failed /\ undefined = {} => got # {}
=============================================================================
