-------------------------- MODULE EventLoopThread --------------------------
(***************************************************************************)
(* EventLoopThread::start, stop, join and loop_thread with EventLoop::run  *)
(* and stop, as TcpClient uses them: start() waits until the loop runs,    *)
(* stop() waits until the thread has ended, and the functor that start()   *)
(* passes (startConnect) returns 0.  The thread's status, the loop's       *)
(* status and the pointers loop_ and thread_ are shared without a lock.    *)
(*                                                                         *)
(* A thread that start() creates is a number; thread_ is the last one that *)
(* was created and not yet joined, or 0.                                   *)
(***************************************************************************)
EXTENDS Naturals

CONSTANTS Users,       \* the threads that call start() and stop()
          Creator,     \* the thread that made the loop
          MaxCalls,    \* bound: how many calls they make in all
          Restart,     \* start() may be called after stop()
          Hasty        \* stop() may be called before the loop has run anything

ASSUME ThreadAssumption == MaxCalls \in Nat /\ {Restart, Hasty} \subseteq BOOLEAN

\* Status::KStatus
kInitialized == 2
kStarting    == 3
kStarted     == 4
kRunning     == 5
kStopping    == 7
kStopped     == 8

Workers == 1 .. MaxCalls

VARIABLES
  pc, op,        \* where each user is, and in which call
  calls,         \* calls so far
  own,           \* loop_tid, which stop() has read, is the user's own
  status,        \* of the EventLoopThread
  thread_,       \* the std::thread, 0 if there is none
  worker,        \* where each created thread is
  loop_status,   \* of the EventLoop
  loop_,         \* EventLoop::loop_ is not NULL
  hloop,         \* external: fresh, running, told to stop, or freed
  broken         \* history: what has gone wrong

users == <<pc, op, calls, own>>
loop == <<loop_status, loop_, hloop>>
vars == <<users, status, thread_, worker, loop, broken>>

Init == /\ pc = [u \in Users |-> "out"] /\ op = [u \in Users |-> "none"]
        /\ calls = 0 /\ own = [u \in Users |-> FALSE]
        /\ status = kInitialized
        /\ thread_ = 0
        /\ worker = [w \in Workers |-> "none"]
        /\ loop_status = kInitialized /\ loop_ = TRUE /\ hloop = "fresh"
        /\ broken = {}

Goto(u, from, to) == pc[u] = from /\ pc' = [pc EXCEPT ![u] = to]
Work(w, from, to) == worker[w] = from /\ worker' = [worker EXCEPT ![w] = to]

\* The member loop_ is handed to libhv.
UsesLoop == broken' = broken \cup (IF ~loop_ THEN {"null"}
                                   ELSE IF hloop = "freed" THEN {"freed"} ELSE {})
---------------------------------------------------------------------------
(***************************************************************************)
(* start()                                                                 *)
(***************************************************************************)
\* A destroyed object is not used again.  A user that is not Hasty stops a
\* thread when a functor has run in its loop, as after any command.
Call(u, o) ==
  /\ pc[u] = "out" \/ (pc[u] = "returned" /\ op[u] # "release")
  /\ calls < MaxCalls
  /\ o = "start" /\ ~Restart => status < kStopping
  /\ o # "start" /\ ~Hasty => hloop # "fresh" \/ status = kInitialized
  /\ calls' = calls + 1
  /\ op' = [op EXCEPT ![u] = o]
  /\ pc' = [pc EXCEPT ![u] = IF o = "start" THEN "start" ELSE "stop"]
  /\ UNCHANGED <<own, status, thread_, worker, loop, broken>>

\* Mutant: start() does not look whether the thread was started already.
StartCheckNot(u) == /\ Goto(u, "start", "starting")
                    /\ UNCHANGED <<op, calls, own, status, thread_, worker, loop, broken>>

StartCheck(u) ==
  /\ IF status >= kStarting /\ status < kStopped
     THEN Goto(u, "start", "returned") ELSE Goto(u, "start", "starting")
  /\ UNCHANGED <<op, calls, own, status, thread_, worker, loop, broken>>

StartSet(u) == /\ Goto(u, "starting", "spawn")
               /\ status' = kStarting
               /\ UNCHANGED <<op, calls, own, thread_, worker, loop, broken>>

\* thread_ is overwritten; destroying a std::thread that nobody has joined
\* ends the program.
Spawn(u) ==
  \E w \in Workers :
    /\ Goto(u, "spawn", "wait")
    /\ worker[w] = "none" /\ \A v \in Workers : v < w => worker[v] # "none"
    /\ worker' = [worker EXCEPT ![w] = "begin"]
    /\ broken' = IF thread_ = 0 THEN broken ELSE broken \cup {"terminate"}
    /\ thread_' = w
    /\ UNCHANGED <<op, calls, own, status, loop>>

\* Mutant: it waits for the thread, not for the loop.
WaitStartedOnly(u) == /\ Goto(u, "wait", "returned")
                      /\ status >= kStarted
                      /\ UNCHANGED <<op, calls, own, status, thread_, worker, loop, broken>>

WaitStarted(u) == /\ Goto(u, "wait", "returned")
                  /\ loop_status >= kRunning
                  /\ UNCHANGED <<op, calls, own, status, thread_, worker, loop, broken>>
---------------------------------------------------------------------------
(***************************************************************************)
(* stop(), and the destructor: stop() and join(), also when stop() has     *)
(* nothing to do, then EventLoop::stop() from ~EventLoop ("release").      *)
(***************************************************************************)
StopCheck(u) ==
  /\ IF status < kStarting \/ status >= kStopping
     THEN Goto(u, "stop", IF op[u] = "destroy" THEN "join" ELSE "returned")
     ELSE Goto(u, "stop", "stopping")
  /\ UNCHANGED <<op, calls, own, status, thread_, worker, loop, broken>>

StopSet(u) == /\ Goto(u, "stopping", "tid")
              /\ status' = kStopping
              /\ UNCHANGED <<op, calls, own, thread_, worker, loop, broken>>

\* EventLoop::tid: without a loop_ it is the caller's own, and until the loop
\* is entered that of the thread that made it.
StopTid(u) == /\ Goto(u, "tid", "loopStop")
              /\ own' = [own EXCEPT ![u] = ~loop_ \/ (hloop = "fresh" /\ u = Creator)]
              /\ broken' = IF loop_ /\ hloop = "freed" THEN broken \cup {"freed"} ELSE broken
              /\ UNCHANGED <<op, calls, status, thread_, worker, loop>>

\* After EventLoop::stop: stop() does not join the thread that it is called on.
After(u) == IF op[u] = "release" \/ (op[u] = "stop" /\ own[u]) THEN "returned" ELSE "join"

LoopStopCheck(u) ==
  /\ Goto(u, "loopStop", IF ~loop_ THEN After(u)
                         ELSE IF loop_status < kRunning THEN "loopFree" ELSE "loopMark")
  /\ UNCHANGED <<op, calls, own, status, thread_, worker, loop, broken>>

LoopFree(u) == /\ Goto(u, "loopFree", After(u))
               /\ hloop' = "freed" /\ loop_' = FALSE
               /\ UsesLoop
               /\ UNCHANGED <<op, calls, own, status, thread_, worker, loop_status>>

LoopMark(u) == /\ Goto(u, "loopMark", "loopHalt")
               /\ loop_status' = kStopping
               /\ UNCHANGED <<op, calls, own, status, thread_, worker, loop_, hloop, broken>>

\* Mutant: the loop is not told to stop.
LoopHaltNot(u) == /\ Goto(u, "loopHalt", "loopForget")
                  /\ UNCHANGED <<op, calls, own, status, thread_, worker, loop, broken>>

LoopHalt(u) == /\ Goto(u, "loopHalt", "loopForget")
               /\ hloop' = IF ~loop_ \/ hloop = "freed" THEN hloop ELSE "told"
               /\ UsesLoop
               /\ UNCHANGED <<op, calls, own, status, thread_, worker, loop_status, loop_>>

LoopForget(u) == /\ Goto(u, "loopForget", After(u))
                 /\ loop_' = FALSE
                 /\ UNCHANGED <<op, calls, own, status, thread_, worker, loop_status, hloop, broken>>

\* Mutant: stop() returns without join().
JoinNot(u) == /\ Goto(u, "join", IF op[u] = "destroy" THEN "loopStop" ELSE "returned")
              /\ op' = [op EXCEPT ![u] = IF op[u] = "destroy" THEN "release" ELSE op[u]]
              /\ UNCHANGED <<calls, own, status, thread_, worker, loop, broken>>

Join(u) == /\ Goto(u, "join", IF op[u] = "destroy" THEN "loopStop" ELSE "returned")
           /\ op' = [op EXCEPT ![u] = IF op[u] = "destroy" THEN "release" ELSE op[u]]
           /\ thread_ # 0 => worker[thread_] = "ended"
           /\ thread_' = 0
           /\ UNCHANGED <<calls, own, status, worker, loop, broken>>
---------------------------------------------------------------------------
(***************************************************************************)
(* loop_thread, and EventLoop::run in it                                   *)
(***************************************************************************)
Begin(w) == /\ Work(w, "begin", "run")
            /\ status' = kStarted
            /\ UNCHANGED <<users, thread_, loop, broken>>

\* The functor is dropped and run() returns at once when loop_ is NULL.
RunCheck(w) ==
  /\ IF ~loop_ \/ loop_status = kRunning THEN Work(w, "run", "assert")
                                         ELSE Work(w, "run", "setRunning")
  /\ UNCHANGED <<users, status, thread_, loop, broken>>

RunSet(w) == /\ Work(w, "setRunning", "enter")
             /\ loop_status' = kRunning
             /\ UNCHANGED <<users, status, thread_, loop_, hloop, broken>>

\* run() reads loop_ once more, which stop() may have forgotten by now.
\* Whether hloop_run honours a stop that came before it is left open.
HloopRun(w) ==
  /\ IF loop_ THEN Work(w, "enter", "running") ELSE Work(w, "enter", "stopped")
  /\ hloop' \in IF ~loop_ THEN {hloop} ELSE IF hloop = "fresh" THEN {"running"}
                ELSE IF hloop = "told" THEN {"told", "running"} ELSE {hloop}
  /\ UsesLoop
  /\ UNCHANGED <<users, status, thread_, loop_status, loop_>>

\* The loop frees itself when it ends (HLOOP_FLAG_AUTO_FREE).
HloopEnd(w) == /\ Work(w, "running", "stopped")
               /\ hloop \in {"told", "freed"}
               /\ hloop' = "freed"
               /\ UNCHANGED <<users, status, thread_, loop_status, loop_, broken>>

RunEnd(w) == /\ Work(w, "stopped", "assert")
             /\ loop_status' = kStopped
             /\ UNCHANGED <<users, status, thread_, loop_, hloop, broken>>

\* A failed assert ends the program; in a build without it the thread goes on.
AssertStopped(w) ==
  /\ Work(w, "assert", "end")
  /\ broken' = IF loop_status = kStopped THEN broken ELSE broken \cup {"assert"}
  /\ UNCHANGED <<users, status, thread_, loop>>

End(w) == /\ Work(w, "end", "ended")
          /\ status' = kStopped
          /\ UNCHANGED <<users, thread_, loop, broken>>
---------------------------------------------------------------------------
Start(u) == StartCheck(u) \/ StartSet(u) \/ Spawn(u) \/ WaitStarted(u)
Stop(u)  == \/ StopCheck(u) \/ StopSet(u) \/ StopTid(u) \/ LoopStopCheck(u) \/ LoopFree(u)
            \/ LoopMark(u) \/ LoopHalt(u) \/ LoopForget(u) \/ Join(u)
LoopThread(w) == \/ Begin(w) \/ RunCheck(w) \/ RunSet(w) \/ HloopRun(w)
                 \/ HloopEnd(w) \/ RunEnd(w) \/ AssertStopped(w) \/ End(w)

Next == \/ \E u \in Users : \/ \E o \in {"start", "stop", "destroy"} : Call(u, o)
                            \/ Start(u) \/ Stop(u)
        \/ \E w \in Workers : LoopThread(w)

Spec == Init /\ [][Next]_vars

\* Threads run.
FairSpec == /\ Spec
            /\ \A u \in Users : WF_vars(Start(u)) /\ WF_vars(Stop(u))
            /\ \A w \in Workers : WF_vars(LoopThread(w))
---------------------------------------------------------------------------
Live(w) == worker[w] \notin {"none", "ended"}

TypeOK ==
  /\ pc \in [Users -> {"out", "start", "starting", "spawn", "wait", "stop", "stopping", "tid",
                       "loopStop", "loopFree", "loopMark", "loopHalt", "loopForget",
                       "join", "returned"}]
  /\ op \in [Users -> {"none", "start", "stop", "destroy", "release"}]
  /\ calls \in 0 .. MaxCalls /\ own \in [Users -> BOOLEAN]
  /\ {status, loop_status} \subseteq {kInitialized, kStarting, kStarted, kRunning,
                                      kStopping, kStopped}
  /\ thread_ \in {0} \cup Workers
  /\ worker \in [Workers -> {"none", "begin", "run", "setRunning", "enter", "running",
                             "stopped", "assert", "end", "ended"}]
  /\ loop_ \in BOOLEAN
  /\ hloop \in {"fresh", "running", "told", "freed"}
  /\ broken \subseteq {"terminate", "freed", "null", "assert"}

(***************************************************************************)
(* No std::thread is destroyed while it can be joined, libhv is given no   *)
(* loop_ that stop() has forgotten and no hloop that was freed, and the    *)
(* assertion of loop_thread holds:                                         *)
(* `assert(loop_->isStopped())`.                                           *)
(***************************************************************************)
Sound == broken = {}

(***************************************************************************)
(* "if ture this method will block until loop_thread started": when        *)
(* start() returns, and no other user is about, the loop runs; functors    *)
(* that are posted from now on will be executed.                           *)
(***************************************************************************)
StartedRuns ==
  \A u \in Users : pc[u] = "returned" /\ op[u] = "start" => loop_status = kRunning /\ loop_

(***************************************************************************)
(* stop() and the destructor return only when no loop thread is left that  *)
(* could still run a callback.                                             *)
(***************************************************************************)
StopBlocks ==
  \A u \in Users :
    pc[u] = "returned" /\ op[u] \in {"stop", "release"} => \A w \in Workers : ~Live(w)

(***************************************************************************)
(* A thread that was told to stop does not go on: every call returns.      *)
(***************************************************************************)
CallsReturn == \A u \in Users : pc[u] \notin {"out", "returned"} ~> pc[u] = "returned"

(***************************************************************************)
(* For one user that does not start it again and is not hasty, this is a   *)
(* LoopThread: up from the moment its loop runs until nothing of the       *)
(* thread is left.                                                         *)
(***************************************************************************)
Inside(o) == \E u \in Users : pc[u] \notin {"out", "returned"} /\ (op[u] = "start" <=> o = "start")

Up(w) == worker[w] \in {"enter", "running", "stopped", "assert", "end"}

InCall == IF Inside("start") THEN "start" ELSE IF Inside("stop") THEN "stop" ELSE "none"

Phase == IF \E w \in Workers : Up(w) THEN "up"
         ELSE IF \E w \in Workers : worker[w] = "ended" THEN "ended" ELSE "down"

Abstract == INSTANCE LoopThread WITH call <- InCall, phase <- Phase

ImplementsLoopThread == Abstract!Spec
=============================================================================
