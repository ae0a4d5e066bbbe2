------------------------ MODULE EventLoopThreadPool ------------------------
(***************************************************************************)
(* EventLoopThreadPool: start, stop, join and nextLoop, with the functors  *)
(* pre and post by which its threads count themselves in and out.  Each    *)
(* start makes new threads with new loops.  Of a thread the pool sees that *)
(* it was created, runs its loop, was told to stop, or has ended;          *)
(* EventLoopThread has the steps in between.  One user calls start() and   *)
(* stop().                                                                 *)
(***************************************************************************)
EXTENDS Naturals, FiniteSets

CONSTANTS ThreadNum,   \* thread_num_
          MaxStarts,   \* bound: how often the pool is started
          Waits        \* the values of wait_threads_started and _stopped

ASSUME PoolAssumption ==
  ThreadNum \in Nat \ {0} /\ MaxStarts \in Nat /\ Waits \subseteq BOOLEAN

\* Status::KStatus
kInitialized == 2
kStarting    == 3
kRunning     == 5
kStopping    == 7
kStopped     == 8

Workers == 0 .. ThreadNum - 1

VARIABLES
  user,            \* where the user is in start() or stop()
  wait,            \* the argument of its call
  starts,          \* how often start() was called
  status,          \* of the pool
  worker,          \* where each thread is
  next,            \* the next thread that start() makes or stop() tells
  started_cnt, exited_cnt,
  next_loop_idx,
  early            \* history: a thread was told to stop before its loop ran

poolVars == <<user, wait, starts, status, worker, next, started_cnt, exited_cnt,
              next_loop_idx, early>>

PoolInit ==
  /\ user = "idle" /\ wait = FALSE /\ starts = 0
  /\ status = kInitialized
  /\ worker = [w \in Workers |-> "none"]
  /\ next = 0 /\ started_cnt = 0 /\ exited_cnt = 0
  /\ next_loop_idx = 0
  /\ early = FALSE

\* loop_ of its EventLoop is not NULL
HasLoop(w) == worker[w] \in {"created", "running", "counted"}
InLoop(w) == worker[w] \in {"running", "counted", "told"}
---------------------------------------------------------------------------
(***************************************************************************)
(* start()                                                                 *)
(***************************************************************************)
PoolStart ==
  /\ user = "idle" /\ starts < MaxStarts
  /\ starts' = starts + 1
  /\ wait' \in Waits
  /\ IF status >= kStarting /\ status < kStopped
     THEN UNCHANGED <<user, status, worker, next, started_cnt, exited_cnt>>
     ELSE /\ user' = "create"
          /\ status' = kStarting
          /\ worker' = [w \in Workers |-> "none"]
          /\ next' = 0 /\ started_cnt' = 0 /\ exited_cnt' = 0
  /\ UNCHANGED <<next_loop_idx, early>>

Create ==
  /\ user = "create"
  /\ worker' = [worker EXCEPT ![next] = "created"]
  /\ next' = next + 1
  /\ user' = IF next + 1 < ThreadNum THEN "create" ELSE IF wait THEN "await" ELSE "idle"
  /\ UNCHANGED <<wait, starts, status, started_cnt, exited_cnt, next_loop_idx, early>>

PoolStarted ==
  /\ user = "await" /\ status >= kRunning
  /\ user' = "idle"
  /\ UNCHANGED <<wait, starts, status, worker, next, started_cnt, exited_cnt, next_loop_idx,
                 early>>
---------------------------------------------------------------------------
(***************************************************************************)
(* stop() and join()                                                       *)
(***************************************************************************)
PoolStop(waits) ==
  /\ user = "idle"
  /\ wait' = waits
  /\ IF status < kStarting \/ status >= kStopping
     THEN UNCHANGED <<user, status, next>>
     ELSE user' = "tell" /\ status' = kStopping /\ next' = 0
  /\ UNCHANGED <<starts, worker, started_cnt, exited_cnt, next_loop_idx, early>>

\* Mutant: the last thread is forgotten.
TellAllButLast ==
  /\ user = "tell"
  /\ worker' = IF InLoop(next) /\ next + 1 < ThreadNum
               THEN [worker EXCEPT ![next] = "told"] ELSE worker
  /\ next' = next + 1
  /\ user' = IF next + 1 < ThreadNum THEN "tell" ELSE IF wait THEN "join" ELSE "idle"
  /\ UNCHANGED <<wait, starts, status, started_cnt, exited_cnt, next_loop_idx, early>>

\* EventLoopThread::stop(false); a loop that does not run yet is freed under
\* its thread, and what the thread does then is left open here.
Tell ==
  /\ user = "tell"
  /\ early' = (early \/ worker[next] = "created")
  /\ worker' = IF InLoop(next) THEN [worker EXCEPT ![next] = "told"] ELSE worker
  /\ next' = next + 1
  /\ user' = IF next + 1 < ThreadNum THEN "tell" ELSE IF wait THEN "join" ELSE "idle"
  /\ UNCHANGED <<wait, starts, status, started_cnt, exited_cnt, next_loop_idx>>

\* Mutant: it does not join.
JoinNot ==
  /\ user = "join"
  /\ user' = "idle"
  /\ UNCHANGED <<wait, starts, status, worker, next, started_cnt, exited_cnt, next_loop_idx,
                 early>>

Join ==
  /\ user = "join" /\ \A w \in Workers : worker[w] = "ended"
  /\ user' = "idle"
  /\ UNCHANGED <<wait, starts, status, worker, next, started_cnt, exited_cnt, next_loop_idx,
                 early>>
---------------------------------------------------------------------------
(***************************************************************************)
(* The threads                                                             *)
(***************************************************************************)
\* The loop runs the functor pre: it counts itself in ...
Pre(w) ==
  /\ worker[w] = "created"
  /\ started_cnt' = started_cnt + 1
  /\ worker' = [worker EXCEPT ![w] = IF started_cnt' = ThreadNum THEN "counted" ELSE "running"]
  /\ UNCHANGED <<user, wait, starts, status, next, exited_cnt, next_loop_idx, early>>

\* ... and the last one sets the status, whatever it is by now.
PreLast(w) ==
  /\ worker[w] = "counted"
  /\ status' = kRunning
  /\ worker' = [worker EXCEPT ![w] = "running"]
  /\ UNCHANGED <<user, wait, starts, next, started_cnt, exited_cnt, next_loop_idx, early>>

\* Mutant: the first one to end sets the status.
PostFirst(w) ==
  /\ worker[w] = "told"
  /\ worker' = [worker EXCEPT ![w] = "ended"]
  /\ exited_cnt' = exited_cnt + 1
  /\ status' = IF exited_cnt = 0 THEN kStopped ELSE status
  /\ UNCHANGED <<user, wait, starts, next, started_cnt, next_loop_idx, early>>

\* The loop has ended: the functor post, and the end of the thread.
Post(w) ==
  /\ worker[w] = "told"
  /\ worker' = [worker EXCEPT ![w] = "ended"]
  /\ exited_cnt' = exited_cnt + 1
  /\ status' = IF exited_cnt' = ThreadNum THEN kStopped ELSE status
  /\ UNCHANGED <<user, wait, starts, next, started_cnt, next_loop_idx, early>>
---------------------------------------------------------------------------
(***************************************************************************)
(* nextLoop(), on the thread that accepts connections                      *)
(***************************************************************************)
NextRoundRobin(w) ==
  /\ next_loop_idx' = IF next_loop_idx + 1 >= ThreadNum THEN 0 ELSE next_loop_idx + 1
  /\ w = next_loop_idx' % ThreadNum

\* The first of the loops with the fewest connections.
NextLeastConnections(w, connectionNum) ==
  /\ \A v \in Workers : connectionNum[w] <= connectionNum[v]
  /\ \A v \in Workers : v < w => connectionNum[w] < connectionNum[v]
  /\ UNCHANGED next_loop_idx
---------------------------------------------------------------------------
PoolCall == Create \/ PoolStarted \/ Tell \/ Join
PoolThread(w) == Pre(w) \/ PreLast(w)

PoolTypeOK ==
  /\ user \in {"idle", "create", "await", "tell", "join"}
  /\ wait \in BOOLEAN /\ starts \in 0 .. MaxStarts /\ early \in BOOLEAN
  /\ status \in {kInitialized, kStarting, kRunning, kStopping, kStopped}
  /\ worker \in [Workers -> {"none", "created", "running", "counted", "told", "ended"}]
  /\ next \in 0 .. ThreadNum /\ (user \in {"create", "tell"} => next \in Workers)
  /\ started_cnt \in 0 .. ThreadNum /\ exited_cnt \in 0 .. ThreadNum
  /\ next_loop_idx \in Workers

(***************************************************************************)
(* The status that the threads set by counting says what they do:          *)
(* kRunning that all run their loops and none was told to stop, kStopped   *)
(* that all have ended; and no loop is freed under a thread that is about  *)
(* to run it.                                                              *)
(***************************************************************************)
StatusTrue ==
  /\ status = kRunning => \A w \in Workers : worker[w] = "running"
  /\ status = kStopped => \A w \in Workers : worker[w] = "ended"
  /\ ~early
=============================================================================
