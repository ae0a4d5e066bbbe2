----------------------- MODULE EventLoopThread_proofs -----------------------
(***************************************************************************)
(* One user that calls start(), stop() and the destructor any number of    *)
(* times, but does not start a stopped thread again and stops a thread     *)
(* only when its loop has run something: the invariants of                 *)
(* EventLoopThread, and that it implements LoopThread.                     *)
(*                                                                         *)
(* The user and the thread it creates go through five phases together.     *)
(* That nothing is freed while it is in use, and that each call returns    *)
(* when it should, follows from the phase each of them is in.              *)
(***************************************************************************)
EXTENDS EventLoopThread, TLAPS

\* Nothing was created; the object may be gone already.
NotStarted(u) ==
  /\ \A w \in Workers : worker[w] = "none"
  /\ thread_ = 0 /\ loop_status = kInitialized
  /\ status = IF pc[u] = "spawn" THEN kStarting ELSE kInitialized
  /\ IF pc[u] = "returned" /\ op[u] = "release" THEN ~loop_ /\ hloop = "freed"
                                                 ELSE loop_ /\ hloop = "fresh"
  /\ \/ pc[u] = "out" /\ op[u] = "none"
     \/ pc[u] \in {"start", "starting", "spawn"} /\ op[u] = "start"
     \/ pc[u] = "stop" /\ op[u] \in {"stop", "destroy"}
     \/ pc[u] = "join" /\ op[u] = "destroy"
     \/ pc[u] \in {"loopStop", "loopFree"} /\ op[u] = "release"
     \/ pc[u] = "returned" /\ op[u] \in {"stop", "release"}

\* The user waits for the loop.
ComingUp(u, w) ==
  /\ worker[w] \in {"begin", "run", "setRunning"}
  /\ thread_ = w /\ loop_status = kInitialized /\ loop_ /\ hloop = "fresh"
  /\ status = IF worker[w] = "begin" THEN kStarting ELSE kStarted
  /\ pc[u] = "wait" /\ op[u] = "start"

\* The loop runs, and was not told to stop.
Running(u, w) ==
  /\ worker[w] \in {"enter", "running"}
  /\ thread_ = w /\ loop_status = kRunning /\ loop_
  /\ hloop = IF worker[w] = "enter" THEN "fresh" ELSE "running"
  /\ \/ pc[u] \in {"wait", "returned", "start"} /\ op[u] = "start" /\ status = kStarted
     \/ /\ worker[w] = "running" /\ op[u] \in {"stop", "destroy"}
        /\ \/ pc[u] \in {"stop", "stopping"} /\ status = kStarted
           \/ pc[u] = "tid" /\ status = kStopping
           \/ pc[u] \in {"loopStop", "loopMark"} /\ status = kStopping /\ ~own[u]

\* The user is in stop() and has marked the loop; the thread comes to its end.
Stopping(u, w) ==
  /\ worker[w] \in {"running", "stopped", "assert", "end", "ended"}
  /\ thread_ = w /\ ~own[u]
  /\ pc[u] \in {"loopHalt", "loopForget", "join"} /\ op[u] \in {"stop", "destroy"}
  /\ loop_ <=> pc[u] # "join"
  /\ status = IF worker[w] = "ended" THEN kStopped ELSE kStopping
  /\ loop_status = IF worker[w] \in {"assert", "end", "ended"} THEN kStopped ELSE kStopping
  /\ IF pc[u] = "loopHalt" THEN worker[w] = "running" /\ hloop = "running"
     ELSE hloop = IF worker[w] = "running" THEN "told" ELSE "freed"

\* The thread was joined.
Ended(u, w) ==
  /\ worker[w] = "ended"
  /\ thread_ = 0 /\ status = kStopped /\ loop_status = kStopped
  /\ ~loop_ /\ hloop = "freed"
  /\ \/ pc[u] = "stop" /\ op[u] \in {"stop", "destroy"}
     \/ pc[u] = "join" /\ op[u] = "destroy"
     \/ pc[u] = "loopStop" /\ op[u] = "release"
     \/ pc[u] = "returned" /\ op[u] \in {"stop", "release"}

Only(w) == \A v \in Workers : v # w => worker[v] = "none"

\* The inductive invariant.
IInv(u) ==
  /\ TypeOK
  /\ broken = {}
  /\ \/ NotStarted(u)
     \/ \E w \in Workers :
          /\ Only(w)
          /\ ComingUp(u, w) \/ Running(u, w) \/ Stopping(u, w) \/ Ended(u, w)
---------------------------------------------------------------------------

\* Every step keeps the variables well typed.
LEMMA TypeStep == TypeOK /\ [Next]_vars => TypeOK'
<1> SUFFICES ASSUME TypeOK, [Next]_vars PROVE TypeOK'
  OBVIOUS
<1> USE ThreadAssumption DEF TypeOK, users, loop, Goto, Work, After, Workers, UsesLoop
<1>1. ASSUME NEW u \in Users, NEW o \in {"start", "stop", "destroy"}, Call(u, o) PROVE TypeOK'
  BY <1>1 DEF Call
<1>2. ASSUME NEW u \in Users, Start(u) \/ Stop(u) PROVE TypeOK'
  <2>1. CASE StartCheck(u)  BY <2>1 DEF StartCheck
  <2>2. CASE StartSet(u)  BY <2>2 DEF StartSet
  <2>3. CASE Spawn(u)  BY <2>3 DEF Spawn
  <2>4. CASE WaitStarted(u)  BY <2>4 DEF WaitStarted
  <2>5. CASE StopCheck(u)  BY <2>5 DEF StopCheck
  <2>6. CASE StopSet(u)  BY <2>6 DEF StopSet
  <2>6a. CASE StopTid(u)  BY <2>6a DEF StopTid
  <2>7. CASE LoopStopCheck(u)  BY <2>7 DEF LoopStopCheck
  <2>8. CASE LoopFree(u)  BY <2>8 DEF LoopFree
  <2>9. CASE LoopMark(u)  BY <2>9 DEF LoopMark
  <2>10. CASE LoopHalt(u)  BY <2>10 DEF LoopHalt
  <2>11. CASE LoopForget(u)  BY <2>11 DEF LoopForget
  <2>12. CASE Join(u)  BY <2>12 DEF Join
  <2> QED BY <1>2, <2>1, <2>2, <2>3, <2>4, <2>5, <2>6, <2>7, <2>8, <2>9, <2>10, <2>11, <2>12, <2>6a DEF Start, Stop
<1>3. ASSUME NEW w \in Workers, LoopThread(w) PROVE TypeOK'
  <2>1. CASE Begin(w)  BY <2>1 DEF Begin
  <2>2. CASE RunCheck(w)  BY <2>2 DEF RunCheck
  <2>3. CASE RunSet(w)  BY <2>3 DEF RunSet
  <2>4. CASE HloopRun(w)  BY <2>4 DEF HloopRun
  <2>5. CASE HloopEnd(w)  BY <2>5 DEF HloopEnd
  <2>6. CASE RunEnd(w)  BY <2>6 DEF RunEnd
  <2>7. CASE AssertStopped(w)  BY <2>7 DEF AssertStopped
  <2>8. CASE End(w)  BY <2>8 DEF End
  <2> QED BY <1>3, <2>1, <2>2, <2>3, <2>4, <2>5, <2>6, <2>7, <2>8 DEF LoopThread
<1>4. CASE UNCHANGED vars  BY <1>4 DEF vars
<1> QED BY <1>1, <1>2, <1>3, <1>4 DEF Next

\* A user action of one user, or a step of a thread that exists.
LEMMA OneUserNext ==
  ASSUME NEW u, Users = {u}, [Next]_vars
  PROVE  \/ \E o \in {"start", "stop", "destroy"} : Call(u, o)
         \/ Start(u) \/ Stop(u)
         \/ \E w \in Workers : LoopThread(w)
         \/ UNCHANGED vars
BY DEF Next

\* While nothing is created only the user moves, and Spawn ends the phase.
LEMMA NotStartedStep ==
  ASSUME NEW u, Users = {u}, ~Restart, ~Hasty, TypeOK, broken = {}, NotStarted(u), [Next]_vars
  PROVE  broken' = {} /\ (NotStarted(u)' \/ \E w \in Workers : Only(w)' /\ ComingUp(u, w)')
<1> USE DEF TypeOK, NotStarted, users, loop, Goto, After, UsesLoop, kInitialized, kStarting, kStarted,
            kRunning, kStopping, kStopped
<1>1. ASSUME NEW o \in {"start", "stop", "destroy"}, Call(u, o) PROVE broken' = {} /\ NotStarted(u)'
  BY <1>1 DEF Call
<1>2. CASE StartCheck(u)     BY <1>2 DEF StartCheck
<1>3. CASE StartSet(u)       BY <1>3 DEF StartSet
<1>4. CASE Spawn(u)          BY <1>4 DEF Spawn, ComingUp, Only
<1>5. CASE StopCheck(u)      BY <1>5 DEF StopCheck
<1>6. CASE LoopStopCheck(u)  BY <1>6 DEF LoopStopCheck
<1>7. CASE LoopFree(u)       BY <1>7 DEF LoopFree
<1>8. CASE Join(u)           BY <1>8 DEF Join
<1>9. CASE UNCHANGED vars    BY <1>9 DEF vars
<1>10. ~WaitStarted(u) /\ ~StopSet(u) /\ ~StopTid(u) /\ ~LoopMark(u) /\ ~LoopHalt(u) /\ ~LoopForget(u)
  BY DEF WaitStarted, StopSet, StopTid, LoopMark, LoopHalt, LoopForget
<1>11. ASSUME NEW w \in Workers PROVE ~LoopThread(w)
  BY DEF LoopThread, Work, Begin, RunCheck, RunSet, HloopRun, HloopEnd, RunEnd, AssertStopped, End
<1> HIDE DEF NotStarted
<1> QED BY OneUserNext, <1>1, <1>2, <1>3, <1>4, <1>5, <1>6, <1>7, <1>8, <1>9, <1>10, <1>11
        DEF Start, Stop

\* While the user waits for the loop only the thread moves.
LEMMA ComingUpStep ==
  ASSUME NEW u, Users = {u}, ~Hasty, TypeOK, broken = {}, NEW w \in Workers, Only(w), ComingUp(u, w),
         [Next]_vars
  PROVE  broken' = {} /\ Only(w)' /\ (ComingUp(u, w)' \/ Running(u, w)')
<1> USE DEF TypeOK, ComingUp, Only, users, loop, Goto, Work, UsesLoop, kInitialized, kStarting, kStarted,
            kRunning, kStopping, kStopped
<1>1. CASE Begin(w)     BY <1>1 DEF Begin
<1>2. CASE RunCheck(w)  BY <1>2 DEF RunCheck
<1>3. CASE RunSet(w)    BY <1>3 DEF RunSet, Running
<1>4. CASE UNCHANGED vars  BY <1>4 DEF vars
<1>5. ~HloopRun(w) /\ ~HloopEnd(w) /\ ~RunEnd(w) /\ ~AssertStopped(w) /\ ~End(w)
  BY DEF HloopRun, HloopEnd, RunEnd, AssertStopped, End
<1>6. ASSUME NEW v \in Workers, v # w PROVE ~LoopThread(v)
  BY <1>6 DEF LoopThread, Begin, RunCheck, RunSet, HloopRun, HloopEnd, RunEnd, AssertStopped, End
<1>7. ~Start(u)
  BY DEF Start, StartCheck, StartSet, Spawn, WaitStarted
<1>8. ~Stop(u)
  BY DEF Stop, StopCheck, StopSet, StopTid, LoopStopCheck, LoopFree, LoopMark, LoopHalt, LoopForget, Join
<1>9. ASSUME NEW o PROVE ~Call(u, o)
  BY DEF Call
<1> HIDE DEF ComingUp, Only
<1> QED BY OneUserNext, <1>1, <1>2, <1>3, <1>4, <1>5, <1>6, <1>7, <1>8, <1>9 DEF LoopThread

\* While the loop runs the user may do anything; marking the loop ends the phase.
LEMMA RunningStep ==
  ASSUME NEW u, Users = {u}, ~Restart, ~Hasty, TypeOK, broken = {}, NEW w \in Workers, Only(w), Running(u, w),
         [Next]_vars
  PROVE  broken' = {} /\ Only(w)' /\ (Running(u, w)' \/ Stopping(u, w)')
<1> USE DEF TypeOK, Running, Only, users, loop, Goto, Work, UsesLoop, kInitialized, kStarting, kStarted,
            kRunning, kStopping, kStopped
<1>1. ASSUME NEW o \in {"start", "stop", "destroy"}, Call(u, o)
      PROVE  broken' = {} /\ Only(w)' /\ Running(u, w)'
  BY <1>1 DEF Call
<1>2. CASE StartCheck(u)     BY <1>2 DEF StartCheck
<1>3. CASE WaitStarted(u)    BY <1>3 DEF WaitStarted
<1>4. CASE StopCheck(u)      BY <1>4 DEF StopCheck
<1>5. CASE StopSet(u)        BY <1>5 DEF StopSet
<1>5a. CASE StopTid(u)      BY <1>5a DEF StopTid
<1>6. CASE LoopStopCheck(u)  BY <1>6 DEF LoopStopCheck
<1>7. CASE LoopMark(u)       BY <1>7 DEF LoopMark, Stopping
<1>8. CASE HloopRun(w)       BY <1>8 DEF HloopRun
<1>9. CASE UNCHANGED vars    BY <1>9 DEF vars
<1>10. ~StartSet(u) /\ ~Spawn(u) /\ ~LoopFree(u) /\ ~LoopHalt(u) /\ ~LoopForget(u) /\ ~Join(u)
  BY DEF StartSet, Spawn, LoopFree, LoopHalt, LoopForget, Join
<1>11. ~Begin(w) /\ ~RunCheck(w) /\ ~RunSet(w) /\ ~HloopEnd(w) /\ ~RunEnd(w) /\ ~AssertStopped(w)
       /\ ~End(w)
  BY DEF Begin, RunCheck, RunSet, HloopEnd, RunEnd, AssertStopped, End
<1>12. ASSUME NEW v \in Workers, v # w PROVE ~LoopThread(v)
  BY <1>12 DEF LoopThread, Begin, RunCheck, RunSet, HloopRun, HloopEnd, RunEnd, AssertStopped, End
<1> HIDE DEF Running, Only
<1> QED BY OneUserNext, <1>1, <1>2, <1>3, <1>4, <1>5, <1>6, <1>7, <1>8, <1>9, <1>10, <1>11, <1>12,
           <1>5a
        DEF Start, Stop, LoopThread

\* A stopping thread comes to its end, and the join ends the phase.
LEMMA StoppingStep ==
  ASSUME NEW u, Users = {u}, ~Hasty, TypeOK, broken = {}, NEW w \in Workers, Only(w), Stopping(u, w),
         [Next]_vars
  PROVE  broken' = {} /\ Only(w)' /\ (Stopping(u, w)' \/ Ended(u, w)')
<1> USE DEF TypeOK, Stopping, Only, users, loop, Goto, Work, After, UsesLoop, kInitialized, kStarting,
            kStarted, kRunning, kStopping, kStopped
<1>1. CASE LoopHalt(u)       BY <1>1 DEF LoopHalt
<1>2. CASE LoopForget(u)     BY <1>2 DEF LoopForget
<1>3. CASE Join(u)           BY <1>3, ThreadAssumption DEF Join, Ended, Workers
<1>4. ~HloopRun(w)           BY DEF HloopRun
<1>5. CASE HloopEnd(w)       BY <1>5 DEF HloopEnd
<1>6. CASE RunEnd(w)         BY <1>6 DEF RunEnd
<1>7. CASE AssertStopped(w)  BY <1>7 DEF AssertStopped
<1>8. CASE End(w)            BY <1>8 DEF End
<1>9. CASE UNCHANGED vars    BY <1>9 DEF vars
<1>10. ~Begin(w) /\ ~RunCheck(w) /\ ~RunSet(w)
  BY DEF Begin, RunCheck, RunSet
<1>11. ASSUME NEW v \in Workers, v # w PROVE ~LoopThread(v)
  BY <1>11 DEF LoopThread, Begin, RunCheck, RunSet, HloopRun, HloopEnd, RunEnd, AssertStopped, End
<1>12. ~Start(u)
  BY DEF Start, StartCheck, StartSet, Spawn, WaitStarted
<1>13. ~StopCheck(u) /\ ~StopSet(u) /\ ~StopTid(u) /\ ~LoopStopCheck(u) /\ ~LoopFree(u) /\ ~LoopMark(u)
  BY DEF StopCheck, StopSet, StopTid, LoopStopCheck, LoopFree, LoopMark
<1>14. ASSUME NEW o PROVE ~Call(u, o)
  BY DEF Call
<1> HIDE DEF Stopping, Only
<1> QED BY OneUserNext, <1>1, <1>2, <1>3, <1>4, <1>5, <1>6, <1>7, <1>8, <1>9, <1>10, <1>11, <1>12,
           <1>13, <1>14
        DEF Stop, LoopThread

\* When the thread was joined nothing touches the loop again.
LEMMA EndedStep ==
  ASSUME NEW u, Users = {u}, ~Restart, ~Hasty, TypeOK, broken = {}, NEW w \in Workers, Only(w), Ended(u, w),
         [Next]_vars
  PROVE  broken' = {} /\ Only(w)' /\ Ended(u, w)'
<1> USE DEF TypeOK, Ended, Only, users, loop, Goto, Work, After, UsesLoop, kInitialized, kStarting, kStarted,
            kRunning, kStopping, kStopped
<1>1. ASSUME NEW o \in {"start", "stop", "destroy"}, Call(u, o)
      PROVE  broken' = {} /\ Only(w)' /\ Ended(u, w)'
  BY <1>1 DEF Call
<1>2. CASE StopCheck(u)      BY <1>2 DEF StopCheck
<1>3. CASE Join(u)           BY <1>3 DEF Join
<1>4. CASE LoopStopCheck(u)  BY <1>4 DEF LoopStopCheck
<1>5. CASE UNCHANGED vars    BY <1>5 DEF vars
<1>6. ~StopSet(u) /\ ~StopTid(u) /\ ~LoopFree(u) /\ ~LoopMark(u) /\ ~LoopHalt(u) /\ ~LoopForget(u)
  BY DEF StopSet, StopTid, LoopFree, LoopMark, LoopHalt, LoopForget
<1>7. ~Start(u)
  BY DEF Start, StartCheck, StartSet, Spawn, WaitStarted
<1>8. ASSUME NEW v \in Workers PROVE ~LoopThread(v)
  BY DEF LoopThread, Begin, RunCheck, RunSet, HloopRun, HloopEnd, RunEnd, AssertStopped, End
<1> HIDE DEF Ended, Only
<1> QED BY OneUserNext, <1>1, <1>2, <1>3, <1>4, <1>5, <1>6, <1>7, <1>8 DEF Stop

\* IInv is inductive for one user.
THEOREM Invariance == ASSUME NEW u, Users = {u}, ~Restart, ~Hasty PROVE Spec => []IInv(u)
<1>1. Init => IInv(u)
  BY ThreadAssumption DEF Init, IInv, TypeOK, NotStarted, Workers
<1>2. ASSUME IInv(u), [Next]_vars PROVE IInv(u)'
  <2>1. TypeOK'
    BY <1>2, TypeStep DEF IInv
  <2>2. CASE NotStarted(u)
    BY <1>2, <2>1, <2>2, NotStartedStep DEF IInv, Workers
  <2>3. ASSUME NEW w \in Workers, Only(w), ComingUp(u, w) PROVE IInv(u)'
    BY <1>2, <2>1, <2>3, ComingUpStep DEF IInv, Workers
  <2>4. ASSUME NEW w \in Workers, Only(w), Running(u, w) PROVE IInv(u)'
    BY <1>2, <2>1, <2>4, RunningStep DEF IInv, Workers
  <2>5. ASSUME NEW w \in Workers, Only(w), Stopping(u, w) PROVE IInv(u)'
    BY <1>2, <2>1, <2>5, StoppingStep DEF IInv, Workers
  <2>6. ASSUME NEW w \in Workers, Only(w), Ended(u, w) PROVE IInv(u)'
    BY <1>2, <2>1, <2>6, EndedStep DEF IInv, Workers
  <2> QED BY <1>2, <2>2, <2>3, <2>4, <2>5, <2>6 DEF IInv
<1> QED BY <1>1, <1>2, PTL DEF Spec

\* For any number of users, and restarts too: the variables are well typed.
THEOREM TypeCorrect == Spec => []TypeOK
<1>1. Init => TypeOK
  BY ThreadAssumption DEF Init, TypeOK, Workers
<1> QED BY <1>1, TypeStep, PTL DEF Spec

\* One user: nothing is used after it was freed, no loop_ that was forgotten, no std::thread is destroyed
\* unjoined, and the assertion of loop_thread holds.
THEOREM AlwaysSound == ASSUME NEW u, Users = {u}, ~Restart, ~Hasty PROVE Spec => []Sound
<1>1. IInv(u) => Sound
  BY DEF IInv, Sound
<1> QED BY <1>1, Invariance, PTL

\* One user: start() returns with a running loop.
THEOREM StartReturnsRunning == ASSUME NEW u, Users = {u}, ~Restart, ~Hasty PROVE Spec => []StartedRuns
<1>1. IInv(u) => StartedRuns
  BY DEF IInv, StartedRuns, NotStarted, ComingUp, Running, Stopping, Ended
<1> QED BY <1>1, Invariance, PTL

\* One user: stop() and the destructor return when no thread is left.
THEOREM StopReturnsJoined == ASSUME NEW u, Users = {u}, ~Restart, ~Hasty PROVE Spec => []StopBlocks
<1>1. IInv(u) => StopBlocks
  BY DEF IInv, StopBlocks, Live, NotStarted, ComingUp, Running, Stopping, Ended, Only
<1> QED BY <1>1, Invariance, PTL
---------------------------------------------------------------------------
(***************************************************************************)
(* The refinement of LoopThread                                            *)
(***************************************************************************)
\* The call that one user is in.
LEMMA InCallOne ==
  ASSUME NEW u, Users = {u}
  PROVE  InCall = IF pc[u] \in {"out", "returned"} THEN "none"
                  ELSE IF op[u] = "start" THEN "start" ELSE "stop"
BY DEF InCall, Inside

\* A step that leaves the threads alone leaves the abstract phase alone.
LEMMA PhaseKept == worker' = worker => Phase' = Phase
BY DEF Phase, Up

\* The abstract phase in each of the five phases of the proof.
LEMMA PhaseOne ==
  ASSUME NEW u, IInv(u)
  PROVE  /\ NotStarted(u) => Phase = "down"
         /\ \A w \in Workers : Only(w) =>
              /\ ComingUp(u, w) => Phase = "down"
              /\ Running(u, w) => Phase = "up"
              /\ Stopping(u, w) => Phase = IF worker[w] = "ended" THEN "ended" ELSE "up"
              /\ Ended(u, w) => Phase = "ended"
<1>1. NotStarted(u) => Phase = "down"
  BY DEF NotStarted, Phase, Up
<1>2. ASSUME NEW w \in Workers, Only(w)
      PROVE  Phase = IF Up(w) THEN "up" ELSE IF worker[w] = "ended" THEN "ended" ELSE "down"
  BY <1>2 DEF Phase, Up, Only
<1> QED BY <1>1, <1>2 DEF Up, ComingUp, Running, Stopping, Ended

\* Each step is a step of LoopThread or a stutter.
LEMMA RefinesStep ==
  ASSUME NEW u, Users = {u}, ~Restart, ~Hasty, IInv(u), IInv(u)', [Next]_vars
  PROVE  [Abstract!Next]_(Abstract!vars)
<1> DEFINE CallOf(p, o) == IF p \in {"out", "returned"} THEN "none"
                           ELSE IF o = "start" THEN "start" ELSE "stop"
<1>a. /\ InCall = CallOf(pc[u], op[u])
      /\ InCall' = CallOf(pc'[u], op'[u])
  BY InCallOne DEF InCall, Inside
<1>b. TypeOK
  BY DEF IInv
<1> USE DEF Abstract!Next, Abstract!vars, Goto, users, kInitialized, kStarting, kStarted, kRunning,
            kStopping, kStopped
<1>1. ASSUME NEW o \in {"start", "stop", "destroy"}, Call(u, o)
      PROVE  [Abstract!Next]_(Abstract!vars)
  <2>1. Phase' = Phase
    BY <1>1, PhaseKept DEF Call
  <2>2. /\ InCall = "none"
        /\ InCall' = IF o = "start" THEN "start" ELSE "stop"
    BY <1>1, <1>a, <1>b DEF Call, TypeOK
  <2> QED BY <2>1, <2>2 DEF Abstract!Call
<1>2. CASE UNCHANGED vars
  BY <1>2, <1>a, PhaseKept DEF vars
<1>3. ASSUME worker' = worker, InCall' = InCall PROVE [Abstract!Next]_(Abstract!vars)
  BY <1>3, PhaseKept
<1>4. ASSUME worker' = worker, InCall = "start", InCall' = "none", Phase = "up"
      PROVE  [Abstract!Next]_(Abstract!vars)
  BY <1>4, PhaseKept DEF Abstract!StartReturns
<1>5. ASSUME worker' = worker, InCall = "stop", InCall' = "none", Phase # "up"
      PROVE  [Abstract!Next]_(Abstract!vars)
  BY <1>5, PhaseKept DEF Abstract!StopReturns
<1>6. ASSUME Start(u) PROVE [Abstract!Next]_(Abstract!vars)
  <2>1. CASE StartCheck(u)
    <3>1. CASE status >= kStarting /\ status < kStopped
      <4>1. \E w \in Workers : Only(w) /\ Running(u, w)
        BY <2>1, <3>1 DEF StartCheck, IInv, NotStarted, ComingUp, Stopping, Ended
      <4> QED BY <1>4, <1>a, <1>b, <2>1, <3>1, <4>1, PhaseOne DEF StartCheck, Running, TypeOK
    <3>2. CASE ~(status >= kStarting /\ status < kStopped)
      BY <1>3, <1>a, <1>b, <2>1, <3>2 DEF StartCheck, TypeOK
    <3> QED BY <3>1, <3>2
  <2>2. CASE StartSet(u)
    BY <1>3, <1>a, <1>b, <2>2 DEF StartSet, TypeOK
  <2>3. CASE Spawn(u)
    <3>1. NotStarted(u) /\ \E w \in Workers : worker' = [worker EXCEPT ![w] = "begin"]
      BY <2>3 DEF Spawn, IInv, ComingUp, Running, Stopping, Ended
    <3>2. Phase = "down" /\ Phase' = "down"
      BY <1>b, <3>1, PhaseOne DEF NotStarted, Phase, Up, TypeOK
    <3>3. InCall' = InCall
      BY <1>a, <1>b, <2>3 DEF Spawn, TypeOK
    <3> QED BY <3>2, <3>3
  <2>4. CASE WaitStarted(u)
    <3>1. \E w \in Workers : Only(w) /\ Running(u, w)
      BY <2>4 DEF WaitStarted, IInv, NotStarted, ComingUp, Stopping, Ended
    <3> QED BY <1>4, <1>a, <1>b, <2>4, <3>1, PhaseOne DEF WaitStarted, Running, TypeOK
  <2> QED BY <1>6, <2>1, <2>2, <2>3, <2>4 DEF Start
<1>7. ASSUME Stop(u) PROVE [Abstract!Next]_(Abstract!vars)
  <2>0. op[u] # "start"
    BY <1>7 DEF Stop, StopCheck, StopSet, StopTid, LoopStopCheck, LoopFree, LoopMark, LoopHalt, LoopForget,
                Join, IInv, NotStarted, ComingUp, Running, Stopping, Ended
  <2>1. CASE StopCheck(u)
    <3>1. CASE pc'[u] = "returned"
      <4>1. NotStarted(u) \/ \E w \in Workers : Only(w) /\ Ended(u, w)
        BY <1>b, <2>1, <3>1 DEF StopCheck, IInv, ComingUp, Running, Stopping, TypeOK
      <4> QED BY <1>5, <1>a, <1>b, <2>0, <2>1, <3>1, <4>1, PhaseOne DEF StopCheck, TypeOK
    <3>2. CASE pc'[u] # "returned"
      BY <1>3, <1>a, <1>b, <2>0, <2>1, <3>2 DEF StopCheck, TypeOK
    <3> QED BY <3>1, <3>2
  <2>2. CASE StopSet(u)
    BY <1>3, <1>a, <1>b, <2>0, <2>2 DEF StopSet, TypeOK
  <2>2a. CASE StopTid(u)
    BY <1>3, <1>a, <1>b, <2>0, <2>2a DEF StopTid, TypeOK
  <2>3. CASE LoopStopCheck(u)
    <3>1. CASE pc'[u] = "returned"
      <4>1. NotStarted(u) \/ \E w \in Workers : Only(w) /\ Ended(u, w)
        BY <1>b, <2>3, <3>1 DEF LoopStopCheck, After, IInv, ComingUp, Running, Stopping, TypeOK
      <4> QED BY <1>5, <1>a, <1>b, <2>0, <2>3, <3>1, <4>1, PhaseOne DEF LoopStopCheck, TypeOK
    <3>2. CASE pc'[u] # "returned"
      BY <1>3, <1>a, <1>b, <2>0, <2>3, <3>2 DEF LoopStopCheck, After, TypeOK
    <3> QED BY <3>1, <3>2
  <2>4. CASE LoopFree(u)
    <3>1. NotStarted(u) /\ op[u] = "release"
      BY <2>4 DEF LoopFree, IInv, NotStarted, ComingUp, Running, Stopping, Ended
    <3> QED BY <1>5, <1>a, <1>b, <2>0, <2>4, <3>1, PhaseOne DEF LoopFree, After, TypeOK
  <2>5. CASE LoopMark(u)
    BY <1>3, <1>a, <1>b, <2>0, <2>5 DEF LoopMark, TypeOK
  <2>6. CASE LoopHalt(u)
    BY <1>3, <1>a, <1>b, <2>0, <2>6 DEF LoopHalt, TypeOK
  <2>7. CASE LoopForget(u)
    <3>1. op[u] # "release" /\ ~own[u]
      BY <2>7 DEF LoopForget, IInv, NotStarted, ComingUp, Running, Stopping, Ended
    <3> QED BY <1>3, <1>a, <1>b, <2>0, <2>7, <3>1 DEF LoopForget, After, TypeOK
  <2>8. CASE Join(u)
    <3>1. CASE op[u] = "destroy"
      BY <1>3, <1>a, <1>b, <2>0, <2>8, <3>1 DEF Join, TypeOK
    <3>2. CASE op[u] # "destroy"
      <4>1. PICK w \in Workers : Only(w) /\ Stopping(u, w)
        BY <2>8, <3>2 DEF Join, IInv, NotStarted, ComingUp, Running, Ended
      <4>2. worker[w] = "ended"
        BY <2>8, <4>1, ThreadAssumption DEF Join, Stopping, Workers
      <4> QED BY <1>5, <1>a, <1>b, <2>0, <2>8, <3>2, <4>1, <4>2, PhaseOne DEF Join, TypeOK
    <3> QED BY <3>1, <3>2
  <2> QED BY <1>7, <2>1, <2>2, <2>3, <2>4, <2>5, <2>6, <2>7, <2>8, <2>2a DEF Stop
<1>8. ASSUME NEW w \in Workers, LoopThread(w) PROVE [Abstract!Next]_(Abstract!vars)
  <2> USE DEF Work
  <2>1. InCall' = InCall
    BY <1>8, <1>a DEF LoopThread, Begin, RunCheck, RunSet, HloopRun, HloopEnd, RunEnd,
                      AssertStopped, End
  <2>2. Only(w)
    BY <1>8 DEF LoopThread, Begin, RunCheck, RunSet, HloopRun, HloopEnd, RunEnd, AssertStopped,
                End, IInv, NotStarted, Only
  <2>3. /\ Only(w)' /\ worker'[w] # "none"
        /\ \A v \in Workers : v # w => worker'[v] = "none"
    BY <1>8, <1>b, <2>2 DEF LoopThread, Begin, RunCheck, RunSet, HloopRun, HloopEnd, RunEnd,
                            AssertStopped, End, Only, TypeOK
  <2>4. /\ Phase = IF Up(w) THEN "up" ELSE IF worker[w] = "ended" THEN "ended" ELSE "down"
        /\ Phase' = IF Up(w)' THEN "up" ELSE IF worker'[w] = "ended" THEN "ended" ELSE "down"
    BY <2>2, <2>3 DEF Phase, Up, Only
  <2>5. CASE RunSet(w)
    <3>1. ComingUp(u, w)
      BY <2>2, <2>5 DEF RunSet, IInv, NotStarted, Only, Running, Stopping, Ended
    <3>2. InCall = "start" /\ Phase = "down" /\ Phase' = "up"
      BY <1>a, <1>b, <2>4, <2>5, <3>1 DEF RunSet, ComingUp, Up, TypeOK
    <3> QED BY <2>1, <3>2 DEF Abstract!ComesUp
  <2>6. CASE End(w)
    <3>1. Stopping(u, w)
      BY <2>2, <2>6 DEF End, IInv, NotStarted, Only, Running, ComingUp, Ended
    <3>2. InCall = "stop" /\ Phase = "up" /\ Phase' = "ended"
      BY <1>a, <1>b, <2>4, <2>6, <3>1 DEF End, Stopping, Up, TypeOK
    <3> QED BY <2>1, <3>2 DEF Abstract!Ends
  <2>7. CASE RunCheck(w)
    <3>1. ComingUp(u, w)
      BY <2>2, <2>7 DEF RunCheck, IInv, NotStarted, Only, Running, Stopping, Ended
    <3> QED BY <1>b, <2>1, <2>4, <2>7, <3>1 DEF RunCheck, ComingUp, Up, TypeOK
  <2>8. CASE Begin(w) \/ HloopRun(w) \/ HloopEnd(w) \/ RunEnd(w) \/ AssertStopped(w)
    BY <1>b, <2>1, <2>4, <2>8 DEF Begin, HloopRun, HloopEnd, RunEnd, AssertStopped, Up, TypeOK
  <2> QED BY <1>8, <2>5, <2>6, <2>7, <2>8 DEF LoopThread
<1> QED BY <1>1, <1>2, <1>6, <1>7, <1>8, OneUserNext

\* EventLoopThread implements LoopThread for one user that does not restart it.
THEOREM ThreadRefinement == ASSUME NEW u, Users = {u}, ~Restart, ~Hasty PROVE Spec => ImplementsLoopThread
<1>1. Init => Abstract!Init
  BY DEF Init, Abstract!Init, InCall, Inside, Phase, Up
<1>2. IInv(u) /\ IInv(u)' /\ [Next]_vars => [Abstract!Next]_(Abstract!vars)
  BY RefinesStep
<1> QED BY <1>1, <1>2, Invariance, PTL DEF Spec, ImplementsLoopThread, Abstract!Spec


=============================================================================
