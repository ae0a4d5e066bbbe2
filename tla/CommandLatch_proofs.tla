------------------------ MODULE CommandLatch_proofs ------------------------
(***************************************************************************)
(* Proofs about CommandLatch, for every set of callers and of event-loop   *)
(* threads and for every bound.  IInv is inductive: NoLostWakeup needs     *)
(* SleepOnlyUnfinished (a thread goes to sleep only while the flag is 0),  *)
(* which needs MutexInv (nobody writes 1 between the test of the predicate *)
(* and the sleep), which needs TypeOK.                                     *)
(***************************************************************************)
EXTENDS CommandLatch, TLAPS

\* Initially nobody holds the mutex and nobody sleeps.
LEMMA InitIInv == Init => IInv
BY LatchAssumption DEF Init, IInv, TypeOK, MutexInv, SleepOnlyUnfinished,
   NoLostWakeup, Locked, CallerPc, LoopPc, Threads

\* Every step keeps the control state well typed.
LEMMA TypeStep == TypeOK /\ [Next]_vars => TypeOK'
<1> SUFFICES ASSUME TypeOK, [Next]_vars PROVE TypeOK'
  OBVIOUS
<1> USE LatchAssumption DEF TypeOK, CallerPc, LoopPc, Threads, Goto, Acquire, Release
<1>1. ASSUME NEW t \in Callers, Caller(t) PROVE TypeOK'
  <2>1. CASE Resume(t)      BY <2>1 DEF Resume
  <2>2. CASE Waits(t)       BY <2>2 DEF Waits
  <2>3. CASE WaitLock(t)    BY <2>3 DEF WaitLock
  <2>4. CASE WaitReturn(t)  BY <2>4 DEF WaitReturn
  <2>5. CASE WaitFalse(t)   BY <2>5 DEF WaitFalse
  <2>6. CASE Block(t)       BY <2>6 DEF Block
  <2>7. CASE SpuriousWake(t) BY <2>7 DEF SpuriousWake
  <2> QED BY <1>1, <2>1, <2>2, <2>3, <2>4, <2>5, <2>6, <2>7 DEF Caller
<1>2. ASSUME NEW l \in Loops, Loop(l) PROVE TypeOK'
  <2>1. CASE WeakUp(l)      BY <2>1 DEF WeakUp
  <2>2. CASE WeakLock(l)    BY <2>2 DEF WeakLock
  <2>3. CASE WeakSet(l)     BY <2>3 DEF WeakSet
  <2>4. CASE WeakUnlock(l)  BY <2>4 DEF WeakUnlock
  <2>5. CASE NotifyAll(l)   BY <2>5 DEF NotifyAll
  <2> QED BY <1>2, <2>1, <2>2, <2>3, <2>4, <2>5 DEF Loop
<1>3. CASE UNCHANGED vars BY <1>3 DEF vars
<1> QED BY <1>1, <1>2, <1>3 DEF Next

\* m_mutex is held by exactly one thread of a locked region, at every step.
LEMMA MutexStep == TypeOK /\ MutexInv /\ [Next]_vars => MutexInv'
<1> SUFFICES ASSUME TypeOK, MutexInv, [Next]_vars PROVE MutexInv'
  OBVIOUS
<1> USE LatchAssumption
    DEF TypeOK, MutexInv, Locked, CallerPc, LoopPc, Threads, Goto, Acquire, Release
<1>1. ASSUME NEW t \in Callers, Caller(t) PROVE MutexInv'
  <2>1. CASE Resume(t)      BY <2>1 DEF Resume
  <2>2. CASE Waits(t)       BY <2>2 DEF Waits
  <2>3. CASE WaitLock(t)    BY <2>3 DEF WaitLock
  <2>4. CASE WaitReturn(t)  BY <2>4 DEF WaitReturn
  <2>5. CASE WaitFalse(t)   BY <2>5 DEF WaitFalse
  <2>6. CASE Block(t)       BY <2>6 DEF Block
  <2>7. CASE SpuriousWake(t) BY <2>7 DEF SpuriousWake
  <2> QED BY <1>1, <2>1, <2>2, <2>3, <2>4, <2>5, <2>6, <2>7 DEF Caller
<1>2. ASSUME NEW l \in Loops, Loop(l) PROVE MutexInv'
  <2>1. CASE WeakUp(l)      BY <2>1 DEF WeakUp
  <2>2. CASE WeakLock(l)    BY <2>2 DEF WeakLock
  <2>3. CASE WeakSet(l)     BY <2>3 DEF WeakSet
  <2>4. CASE WeakUnlock(l)  BY <2>4 DEF WeakUnlock
  <2>5. CASE NotifyAll(l)   BY <2>5 DEF NotifyAll
  <2> QED BY <1>2, <2>1, <2>2, <2>3, <2>4, <2>5 DEF Loop
<1>3. CASE UNCHANGED vars BY <1>3 DEF vars
<1> QED BY <1>1, <1>2, <1>3 DEF Next

\* The flag cannot be raised while a caller that found it 0 is about to sleep:
\* that caller holds the mutex weak_up() needs.
LEMMA SleepStep ==
  TypeOK /\ MutexInv /\ SleepOnlyUnfinished /\ [Next]_vars => SleepOnlyUnfinished'
<1> SUFFICES ASSUME TypeOK, MutexInv, SleepOnlyUnfinished, [Next]_vars
             PROVE SleepOnlyUnfinished'
  OBVIOUS
<1> USE LatchAssumption DEF TypeOK, SleepOnlyUnfinished, CallerPc, LoopPc, Threads, Goto
<1>1. ASSUME NEW t \in Callers, Caller(t) PROVE SleepOnlyUnfinished'
  <2>1. CASE Resume(t)      BY <2>1 DEF Resume
  <2>2. CASE Waits(t)       BY <2>2 DEF Waits
  <2>3. CASE WaitLock(t)    BY <2>3 DEF WaitLock
  <2>4. CASE WaitReturn(t)  BY <2>4 DEF WaitReturn
  <2>5. CASE WaitFalse(t)   BY <2>5 DEF WaitFalse
  <2>6. CASE Block(t)       BY <2>6 DEF Block
  <2>7. CASE SpuriousWake(t) BY <2>7 DEF SpuriousWake
  <2> QED BY <1>1, <2>1, <2>2, <2>3, <2>4, <2>5, <2>6, <2>7 DEF Caller
<1>2. ASSUME NEW l \in Loops, Loop(l) PROVE SleepOnlyUnfinished'
  <2>1. CASE WeakUp(l)      BY <2>1 DEF WeakUp
  <2>2. CASE WeakLock(l)    BY <2>2 DEF WeakLock
  <2>3. CASE WeakSet(l)
    <3>1. \A t \in Callers : pc[t] # "block"
      BY <2>3 DEF WeakSet, MutexInv, Locked
    <3> QED BY <2>3, <3>1 DEF WeakSet
  <2>4. CASE WeakUnlock(l)  BY <2>4 DEF WeakUnlock
  <2>5. CASE NotifyAll(l)   BY <2>5 DEF NotifyAll
  <2> QED BY <1>2, <2>1, <2>2, <2>3, <2>4, <2>5 DEF Loop
<1>3. CASE UNCHANGED vars BY <1>3 DEF vars
<1> QED BY <1>1, <1>2, <1>3 DEF Next

\* A sleeper is either rightly asleep or will still be notified.
LEMMA WakeupStep == IInv /\ [Next]_vars => NoLostWakeup'
<1> SUFFICES ASSUME IInv, [Next]_vars PROVE NoLostWakeup'
  OBVIOUS
<1> USE LatchAssumption
    DEF IInv, TypeOK, NoLostWakeup, CallerPc, LoopPc, Threads, Goto
<1>1. ASSUME NEW t \in Callers, Caller(t) PROVE NoLostWakeup'
  <2>1. CASE Resume(t)      BY <2>1 DEF Resume
  <2>2. CASE Waits(t)       BY <2>2 DEF Waits
  <2>3. CASE WaitLock(t)    BY <2>3 DEF WaitLock
  <2>4. CASE WaitReturn(t)  BY <2>4 DEF WaitReturn
  <2>5. CASE WaitFalse(t)   BY <2>5 DEF WaitFalse
  <2>6. CASE Block(t)       BY <2>6 DEF Block, SleepOnlyUnfinished
  <2>7. CASE SpuriousWake(t) BY <2>7 DEF SpuriousWake
  <2> QED BY <1>1, <2>1, <2>2, <2>3, <2>4, <2>5, <2>6, <2>7 DEF Caller
<1>2. ASSUME NEW l \in Loops, Loop(l) PROVE NoLostWakeup'
  <2>1. CASE WeakUp(l)      BY <2>1 DEF WeakUp
  <2>2. CASE WeakLock(l)    BY <2>2 DEF WeakLock
  <2>3. CASE WeakSet(l)
    <3>1. pc'[l] = "unlock"
      BY <2>3 DEF WeakSet
    <3> QED BY <3>1
  <2>4. CASE WeakUnlock(l)  BY <2>4 DEF WeakUnlock
  <2>5. CASE NotifyAll(l)
    <3>1. \A t \in Callers : pc'[t] # "asleep"
      BY <2>5 DEF NotifyAll
    <3> QED BY <3>1
  <2> QED BY <1>2, <2>1, <2>2, <2>3, <2>4, <2>5 DEF Loop
<1>3. CASE UNCHANGED vars BY <1>3 DEF vars
<1> QED BY <1>1, <1>2, <1>3 DEF Next

\* The inductive invariant holds in every reachable state.
THEOREM Invariance == Spec => []IInv
<1>1. IInv /\ [Next]_vars => IInv'
  BY TypeStep, MutexStep, SleepStep, WakeupStep DEF IInv
<1> QED BY InitIInv, <1>1, PTL DEF Spec

\* Nobody raises the flag between a caller's test and its sleep.
THEOREM NobodyOvertakesSleeper == Spec => []SleepOnlyUnfinished
<1>1. IInv => SleepOnlyUnfinished
  BY DEF IInv
<1> QED BY Invariance, <1>1, PTL

\* No wake-up is lost, however many callers and loop threads there are:
\* what AdbCommand::waits and weak_up are for.
THEOREM NoWakeupIsLost == Spec => []NoLostWakeup
<1>1. IInv => NoLostWakeup
  BY DEF IInv
<1> QED BY Invariance, <1>1, PTL

\* The variables of CommandLatch are well typed in every reachable state.
THEOREM TypeCorrect == Spec => []TypeOK
<1>1. IInv => TypeOK
  BY DEF IInv
<1> QED BY Invariance, <1>1, PTL

\* The mutex, the condition variable and the int implement the latch: a
\* waiting thread leaves only while the flag is raised.
THEOREM LatchRefinement == Spec => ImplementsLatch
<1> USE DEF AbstractLatch!vars
<1>1. Init => AbstractLatch!Init
  BY LatchAssumption DEF Init, AbstractLatch!Init, Threads
<1>2. TypeOK /\ [Next]_vars => [AbstractLatch!Next]_(AbstractLatch!vars)
  <2> SUFFICES ASSUME TypeOK, [Next]_vars
               PROVE [AbstractLatch!Next]_(AbstractLatch!vars)
    OBVIOUS
  <2> DEFINE waiting == {u \in Callers : pc[u] # "out"}
  <2> USE LatchAssumption DEF TypeOK, CallerPc, LoopPc, Threads, Goto
  <2>1. ASSUME NEW t \in Callers, Resume(t) PROVE AbstractLatch!Next
    BY <2>1 DEF Resume, AbstractLatch!Next, AbstractLatch!Clear
  <2>2. ASSUME NEW t \in Callers, Waits(t) PROVE AbstractLatch!Next
    <3>1. waiting' = waiting \cup {t} /\ t \notin waiting
      BY <2>2 DEF Waits
    <3> QED BY <2>2, <3>1 DEF Waits, AbstractLatch!Next, AbstractLatch!Arrive
  <2>3. ASSUME NEW t \in Callers, WaitReturn(t) PROVE AbstractLatch!Next
    <3>1. waiting' = waiting \ {t} /\ t \in waiting
      BY <2>3 DEF WaitReturn
    <3> QED BY <2>3, <3>1 DEF WaitReturn, AbstractLatch!Next, AbstractLatch!Leave
  <2>4. ASSUME NEW t \in Callers,
               WaitLock(t) \/ WaitFalse(t) \/ Block(t) \/ SpuriousWake(t)
        PROVE UNCHANGED AbstractLatch!vars
    BY <2>4 DEF WaitLock, WaitFalse, Block, SpuriousWake
  <2>5. ASSUME NEW l \in Loops, WeakSet(l) PROVE AbstractLatch!Next
    <3>1. waiting' = waiting
      BY <2>5 DEF WeakSet
    <3> QED BY <2>5, <3>1 DEF WeakSet, AbstractLatch!Next, AbstractLatch!Raise
  <2>6. ASSUME NEW l \in Loops, WeakUp(l) \/ WeakLock(l) \/ WeakUnlock(l)
        PROVE UNCHANGED AbstractLatch!vars
    BY <2>6 DEF WeakUp, WeakLock, WeakUnlock
  <2>7. ASSUME NEW l \in Loops, NotifyAll(l) PROVE UNCHANGED AbstractLatch!vars
    <3>1. waiting' = waiting
      BY <2>7 DEF NotifyAll
    <3> QED BY <2>7, <3>1 DEF NotifyAll
  <2>8. CASE UNCHANGED vars BY <2>8 DEF vars
  <2> QED BY <2>1, <2>2, <2>3, <2>4, <2>5, <2>6, <2>7, <2>8 DEF Next, Caller, Loop
<1> QED BY <1>1, <1>2, TypeCorrect, PTL
        DEF Spec, ImplementsLatch, AbstractLatch!Spec
=============================================================================
