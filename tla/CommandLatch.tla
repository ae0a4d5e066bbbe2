--------------------------- MODULE CommandLatch ---------------------------
(***************************************************************************)
(* AdbCommand::waits, weak_up and resume, step by step: the mutex m_mutex, *)
(* the condition variable m_cv and the int m_command_finished.             *)
(*                                                                         *)
(* weak_up() writes the flag under the mutex and notifies after it has     *)
(* released the mutex; resume() and every command clear the flag with no   *)
(* lock at all.  The steps below are the points at which the operating     *)
(* system may switch from one of these threads to another.                 *)
(***************************************************************************)
EXTENDS Naturals

CONSTANTS Callers,     \* threads that issue commands and call waits()
          Loops,       \* event-loop threads, whose callbacks call weak_up()
          MaxWakes,    \* bound: how many times weak_up() is called in all
          MaxWaits     \* bound: how many times waits() is called in all

ASSUME LatchAssumption == /\ Callers \cap Loops = {}
                          /\ MaxWakes \in Nat
                          /\ MaxWaits \in Nat

VARIABLES m_command_finished,
          m_mutex,     \* the set of threads that hold m_mutex
          pc,          \* where each thread is
          wakes,       \* calls of weak_up() so far
          waited       \* calls of waits() so far

vars == <<m_command_finished, m_mutex, pc, wakes, waited>>

Threads == Callers \cup Loops

(***************************************************************************)
(* "test" and "block" of a caller are the two halves of m_cv.wait: the     *)
(* predicate is evaluated, then the thread sleeps and releases the mutex   *)
(* in one step.  A thread that is woken goes back to "lock".               *)
(***************************************************************************)
CallerPc == {"out", "lock", "test", "block", "asleep"}
LoopPc   == {"out", "lock", "set", "unlock", "notify"}

Init == /\ m_command_finished = 0
        /\ m_mutex = {}
        /\ pc = [t \in Threads |-> "out"]
        /\ wakes = 0
        /\ waited = 0

Goto(t, from, to) == /\ pc[t] = from
                     /\ pc' = [pc EXCEPT ![t] = to]

Acquire(t) == /\ m_mutex = {}
              /\ m_mutex' = {t}

Release(t) == m_mutex' = m_mutex \ {t}
---------------------------------------------------------------------------
(***************************************************************************)
(* The caller                                                              *)
(***************************************************************************)

\* resume(), and `m_command_finished = 0` in every command: no lock is taken.
Resume(t) == /\ pc[t] = "out"
             /\ m_command_finished' = 0
             /\ UNCHANGED <<m_mutex, pc, wakes, waited>>

Waits(t) == /\ waited < MaxWaits
            /\ Goto(t, "out", "lock")
            /\ waited' = waited + 1
            /\ UNCHANGED <<m_command_finished, m_mutex, wakes>>

\* The unique_lock constructor, and the relocking inside m_cv.wait.
WaitLock(t) == /\ Goto(t, "lock", "test")
               /\ Acquire(t)
               /\ UNCHANGED <<m_command_finished, wakes, waited>>

\* Mutant: waits() as a bare m_cv.wait(lk), without the predicate.
WaitReturnUnchecked(t) == /\ Goto(t, "test", "out")
                          /\ Release(t)
                          /\ UNCHANGED <<m_command_finished, wakes, waited>>

\* The predicate holds: waits() returns and its unique_lock unlocks.
WaitReturn(t) == /\ m_command_finished = 1
                 /\ Goto(t, "test", "out")
                 /\ Release(t)
                 /\ UNCHANGED <<m_command_finished, wakes, waited>>

WaitFalse(t) == /\ m_command_finished # 1
                /\ Goto(t, "test", "block")
                /\ UNCHANGED <<m_command_finished, m_mutex, wakes, waited>>

Block(t) == /\ Goto(t, "block", "asleep")
            /\ Release(t)
            /\ UNCHANGED <<m_command_finished, wakes, waited>>

\* A condition variable may wake a sleeper that nobody notified.
SpuriousWake(t) == /\ Goto(t, "asleep", "lock")
                   /\ UNCHANGED <<m_command_finished, m_mutex, wakes, waited>>

Caller(t) == \/ Resume(t) \/ Waits(t) \/ WaitLock(t) \/ WaitReturn(t)
             \/ WaitFalse(t) \/ Block(t) \/ SpuriousWake(t)
---------------------------------------------------------------------------
(***************************************************************************)
(* The event-loop thread                                                   *)
(***************************************************************************)

WeakUp(l) == /\ wakes < MaxWakes
             /\ Goto(l, "out", "lock")
             /\ wakes' = wakes + 1
             /\ UNCHANGED <<m_command_finished, m_mutex, waited>>

WeakLock(l) == /\ Goto(l, "lock", "set")
               /\ Acquire(l)
               /\ UNCHANGED <<m_command_finished, wakes, waited>>

WeakSet(l) == /\ Goto(l, "set", "unlock")
              /\ m_command_finished' = 1
              /\ UNCHANGED <<m_mutex, wakes, waited>>

\* Mutant: weak_up() without notify_all().
WeakUnlockSilently(l) == /\ Goto(l, "unlock", "out")
                         /\ Release(l)
                         /\ UNCHANGED <<m_command_finished, wakes, waited>>

WeakUnlock(l) == /\ Goto(l, "unlock", "notify")
                 /\ Release(l)
                 /\ UNCHANGED <<m_command_finished, wakes, waited>>

\* Mutant: notify_one() instead of notify_all().
NotifyOne(l) ==
  /\ pc[l] = "notify"
  /\ LET asleep == {t \in Threads : pc[t] = "asleep"}
     IN  IF asleep = {} THEN pc' = [pc EXCEPT ![l] = "out"]
         ELSE \E t \in asleep : pc' = [pc EXCEPT ![l] = "out", ![t] = "lock"]
  /\ UNCHANGED <<m_command_finished, m_mutex, wakes, waited>>

NotifyAll(l) ==
  /\ pc[l] = "notify"
  /\ pc' = [t \in Threads |-> IF t = l THEN "out"
                              ELSE IF pc[t] = "asleep" THEN "lock" ELSE pc[t]]
  /\ UNCHANGED <<m_command_finished, m_mutex, wakes, waited>>

Loop(l) == \/ WeakUp(l) \/ WeakLock(l) \/ WeakSet(l)
           \/ WeakUnlock(l) \/ NotifyAll(l)
---------------------------------------------------------------------------
Next == \/ \E t \in Callers : Caller(t)
        \/ \E l \in Loops : Loop(l)

Spec == Init /\ [][Next]_vars

(***************************************************************************)
(* A thread inside waits() or weak_up() keeps running when it can; nobody  *)
(* is obliged to call them, to clear the flag, or to wake for no reason.   *)
(* Weak fairness is enough for the mutex because MaxWakes and MaxWaits     *)
(* bound the contention.                                                   *)
(***************************************************************************)
FairSpec ==
  /\ Spec
  /\ \A t \in Callers : WF_vars(WaitLock(t) \/ WaitReturn(t) \/ WaitFalse(t) \/ Block(t))
  /\ \A l \in Loops : WF_vars(WeakLock(l) \/ WeakSet(l) \/ WeakUnlock(l) \/ NotifyAll(l))
---------------------------------------------------------------------------
TypeOK == /\ m_command_finished \in {0, 1}
          /\ m_mutex \subseteq Threads
          /\ pc \in [Threads -> CallerPc \cup LoopPc]
          /\ \A t \in Callers : pc[t] \in CallerPc
          /\ \A l \in Loops : pc[l] \in LoopPc
          /\ wakes \in 0 .. MaxWakes
          /\ waited \in 0 .. MaxWaits

(***************************************************************************)
(* No wake-up is lost.  A thread that sleeps in waits() although the       *)
(* command has finished will be notified: some event-loop thread is past   *)
(* the write of the flag and has not notified yet.  (adb_command.cpp       *)
(* writes the flag inside the mutex and calls notify_all() outside it.)    *)
(***************************************************************************)
NoLostWakeup ==
  \A t \in Callers : pc[t] = "asleep" /\ m_command_finished = 1
                       => \E l \in Loops : pc[l] \in {"unlock", "notify"}

(***************************************************************************)
(* A thread that has found the predicate false and is about to sleep       *)
(* cannot be overtaken by the write it waits for: until it sleeps the      *)
(* flag stays 0, although resume() and the commands write it unlocked.     *)
(***************************************************************************)
SleepOnlyUnfinished ==
  \A t \in Callers : pc[t] = "block" => m_command_finished = 0

\* The threads that hold m_mutex are exactly those inside a locked region,
\* and there is at most one.
Locked(t) == IF t \in Callers THEN pc[t] \in {"test", "block"}
                              ELSE pc[t] \in {"set", "unlock"}
MutexInv == /\ \A t \in Threads : t \in m_mutex <=> Locked(t)
            /\ \A s, t \in m_mutex : s = t

\* The inductive invariant.
IInv == TypeOK /\ MutexInv /\ SleepOnlyUnfinished /\ NoLostWakeup

(***************************************************************************)
(* Every thread that waits while the flag is raised gets out, unless some  *)
(* thread clears the flag first.                                           *)
(***************************************************************************)
WaitersReturn ==
  \A t \in Callers : (pc[t] # "out" /\ m_command_finished = 1)
                       ~> (pc[t] = "out" \/ m_command_finished = 0)

(***************************************************************************)
(* The mutex, the condition variable and the int implement the latch: in   *)
(* particular waits() returns only in a state where the flag is raised.    *)
(***************************************************************************)
AbstractLatch == INSTANCE Latch WITH
                   Waiters <- Callers,
                   flag    <- m_command_finished,
                   waiting <- {t \in Callers : pc[t] # "out"}
ImplementsLatch == AbstractLatch!Spec
=============================================================================
