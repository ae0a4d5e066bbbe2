--------------------------- MODULE EventLoopTimers ---------------------------
(***************************************************************************)
(* The timers of an EventLoop: setTimerInLoop, killTimer and resetTimer    *)
(* from any thread, setTimer and onTimer on the loop thread, with the      *)
(* queue of functors (customEvents) through which other threads reach the  *)
(* loop.  TimerThread is a thread of its own around such a loop.           *)
(*                                                                         *)
(* Two parties keep an account of every timer: the loop in `timers`, libhv *)
(* in its own heap of htimer_t, which it frees when they have expired for  *)
(* the last time.  A call on the loop thread takes effect at once, a call  *)
(* on another thread when its functor is run.  The loop runs; its end is   *)
(* in EventLoopThread and CommandSession.                                  *)
(*                                                                         *)
(* The ids of the code are 64-bit numbers that do not come again.  Here an *)
(* id that nobody can name any more is used again.                         *)
(***************************************************************************)
EXTENDS Naturals, Sequences

CONSTANTS MaxTimers,   \* bound: ids in use at one time
          Repeats,     \* the repeat counts users ask for
          INFINITE,    \* the uint32_t that stands for no limit
          Budgets      \* bound: records of how often users may call what

ASSUME TimersAssumption ==
  /\ MaxTimers \in Nat
  /\ INFINITE \in Nat \ {0, 1} /\ Repeats \subseteq 1 .. INFINITE
  /\ \A b \in Budgets : b.timers \in Nat /\ b.calls \in Nat

TimerIds == 1 .. MaxTimers

VARIABLES
  customEvents,   \* functors that were posted and not run yet
  timers,         \* id |-> Timer::repeat
  htimers,        \* external: id |-> expirations left, of the htimer_t's
  current,        \* the timer whose callback runs, or 0
  budget,         \* calls that are left
  issued,         \* ids that setTimer has returned to users
  owed,           \* history: callbacks that a user's timer has still to get
  killed,         \* history: ids that a killTimer has reached
  overtaken       \* history: those that it reached before they were set

book == <<timers, htimers>>
history == <<issued, owed, killed, overtaken>>
timerVars == <<customEvents, book, current, budget, history>>

TimersInit ==
  /\ customEvents = <<>>
  /\ timers = <<>> /\ htimers = <<>>
  /\ current = 0
  /\ budget \in Budgets
  /\ issued = {} /\ owed = [i \in TimerIds |-> 0] /\ killed = {} /\ overtaken = {}

Put(f, i, x) == [j \in DOMAIN f \cup {i} |-> IF j = i THEN x ELSE f[j]]
Without(f, i) == [j \in DOMAIN f \ {i} |-> f[j]]
Less(n) == IF n = INFINITE THEN n ELSE n - 1

Post(functor) == customEvents' = Append(customEvents, functor)
Functor(op, id, repeat) == [op |-> op, id |-> id, repeat |-> repeat]
Queued(op, id) ==
  \E i \in DOMAIN customEvents : customEvents[i].op = op /\ customEvents[i].id = id

\* An id for the next timer.
NewId(i) == /\ i \in TimerIds \ (issued \cup DOMAIN timers)
            /\ \A j \in TimerIds \ (issued \cup DOMAIN timers) : i <= j
---------------------------------------------------------------------------
(***************************************************************************)
(* What happens on the loop thread                                         *)
(***************************************************************************)
setTimer(i, repeat) == /\ timers' = Put(timers, i, repeat)
                       /\ htimers' = Put(htimers, i, repeat)

\* Mutant: a timer is not killed in its own callback.
killTimerNotOwn(i) == /\ timers' = IF i = current THEN timers ELSE Without(timers, i)
                      /\ htimers' = IF i \in DOMAIN timers \ {current}
                                    THEN Without(htimers, i) ELSE htimers

killTimer(i) == /\ timers' = Without(timers, i)
                /\ htimers' = IF i \in DOMAIN timers THEN Without(htimers, i) ELSE htimers

\* Mutant: the entry of a timer that has expired for the last time stays at 0.
resetTimerOnly(i) ==
  /\ htimers' = IF i \in DOMAIN timers /\ i \notin DOMAIN htimers
                THEN Put(htimers, i, 1) ELSE htimers
  /\ UNCHANGED timers

\* htimer_reset revives an htimer_t that has expired for the last time.
resetTimer(i) ==
  IF i \in DOMAIN timers
  THEN /\ htimers' = IF i \in DOMAIN htimers THEN htimers ELSE Put(htimers, i, 1)
       /\ timers' = IF timers[i] = 0 THEN Put(timers, i, 1) ELSE timers
  ELSE UNCHANGED book

\* What a call does when it takes effect, and what is to be remembered of it.
Effect(f) ==
  \/ /\ f.op = "set"
     /\ setTimer(f.id, f.repeat)
     /\ UNCHANGED <<owed, killed, overtaken>>
  \/ /\ f.op = "kill"
     /\ killTimer(f.id)
     /\ killed' = killed \cup {f.id}
     /\ overtaken' = IF Queued("set", f.id) THEN overtaken \cup {f.id} ELSE overtaken
     /\ UNCHANGED owed
  \/ /\ f.op = "reset"
     /\ resetTimer(f.id)
     /\ owed' = IF f.id \in DOMAIN timers /\ timers[f.id] = 0
                THEN [owed EXCEPT ![f.id] = 1] ELSE owed
     /\ UNCHANGED <<killed, overtaken>>

RunTimerFunctor ==
  /\ current = 0 /\ customEvents # <<>>
  /\ Effect(Head(customEvents))
  /\ customEvents' = Tail(customEvents)
  /\ UNCHANGED <<current, budget, issued>>

\* The htimer of i expires, for the last time if its count is used up.
Expire(i) ==
  /\ current = 0 /\ i \in DOMAIN htimers
  /\ htimers' = IF htimers[i] = 1 THEN Without(htimers, i)
                ELSE Put(htimers, i, Less(htimers[i]))

\* onTimer up to the callback.
OnTimer(i) ==
  /\ Expire(i)
  /\ IF i \in DOMAIN timers
     THEN /\ current' = i
          /\ timers' = Put(timers, i, Less(timers[i]))
          /\ owed' = [owed EXCEPT ![i] = IF @ = INFINITE THEN @ ELSE @ - 1]
     ELSE UNCHANGED <<current, timers, owed>>
  /\ UNCHANGED <<customEvents, budget, issued, killed, overtaken>>

\* Mutant: every timer is erased, with its htimer, after one callback.
TimerDoneErases == /\ current # 0
                   /\ current' = 0
                   /\ killTimer(current)
                   /\ UNCHANGED <<customEvents, budget, history>>

\* onTimer after the callback.
TimerDone ==
  /\ current # 0
  /\ current' = 0
  /\ timers' = IF current \in DOMAIN timers /\ timers[current] = 0
               THEN Without(timers, current) ELSE timers
  /\ UNCHANGED <<htimers, customEvents, budget, history>>
---------------------------------------------------------------------------
(***************************************************************************)
(* Calls of users, on another thread or in the callback of a timer.  An    *)
(* id that is passed to killTimer or resetTimer was returned before.       *)
(***************************************************************************)
\* runInLoop: at once on the loop thread, otherwise through the queue.
RunInLoop(inside, f) ==
  IF inside THEN Effect(f) /\ UNCHANGED customEvents
            ELSE Post(f) /\ UNCHANGED <<book, owed, killed, overtaken>>

OnLoop(inside) == inside => current # 0

UserSets(inside, repeat) ==
  /\ OnLoop(inside) /\ budget.timers > 0
  /\ budget' = [budget EXCEPT !.timers = @ - 1]
  /\ \E i \in TimerIds :
       /\ NewId(i)
       /\ issued' = issued \cup {i}
       /\ owed' = [owed EXCEPT ![i] = repeat]
       /\ IF inside
          THEN setTimer(i, repeat) /\ UNCHANGED customEvents
          ELSE Post(Functor("set", i, repeat)) /\ UNCHANGED book
  /\ UNCHANGED <<current, killed, overtaken>>

UserCalls(inside, op, i) ==
  /\ OnLoop(inside) /\ budget.calls > 0 /\ i \in issued
  /\ budget' = [budget EXCEPT !.calls = @ - 1]
  /\ RunInLoop(inside, Functor(op, i, 0))
  /\ UNCHANGED <<current, issued>>
---------------------------------------------------------------------------
IsTimers(f) == DOMAIN f \subseteq TimerIds /\ \A i \in DOMAIN f : f[i] \in 0 .. INFINITE

TimersTypeOK ==
  /\ customEvents \in Seq([op : {"set", "kill", "reset", "start", "close"},
                           id : 0 .. MaxTimers, repeat : 0 .. INFINITE])
  /\ IsTimers(timers) /\ IsTimers(htimers)
  /\ current \in 0 .. MaxTimers
  /\ issued \subseteq TimerIds /\ killed \subseteq issued /\ overtaken \subseteq killed
  /\ owed \in [TimerIds -> 0 .. INFINITE]

(***************************************************************************)
(* The two accounts of the timers agree, whatever a callback has done to   *)
(* its own timer: each entry has an htimer that libhv has not freed, with  *)
(* the same count, and no htimer is left without an entry.  Only while its *)
(* last callback runs has a timer an entry, with 0, and no htimer.         *)
(***************************************************************************)
BooksAgree ==
  \A i \in TimerIds :
    \/ i \in DOMAIN timers /\ i \in DOMAIN htimers /\ timers[i] = htimers[i]
    \/ i \notin DOMAIN timers /\ i \notin DOMAIN htimers
    \/ i = current /\ i \in DOMAIN timers \ DOMAIN htimers /\ timers[i] = 0

(***************************************************************************)
(* A timer that is gone without having been killed has called back as      *)
(* often as was asked, and once more for each reset in its last callback.  *)
(***************************************************************************)
AllCallbacksGiven ==
  \A i \in issued \ killed :
    i \in DOMAIN timers \/ Queued("set", i) \/ owed[i] = 0

(***************************************************************************)
(* A timer does not call back after killTimer has taken effect, unless the *)
(* kill, on the loop thread, overtook the functor that sets the timer.     *)
(***************************************************************************)
KilledStaysDead ==
  [][\A i \in killed \ overtaken : current' = i => current = i]_timerVars
=============================================================================
