-------------------------- MODULE Reconnect_proofs --------------------------
(***************************************************************************)
(* EventLoopTimers under Reconnect, for every number of timers, of calls   *)
(* and of retries.                                                         *)
(***************************************************************************)
EXTENDS Reconnect, FiniteSetTheorems, TLAPS

\* A timer belongs to a user or to startReconnect.
Owned ==
  /\ DOMAIN timers \subseteq issued \cup retries
  /\ \A i \in retries : timers[i] = 1
  /\ current \in issued \cup {0}

\* A functor that sets a timer is the only one of its id, and comes before
\* the timer has an entry.
Queue ==
  /\ \A k \in DOMAIN customEvents :
       /\ customEvents[k].op \in {"set", "kill", "reset"} => customEvents[k].id \in issued
       /\ customEvents[k].op = "set" => /\ customEvents[k].repeat > 0
                                        /\ customEvents[k].repeat = owed[customEvents[k].id]
                                        /\ customEvents[k].id \notin DOMAIN timers
  /\ \A k, l \in DOMAIN customEvents :
       /\ customEvents[k].op = "set" /\ customEvents[l].op = "set"
       /\ customEvents[k].id = customEvents[l].id
       => k = l

\* What a user's timer has still to give is what its entry says, and libhv
\* keeps no timer that has expired for the last time.
Account ==
  /\ \A i \in DOMAIN htimers : htimers[i] > 0
  /\ \A i \in DOMAIN timers \cap issued : owed[i] = timers[i]

\* A timer that was killed has no entry, and will get none.
Dead == \A i \in killed \ overtaken : i \notin DOMAIN timers /\ ~Queued("set", i)

Mine == retries \subseteq DOMAIN timers \ issued

TimersInv == TimersTypeOK /\ Mine /\ Owned /\ Queue /\ BooksAgree /\ Account /\ AllCallbacksGiven
             /\ Dead

Functors == [op : {"set", "kill", "reset", "start", "close"}, id : 0 .. MaxTimers,
             repeat : 0 .. INFINITE]
---------------------------------------------------------------------------
(***************************************************************************)
(* The queue                                                               *)
(***************************************************************************)
\* A functor that is posted comes last.
LEMMA PostLast ==
  ASSUME customEvents \in Seq(Functors), NEW f \in Functors, Post(f)
  PROVE  /\ customEvents' \in Seq(Functors)
         /\ \A k \in DOMAIN customEvents :
              k \in DOMAIN customEvents' /\ customEvents'[k] = customEvents[k]
         /\ \A k \in DOMAIN customEvents' :
              k \in DOMAIN customEvents \/ k = Len(customEvents) + 1
         /\ Len(customEvents) + 1 \in DOMAIN customEvents'
         /\ customEvents'[Len(customEvents) + 1] = f
BY DEF Post

\* The loop takes the first.
LEMMA TakeFirst ==
  ASSUME customEvents \in Seq(Functors), customEvents # <<>>, customEvents' = Tail(customEvents)
  PROVE  /\ customEvents' \in Seq(Functors)
         /\ 1 \in DOMAIN customEvents /\ Head(customEvents) = customEvents[1]
         /\ Head(customEvents) \in Functors
         /\ \A k \in DOMAIN customEvents' : /\ k + 1 \in DOMAIN customEvents \ {1}
                                            /\ k \in Nat
                                            /\ customEvents'[k] = customEvents[k + 1]
         /\ \A k \in DOMAIN customEvents :
              \/ k = 1
              \/ k - 1 \in DOMAIN customEvents' /\ customEvents'[k - 1] = customEvents[k]
<1>1. customEvents' \in Seq(Functors) /\ Len(customEvents') = Len(customEvents) - 1
  OBVIOUS
<1>2. Len(customEvents) \in Nat \ {0}
  OBVIOUS
<1>3. \A k \in 1 .. Len(customEvents) - 1 : customEvents'[k] = customEvents[k + 1]
  OBVIOUS
<1>4. DOMAIN customEvents = 1 .. Len(customEvents) /\ DOMAIN customEvents' = 1 .. Len(customEvents')
  BY <1>1
<1> QED BY <1>1, <1>2, <1>3, <1>4

\* What is queued after a post, and before a functor is taken.
LEMMA PostQueued ==
  ASSUME customEvents \in Seq(Functors), NEW f \in Functors, Post(f), NEW op, NEW i
  PROVE  Queued(op, i)' <=> Queued(op, i) \/ (f.op = op /\ f.id = i)
BY PostLast DEF Queued

LEMMA TakeQueued ==
  ASSUME customEvents \in Seq(Functors), customEvents # <<>>, customEvents' = Tail(customEvents),
         NEW op, NEW i
  PROVE  Queued(op, i) <=> Queued(op, i)' \/ (Head(customEvents).op = op /\ Head(customEvents).id = i)
<1>1. ASSUME Queued(op, i), ~(Head(customEvents).op = op /\ Head(customEvents).id = i)
      PROVE  Queued(op, i)'
  <2>1. PICK k \in DOMAIN customEvents : customEvents[k].op = op /\ customEvents[k].id = i
    BY <1>1 DEF Queued
  <2>2. k # 1
    BY <1>1, <2>1, TakeFirst
  <2> QED BY <2>1, <2>2, TakeFirst DEF Queued
<1>2. ASSUME Queued(op, i)' PROVE Queued(op, i)
  BY <1>2, TakeFirst DEF Queued
<1>3. ASSUME Head(customEvents).op = op, Head(customEvents).id = i PROVE Queued(op, i)
  BY <1>3, TakeFirst DEF Queued
<1> QED BY <1>1, <1>2, <1>3

\* The functors that are already there stay as they should be.
LEMMA QueueKept ==
  ASSUME customEvents \in Seq(Functors), Queue, issued \subseteq issued',
         \/ customEvents' = customEvents
         \/ customEvents # <<>> /\ customEvents' = Tail(customEvents),
         \A i \in issued : Queued("set", i)' => owed'[i] = owed[i] /\ i \notin DOMAIN timers'
  PROVE  Queue' /\ customEvents' \in Seq(Functors)
<1>1. CASE customEvents' = customEvents
  <2>1. \A k \in DOMAIN customEvents : customEvents[k].op = "set" => Queued("set", customEvents[k].id)'
    BY <1>1 DEF Queued
  <2> QED BY <1>1, <2>1 DEF Queue
<1>2. CASE customEvents # <<>> /\ customEvents' = Tail(customEvents)
  <2>0. customEvents' \in Seq(Functors)
    BY <1>2, TakeFirst
  <2>1. ASSUME NEW k \in DOMAIN customEvents', customEvents'[k].op = "set", NEW i, customEvents'[k].id = i
        PROVE  Queued("set", i)'
    BY <2>1 DEF Queued
  <2>2. ASSUME NEW k \in DOMAIN customEvents'
        PROVE  k + 1 \in DOMAIN customEvents /\ customEvents'[k] = customEvents[k + 1] /\ k \in Nat
    BY <1>2, TakeFirst
  <2>3. ASSUME NEW k \in DOMAIN customEvents', customEvents'[k].op \in {"set", "kill", "reset"}
        PROVE  customEvents'[k].id \in issued
    BY <2>2, <2>3 DEF Queue
  <2>4. ASSUME NEW k \in DOMAIN customEvents', customEvents'[k].op = "set"
        PROVE  /\ customEvents'[k].repeat > 0
               /\ customEvents'[k].repeat = owed'[customEvents'[k].id]
               /\ customEvents'[k].id \notin DOMAIN timers'
    BY <2>1, <2>2, <2>3, <2>4 DEF Queue
  <2>5. ASSUME NEW k \in DOMAIN customEvents', NEW l \in DOMAIN customEvents',
               customEvents'[k].op = "set", customEvents'[l].op = "set",
               customEvents'[k].id = customEvents'[l].id
        PROVE  k = l
    <3>1. k + 1 = l + 1
      BY <2>2, <2>5 DEF Queue
    <3> QED BY <2>2, <3>1
  <2> QED BY <2>0, <2>3, <2>4, <2>5 DEF Queue
<1> QED BY <1>1, <1>2

\* A functor is posted that is as it should be.
LEMMA QueuePosted ==
  ASSUME customEvents \in Seq(Functors), Queue, issued \subseteq issued',
         NEW f \in Functors, Post(f),
         f.op \in {"set", "kill", "reset"} => f.id \in issued',
         f.op = "set" => /\ f.repeat > 0 /\ f.repeat = owed'[f.id] /\ f.id \notin DOMAIN timers'
                         /\ ~Queued("set", f.id),
         \A i \in issued : Queued("set", i) => owed'[i] = owed[i] /\ i \notin DOMAIN timers'
  PROVE  Queue' /\ customEvents' \in Seq(Functors)
<1>1. \A k \in DOMAIN customEvents : customEvents[k].op = "set" => Queued("set", customEvents[k].id)
  BY DEF Queued
<1> QED BY <1>1, PostLast DEF Queue
---------------------------------------------------------------------------
(***************************************************************************)
(* The timers                                                              *)
(***************************************************************************)
\* Nothing but the queue has changed, and no functor that sets a timer.
LEMMA OnlyQueue ==
  ASSUME TimersInv, UNCHANGED <<book, current, history, retries>>,
         \/ customEvents' = customEvents
         \/ /\ customEvents # <<>> /\ customEvents' = Tail(customEvents)
            /\ Head(customEvents).op # "set"
         \/ \E f \in Functors : /\ f.op # "set" /\ Post(f)
                                /\ f.op \in {"kill", "reset"} => f.id \in issued
  PROVE  TimersInv'
<1> USE DEF TimersInv, TimersTypeOK, book, history
<1>0. customEvents \in Seq(Functors)
  BY DEF Functors
<1>1. ASSUME NEW i PROVE Queued("set", i)' <=> Queued("set", i)
  <2>1. CASE customEvents' = customEvents
    BY <2>1 DEF Queued
  <2>2. CASE /\ customEvents # <<>> /\ customEvents' = Tail(customEvents)
             /\ Head(customEvents).op # "set"
    BY <1>0, <2>2, TakeQueued
  <2>3. ASSUME NEW f \in Functors, f.op # "set", Post(f) PROVE Queued("set", i)' <=> Queued("set", i)
    BY <1>0, <2>3, PostQueued
  <2> QED BY <2>1, <2>2, <2>3
<1>2. \A i \in issued : Queued("set", i) => owed'[i] = owed[i] /\ i \notin DOMAIN timers'
  BY DEF Queue, Queued
<1>3. Queue' /\ customEvents' \in Seq(Functors)
  <2>1. CASE \/ customEvents' = customEvents
             \/ customEvents # <<>> /\ customEvents' = Tail(customEvents)
    BY <1>0, <1>1, <1>2, <2>1, QueueKept
  <2>2. ASSUME NEW f \in Functors, f.op # "set", Post(f), f.op \in {"kill", "reset"} => f.id \in issued
        PROVE  Queue' /\ customEvents' \in Seq(Functors)
    BY <1>0, <1>2, <2>2, QueuePosted
  <2> QED BY <2>1, <2>2
<1>4. TimersTypeOK'
  BY <1>3 DEF IsTimers, Functors
<1>5. Mine' /\ Owned' /\ BooksAgree' /\ Account'
  BY DEF Mine, Owned, BooksAgree, Account
<1>6. AllCallbacksGiven' /\ Dead'
  BY <1>1 DEF AllCallbacksGiven, Dead
<1> QED BY <1>3, <1>4, <1>5, <1>6

\* A user sets a timer, at once or through the queue.
LEMMA SetsStep ==
  ASSUME TimersInv, NEW inside \in BOOLEAN, NEW repeat \in Repeats, Sets(inside, repeat)
  PROVE  TimersInv'
<1> USE TimersAssumption DEF TimersInv, TimersTypeOK
<1>0. PICK i \in TimerIds :
        /\ i \notin issued /\ i \notin DOMAIN timers
        /\ issued' = issued \cup {i}
        /\ owed' = [owed EXCEPT ![i] = repeat]
        /\ IF inside THEN setTimer(i, repeat) /\ UNCHANGED customEvents
                     ELSE Post(Functor("set", i, repeat)) /\ UNCHANGED book
        /\ UNCHANGED <<current, killed, overtaken, retries>>
  BY DEF Sets, UserSets, NewId, clientVars
<1>1. customEvents \in Seq(Functors) /\ Functor("set", i, repeat) \in Functors
  BY DEF Functors, Functor, TimerIds
<1>2. repeat \in 1 .. INFINITE /\ repeat > 0 /\ 0 \notin TimerIds
  BY DEF TimerIds
<1>3. i \notin retries /\ i \notin DOMAIN htimers /\ i \notin killed /\ ~Queued("set", i)
  BY <1>0 DEF Mine, BooksAgree, Queue, Queued
<1>4. \A j \in issued : /\ owed'[j] = owed[j] /\ j # i
                        /\ Queued("set", j) => j \notin DOMAIN timers
  BY <1>0 DEF Queue, Queued
<1>5. CASE inside
  <2>1. /\ timers' = Put(timers, i, repeat) /\ htimers' = Put(htimers, i, repeat)
        /\ UNCHANGED customEvents
    BY <1>0, <1>5 DEF setTimer
  <2>2. Queue' /\ customEvents' \in Seq(Functors)
    BY <1>0, <1>1, <1>4, <2>1, QueueKept DEF Put, Queued
  <2>3. TimersTypeOK'
    BY <1>0, <1>2, <2>1, <2>2 DEF IsTimers, Put, Functors
  <2>4. Mine' /\ Owned'
    BY <1>0, <1>3, <2>1 DEF Mine, Owned, Put
  <2>5. BooksAgree' /\ Account'
    BY <1>0, <1>2, <1>3, <1>4, <2>1 DEF BooksAgree, Account, Put
  <2>6. AllCallbacksGiven' /\ Dead'
    BY <1>0, <1>3, <1>4, <2>1 DEF AllCallbacksGiven, Dead, Put, Queued
  <2> QED BY <2>2, <2>3, <2>4, <2>5, <2>6
<1>6. CASE ~inside
  <2>1. Post(Functor("set", i, repeat)) /\ UNCHANGED book
    BY <1>0, <1>6
  <2>2. Queue' /\ customEvents' \in Seq(Functors)
    BY <1>0, <1>1, <1>2, <1>3, <1>4, <2>1, QueuePosted DEF Functor, book
  <2>3. TimersTypeOK'
    BY <1>0, <1>2, <2>1, <2>2 DEF IsTimers, Functors, book
  <2>4. Mine' /\ Owned'
    BY <1>0, <1>3, <2>1 DEF Mine, Owned, book
  <2>5. BooksAgree' /\ Account'
    BY <1>0, <1>2, <1>3, <1>4, <2>1 DEF BooksAgree, Account, book
  <2>6. \A j : Queued("set", j)' <=> Queued("set", j) \/ i = j
    BY <1>1, <2>1, PostQueued DEF Functor
  <2>7. AllCallbacksGiven' /\ Dead'
    BY <1>0, <1>3, <1>4, <2>1, <2>6 DEF AllCallbacksGiven, Dead, book
  <2> QED BY <2>2, <2>3, <2>4, <2>5, <2>7
<1> QED BY <1>5, <1>6

\* What is left when a functor takes effect or a call is made: the accounts,
\* under the part of the invariant that does not speak of the queue.
Books == /\ IsTimers(timers) /\ IsTimers(htimers) /\ owed \in [TimerIds -> 0 .. INFINITE]
         /\ Mine /\ Owned /\ BooksAgree /\ Account

\* killTimer takes effect.
LEMMA KillEffect ==
  ASSUME Books, issued \subseteq TimerIds, NEW i \in issued, killTimer(i),
         UNCHANGED <<current, issued, owed, retries>>
  PROVE  Books' /\ DOMAIN timers' = DOMAIN timers \ {i}
<1> USE DEF Books
<1>1. timers' = Without(timers, i) /\ (i \in DOMAIN timers => htimers' = Without(htimers, i))
      /\ (i \notin DOMAIN timers => htimers' = htimers)
  BY DEF killTimer
<1>2. IsTimers(timers)' /\ IsTimers(htimers)'
  BY <1>1 DEF IsTimers, Without
<1>3. Mine' /\ Owned'
  BY <1>1 DEF Mine, Owned, Without
<1>4. BooksAgree'
  BY <1>1 DEF BooksAgree, Without
<1>5. Account'
  BY <1>1 DEF Account, Without
<1> QED BY <1>1, <1>2, <1>3, <1>4, <1>5 DEF Without

\* resetTimer takes effect.
LEMMA ResetEffect ==
  ASSUME Books, issued \subseteq TimerIds, NEW i \in issued, resetTimer(i),
         owed' = IF i \in DOMAIN timers /\ timers[i] = 0 THEN [owed EXCEPT ![i] = 1] ELSE owed,
         UNCHANGED <<current, issued, retries>>
  PROVE  Books' /\ DOMAIN timers' = DOMAIN timers
<1> USE TimersAssumption DEF Books
<1>1. CASE i \notin DOMAIN timers
  BY <1>1 DEF resetTimer, book, IsTimers, Mine, Owned, BooksAgree, Account
<1>2. CASE i \in DOMAIN timers /\ timers[i] = 0
  <2>1. i \notin DOMAIN htimers /\ i \notin retries /\ i = current
    BY <1>2 DEF BooksAgree, Account, Mine
  <2>2. /\ timers' = Put(timers, i, 1) /\ htimers' = Put(htimers, i, 1)
        /\ owed' = [owed EXCEPT ![i] = 1]
    BY <1>2, <2>1 DEF resetTimer
  <2>3. IsTimers(timers)' /\ IsTimers(htimers)' /\ owed' \in [TimerIds -> 0 .. INFINITE]
    BY <2>2 DEF IsTimers, Put
  <2>4. Mine' /\ Owned'
    BY <1>2, <2>1, <2>2 DEF Mine, Owned, Put
  <2>5. BooksAgree'
    BY <1>2, <2>1, <2>2 DEF BooksAgree, Put
  <2>6. Account'
    BY <1>2, <2>1, <2>2 DEF Account, Put
  <2> QED BY <1>2, <2>2, <2>3, <2>4, <2>5, <2>6 DEF Put
<1>3. CASE i \in DOMAIN timers /\ timers[i] # 0
  <2>1. i \in DOMAIN htimers
    BY <1>3 DEF BooksAgree
  <2>2. UNCHANGED <<timers, htimers, owed>>
    BY <1>3, <2>1 DEF resetTimer
  <2> QED BY <2>2 DEF IsTimers, Mine, Owned, BooksAgree, Account
<1> QED BY <1>1, <1>2, <1>3

\* A functor that sets a timer takes effect.
LEMMA SetEffect ==
  ASSUME Books, issued \subseteq TimerIds, NEW i \in issued, NEW repeat \in 1 .. INFINITE,
         current # i, i \notin DOMAIN timers, owed[i] = repeat, setTimer(i, repeat),
         UNCHANGED <<current, issued, owed, retries>>
  PROVE  Books' /\ DOMAIN timers' = DOMAIN timers \cup {i}
<1> USE TimersAssumption DEF Books
<1>1. /\ timers' = Put(timers, i, repeat) /\ htimers' = Put(htimers, i, repeat)
      /\ i \notin DOMAIN htimers /\ i \notin retries /\ repeat > 0
  BY DEF setTimer, BooksAgree, Mine
<1>2. IsTimers(timers)' /\ IsTimers(htimers)'
  BY <1>1 DEF IsTimers, Put
<1>3. Mine' /\ Owned'
  BY <1>1 DEF Mine, Owned, Put
<1>4. BooksAgree'
  BY <1>1 DEF BooksAgree, Put
<1>5. Account'
  BY <1>1 DEF Account, Put
<1> QED BY <1>1, <1>2, <1>3, <1>4, <1>5 DEF Put

\* A killTimer or resetTimer takes effect in a callback, or a functor on the loop.
LEMMA EffectStep ==
  ASSUME TimersInv, NEW f \in Functors, Effect(f), UNCHANGED <<current, issued, retries>>,
         \/ f.op \in {"kill", "reset"} /\ f.id \in issued /\ UNCHANGED customEvents
         \/ /\ customEvents # <<>> /\ customEvents' = Tail(customEvents)
            /\ f = Head(customEvents) /\ current = 0
  PROVE  TimersInv'
<1> USE DEF TimersInv, TimersTypeOK
<1>0. customEvents \in Seq(Functors) /\ Books /\ issued \subseteq TimerIds
  BY DEF Functors, Books
<1>1. f.op \in {"set", "kill", "reset"}
  BY DEF Effect
<1>2. f.id \in issued /\ f.id # 0
  <2>1. 0 \notin issued
    BY DEF TimerIds
  <2>2. ASSUME customEvents # <<>>, customEvents' = Tail(customEvents), f = Head(customEvents)
        PROVE  f.id \in issued
    <3>1. f = customEvents[1] /\ 1 \in DOMAIN customEvents
      BY <1>0, <2>2, TakeFirst
    <3> QED BY <1>1, <3>1 DEF Queue
  <2> QED BY <2>1, <2>2
<1>3. f.op = "set" => /\ f.repeat \in 1 .. INFINITE /\ f.repeat = owed[f.id] /\ f.id \notin DOMAIN timers
                      /\ current # f.id /\ ~Queued("set", f.id)'
  <2>1. SUFFICES ASSUME f.op = "set"
                 PROVE  /\ f.repeat \in 1 .. INFINITE /\ f.repeat = owed[f.id] /\ f.id \notin DOMAIN timers
                        /\ current # f.id /\ ~Queued("set", f.id)'
    OBVIOUS
  <2>2. /\ customEvents # <<>> /\ customEvents' = Tail(customEvents)
        /\ f = customEvents[1] /\ 1 \in DOMAIN customEvents /\ current = 0
    BY <1>0, <2>1, TakeFirst
  <2>3. f.repeat > 0 /\ f.repeat = owed[f.id] /\ f.id \notin DOMAIN timers
    BY <2>1, <2>2 DEF Queue
  <2>4. f.repeat \in 1 .. INFINITE
    BY <2>3, TimersAssumption DEF Functors
  <2>5. ~Queued("set", f.id)'
    BY <1>0, <2>1, <2>2, TakeFirst DEF Queue, Queued
  <2> QED BY <1>2, <2>2, <2>3, <2>4, <2>5
<1>4. \A i : Queued("set", i)' => Queued("set", i)
  BY <1>0, TakeQueued DEF Queued
<1>5. \A i : Queued("set", i) => Queued("set", i)' \/ (f.op = "set" /\ f.id = i)
  <2>1. CASE customEvents' = customEvents
    BY <2>1 DEF Queued
  <2>2. CASE /\ customEvents # <<>> /\ customEvents' = Tail(customEvents)
             /\ f = Head(customEvents)
    BY <1>0, <2>2, TakeQueued
  <2> QED BY <2>1, <2>2
<1>6. /\ Books' /\ DOMAIN timers' \subseteq DOMAIN timers \cup {f.id}
      /\ \A i \in issued : i # f.id => i \in DOMAIN timers' <=> i \in DOMAIN timers
      /\ f.op = "kill" => f.id \notin DOMAIN timers'
      /\ f.op = "reset" => f.id \in DOMAIN timers' <=> f.id \in DOMAIN timers
      /\ f.op = "set" => f.id \in DOMAIN timers'
  <2>1. CASE f.op = "kill"
    BY <1>0, <1>2, <2>1, KillEffect DEF Effect
  <2>2. CASE f.op = "reset"
    BY <1>0, <1>2, <2>2, ResetEffect DEF Effect
  <2>3. CASE f.op = "set"
    BY <1>0, <1>2, <1>3, <2>3, SetEffect DEF Effect
  <2> QED BY <1>1, <2>1, <2>2, <2>3
<1>7. \A i \in issued : owed'[i] = owed[i] \/ (f.op = "reset" /\ i = f.id /\ i \in DOMAIN timers)
  BY DEF Effect
<1>8. \A i \in issued : Queued("set", i) => i \notin DOMAIN timers
  BY DEF Queue, Queued
<1>9. Queue' /\ customEvents' \in Seq(Functors)
  <2>1. \A i \in issued : Queued("set", i)' => owed'[i] = owed[i] /\ i \notin DOMAIN timers'
    BY <1>1, <1>3, <1>4, <1>6, <1>7, <1>8
  <2> QED BY <1>0, <2>1, QueueKept
<1>10. AllCallbacksGiven'
  <2>1. \A i \in issued \ killed' : i # f.id \/ f.op \in {"set", "reset"}
    BY <1>1 DEF Effect
  <2>2. killed \subseteq killed'
    BY DEF Effect
  <2> QED BY <1>1, <1>2, <1>5, <1>6, <1>7, <2>1, <2>2 DEF AllCallbacksGiven
<1>11. Dead' /\ killed' \subseteq issued' /\ overtaken' \subseteq killed'
  <2>1. CASE f.op = "kill"
    <3>1. /\ killed' = killed \cup {f.id}
          /\ overtaken' = IF Queued("set", f.id) THEN overtaken \cup {f.id} ELSE overtaken
      BY <2>1 DEF Effect
    <3> QED BY <1>0, <1>2, <1>4, <1>6, <2>1, <3>1 DEF Dead
  <2>2. CASE f.op = "reset"
    <3>1. UNCHANGED <<killed, overtaken>>
      BY <2>2 DEF Effect
    <3> QED BY <1>4, <1>6, <2>2, <3>1 DEF Dead
  <2>3. CASE f.op = "set"
    <3>1. UNCHANGED <<killed, overtaken>> /\ Queued("set", f.id)
      BY <1>0, <2>3, TakeQueued DEF Effect
    <3> QED BY <1>4, <1>6, <2>3, <3>1 DEF Dead
  <2> QED BY <1>1, <2>1, <2>2, <2>3
<1> QED BY <1>6, <1>9, <1>10, <1>11 DEF Books, Functors

\* A user calls killTimer or resetTimer.
LEMMA CallsStep ==
  ASSUME TimersInv, NEW inside \in BOOLEAN, NEW op \in {"kill", "reset"}, NEW i \in TimerIds,
         Calls(inside, op, i)
  PROVE  TimersInv'
<1>1. /\ i \in issued /\ UNCHANGED <<current, issued, retries>>
      /\ RunInLoop(inside, Functor(op, i, 0))
  BY DEF Calls, UserCalls, clientVars
<1>2. /\ Functor(op, i, 0) \in Functors /\ Functor(op, i, 0).op = op /\ Functor(op, i, 0).id = i
  BY TimersAssumption DEF Functor, Functors, TimerIds
<1>3. CASE inside
  BY <1>1, <1>2, <1>3, EffectStep DEF RunInLoop
<1>4. CASE ~inside
  BY <1>1, <1>2, <1>4, OnlyQueue DEF RunInLoop, history
<1> QED BY <1>3, <1>4

\* The loop runs a functor of the timers.
LEMMA FunctorStep ==
  ASSUME TimersInv, TimerFunctor PROVE TimersInv'
<1>1. Head(customEvents) \in Functors
  BY TakeFirst DEF TimersInv, TimersTypeOK, Functors, TimerFunctor, RunTimerFunctor
<1> QED BY <1>1, EffectStep DEF TimerFunctor, RunTimerFunctor, clientVars

\* The timer of a user expires.
LEMMA TimerStep ==
  ASSUME TimersInv, NEW i \in TimerIds, UserTimer(i) PROVE TimersInv' /\ i \notin killed \ overtaken
<1> USE TimersAssumption DEF TimersInv, TimersTypeOK
<1>1. /\ current = 0 /\ i # 0 /\ i \notin retries
      /\ i \in DOMAIN htimers /\ i \in DOMAIN timers /\ timers[i] = htimers[i]
      /\ i \in issued /\ owed[i] = timers[i] /\ timers[i] \in 1 .. INFINITE
  BY DEF UserTimer, OnTimer, Expire, TimerIds, BooksAgree, Account, Owned, IsTimers
<1>2. /\ htimers' = IF htimers[i] = 1 THEN Without(htimers, i) ELSE Put(htimers, i, Less(htimers[i]))
      /\ current' = i /\ timers' = Put(timers, i, Less(timers[i]))
      /\ owed' = [owed EXCEPT ![i] = Less(timers[i])]
      /\ UNCHANGED <<customEvents, issued, killed, overtaken, retries>>
  BY <1>1 DEF UserTimer, OnTimer, Expire, Less, clientVars
<1>3. Less(timers[i]) \in 0 .. INFINITE /\ (timers[i] = 1 <=> Less(timers[i]) = 0)
  BY <1>1 DEF Less
<1>4. ~Queued("set", i) /\ \A j : Queued("set", j)' <=> Queued("set", j)
  BY <1>1, <1>2 DEF Queue, Queued
<1>5. DOMAIN timers' = DOMAIN timers
  BY <1>1, <1>2 DEF Put
<1>6. Queue'
  <2>1. \A j \in issued : Queued("set", j)' => owed'[j] = owed[j] /\ j \notin DOMAIN timers'
    BY <1>2, <1>4, <1>5 DEF Queue, Queued
  <2>2. customEvents \in Seq(Functors)
    BY DEF Functors
  <2> QED BY <1>2, <2>1, <2>2, QueueKept
<1>7. TimersTypeOK'
  <2>1. IsTimers(timers)'
    BY <1>1, <1>2, <1>3 DEF IsTimers, Put
  <2>2. IsTimers(htimers)'
    BY <1>1, <1>2, <1>3 DEF IsTimers, Put, Without
  <2> QED BY <1>1, <1>2, <1>3, <2>1, <2>2 DEF TimerIds
<1>8. Mine' /\ Owned'
  BY <1>1, <1>2, <1>5 DEF Mine, Owned, Put
<1>9. BooksAgree'
  <2>1. ASSUME NEW j \in TimerIds, j # i
        PROVE  /\ j \in DOMAIN timers' <=> j \in DOMAIN timers
               /\ j \in DOMAIN htimers' <=> j \in DOMAIN htimers
               /\ j \in DOMAIN timers => timers'[j] = timers[j]
               /\ j \in DOMAIN htimers => htimers'[j] = htimers[j]
               /\ j # current
    <3>1. j # current
      BY <1>1 DEF TimerIds
    <3>2. j \in DOMAIN timers' <=> j \in DOMAIN timers
      BY <1>1, <1>2, <2>1 DEF Put
    <3>3. j \in DOMAIN timers => timers'[j] = timers[j]
      BY <1>1, <1>2, <2>1 DEF Put
    <3>4. /\ j \in DOMAIN htimers' <=> j \in DOMAIN htimers
          /\ j \in DOMAIN htimers => htimers'[j] = htimers[j]
      BY <1>1, <1>2, <2>1 DEF Put, Without
    <3> QED BY <3>1, <3>2, <3>3, <3>4
  <2>2. CASE timers[i] = 1
    <3>1. i \in DOMAIN timers' /\ timers'[i] = 0 /\ i \notin DOMAIN htimers' /\ current' = i
      BY <1>1, <1>2, <1>3, <2>2 DEF Put, Without
    <3> QED BY <2>1, <3>1 DEF BooksAgree
  <2>3. CASE timers[i] # 1
    <3>1. /\ i \in DOMAIN timers' /\ i \in DOMAIN htimers' /\ timers'[i] = htimers'[i]
      BY <1>1, <1>2, <2>3 DEF Put
    <3> QED BY <2>1, <3>1 DEF BooksAgree
  <2> QED BY <2>2, <2>3
<1>10. Account'
  BY <1>1, <1>2, <1>3 DEF Account, Put, Without
<1>11. AllCallbacksGiven' /\ Dead'
  BY <1>1, <1>2, <1>4, <1>5 DEF AllCallbacksGiven, Dead
<1> QED BY <1>1, <1>6, <1>7, <1>8, <1>9, <1>10, <1>11 DEF Dead

\* The callback of a timer is done.
LEMMA DoneStep ==
  ASSUME TimersInv, CallbackDone PROVE TimersInv'
<1> USE TimersAssumption DEF TimersInv, TimersTypeOK
<1>1. /\ current # 0 /\ current' = 0 /\ current \in issued
      /\ timers' = IF current \in DOMAIN timers /\ timers[current] = 0
                   THEN Without(timers, current) ELSE timers
      /\ UNCHANGED <<htimers, customEvents, issued, owed, killed, overtaken, retries>>
  BY DEF CallbackDone, TimerDone, history, clientVars, Owned
<1>2. \A j : Queued("set", j)' <=> Queued("set", j)
  BY <1>1 DEF Queued
<1>3. Queue'
  <2>1. \A j \in issued : Queued("set", j)' => owed'[j] = owed[j] /\ j \notin DOMAIN timers'
    BY <1>1, <1>2 DEF Queue, Queued, Without
  <2>2. customEvents \in Seq(Functors)
    BY DEF Functors
  <2> QED BY <1>1, <2>1, <2>2, QueueKept
<1>4. TimersTypeOK'
  BY <1>1 DEF IsTimers, Without
<1>5. Mine' /\ Owned'
  BY <1>1 DEF Mine, Owned, Without
<1>6. BooksAgree'
  <2>1. ASSUME NEW j \in TimerIds
        PROVE  \/ j \in DOMAIN timers' /\ j \in DOMAIN htimers' /\ timers'[j] = htimers'[j]
               \/ j \notin DOMAIN timers' /\ j \notin DOMAIN htimers'
    BY <1>1 DEF BooksAgree, Without, Account
  <2> QED BY <2>1 DEF BooksAgree
<1>7. Account'
  BY <1>1 DEF Account, Without
<1>8. AllCallbacksGiven' /\ Dead'
  <2>1. current \in DOMAIN timers => owed[current] = timers[current]
    BY <1>1 DEF Account
  <2> QED BY <1>1, <1>2, <2>1 DEF AllCallbacksGiven, Dead, Without
<1> QED BY <1>3, <1>4, <1>5, <1>6, <1>7, <1>8

\* A reconnect timer expires, for the first and last time.
LEMMA RetryStep ==
  ASSUME TimersInv, NEW i \in TimerIds, Retry(i)
  PROVE  TimersInv' /\ i \in retries /\ retries' = retries \ {i}
<1> USE TimersAssumption DEF TimersInv, TimersTypeOK
<1>1. /\ current = 0 /\ i \in retries /\ i \notin issued /\ i \in DOMAIN timers /\ timers[i] = 1
      /\ i \in DOMAIN htimers /\ htimers[i] = 1
  BY DEF Retry, Expire, Mine, Owned, BooksAgree
<1>2. /\ timers' = Without(timers, i) /\ htimers' = Without(htimers, i) /\ retries' = retries \ {i}
      /\ UNCHANGED <<customEvents, current, issued, owed, killed, overtaken>>
  BY <1>1 DEF Retry, Expire, history
<1>3. \A j : Queued("set", j)' <=> Queued("set", j)
  BY <1>2 DEF Queued
<1>4. \A j \in issued : j \in DOMAIN timers' <=> j \in DOMAIN timers
  BY <1>1, <1>2 DEF Without
<1>5. Queue'
  <2>1. \A j \in issued : Queued("set", j)' => owed'[j] = owed[j] /\ j \notin DOMAIN timers'
    BY <1>2, <1>3, <1>4 DEF Queue, Queued
  <2>2. customEvents \in Seq(Functors)
    BY DEF Functors
  <2> QED BY <1>2, <2>1, <2>2, QueueKept
<1>6. TimersTypeOK'
  BY <1>2 DEF IsTimers, Without
<1>7. Mine' /\ Owned'
  BY <1>1, <1>2 DEF Mine, Owned, Without
<1>8. BooksAgree'
  BY <1>1, <1>2 DEF BooksAgree, Without
<1>9. Account'
  BY <1>2 DEF Account, Without
<1>10. AllCallbacksGiven' /\ Dead'
  BY <1>2, <1>3, <1>4 DEF AllCallbacksGiven, Dead
<1> QED BY <1>1, <1>2, <1>5, <1>6, <1>7, <1>8, <1>9, <1>10

\* startReconnect arms a timer that nobody has.
LEMMA ArmStep ==
  ASSUME TimersInv, NEW i \in TimerIds, NewId(i), setTimer(i, 1), retries' = retries \cup {i},
         current = 0, UNCHANGED <<customEvents, current, history>>
  PROVE  TimersInv' /\ i \notin retries
<1> USE TimersAssumption DEF TimersInv, TimersTypeOK
<1>1. i \notin issued /\ i \notin DOMAIN timers /\ i \notin retries /\ i \notin DOMAIN htimers
  BY DEF NewId, Mine, BooksAgree
<1>2. /\ timers' = Put(timers, i, 1) /\ htimers' = Put(htimers, i, 1)
      /\ UNCHANGED <<issued, owed, killed, overtaken>>
  BY DEF setTimer, history
<1>3. \A j : Queued("set", j)' <=> Queued("set", j)
  BY DEF Queued
<1>4. \A j \in issued : j \in DOMAIN timers' <=> j \in DOMAIN timers
  BY <1>1, <1>2 DEF Put
<1>5. Queue'
  <2>1. \A j \in issued : Queued("set", j)' => owed'[j] = owed[j] /\ j \notin DOMAIN timers'
    BY <1>2, <1>3, <1>4 DEF Queue, Queued
  <2>2. customEvents \in Seq(Functors)
    BY DEF Functors
  <2> QED BY <1>2, <2>1, <2>2, QueueKept
<1>6. TimersTypeOK'
  BY <1>2 DEF IsTimers, Put
<1>7. Mine' /\ Owned'
  BY <1>1, <1>2 DEF Mine, Owned, Put
<1>8. BooksAgree'
  BY <1>1, <1>2 DEF BooksAgree, Put
<1>9. Account'
  BY <1>1, <1>2 DEF Account, Put
<1>10. AllCallbacksGiven' /\ Dead'
  BY <1>2, <1>3, <1>4 DEF AllCallbacksGiven, Dead
<1> QED BY <1>1, <1>5, <1>6, <1>7, <1>8, <1>9, <1>10
---------------------------------------------------------------------------
(***************************************************************************)
(* The client                                                              *)
(***************************************************************************)
ClientTypeOK ==
  /\ status \in {"OPENED", "CONNECTING", "CONNECTED", "CLOSED"}
  /\ reconn_setting \in BOOLEAN /\ max_retry_cnt \in MaxRetries
  /\ cur_retry_cnt \in 0 .. CountTo /\ cur_delay \in 0 .. MaxDelay
  /\ ran \in Nat /\ row \in 0 .. CountTo
  /\ {up, ended} \subseteq BOOLEAN

\* The client's own invariant.
ClientInv == ClientTypeOK /\ IsFiniteSet(retries) /\ OneChainPerStart /\ StillTrying

ReconnectInv == TimersInv /\ ClientInv

\* What a step does to the client.
LEMMA ClientTypeStep ==
  ASSUME ClientTypeOK, [Next]_vars PROVE ClientTypeOK'
<1> USE ReconnectAssumption DEF ClientTypeOK, CountTo
<1>1. ASSUME UNCHANGED clientVars PROVE ClientTypeOK'
  BY <1>1 DEF clientVars, setting
<1>2. ASSUME startConnect PROVE status' \in {"OPENED", "CONNECTING", "CONNECTED", "CLOSED"} /\ ended' \in BOOLEAN
  BY <1>2 DEF startConnect
<1>3. CASE RunStartConnect
  BY <1>2, <1>3 DEF RunStartConnect, setting
<1>4. CASE RunCloseSocket
  BY <1>4 DEF RunCloseSocket
<1>5. ASSUME NEW i \in TimerIds, Retry(i) PROVE ClientTypeOK'
  BY <1>2, <1>5 DEF Retry, setting
<1>6. CASE OnConnect
  BY <1>6 DEF OnConnect
<1>7. CASE OnClose
  <2>1. Delay(cur_delay) \in 0 .. MaxDelay /\ Count(cur_retry_cnt) \in 0 .. CountTo
    BY DEF Delay, Count
  <2>3. /\ cur_delay' \in {cur_delay, Delay(cur_delay)}
        /\ cur_retry_cnt' \in {cur_retry_cnt, Count(cur_retry_cnt)}
        /\ ended' \in {ended, TRUE} /\ UNCHANGED <<reconn_setting, max_retry_cnt>>
    BY <1>7 DEF OnClose, startReconnect, setting
  <2>2. row' \in 0 .. CountTo
    BY <1>7 DEF OnClose, Count
  <2>4. cur_delay' \in 0 .. MaxDelay /\ cur_retry_cnt' \in 0 .. CountTo
    BY <2>1, <2>3
  <2>5. status' = "CLOSED" /\ UNCHANGED <<ran, up>> /\ ended' \in BOOLEAN
    BY <1>7, <2>3 DEF OnClose
  <2> QED BY <2>2, <2>3, <2>4, <2>5
<1>8. CASE ServerStops \/ ServerListens
  BY <1>8 DEF ServerStops, ServerListens, setting
<1>9. ASSUME NEW i \in TimerIds, UserTimer(i) PROVE ClientTypeOK'
  BY <1>1, <1>9 DEF UserTimer
<1>10. ASSUME NEW inside, NEW op, NEW i, Sets(inside, i) \/ Calls(inside, op, i) PROVE ClientTypeOK'
  BY <1>1, <1>10 DEF Sets, Calls
<1>11. CASE TimerFunctor \/ CallbackDone \/ Start \/ CloseSocket \/ UNCHANGED vars
  BY <1>1, <1>11 DEF TimerFunctor, CallbackDone, Start, CloseSocket, vars
<1> QED BY <1>3, <1>4, <1>5, <1>6, <1>7, <1>8, <1>9, <1>10, <1>11 DEF Next, Due, RunFunctor

\* Every step keeps the account of the timers.
LEMMA TimersStep == ReconnectInv /\ [Next]_vars => TimersInv'
<1> SUFFICES ASSUME ReconnectInv, [Next]_vars PROVE TimersInv'
  OBVIOUS
<1> USE TimersAssumption DEF ReconnectInv
<1>1. ASSUME NEW inside \in BOOLEAN, NEW repeat \in Repeats, Sets(inside, repeat) PROVE TimersInv'
  BY <1>1, SetsStep
<1>2. ASSUME NEW inside \in BOOLEAN, NEW op \in {"kill", "reset"}, NEW i \in TimerIds, Calls(inside, op, i)
      PROVE  TimersInv'
  BY <1>2, CallsStep
<1>3. ASSUME NEW i \in TimerIds, Due(i) PROVE TimersInv'
  BY <1>3, TimerStep, RetryStep DEF Due
<1>4. CASE RunFunctor
  <2>1. CASE RunStartConnect \/ RunCloseSocket
    BY <2>1, OnlyQueue DEF RunStartConnect, RunCloseSocket, Take
  <2> QED BY <1>4, <2>1, FunctorStep DEF RunFunctor
<1>5. CASE CallbackDone
  BY <1>5, DoneStep
<1>6. CASE Start \/ CloseSocket
  <2>1. Functor("start", 0, 0) \in Functors /\ Functor("close", 0, 0) \in Functors
    BY DEF Functor, Functors
  <2>2. Functor("start", 0, 0).op = "start" /\ Functor("close", 0, 0).op = "close"
    BY DEF Functor
  <2> QED BY <1>6, <2>1, <2>2, OnlyQueue DEF Start, CloseSocket, clientVars
<1>7. CASE OnConnect \/ ServerStops \/ ServerListens \/ UNCHANGED vars
  BY <1>7, OnlyQueue DEF OnConnect, ServerStops, ServerListens, vars, timerVars, clientVars
<1>8. CASE OnClose
  <2>1. current = 0 /\ UNCHANGED <<customEvents, current, history>>
    BY <1>8 DEF OnClose
  <2>2. CASE UNCHANGED <<book, retries>>
    BY <2>1, <2>2, OnlyQueue
  <2>3. CASE \E i \in TimerIds : NewId(i) /\ setTimer(i, 1) /\ retries' = retries \cup {i}
    BY <2>1, <2>3, ArmStep
  <2> QED BY <1>8, <2>2, <2>3 DEF OnClose, startReconnect
<1> QED BY <1>1, <1>2, <1>3, <1>4, <1>5, <1>6, <1>7, <1>8 DEF Next

\* Every step keeps the chains of connections and timers.
LEMMA ClientStep == ReconnectInv /\ [Next]_vars => ClientInv'
<1> SUFFICES ASSUME ReconnectInv, [Next]_vars PROVE ClientInv'
  OBVIOUS
<1> USE DEF ReconnectInv, ClientInv, OneChainPerStart, StillTrying
<1>0. ClientTypeOK' /\ Cardinality(retries) \in Nat /\ ran \in Nat
  BY ClientTypeStep, FS_CardinalityType DEF ClientTypeOK
<1>1. ASSUME UNCHANGED <<status, reconn_setting, retries, ran, ended>> PROVE ClientInv'
  BY <1>0, <1>1 DEF Live
<1>2. ASSUME NEW i \in TimerIds, Retry(i) PROVE ClientInv'
  <2>1. i \in retries /\ retries' = retries \ {i}
    BY <1>2, RetryStep
  <2>2. IsFiniteSet(retries') /\ Cardinality(retries') = Cardinality(retries) - 1
    BY <2>1, FS_RemoveElement
  <2>3. startConnect /\ UNCHANGED <<reconn_setting, ran>>
    BY <1>2 DEF Retry, setting
  <2>4. Live' \/ (ended' /\ ~Live)
    BY <2>3 DEF startConnect, Live
  <2> QED BY <1>0, <2>2, <2>3, <2>4
<1>3. CASE RunStartConnect
  <2>1. startConnect /\ ran' = ran + 1 /\ UNCHANGED <<reconn_setting, retries>>
    BY <1>3 DEF RunStartConnect, setting
  <2>2. Live' \/ (ended' /\ ~Live)
    BY <2>1 DEF startConnect, Live
  <2>3. Live => Live'
    BY <2>1 DEF startConnect, Live
  <2> QED BY <1>0, <2>1, <2>2, <2>3
<1>4. CASE RunCloseSocket
  <2>1. status' = "CLOSED" /\ reconn_setting' = FALSE /\ UNCHANGED <<retries, ran>>
    BY <1>4 DEF RunCloseSocket
  <2> QED BY <1>0, <2>1 DEF Live
<1>5. CASE OnConnect
  <2>1. Live /\ Live' /\ UNCHANGED <<reconn_setting, retries, ran, ended>>
    BY <1>5 DEF OnConnect, Live
  <2> QED BY <1>0, <2>1
<1>6. CASE OnClose
  <2>1. Live /\ ~Live' /\ ran' = ran
    BY <1>6 DEF OnClose, Fails, Live
  <2>2. CASE ~reconn_setting
    <3>1. UNCHANGED <<reconn_setting, retries>>
      BY <1>6, <2>2 DEF OnClose, setting
    <3> QED BY <1>0, <2>1, <2>2, <3>1
  <2>3. CASE reconn_setting /\ can_retry
    <3>1. PICK i \in TimerIds : NewId(i) /\ setTimer(i, 1) /\ retries' = retries \cup {i}
      BY <1>6, <2>3 DEF OnClose, startReconnect
    <3>2. i \notin retries
      BY <1>6, <3>1, ArmStep DEF OnClose
    <3>3. IsFiniteSet(retries') /\ Cardinality(retries') = Cardinality(retries) + 1
      BY <3>1, <3>2, FS_AddElement
    <3> QED BY <1>0, <2>1, <3>1, <3>3
  <2>4. CASE reconn_setting /\ ~can_retry
    <3>1. ended' /\ UNCHANGED retries
      BY <1>6, <2>4 DEF OnClose, startReconnect
    <3> QED BY <1>0, <2>1, <3>1
  <2> QED BY <2>2, <2>3, <2>4 DEF ClientTypeOK
<1>7. CASE ServerStops \/ ServerListens
  BY <1>1, <1>7 DEF ServerStops, ServerListens, setting
<1>8. ASSUME NEW i \in TimerIds, UserTimer(i) PROVE ClientInv'
  BY <1>1, <1>8 DEF UserTimer, clientVars, setting
<1>9. ASSUME NEW inside, NEW op, NEW i, Sets(inside, i) \/ Calls(inside, op, i) PROVE ClientInv'
  BY <1>1, <1>9 DEF Sets, Calls, clientVars, setting
<1>10. CASE TimerFunctor \/ CallbackDone \/ Start \/ CloseSocket \/ UNCHANGED vars
  BY <1>1, <1>10 DEF TimerFunctor, CallbackDone, Start, CloseSocket, vars, clientVars, setting
<1> QED BY <1>2, <1>3, <1>4, <1>5, <1>6, <1>7, <1>8, <1>9, <1>10 DEF Next, Due, RunFunctor
---------------------------------------------------------------------------
\* The invariant of the timers and of the client that uses them.
THEOREM Invariance == Spec => []ReconnectInv
<1>1. Init => ReconnectInv
  <2> SUFFICES ASSUME Init PROVE ReconnectInv
    OBVIOUS
  <2> USE TimersAssumption, ReconnectAssumption DEF Init, TimersInit
  <2>1. TimersTypeOK
    BY DEF TimersTypeOK, IsTimers
  <2>2. Mine /\ Owned /\ BooksAgree /\ Account /\ AllCallbacksGiven /\ Dead
    BY DEF Mine, Owned, BooksAgree, Account, AllCallbacksGiven, Dead
  <2>3. Queue
    BY DEF Queue
  <2>4. ClientTypeOK
    <3>1. 0 \in 0 .. MaxDelay /\ 0 \in 0 .. CountTo
      BY DEF CountTo
    <3> QED BY <3>1 DEF ClientTypeOK
  <2>5. IsFiniteSet(retries) /\ Cardinality(retries) = 0
    BY FS_EmptySet
  <2>6. OneChainPerStart /\ StillTrying
    BY <2>5 DEF OneChainPerStart, StillTrying, Live
  <2> QED BY <2>1, <2>2, <2>3, <2>4, <2>5, <2>6 DEF ReconnectInv, TimersInv, ClientInv
<1>2. ReconnectInv /\ [Next]_vars => ReconnectInv'
  BY TimersStep, ClientStep DEF ReconnectInv
<1> QED BY <1>1, <1>2, PTL DEF Spec

\* The variables are well typed.
THEOREM TypeCorrect == Spec => []TypeOK
<1>1. ReconnectInv => TypeOK
  BY DEF ReconnectInv, TimersInv, ClientInv, Mine, ClientTypeOK, TypeOK
<1> QED BY <1>1, Invariance, PTL

\* The loop's account of the timers and libhv's agree, whatever callbacks do.
THEOREM BooksAlwaysAgree == Spec => []BooksAgree
<1>1. ReconnectInv => BooksAgree
  BY DEF ReconnectInv, TimersInv
<1> QED BY <1>1, Invariance, PTL

\* A timer that nobody kills gives all its callbacks.
THEOREM NoCallbackMissing == Spec => []AllCallbacksGiven
<1>1. ReconnectInv => AllCallbacksGiven
  BY DEF ReconnectInv, TimersInv
<1> QED BY <1>1, Invariance, PTL

\* A timer that was killed stays dead.
THEOREM DeadStaysDead == Spec => KilledStaysDead
<1>1. ReconnectInv /\ [Next]_vars
        => [\A i \in killed \ overtaken : current' = i => current = i]_timerVars
  <2> SUFFICES ASSUME ReconnectInv, [Next]_vars, NEW i \in killed \ overtaken, current' = i
               PROVE  current = i
    OBVIOUS
  <2>1. i \in TimerIds /\ i # 0
    BY DEF ReconnectInv, TimersInv, TimersTypeOK, TimerIds
  <2>2. ASSUME NEW j \in TimerIds, UserTimer(j) PROVE current = i
    <3>1. current' = j \/ UNCHANGED current
      BY <2>2 DEF UserTimer, OnTimer
    <3>2. j \notin killed \ overtaken
      BY <2>2, TimerStep DEF ReconnectInv
    <3> QED BY <3>1, <3>2
  <2>3. CASE CallbackDone
    BY <2>1, <2>3 DEF CallbackDone, TimerDone
  <2>4. CASE UNCHANGED current
    BY <2>4
  <2>5. ASSUME NEW inside, NEW op, NEW j, Sets(inside, j) \/ Calls(inside, op, j) \/ Retry(j)
        PROVE  UNCHANGED current
    BY <2>5 DEF Sets, UserSets, Calls, UserCalls, Retry
  <2>6. CASE RunFunctor \/ Start \/ CloseSocket \/ OnConnect \/ OnClose \/ ServerStops
             \/ ServerListens \/ UNCHANGED vars
    BY <2>6 DEF RunFunctor, TimerFunctor, RunTimerFunctor, RunStartConnect, RunCloseSocket, Start,
                CloseSocket, OnConnect, OnClose, ServerStops, ServerListens, vars, timerVars
  <2> QED BY <2>2, <2>3, <2>4, <2>5, <2>6 DEF Next, Due
<1> QED BY <1>1, Invariance, PTL DEF Spec, KilledStaysDead

\* Reconnecting does not multiply by itself.
THEOREM ChainsDoNotMultiply == Spec => []OneChainPerStart
<1>1. ReconnectInv => OneChainPerStart
  BY DEF ReconnectInv, ClientInv
<1> QED BY <1>1, Invariance, PTL

\* A client that is to reconnect never stops trying unnoticed.
THEOREM NeverGivesUpSilently == Spec => []StillTrying
<1>1. ReconnectInv => StillTrying
  BY DEF ReconnectInv, ClientInv
<1> QED BY <1>1, Invariance, PTL

(***************************************************************************)
(* The count of retries is the number of closes in a row, and the delay    *)
(* is the one that is said, as long as the retries are not used up.        *)
(***************************************************************************)
Reached == row < CountTo \/ MaxDelay <= Doubled[CountTo]

Backoff ==
  reconn_setting => /\ cur_retry_cnt = row
                    /\ row = 0 => cur_delay = 0
                    /\ row > 0 /\ row < max_retry_cnt /\ Reached => cur_delay = Said(row)

\* Doubling the n-th delay gives the next one.
LEMMA NextDelay ==
  ASSUME NEW n \in 1 .. CountTo, n < CountTo \/ MaxDelay <= Doubled[CountTo]
  PROVE  /\ Delay(0) = Said(1)
         /\ n < CountTo => Delay(Said(n)) = Said(n + 1)
         /\ n = CountTo => Delay(Said(n)) = Said(n)
<1> USE ReconnectAssumption DEF CountTo, Doubled, Delay, Said
<1>1. Delay(0) = Said(1)
  OBVIOUS
<1>2. CASE n = 1
  BY <1>1, <1>2
<1>3. CASE n = 2
  BY <1>1, <1>3
<1>4. CASE n = 3
  BY <1>1, <1>4
<1>5. CASE n = 4
  BY <1>1, <1>5
<1>6. CASE n = 5
  BY <1>1, <1>6
<1>7. CASE n = 6
  BY <1>1, <1>7
<1> QED BY <1>2, <1>3, <1>4, <1>5, <1>6, <1>7

LEMMA BackoffStep == ReconnectInv /\ Backoff /\ [Next]_vars => Backoff'
<1> SUFFICES ASSUME ReconnectInv, Backoff, [Next]_vars PROVE Backoff'
  OBVIOUS
<1>0. ClientTypeOK /\ ClientTypeOK'
  BY ClientTypeStep DEF ReconnectInv, ClientInv
<1>1. ASSUME UNCHANGED <<setting, row>> PROVE Backoff'
  BY <1>1 DEF Backoff, Reached, setting
<1>2. CASE RunCloseSocket
  BY <1>2 DEF RunCloseSocket, Backoff
<1>3. CASE OnConnect
  BY <1>3 DEF OnConnect, Backoff
<1>4. CASE OnClose
  <2>1. CASE ~reconn_setting
    BY <1>4, <2>1 DEF OnClose, setting, Backoff
  <2>2. CASE reconn_setting
    <3>1. /\ row' = Count(row) /\ cur_retry_cnt' = Count(cur_retry_cnt)
          /\ IF can_retry THEN cur_delay' = Delay(cur_delay) ELSE cur_delay' = cur_delay
          /\ max_retry_cnt' = max_retry_cnt
      BY <1>4, <2>2 DEF OnClose, startReconnect
    <3>2. /\ row \in 0 .. CountTo /\ cur_retry_cnt = row
          /\ max_retry_cnt \in 1 .. CountTo \cup {INFINITE} /\ INFINITE \in Nat
      BY <1>0, <2>2, ReconnectAssumption, TimersAssumption DEF ClientTypeOK, Backoff
    <3>3. row' \in 1 .. CountTo /\ cur_retry_cnt' = row' /\ row <= row'
      BY <3>1, <3>2 DEF Count, CountTo
    <3>4. ASSUME row' < max_retry_cnt, Reached' PROVE cur_delay' = Said(row')
      <4>1. can_retry
        BY <3>1, <3>2, <3>4 DEF can_retry, Count, CountTo
      <4>2. cur_delay' = Delay(cur_delay)
        BY <3>1, <4>1
      <4>3. CASE row = 0
        <5>1. cur_delay = 0 /\ row' = 1
          BY <2>2, <3>1, <4>3 DEF Backoff, Count, CountTo
        <5>2. Delay(0) = Said(1)
          BY NextDelay DEF CountTo
        <5> QED BY <4>2, <5>1, <5>2
      <4>4. CASE row > 0
        <5>1. row \in 1 .. CountTo /\ row < max_retry_cnt
          BY <3>2, <3>3, <3>4, <4>4 DEF CountTo
        <5>2. row < CountTo \/ MaxDelay <= Doubled[CountTo]
          BY <3>1, <3>4, <5>1 DEF Reached, Count, CountTo
        <5>3. cur_delay = Said(row)
          BY <2>2, <5>1, <5>2 DEF Backoff, Reached
        <5>4. Delay(Said(row)) = Said(row')
          BY <3>1, <5>1, <5>2, NextDelay DEF Count, CountTo
        <5> QED BY <4>2, <5>3, <5>4
      <4> QED BY <3>2, <4>3, <4>4
    <3>5. row' # 0
      BY <3>3
    <3> QED BY <3>1, <3>3, <3>4, <3>5 DEF Backoff
  <2> QED BY <2>1, <2>2
<1>5. CASE RunStartConnect \/ ServerStops \/ ServerListens
  BY <1>1, <1>5 DEF RunStartConnect, ServerStops, ServerListens
<1>6. ASSUME NEW i \in TimerIds, Due(i) PROVE Backoff'
  BY <1>1, <1>6 DEF Due, UserTimer, Retry, clientVars
<1>7. ASSUME NEW inside, NEW op, NEW i, Sets(inside, i) \/ Calls(inside, op, i) PROVE Backoff'
  BY <1>1, <1>7 DEF Sets, Calls, clientVars
<1>8. CASE TimerFunctor \/ CallbackDone \/ Start \/ CloseSocket \/ UNCHANGED vars
  BY <1>1, <1>8 DEF TimerFunctor, CallbackDone, Start, CloseSocket, vars, clientVars
<1> QED BY <1>2, <1>3, <1>4, <1>5, <1>6, <1>7, <1>8 DEF Next, RunFunctor

\* The delays are those that main.cpp names, for every max_delay and every
\* limit on the retries.
THEOREM DelaysAsSaid == Spec => []BacksOff
<1>1. Init => Backoff
  BY DEF Init, Backoff
<1>2. Backoff => BacksOff
  BY DEF Backoff, BacksOff, Reached
<1> QED BY <1>1, <1>2, BackoffStep, Invariance, PTL DEF Spec

\* After closesocket() no timer is armed, and each one that is armed opens the
\* connection once at most.
THEOREM ClosedRunsDown == Spec => ClosedRunsOut
<1>1. ReconnectInv /\ [Next]_vars
        => [~reconn_setting =>
              /\ retries' \subseteq retries
              /\ ~Live /\ Live' => retries' # retries \/ ran' = ran + 1]_vars
  <2> SUFFICES ASSUME ReconnectInv, Next, ~reconn_setting
               PROVE  /\ retries' \subseteq retries
                      /\ ~Live /\ Live' => retries' # retries \/ ran' = ran + 1
    OBVIOUS
  <2>1. ASSUME UNCHANGED <<status, retries>> PROVE UNCHANGED retries /\ (Live' => Live)
    BY <2>1 DEF Live
  <2>2. ASSUME NEW i \in TimerIds, Retry(i) PROVE i \in retries /\ retries' = retries \ {i}
    BY <2>2, RetryStep DEF ReconnectInv
  <2>3. CASE RunStartConnect
    BY <2>3 DEF RunStartConnect
  <2>4. CASE RunCloseSocket
    BY <2>4 DEF RunCloseSocket, Live
  <2>5. CASE OnConnect
    BY <2>5 DEF OnConnect, Live
  <2>6. CASE OnClose
    BY <2>6 DEF OnClose, Live
  <2>7. CASE ServerStops \/ ServerListens
    BY <2>1, <2>7 DEF ServerStops, ServerListens
  <2>8. ASSUME NEW i \in TimerIds, UserTimer(i) PROVE UNCHANGED retries /\ (Live' => Live)
    BY <2>1, <2>8 DEF UserTimer, clientVars
  <2>9. ASSUME NEW inside, NEW op, NEW i, Sets(inside, i) \/ Calls(inside, op, i)
        PROVE  UNCHANGED retries /\ (Live' => Live)
    BY <2>1, <2>9 DEF Sets, Calls, clientVars
  <2>10. CASE TimerFunctor \/ CallbackDone \/ Start \/ CloseSocket
    BY <2>1, <2>10 DEF TimerFunctor, CallbackDone, Start, CloseSocket, clientVars
  <2> QED BY <2>2, <2>3, <2>4, <2>5, <2>6, <2>7, <2>8, <2>9, <2>10 DEF Next, Due, RunFunctor
<1> QED BY <1>1, Invariance, PTL DEF Spec, ClosedRunsOut
=============================================================================
