-------------------------- MODULE TcpServer_proofs --------------------------
(***************************************************************************)
(* TcpServer for every number of worker threads, of connections and of     *)
(* starts, and every limit.                                                *)
(***************************************************************************)
EXTENDS TcpServer, FiniteSetTheorems, TLAPS

\* The threads that have counted themselves in, and out.
Entered == {w \in Workers : worker[w] \notin {"none", "created"}}
Gone    == {w \in Workers : worker[w] = "ended"}

Counts == started_cnt = Cardinality(Entered) /\ exited_cnt = Cardinality(Gone)

\* start() goes through the threads in their order.
Creating == user = "create" => \A w \in Workers : w >= next => worker[w] = "none"

\* A worker deals with one connection at a time, and with its own.
OneAtATime ==
  /\ \A c \in Conns : /\ conn[c] \in {"posted", "checked", "open", "closing", "astray"} => home[c] \in Workers
                      /\ conn[c] = "none" => home[c] = NoHome
  /\ \A c, d \in Conns : /\ {conn[c], conn[d]} \subseteq {"checked", "closing", "astray"}
                         /\ home[c] = home[d]
                         => c = d

\* The workers between the test of the limit and the insertion.
Checking == {w \in Workers : At(w, {"checked"}) # {}}

\* A worker may have tested the limit before the others inserted theirs.
LimitInv == Cardinality(channels) + Cardinality(Checking) <= max_connections + ThreadNum - 1

Counted == {"posted", "checked", "open", "rejected", "lost", "astray"}
---------------------------------------------------------------------------
(***************************************************************************)
(* Finite sets                                                             *)
(***************************************************************************)
\* There are ThreadNum workers.
LEMMA WorkerSets ==
  ASSUME NEW S \in SUBSET Workers
  PROVE  /\ IsFiniteSet(S) /\ Cardinality(S) \in 0 .. ThreadNum
         /\ Cardinality(S) = ThreadNum => S = Workers
<1>1. IsFiniteSet(Workers) /\ Cardinality(Workers) = ThreadNum
  BY PoolAssumption, FS_Interval DEF Workers
<1> QED BY <1>1, FS_Subset, FS_CardinalityType, PoolAssumption

\* Sets of connections are finite.
LEMMA ConnSets ==
  ASSUME NEW S \in SUBSET Conns
  PROVE  IsFiniteSet(S) /\ Cardinality(S) \in Nat
BY ServerAssumption, FS_Subset, FS_CardinalityType
---------------------------------------------------------------------------
(***************************************************************************)
(* Types                                                                   *)
(***************************************************************************)
\* What a step does to the pool.
LEMMA NextPool ==
  ASSUME next_loop_idx \in Workers, [Next]_vars
  PROVE  \/ UNCHANGED poolVars
         \/ PoolStart \/ Create \/ PoolStarted \/ Tell \/ Join
         \/ PoolStop(waits)
         \/ \E w \in Workers : Pre(w) \/ PreLast(w) \/ Post(w)
         \/ next_loop_idx' \in Workers /\ UNCHANGED <<user, wait, starts, status, worker, next,
                                                     started_cnt, exited_cnt, early>>
<1>1. ASSUME NEW c \in Conns, NEW w \in Workers, OnAccept(c, w)
      PROVE  next_loop_idx' \in Workers \/ UNCHANGED next_loop_idx
  BY <1>1, PoolAssumption DEF OnAccept, NextRoundRobin, NextLeastConnections, Workers
<1>2. ASSUME NEW w \in Workers, Handles(w) PROVE UNCHANGED poolVars
  BY <1>2 DEF Handles, CheckLimit, AddChannel, OnClose, RemoveChannel
<1>3. ASSUME StopPool PROVE PoolStop(waits)
  BY <1>3 DEF StopPool
<1>4. ASSUME NEW w \in Workers, WorkerEnds(w) PROVE Post(w)
  BY <1>4 DEF WorkerEnds
<1>5. ASSUME NEW w \in Workers, WorkerThread(w) PROVE Pre(w) \/ PreLast(w)
  BY <1>5 DEF WorkerThread, PoolThread
<1>6. ASSUME StartPool PROVE PoolStart
  BY <1>6 DEF StartPool
<1>7. ASSUME ServerCall PROVE UNCHANGED poolVars \/ StopPool \/ PoolCall
  BY <1>7 DEF ServerCall, StartAcceptor, StartReturns, StopReturns
<1>8. ASSUME AcceptorThread \/ StopAcceptor PROVE UNCHANGED poolVars
  BY <1>8 DEF AcceptorThread, StartAccept, AcceptorEnds, StopAcceptor
<1>9. ASSUME NEW c \in Conns, NEW w \in Workers, OnAccept(c, w)
      PROVE  UNCHANGED <<user, wait, starts, status, worker, next, started_cnt, exited_cnt, early>>
  BY <1>9 DEF OnAccept
<1> QED BY <1>1, <1>2, <1>3, <1>4, <1>5, <1>6, <1>7, <1>8, <1>9 DEF Next, PoolCall, vars, poolVars

\* Every step keeps the counts of the threads true.
LEMMA CountsStep == TypeOK /\ Counts /\ Creating /\ [Next]_vars => Counts'
<1> SUFFICES ASSUME TypeOK, Counts, Creating, [Next]_vars PROVE Counts'
  OBVIOUS
<1> USE DEF TypeOK, PoolTypeOK
<1>1. ASSUME Entered' = Entered, Gone' = Gone, UNCHANGED <<started_cnt, exited_cnt>> PROVE Counts'
  BY <1>1 DEF Counts
<1>2. CASE UNCHANGED poolVars
  BY <1>1, <1>2 DEF poolVars, Entered, Gone
<1>3. CASE PoolStart
  <2>1. CASE UNCHANGED <<worker, started_cnt, exited_cnt>>
    BY <1>1, <2>1 DEF Entered, Gone
  <2>2. CASE worker' = [w \in Workers |-> "none"] /\ started_cnt' = 0 /\ exited_cnt' = 0
    <3>1. Entered' = {} /\ Gone' = {}
      BY <2>2 DEF Entered, Gone
    <3> QED BY <2>2, <3>1, FS_EmptySet DEF Counts
  <2> QED BY <1>3, <2>1, <2>2 DEF PoolStart
<1>4. CASE Create
  <2>1. worker[next] = "none"
    BY <1>4 DEF Create, Creating, Workers
  <2>2. Entered' = Entered /\ Gone' = Gone
    BY <1>4, <2>1 DEF Create, Entered, Gone
  <2> QED BY <1>1, <1>4, <2>2 DEF Create
<1>5. CASE PoolStarted \/ Join \/ PoolStop(waits)
  BY <1>1, <1>5 DEF PoolStarted, Join, PoolStop, Entered, Gone
<1>6. CASE Tell
  <2>1. Entered' = Entered /\ Gone' = Gone
    BY <1>6 DEF Tell, InLoop, Entered, Gone
  <2> QED BY <1>1, <1>6, <2>1 DEF Tell
<1>7. ASSUME NEW w \in Workers, Pre(w) PROVE Counts'
  <2>1. Entered' = Entered \cup {w} /\ w \notin Entered /\ Gone' = Gone
    BY <1>7 DEF Pre, Entered, Gone
  <2>2. IsFiniteSet(Entered)
    BY WorkerSets DEF Entered
  <2> QED BY <1>7, <2>1, <2>2, FS_AddElement DEF Pre, Counts
<1>8. ASSUME NEW w \in Workers, PreLast(w) PROVE Counts'
  <2>1. Entered' = Entered /\ Gone' = Gone
    BY <1>8 DEF PreLast, Entered, Gone
  <2> QED BY <1>1, <1>8, <2>1 DEF PreLast
<1>9. ASSUME NEW w \in Workers, Post(w) PROVE Counts'
  <2>1. Entered' = Entered /\ Gone' = Gone \cup {w} /\ w \notin Gone
    BY <1>9 DEF Post, Entered, Gone
  <2>2. IsFiniteSet(Gone)
    BY WorkerSets DEF Gone
  <2> QED BY <1>9, <2>1, <2>2, FS_AddElement DEF Post, Counts
<1>10. CASE UNCHANGED <<worker, started_cnt, exited_cnt>>
  BY <1>1, <1>10 DEF Entered, Gone
<1> QED BY <1>2, <1>3, <1>4, <1>5, <1>6, <1>7, <1>8, <1>9, <1>10, NextPool

\* Every step keeps the variables of the pool well typed.
LEMMA PoolTypeStep == TypeOK /\ Counts' /\ [Next]_vars => PoolTypeOK'
<1> SUFFICES ASSUME TypeOK, Counts', [Next]_vars PROVE PoolTypeOK'
  OBVIOUS
<1>1. started_cnt' \in 0 .. ThreadNum /\ exited_cnt' \in 0 .. ThreadNum
  <2>1. Entered' \in SUBSET Workers /\ Gone' \in SUBSET Workers
    BY DEF Entered, Gone
  <2> QED BY <2>1, WorkerSets DEF Counts
<1> USE PoolAssumption DEF TypeOK, PoolTypeOK, Workers
<1>2. CASE UNCHANGED poolVars
  BY <1>2 DEF poolVars
<1>3. CASE PoolStart     BY <1>1, <1>3 DEF PoolStart
<1>4. CASE Create        BY <1>1, <1>4 DEF Create
<1>5. CASE PoolStarted   BY <1>1, <1>5 DEF PoolStarted
<1>6. CASE PoolStop(waits)  BY <1>1, <1>6 DEF PoolStop
<1>7. CASE Tell          BY <1>1, <1>7 DEF Tell, InLoop
<1>8. CASE Join          BY <1>1, <1>8 DEF Join
<1>9. ASSUME NEW w \in Workers, Pre(w) \/ PreLast(w) \/ Post(w) PROVE PoolTypeOK'
  BY <1>1, <1>9 DEF Pre, PreLast, Post
<1>10. CASE next_loop_idx' \in Workers /\ UNCHANGED <<user, wait, starts, status, worker, next,
                                                     started_cnt, exited_cnt, early>>
  BY <1>10
<1> QED BY <1>2, <1>3, <1>4, <1>5, <1>6, <1>7, <1>8, <1>9, <1>10, NextPool

\* Every step keeps the order in which the threads are made.
LEMMA CreatingStep == TypeOK /\ Creating /\ [Next]_vars => Creating'
<1> SUFFICES ASSUME TypeOK, Creating, [Next]_vars PROVE Creating'
  OBVIOUS
<1> USE PoolAssumption DEF TypeOK, PoolTypeOK, Creating, Workers
<1>1. CASE UNCHANGED poolVars
  BY <1>1 DEF poolVars
<1>2. CASE PoolStart \/ Create \/ PoolStarted \/ Tell \/ Join \/ PoolStop(waits)
  BY <1>2 DEF PoolStart, Create, PoolStarted, Tell, Join, PoolStop
<1>3. ASSUME NEW w \in Workers, Pre(w) \/ PreLast(w) \/ Post(w) PROVE Creating'
  BY <1>3 DEF Pre, PreLast, Post
<1>4. CASE UNCHANGED <<user, next, worker>>
  BY <1>4
<1> QED BY <1>1, <1>2, <1>3, <1>4, NextPool

\* Every step keeps the other variables well typed.
LEMMA TypeStep == TypeOK /\ PoolTypeOK' /\ [Next]_vars => TypeOK'
<1> SUFFICES ASSUME TypeOK, PoolTypeOK', [Next]_vars PROVE TypeOK'
  OBVIOUS
<1> USE ServerAssumption, PoolAssumption DEF TypeOK, serverVars, connVars
<1>1. CASE StartPool
  <2>1. home' \in [Conns -> 0 .. ThreadNum] /\ connectionNum' \in [Workers -> Int]
    BY <1>1 DEF StartPool, NoHome
  <2>2. conn' \in [Conns -> {"none", "posted", "lost", "checked", "rejected", "open", "closing",
                          "closed", "astray"}]
    BY <1>1 DEF StartPool
  <2> QED BY <1>1, <2>1, <2>2 DEF StartPool
<1>2. CASE StopAcceptor   BY <1>2 DEF StopAcceptor
<1>3. CASE StartAcceptor  BY <1>3 DEF StartAcceptor
<1>4. CASE StartReturns \/ StopPool \/ StopReturns
  BY <1>4 DEF StartReturns, StopPool, StopReturns
<1>5. CASE AcceptorThread
  BY <1>5 DEF AcceptorThread, StartAccept, AcceptorEnds
<1>6. CASE UNCHANGED <<serverVars, load_balance, connVars, nullLoop>>
  BY <1>6
<1>7. ASSUME NEW c \in Conns, NEW w \in Workers, OnAccept(c, w) PROVE TypeOK'
  BY <1>7 DEF OnAccept, Move, Workers
<1>8. ASSUME NEW w \in Workers, NEW c \in Conns, CheckLimit(w, c) PROVE TypeOK'
  BY <1>8 DEF CheckLimit, Move
<1>9. ASSUME NEW w \in Workers, NEW c \in Conns, AddChannel(w, c) PROVE TypeOK'
  BY <1>9 DEF AddChannel, Move
<1>10. ASSUME NEW w \in Workers, NEW c \in Conns, OnClose(w, c) PROVE TypeOK'
  BY <1>10 DEF OnClose, Move
<1>11. ASSUME NEW w \in Workers, NEW c \in Conns, RemoveChannel(w, c) PROVE TypeOK'
  BY <1>11 DEF RemoveChannel, Move
<1>12. ASSUME NEW w \in Workers, WorkerEnds(w) PROVE TypeOK'
  BY <1>12 DEF WorkerEnds
<1>13. CASE UNCHANGED vars
  BY <1>13 DEF vars
<1> QED BY <1>1, <1>2, <1>3, <1>4, <1>5, <1>6, <1>7, <1>8, <1>9, <1>10, <1>11, <1>12, <1>13
        DEF Next, ServerCall, WorkerThread, Handles
---------------------------------------------------------------------------
(***************************************************************************)
(* The connections                                                         *)
(***************************************************************************)
\* The channels and connections after a start.
Reset == /\ conn' = [c \in Conns |-> IF conn[c] = "none" THEN "none" ELSE "closed"]
         /\ home' = [c \in Conns |-> NoHome]
         /\ connectionNum' = [w \in Workers |-> 0]
         /\ UNCHANGED channels

\* What a step does to the connections.
LEMMA NextConn ==
  ASSUME [Next]_vars
  PROVE  \/ UNCHANGED connVars \/ Reset
         \/ \E c \in Conns, w \in Workers :
              \/ OnAccept(c, w) \/ CheckLimit(w, c) \/ AddChannel(w, c) \/ OnClose(w, c)
              \/ RemoveChannel(w, c)
         \/ \E w \in Workers : WorkerEnds(w)
<1>1. CASE StartPool
  BY <1>1 DEF StartPool, Reset, connVars
<1>2. CASE StopAcceptor \/ ServerCall \/ AcceptorThread
  BY <1>2 DEF StopAcceptor, ServerCall, StartAcceptor, StartReturns, StopPool, StopReturns,
              AcceptorThread, StartAccept, AcceptorEnds
<1>3. ASSUME NEW w \in Workers, WorkerThread(w) PROVE UNCHANGED connVars
  BY <1>3 DEF WorkerThread
<1>4. CASE UNCHANGED vars
  BY <1>4 DEF vars, connVars
<1> QED BY <1>1, <1>2, <1>3, <1>4 DEF Next, Handles

\* Every step keeps the workers at one connection each.
LEMMA OneStep == TypeOK /\ OneAtATime /\ [Next]_vars => OneAtATime'
<1> SUFFICES ASSUME TypeOK, OneAtATime, [Next]_vars PROVE OneAtATime'
  OBVIOUS
<1> USE PoolAssumption DEF TypeOK, OneAtATime
<1>1. CASE UNCHANGED connVars
  BY <1>1 DEF connVars
<1>2. CASE Reset
  BY <1>2 DEF Reset
<1>3. ASSUME NEW c \in Conns, NEW w \in Workers, OnAccept(c, w) PROVE OneAtATime'
  BY <1>3 DEF OnAccept, Move
<1>4. ASSUME NEW c \in Conns, NEW w \in Workers, CheckLimit(w, c) PROVE OneAtATime'
  BY <1>4 DEF CheckLimit, Move, Busy, At
<1>5. ASSUME NEW c \in Conns, NEW w \in Workers, AddChannel(w, c) PROVE OneAtATime'
  BY <1>5 DEF AddChannel, Move
<1>6. ASSUME NEW c \in Conns, NEW w \in Workers, OnClose(w, c) PROVE OneAtATime'
  BY <1>6 DEF OnClose, Move, Busy, At
<1>7. ASSUME NEW c \in Conns, NEW w \in Workers, RemoveChannel(w, c) PROVE OneAtATime'
  BY <1>7 DEF RemoveChannel, Move
<1>8. ASSUME NEW w \in Workers, WorkerEnds(w) PROVE OneAtATime'
  BY <1>8 DEF WorkerEnds, At
<1> QED BY <1>1, <1>2, <1>3, <1>4, <1>5, <1>6, <1>7, <1>8, NextConn

\* Every step keeps the bound on what is open or about to be.
LEMMA LimitStep == TypeOK /\ OneAtATime /\ LimitInv /\ [Next]_vars => LimitInv'
<1> SUFFICES ASSUME TypeOK, OneAtATime, LimitInv, [Next]_vars PROVE LimitInv'
  OBVIOUS
<1>a. /\ IsFiniteSet(channels) /\ Cardinality(channels) \in Nat
      /\ IsFiniteSet(Checking) /\ Cardinality(Checking) \in 0 .. ThreadNum
  BY ConnSets, WorkerSets DEF TypeOK, Checking
<1>b. Checking' \in SUBSET Workers /\ IsFiniteSet(Checking') /\ Cardinality(Checking') \in 0 .. ThreadNum
  BY WorkerSets DEF Checking
<1>c. ThreadNum \in Nat /\ max_connections \in Nat
  BY PoolAssumption, ServerAssumption
<1>1. ASSUME Checking' \subseteq Checking, channels' = channels PROVE LimitInv'
  <2>1. Cardinality(Checking') <= Cardinality(Checking)
    BY <1>1, <1>a, FS_Subset
  <2> QED BY <1>1, <1>a, <1>b, <1>c, <2>1 DEF LimitInv
<1>2. CASE UNCHANGED connVars
  BY <1>1, <1>2 DEF connVars, Checking, At
<1>3. CASE Reset
  BY <1>1, <1>3 DEF Reset, Checking, At
<1>4. ASSUME NEW c \in Conns, NEW w \in Workers, OnAccept(c, w) PROVE LimitInv'
  <2>1. Checking' \subseteq Checking
    BY <1>4 DEF OnAccept, Move, Checking, At, TypeOK
  <2> QED BY <1>1, <1>4, <2>1 DEF OnAccept
<1>5. ASSUME NEW c \in Conns, NEW w \in Workers, CheckLimit(w, c) PROVE LimitInv'
  <2>1. CASE Cardinality(channels) >= max_connections
    <3>1. Checking' \subseteq Checking
      BY <1>5, <2>1 DEF CheckLimit, Move, Checking, At, TypeOK
    <3> QED BY <1>1, <1>5, <3>1 DEF CheckLimit
  <2>2. CASE ~(Cardinality(channels) >= max_connections)
    BY <1>5, <1>a, <1>b, <1>c, <2>2 DEF CheckLimit, LimitInv
  <2> QED BY <2>1, <2>2
<1>6. ASSUME NEW c \in Conns, NEW w \in Workers, AddChannel(w, c) PROVE LimitInv'
  <2>1. w \in Checking
    BY <1>6 DEF AddChannel, Move, Checking, At
  <2>2. Checking' \subseteq Checking \ {w}
    BY <1>6 DEF AddChannel, Move, Checking, At, TypeOK, OneAtATime
  <2>3. Cardinality(Checking') <= Cardinality(Checking) - 1
    <3>1. /\ IsFiniteSet(Checking \ {w})
          /\ Cardinality(Checking \ {w}) = Cardinality(Checking) - 1
      BY <1>a, <2>1, FS_RemoveElement
    <3>2. Cardinality(Checking') <= Cardinality(Checking \ {w})
      BY <2>2, <3>1, FS_Subset
    <3> QED BY <3>1, <3>2
  <2>4. Cardinality(channels') <= Cardinality(channels) + 1 /\ Cardinality(channels') \in Nat
    <3>1. channels' \in {channels, channels \cup {c}}
      BY <1>6 DEF AddChannel
    <3>2. Cardinality(channels \cup {c}) = IF c \in channels THEN Cardinality(channels)
                                                            ELSE Cardinality(channels) + 1
      BY <1>a, FS_AddElement
    <3> QED BY <1>a, <3>1, <3>2
  <2> QED BY <1>a, <1>b, <1>c, <2>3, <2>4 DEF LimitInv
<1>7. ASSUME NEW c \in Conns, NEW w \in Workers, OnClose(w, c) PROVE LimitInv'
  <2>1. Checking' \subseteq Checking
    BY <1>7 DEF OnClose, Move, Checking, At, TypeOK
  <2> QED BY <1>1, <1>7, <2>1 DEF OnClose
<1>8. ASSUME NEW c \in Conns, NEW w \in Workers, RemoveChannel(w, c) PROVE LimitInv'
  <2>1. Checking' \subseteq Checking
    BY <1>8 DEF RemoveChannel, Move, Checking, At, TypeOK
  <2>2. Cardinality(Checking') <= Cardinality(Checking)
    BY <2>1, <1>a, FS_Subset
  <2>3. Cardinality(channels') <= Cardinality(channels) /\ Cardinality(channels') \in Nat
    <3>1. channels' = channels \ {c}
      BY <1>8 DEF RemoveChannel
    <3>2. Cardinality(channels \ {c}) = IF c \in channels THEN Cardinality(channels) - 1
                                                           ELSE Cardinality(channels)
      BY <1>a, FS_RemoveElement
    <3>3. c \in channels => Cardinality(channels) # 0
      BY <1>a, FS_EmptySet
    <3> QED BY <1>a, <3>1, <3>2, <3>3
  <2> QED BY <1>a, <1>b, <1>c, <2>2, <2>3 DEF LimitInv
<1>9. ASSUME NEW w \in Workers, WorkerEnds(w) PROVE LimitInv'
  <2>1. Checking' \subseteq Checking
    BY <1>9 DEF WorkerEnds, Checking, At
  <2> QED BY <1>1, <1>9, <2>1 DEF WorkerEnds
<1> QED BY <1>2, <1>3, <1>4, <1>5, <1>6, <1>7, <1>8, <1>9, NextConn

\* Every step keeps the counters exact.
LEMMA CountersStep == TypeOK /\ OneAtATime /\ CountersExact /\ [Next]_vars => CountersExact'
<1> SUFFICES ASSUME TypeOK, OneAtATime, CountersExact, [Next]_vars PROVE CountersExact'
  OBVIOUS
<1> USE DEF TypeOK
<1>a. ASSUME NEW v \in Workers PROVE IsFiniteSet(At(v, Counted)) /\ Cardinality(At(v, Counted)) \in Nat
  BY ConnSets DEF At
<1>b. CountersExact <=> \A v \in Workers : connectionNum[v] = Cardinality(At(v, Counted))
  BY DEF CountersExact, Counted
<1>c. CountersExact' <=> \A v \in Workers : connectionNum'[v] = Cardinality(At(v, Counted)')
  BY DEF CountersExact, Counted, At
<1>1. ASSUME \A v \in Workers : At(v, Counted)' = At(v, Counted), UNCHANGED connectionNum
      PROVE  CountersExact'
  BY <1>1, <1>b, <1>c
<1>2. CASE UNCHANGED connVars
  BY <1>1, <1>2 DEF connVars, At
<1>3. CASE Reset
  <2>1. ASSUME NEW v \in Workers PROVE At(v, Counted)' = {}
    BY <1>3, PoolAssumption DEF Reset, At, Counted
  <2> QED BY <1>3, <1>c, <2>1, FS_EmptySet DEF Reset
<1>4. ASSUME NEW c \in Conns, NEW w \in Workers, OnAccept(c, w) PROVE CountersExact'
  <2>1. At(w, Counted)' = At(w, Counted) \cup {c} /\ c \notin At(w, Counted)
    BY <1>4 DEF OnAccept, Move, At, Counted
  <2>2. ASSUME NEW v \in Workers, v # w PROVE At(v, Counted)' = At(v, Counted)
    BY <1>4, <2>2, PoolAssumption DEF OnAccept, Move, At, Counted, OneAtATime, NoHome, Workers
  <2>3. connectionNum' = [connectionNum EXCEPT ![w] = @ + 1]
    BY <1>4 DEF OnAccept
  <2> QED BY <1>a, <1>b, <1>c, <2>1, <2>2, <2>3, FS_AddElement
<1>5. ASSUME NEW c \in Conns, NEW w \in Workers, CheckLimit(w, c) \/ AddChannel(w, c) \/ RemoveChannel(w, c)
      PROVE  CountersExact'
  <2>1. \A v \in Workers : At(v, Counted)' = At(v, Counted)
    BY <1>5 DEF CheckLimit, AddChannel, RemoveChannel, Move, At, Counted
  <2> QED BY <1>1, <1>5, <2>1 DEF CheckLimit, AddChannel, RemoveChannel
<1>6. ASSUME NEW c \in Conns, NEW w \in Workers, OnClose(w, c) PROVE CountersExact'
  <2>1. At(w, Counted)' = At(w, Counted) \ {c} /\ c \in At(w, Counted)
    BY <1>6 DEF OnClose, Move, At, Counted
  <2>2. ASSUME NEW v \in Workers, v # w PROVE At(v, Counted)' = At(v, Counted)
    BY <1>6, <2>2 DEF OnClose, Move, At, Counted
  <2>3. connectionNum' = [connectionNum EXCEPT ![w] = @ - 1]
    BY <1>6 DEF OnClose
  <2> QED BY <1>a, <1>b, <1>c, <2>1, <2>2, <2>3, FS_RemoveElement
<1>7. ASSUME NEW w \in Workers, WorkerEnds(w) PROVE CountersExact'
  <2>1. \A v \in Workers : At(v, Counted)' = At(v, Counted)
    BY <1>7 DEF WorkerEnds, At, Counted
  <2> QED BY <1>1, <1>7, <2>1 DEF WorkerEnds
<1> QED BY <1>2, <1>3, <1>4, <1>5, <1>6, <1>7, NextConn

(***************************************************************************)
(* What needs no assumption on how start() and stop() are called           *)
(***************************************************************************)
BaseInv == TypeOK /\ Counts /\ Creating /\ OneAtATime /\ LimitInv /\ CountersExact

\* The invariant of every server.
THEOREM BaseInvariance == Spec => []BaseInv
<1>1. Init => BaseInv
  <2> SUFFICES ASSUME Init PROVE BaseInv
    OBVIOUS
  <2> USE PoolAssumption, ServerAssumption DEF Init, PoolInit
  <2>1. Entered = {} /\ Gone = {} /\ Checking = {}
    BY DEF Entered, Gone, Checking, At
  <2>2. \A w \in Workers : At(w, Counted) = {}
    BY DEF At, Counted
  <2>3. Counts /\ LimitInv /\ CountersExact
    BY <2>1, <2>2, FS_EmptySet DEF Counts, LimitInv, CountersExact, Counted
  <2>4. PoolTypeOK
    <3>1. 0 \in 0 .. MaxStarts /\ 0 \in 0 .. ThreadNum /\ 0 \in Workers
      BY DEF Workers
    <3> QED BY <3>1 DEF PoolTypeOK
  <2>5. TypeOK
    <3>1. home \in [Conns -> 0 .. ThreadNum] /\ connectionNum \in [Workers -> Int]
      BY DEF NoHome
    <3> QED BY <2>4, <3>1 DEF TypeOK
  <2>6. Creating /\ OneAtATime
    BY DEF Creating, OneAtATime
  <2> QED BY <2>3, <2>5, <2>6 DEF BaseInv
<1>2. BaseInv /\ [Next]_vars => BaseInv'
  BY CountsStep, PoolTypeStep, CreatingStep, TypeStep, OneStep, LimitStep, CountersStep DEF BaseInv
<1> QED BY <1>1, <1>2, PTL DEF Spec

\* The variables are well typed, and each thread is counted once.
THEOREM TypeCorrect == Spec => []TypeOK
<1>1. BaseInv => TypeOK
  BY DEF BaseInv
<1> QED BY <1>1, BaseInvariance, PTL

\* However many workers test the limit at the same time, it is exceeded by
\* less than their number.
THEOREM LimitIsHeld == Spec => []LimitHeld
<1>1. BaseInv => LimitHeld
  <2> SUFFICES ASSUME BaseInv PROVE LimitHeld
    OBVIOUS
  <2>1. Cardinality(channels) \in Nat /\ Cardinality(Checking) \in Nat
    BY ConnSets, WorkerSets, PoolAssumption DEF BaseInv, TypeOK, Checking
  <2> QED BY <2>1, PoolAssumption, ServerAssumption DEF BaseInv, LimitInv, LimitHeld
<1> QED BY <1>1, BaseInvariance, PTL

\* Each worker's counter is the number of its connections, and of those it has
\* turned away or dropped.
THEOREM CountersAreExact == Spec => []CountersExact
<1>1. BaseInv => CountersExact
  BY DEF BaseInv
<1> QED BY <1>1, BaseInvariance, PTL
---------------------------------------------------------------------------
(***************************************************************************)
(* What holds when start() and stop() wait, as by default                  *)
(***************************************************************************)
\* The calls that are under way wait for the threads.
WaitInv == /\ user # "idle" \/ server \in {"startPool", "startAcceptor"} => wait
           /\ server \in {"stopAcceptor", "stopPool"} => waits

\* The threads, their status and the user's place in start() or stop().
PoolOrder ==
  /\ ~early
  /\ user = "idle" => \/ status = kInitialized /\ \A w \in Workers : worker[w] = "none"
                      \/ status = kRunning /\ \A w \in Workers : worker[w] = "running"
                      \/ status = kStopped /\ \A w \in Workers : worker[w] = "ended"
  /\ user = "create" => /\ status = kStarting
                        /\ \A w \in Workers : w < next => worker[w] \in {"created", "running"}
                        /\ \A w \in Workers : w >= next => worker[w] = "none"
  /\ user = "await" => /\ status \in {kStarting, kRunning}
                       /\ \A w \in Workers : worker[w] \in {"created", "running", "counted"}
                       /\ status = kRunning => \A w \in Workers : worker[w] = "running"
                       /\ \A w \in Workers : worker[w] = "counted" =>
                            \A v \in Workers : v # w => worker[v] = "running"
  /\ user = "tell" => /\ status = kStopping
                      /\ \A w \in Workers : w < next => worker[w] \in {"told", "ended"}
                      /\ \A w \in Workers : w >= next => worker[w] = "running"
  /\ user = "join" => /\ \A w \in Workers : worker[w] \in {"told", "ended"}
                      /\ IF \A w \in Workers : worker[w] = "ended" THEN status = kStopped
                                                                  ELSE status = kStopping

\* The pool and the acceptor at each point of the server's start() and stop().
ServerOrder ==
  /\ server # "down" => starts # 0
  /\ server = "down" =>
       /\ user = "idle"
       /\ IF starts = 0 THEN acceptor = "none" /\ status = kInitialized
                        ELSE acceptor = "ended" /\ status = kStopped
  /\ server = "startPool" => /\ user \in {"create", "await", "idle"}
                             /\ user = "idle" => status = kRunning
                             /\ acceptor \in {"none", "ended"}
  /\ server \in {"startAcceptor", "up", "stopAcceptor"} => user = "idle" /\ status = kRunning
  /\ server = "startAcceptor" => acceptor \in {"created", "running", "ended"}
  /\ server = "up" => acceptor \in {"running", "ended"}
  /\ server = "stopAcceptor" => acceptor \in {"told", "ended"}
  /\ server = "stopPool" => /\ user \in {"tell", "join", "idle"}
                            /\ user = "idle" => status = kStopped
                            /\ acceptor = "ended"

\* What is open belongs to a running worker, and nothing is lost before stop().
ConnOrder ==
  /\ channels = {c \in Conns : conn[c] \in {"open", "closing"}}
  /\ \A c \in Conns : conn[c] \in {"checked", "open", "closing", "astray"} => InLoop(home[c])
  /\ nullLoop => \E c \in Conns : conn[c] = "astray"
  /\ nullLoop \/ (\E c \in Conns : conn[c] = "lost")
       => server = "stopPool" \/ (server = "down" /\ starts # 0)

\* Every step keeps the calls waiting for the threads.
LEMMA WaitStep ==
  ASSUME Waits = {TRUE}, TypeOK, ServerOrder, WaitInv, [Next]_vars PROVE WaitInv'
<1> USE DEF TypeOK, PoolTypeOK, WaitInv, ServerOrder, poolVars, serverVars
<1>1. CASE StartPool     BY <1>1 DEF StartPool, PoolStart
<1>2. CASE StopAcceptor  BY <1>2 DEF StopAcceptor
<1>3. CASE StartAcceptor \/ StartReturns \/ StopReturns
  BY <1>3 DEF StartAcceptor, StartReturns, StopReturns
<1>4. CASE StopPool      BY <1>4 DEF StopPool, PoolStop
<1>5. CASE PoolCall /\ UNCHANGED <<serverVars, load_balance, connVars, nullLoop>>
  BY <1>5 DEF PoolCall, Create, PoolStarted, Tell, Join
<1>6. CASE AcceptorThread
  BY <1>6 DEF AcceptorThread, StartAccept, AcceptorEnds
<1>7. ASSUME NEW c \in Conns, NEW w \in Workers, OnAccept(c, w) PROVE WaitInv'
  BY <1>7 DEF OnAccept
<1>8. ASSUME NEW w \in Workers, Handles(w) PROVE WaitInv'
  BY <1>8 DEF Handles, CheckLimit, AddChannel, OnClose, RemoveChannel
<1>9. ASSUME NEW w \in Workers, WorkerThread(w) \/ WorkerEnds(w) PROVE WaitInv'
  BY <1>9 DEF WorkerThread, PoolThread, Pre, PreLast, WorkerEnds, Post
<1>10. CASE UNCHANGED vars
  BY <1>10 DEF vars
<1> QED BY <1>1, <1>2, <1>3, <1>4, <1>5, <1>6, <1>7, <1>8, <1>9, <1>10 DEF Next, ServerCall

\* The last thread to count itself in, or out, is the one that sees them all.
LEMMA LastCounts ==
  TypeOK /\ Counts => /\ started_cnt = ThreadNum => Entered = Workers
                      /\ exited_cnt = ThreadNum <=> Gone = Workers
<1> SUFFICES ASSUME TypeOK, Counts
             PROVE  /\ started_cnt = ThreadNum => Entered = Workers
                    /\ exited_cnt = ThreadNum <=> Gone = Workers
  OBVIOUS
<1>1. Entered \in SUBSET Workers /\ Gone \in SUBSET Workers /\ Workers \in SUBSET Workers
  BY DEF Entered, Gone
<1>2. Cardinality(Workers) = ThreadNum
  BY PoolAssumption, FS_Interval DEF Workers
<1> QED BY <1>1, <1>2, WorkerSets DEF Counts

\* What the place of a thread says of the user's.
LEMMA UserOf ==
  ASSUME TypeOK, PoolOrder, NEW w \in Workers
  PROVE  /\ worker[w] = "counted" => /\ user = "await"
                                    /\ \A v \in Workers : v # w => worker[v] = "running"
         /\ worker[w] = "told" => user \in {"tell", "join"}
<1> USE DEF TypeOK, PoolTypeOK, PoolOrder
<1>1. next \in Nat /\ w \in Nat
  BY PoolAssumption DEF Workers
<1>2. w < next \/ w >= next
  BY <1>1
<1>3. user = "idle"   => worker[w] \in {"none", "running", "ended"}
  OBVIOUS
<1>4. user = "create" => worker[w] \in {"created", "running", "none"}
  BY <1>2
<1>5. user = "tell"   => worker[w] \in {"told", "ended", "running"}
  BY <1>2
<1> QED BY <1>3, <1>4, <1>5

\* Every step keeps the status of the pool in step with its threads.
LEMMA PoolOrderStep ==
  ASSUME TypeOK, TypeOK', Counts', WaitInv, PoolOrder, [Next]_vars PROVE PoolOrder'
<1> USE PoolAssumption DEF TypeOK, PoolTypeOK, WaitInv, PoolOrder, Workers, kInitialized, kStarting,
        kRunning, kStopping, kStopped
<1>1. CASE UNCHANGED poolVars
  BY <1>1 DEF poolVars
<1>2. CASE PoolStart
  BY <1>2 DEF PoolStart
<1>3. CASE Create
  <2>1. /\ next \in Workers /\ next' = next + 1 /\ status' = kStarting /\ ~early'
        /\ worker' = [worker EXCEPT ![next] = "created"]
        /\ user' = IF next + 1 < ThreadNum THEN "create" ELSE "await"
    BY <1>3 DEF Create
  <2>2. /\ \A w \in Workers : w < next' => worker'[w] \in {"created", "running"}
        /\ \A w \in Workers : w >= next' => worker'[w] = "none"
    BY <1>3, <2>1 DEF Create
  <2>3. CASE next + 1 < ThreadNum
    BY <2>1, <2>2, <2>3
  <2>4. CASE ~(next + 1 < ThreadNum)
    <3>1. \A w \in Workers : w < next'
      BY <2>1, <2>4
    <3>2. \A w \in Workers : worker'[w] \in {"created", "running"}
      BY <2>2, <3>1
    <3>3. user' = "await" /\ status' = kStarting /\ ~early'
      BY <2>1, <2>4
    <3>4. \A w \in Workers : worker'[w] \in {"created", "running", "counted"} /\ worker'[w] # "counted"
      BY <3>2
    <3>5. status' # kRunning /\ status' \in {kStarting, kRunning}
      BY <3>3
    <3> HIDE DEF Workers, kStarting, kRunning, kStopping, kStopped, kInitialized
    <3> QED BY <3>3, <3>4, <3>5
  <2> QED BY <2>3, <2>4
<1>4. CASE PoolStarted
  BY <1>4 DEF PoolStarted
<1>5. CASE PoolStop(waits)
  BY <1>5 DEF PoolStop
<1>6. CASE Tell
  <2>1. next \in Workers /\ worker[next] = "running" /\ InLoop(next)
    BY <1>6 DEF Tell, InLoop
  <2> QED BY <1>6, <2>1 DEF Tell
<1>7. CASE Join
  BY <1>7 DEF Join
<1>8. ASSUME NEW w \in Workers, Pre(w) PROVE PoolOrder'
  <2>0. (started_cnt = ThreadNum => Entered = Workers)'
    BY LastCounts, PTL
  <2>1. started_cnt' = ThreadNum => \A v \in Workers : worker'[v] \notin {"none", "created"}
    BY <2>0 DEF Entered
  <2>2. user \in {"create", "await"}
    BY <1>8 DEF Pre
  <2>3. CASE user = "create"
    <3>1. worker'[next] = "none"
      BY <1>8, <2>3 DEF Pre
    <3>2. started_cnt' # ThreadNum
      BY <2>1, <2>3, <3>1
    <3> QED BY <1>8, <2>3, <3>2 DEF Pre
  <2>4. CASE user = "await"
    BY <1>8, <2>1, <2>4 DEF Pre
  <2> QED BY <2>2, <2>3, <2>4
<1>9. ASSUME NEW w \in Workers, PreLast(w) PROVE PoolOrder'
  <2>1. user = "await" /\ \A v \in Workers : v # w => worker[v] = "running"
    BY <1>9, UserOf DEF PreLast
  <2> QED BY <1>9, <2>1 DEF PreLast
<1>10. ASSUME NEW w \in Workers, Post(w) PROVE PoolOrder'
  <2>0. (exited_cnt = ThreadNum <=> Gone = Workers)'
    BY LastCounts, PTL
  <2>1. exited_cnt' = ThreadNum <=> \A v \in Workers : worker'[v] = "ended"
    BY <2>0 DEF Gone
  <2>2. user \in {"tell", "join"}
    BY <1>10, UserOf DEF Post
  <2>3. CASE user = "tell"
    <3>1. worker'[next] = "running"
      BY <1>10, <2>3 DEF Post
    <3>2. exited_cnt' # ThreadNum
      BY <2>1, <2>3, <3>1
    <3> QED BY <1>10, <2>3, <3>2 DEF Post
  <2>4. CASE user = "join"
    <3>1. /\ \A v \in Workers : worker'[v] \in {"told", "ended"}
          /\ status = kStopping /\ user' = "join" /\ ~early'
          /\ status' = IF exited_cnt' = ThreadNum THEN kStopped ELSE status
      BY <1>10, <2>4 DEF Post
    <3> QED BY <2>1, <3>1
  <2> QED BY <2>2, <2>3, <2>4
<1>11. CASE UNCHANGED <<user, wait, starts, status, worker, next, started_cnt, exited_cnt, early>>
  BY <1>11
<1> QED BY <1>1, <1>2, <1>3, <1>4, <1>5, <1>6, <1>7, <1>8, <1>9, <1>10, <1>11, NextPool

\* Every step keeps the server's calls in step with its threads.
LEMMA ServerOrderStep ==
  ASSUME Waits = {TRUE}, TypeOK, WaitInv, PoolOrder, ServerOrder, [Next]_vars PROVE ServerOrder'
<1> USE DEF TypeOK, PoolTypeOK, ServerOrder, poolVars, serverVars
<1>c. /\ status < kStarting \/ status >= kStopping <=> status \in {kInitialized, kStopping, kStopped}
      /\ status >= kStarting /\ status < kStopped <=> status \in {kStarting, kRunning, kStopping}
      /\ status >= kRunning <=> status \in {kRunning, kStopping, kStopped}
      /\ kRunning \notin {kStarting, kStopping, kStopped, kInitialized}
      /\ kStopped \notin {kStarting, kStopping, kInitialized} /\ kInitialized # kStarting
      /\ kInitialized # kStopping
  BY DEF kInitialized, kStarting, kRunning, kStopping, kStopped
<1>1. CASE StartPool
  <2>1. user' = "create" /\ server' = "startPool" /\ acceptor' = acceptor
    BY <1>1, <1>c DEF StartPool, PoolStart
  <2>2. starts' # 0
    BY <1>1 DEF StartPool, PoolStart
  <2>3. acceptor \in {"none", "ended"}
    BY <1>1 DEF StartPool
  <2> QED BY <2>1, <2>2, <2>3
<1>2. CASE StopAcceptor   BY <1>2 DEF StopAcceptor
<1>3. CASE StartAcceptor  BY <1>3 DEF StartAcceptor
<1>4. CASE StartReturns   BY <1>4 DEF StartReturns, WaitInv
<1>5. CASE StopPool
  <2>1. user' = "tell" /\ UNCHANGED <<starts, acceptor>> /\ server' = "stopPool"
    BY <1>5, <1>c DEF StopPool, PoolStop
  <2>2. acceptor = "ended" /\ starts # 0
    BY <1>5 DEF StopPool, WaitInv
  <2> QED BY <2>1, <2>2
<1>6. CASE StopReturns    BY <1>6 DEF StopReturns
<1>7. CASE PoolCall /\ UNCHANGED <<serverVars, load_balance, connVars, nullLoop>>
  <2>1. UNCHANGED <<starts, status, server, acceptor>>
    BY <1>7 DEF PoolCall, Create, PoolStarted, Tell, Join
  <2>2. CASE Create
    <3>1. user = "create" /\ user' \in {"create", "await"}
      BY <2>2 DEF Create, WaitInv
    <3> QED BY <2>1, <3>1
  <2>3. CASE PoolStarted
    <3>1. user = "await" /\ user' = "idle" /\ status = kRunning
      BY <2>3 DEF PoolStarted, PoolOrder, kStarting, kRunning
    <3> QED BY <2>1, <3>1
  <2>4. CASE Tell
    <3>1. user = "tell" /\ user' \in {"tell", "join"}
      BY <2>4 DEF Tell, WaitInv
    <3> QED BY <2>1, <3>1
  <2>5. CASE Join
    <3>1. user = "join" /\ user' = "idle" /\ status = kStopped
      BY <2>5 DEF Join, PoolOrder
    <3> QED BY <2>1, <3>1
  <2> QED BY <1>7, <2>2, <2>3, <2>4, <2>5 DEF PoolCall
<1>8. CASE AcceptorThread
  BY <1>8 DEF AcceptorThread, StartAccept, AcceptorEnds
<1>9. ASSUME NEW c \in Conns, NEW w \in Workers, OnAccept(c, w) PROVE ServerOrder'
  BY <1>9 DEF OnAccept
<1>10. ASSUME NEW w \in Workers, Handles(w) PROVE ServerOrder'
  BY <1>10 DEF Handles, CheckLimit, AddChannel, OnClose, RemoveChannel
<1>11. ASSUME NEW w \in Workers, WorkerThread(w) PROVE ServerOrder'
  <2>1. CASE Pre(w)
    BY <1>11, <2>1 DEF WorkerThread, Pre
  <2>2. CASE PreLast(w)
    <3>1. user = "await"
      BY <2>2, UserOf DEF PreLast
    <3>2. UNCHANGED <<user, starts, server, acceptor>>
      BY <1>11, <2>2 DEF WorkerThread, PreLast
    <3> QED BY <3>1, <3>2
  <2> QED BY <1>11, <2>1, <2>2 DEF WorkerThread, PoolThread
<1>12. ASSUME NEW w \in Workers, WorkerEnds(w) PROVE ServerOrder'
  <2>1. user \in {"tell", "join"} /\ UNCHANGED <<user, starts, server, acceptor>>
    BY <1>12, UserOf DEF WorkerEnds, Post
  <2> QED BY <2>1
<1>13. CASE UNCHANGED vars
  BY <1>13 DEF vars
<1> QED BY <1>1, <1>2, <1>3, <1>4, <1>5, <1>6, <1>7, <1>8, <1>9, <1>10, <1>11, <1>12, <1>13
        DEF Next, ServerCall

\* Where the server is when the pool is in each of its places.
LEMMA ServerOf ==
  ASSUME TypeOK, PoolOrder, ServerOrder
  PROVE  /\ acceptor \in {"running", "told"} => /\ server \in {"startAcceptor", "up", "stopAcceptor"}
                                               /\ \A w \in Workers : worker[w] = "running"
         /\ server = "down" => \A w \in Workers : worker[w] \in {"none", "ended"}
         /\ \A w \in Workers : worker[w] = "told" => server = "stopPool"
<1> USE DEF ServerOrder, PoolOrder
<1>1. /\ kRunning \notin {kInitialized, kStopped} /\ kInitialized # kStopped
  BY DEF kInitialized, kRunning, kStopped
<1>2. server \in {"down", "startPool", "startAcceptor", "up", "stopAcceptor", "stopPool"}
  BY DEF TypeOK
<1>3. acceptor \in {"running", "told"} => server \in {"startAcceptor", "up", "stopAcceptor"}
  BY <1>2
<1>4. server \in {"startAcceptor", "up", "stopAcceptor"} => \A w \in Workers : worker[w] = "running"
  BY <1>1
<1>5. server = "down" => \A w \in Workers : worker[w] \in {"none", "ended"}
  BY <1>1
<1>6. ASSUME NEW w \in Workers, worker[w] = "told" PROVE server = "stopPool"
  <2>1. user \in {"tell", "join"}
    BY <1>6, UserOf
  <2> QED BY <1>2, <2>1
<1> QED BY <1>3, <1>4, <1>5, <1>6

\* Every step keeps the channels with their workers.
LEMMA ConnOrderStep ==
  ASSUME Waits = {TRUE}, TypeOK, OneAtATime, WaitInv, PoolOrder, ServerOrder, ConnOrder, [Next]_vars
  PROVE  ConnOrder'
<1> DEFINE Open == {c \in Conns : conn[c] \in {"open", "closing"}}
           Held == /\ \A c \in Conns : conn[c] \in {"checked", "open", "closing", "astray"}
                                          => InLoop(home[c])
                   /\ nullLoop => \E c \in Conns : conn[c] = "astray"
           Lost == nullLoop \/ \E c \in Conns : conn[c] = "lost"
           Over == server = "stopPool" \/ (server = "down" /\ starts # 0)
<1>0. /\ ConnOrder <=> channels = Open /\ Held /\ (Lost => Over)
      /\ ConnOrder' <=> channels' = Open' /\ Held' /\ (Lost' => Over')
  BY DEF ConnOrder
<1>a. \A c \in Conns : conn[c] \in {"checked", "open", "closing", "astray"} => home[c] \in Workers
  BY DEF OneAtATime
<1>b. worker \in [Workers -> {"none", "created", "running", "counted", "told", "ended"}]
  BY DEF TypeOK, PoolTypeOK
<1>1. ASSUME UNCHANGED connVars,
             \A w \in Workers : InLoop(w) => InLoop(w)',
             UNCHANGED nullLoop, Over => Over'
      PROVE  ConnOrder'
  <2>1. channels' = Open'
    BY <1>0, <1>1 DEF connVars
  <2>2. Held'
    BY <1>0, <1>1, <1>a DEF connVars, InLoop
  <2>3. Lost' => Over'
    BY <1>0, <1>1 DEF connVars
  <2> QED BY <1>0, <2>1, <2>2, <2>3
<1>2. CASE StartPool
  <2>1. server = "down" /\ server' = "startPool"
    BY <1>2 DEF StartPool
  <2>2. \A w \in Workers : ~InLoop(w)
    BY <2>1, ServerOf DEF InLoop
  <2>3. /\ channels = {} /\ ~nullLoop
        /\ \A c \in Conns : conn[c] \notin {"checked", "open", "closing", "astray"}
    BY <1>0, <1>a, <2>2
  <2>4. status \in {kInitialized, kStopped} /\ user' = "create"
    BY <1>2, <2>1 DEF StartPool, PoolStart, ServerOrder, kInitialized, kStarting, kStopped
  <2>5. /\ conn' = [c \in Conns |-> IF conn[c] = "none" THEN "none" ELSE "closed"]
        /\ channels' = channels /\ nullLoop' = nullLoop
    BY <1>2, <2>4 DEF StartPool
  <2> QED BY <1>0, <2>3, <2>5
<1>3. CASE StopAcceptor \/ StartAcceptor \/ StartReturns
  BY <1>1, <1>3 DEF StopAcceptor, StartAcceptor, StartReturns, poolVars, InLoop
<1>4. CASE StopPool
  <2>1. UNCHANGED <<connVars, worker, nullLoop>> /\ server' = "stopPool"
    BY <1>4 DEF StopPool, PoolStop
  <2> QED BY <1>1, <2>1 DEF InLoop
<1>5. CASE StopReturns
  <2>1. UNCHANGED <<connVars, worker, nullLoop, starts>> /\ server' = "down" /\ starts # 0
    BY <1>5 DEF StopReturns, ServerOrder, poolVars
  <2> QED BY <1>1, <2>1 DEF InLoop
<1>6. CASE PoolCall /\ UNCHANGED <<serverVars, load_balance, connVars, nullLoop>>
  <2>1. UNCHANGED <<connVars, nullLoop, server, starts>>
    BY <1>6 DEF PoolCall, Create, PoolStarted, Tell, Join, serverVars
  <2>2. CASE Create
    <3>1. worker[next] = "none" /\ worker' = [worker EXCEPT ![next] = "created"] /\ next \in Workers
      BY <2>2, PoolAssumption DEF Create, PoolOrder, TypeOK, PoolTypeOK, Workers
    <3> QED BY <1>1, <1>b, <2>1, <3>1 DEF InLoop
  <2>3. CASE PoolStarted \/ Join
    BY <1>1, <2>1, <2>3 DEF PoolStarted, Join, InLoop
  <2>4. CASE Tell
    BY <1>1, <1>b, <2>1, <2>4 DEF Tell, InLoop
  <2> QED BY <1>6, <2>2, <2>3, <2>4 DEF PoolCall
<1>7. CASE AcceptorThread
  BY <1>1, <1>7 DEF AcceptorThread, StartAccept, AcceptorEnds, poolVars, InLoop
<1>8. ASSUME NEW c \in Conns, NEW w \in Workers, OnAccept(c, w) PROVE ConnOrder'
  <2>1. HasLoop(w)
    BY <1>8, ServerOf DEF OnAccept, HasLoop
  <2>2. /\ conn' = [conn EXCEPT ![c] = "posted"] /\ conn[c] = "none"
        /\ home' = [home EXCEPT ![c] = w]
        /\ UNCHANGED <<worker, server, starts, channels, nullLoop>>
    BY <1>8, <2>1 DEF OnAccept, Move, serverVars
  <2>3. channels' = Open'
    BY <1>0, <2>2 DEF TypeOK
  <2>4. Held'
    BY <1>0, <2>2 DEF TypeOK, InLoop
  <2>5. Lost' => Over'
    BY <1>0, <2>2 DEF TypeOK
  <2> QED BY <1>0, <2>3, <2>4, <2>5
<1>9. ASSUME NEW c \in Conns, NEW w \in Workers, CheckLimit(w, c) \/ OnClose(w, c) PROVE ConnOrder'
  <2>1. /\ \/ conn[c] = "posted" /\ conn' \in {[conn EXCEPT ![c] = s] : s \in {"checked", "rejected"}}
           \/ conn[c] = "open" /\ conn' = [conn EXCEPT ![c] = "closing"]
        /\ InLoop(w) /\ home[c] = w
        /\ UNCHANGED <<worker, home, server, starts, channels, nullLoop>>
    BY <1>9 DEF CheckLimit, OnClose, Move, serverVars, poolVars
  <2>3. channels' = Open'
    BY <1>0, <2>1 DEF TypeOK
  <2>4. Held'
    BY <1>0, <2>1 DEF TypeOK, InLoop
  <2>5. Lost' => Over'
    BY <1>0, <2>1 DEF TypeOK
  <2> QED BY <1>0, <2>3, <2>4, <2>5
<1>10. ASSUME NEW c \in Conns, NEW w \in Workers, AddChannel(w, c) PROVE ConnOrder'
  <2>1. /\ conn[c] = "checked" /\ home[c] = w
        /\ IF HasLoop(w) THEN conn' = [conn EXCEPT ![c] = "open"] /\ channels' = channels \cup {c}
                         ELSE conn' = [conn EXCEPT ![c] = "astray"] /\ channels' = channels
        /\ nullLoop' = (nullLoop \/ ~HasLoop(w))
        /\ UNCHANGED <<worker, home, server, starts>>
    BY <1>10 DEF AddChannel, Move, serverVars, poolVars
  <2>2. ~HasLoop(w) => server = "stopPool"
    <3>1. InLoop(w)
      BY <1>0, <2>1
    <3> QED BY <3>1, ServerOf DEF InLoop, HasLoop
  <2>3. channels' = Open'
    BY <1>0, <2>1 DEF TypeOK
  <2>4. Held'
    BY <1>0, <2>1 DEF TypeOK, InLoop
  <2>5. Lost' => Over'
    BY <1>0, <2>1, <2>2 DEF TypeOK
  <2> QED BY <1>0, <2>3, <2>4, <2>5
<1>11. ASSUME NEW c \in Conns, NEW w \in Workers, RemoveChannel(w, c) PROVE ConnOrder'
  <2>1. /\ conn[c] = "closing"
        /\ conn' = [conn EXCEPT ![c] = "closed"] /\ channels' = channels \ {c}
        /\ UNCHANGED <<worker, home, server, starts, nullLoop>>
    BY <1>11 DEF RemoveChannel, Move, serverVars, poolVars
  <2>3. channels' = Open'
    BY <1>0, <2>1 DEF TypeOK
  <2>4. Held'
    BY <1>0, <2>1 DEF TypeOK, InLoop
  <2>5. Lost' => Over'
    BY <1>0, <2>1 DEF TypeOK
  <2> QED BY <1>0, <2>3, <2>4, <2>5
<1>12. ASSUME NEW w \in Workers, WorkerThread(w) PROVE ConnOrder'
  <2>1. UNCHANGED <<connVars, nullLoop, server, starts>>
    BY <1>12 DEF WorkerThread, PoolThread, Pre, PreLast, serverVars
  <2>2. \A v \in Workers : InLoop(v) => InLoop(v)'
    BY <1>12, <1>b DEF WorkerThread, PoolThread, Pre, PreLast, InLoop
  <2> QED BY <1>1, <2>1, <2>2
<1>13. ASSUME NEW w \in Workers, WorkerEnds(w) PROVE ConnOrder'
  <2>1. server = "stopPool"
    BY <1>13, ServerOf DEF WorkerEnds, Post
  <2>2. /\ conn' = [c \in Conns |-> IF c \in At(w, {"posted"}) THEN "lost" ELSE conn[c]]
        /\ worker' = [worker EXCEPT ![w] = "ended"]
        /\ UNCHANGED <<home, channels, server>>
        /\ At(w, {"checked", "open", "closing", "astray"}) = {} /\ nullLoop' = nullLoop
    BY <1>13 DEF WorkerEnds, Post, serverVars
  <2>3. channels' = Open'
    BY <1>0, <2>2 DEF At
  <2>4. Held'
    BY <1>0, <1>a, <1>b, <2>2 DEF At, InLoop
  <2> QED BY <1>0, <2>1, <2>2, <2>3, <2>4
<1>14. CASE UNCHANGED vars
  BY <1>1, <1>14 DEF vars, poolVars, serverVars, connVars, InLoop
<1> QED BY <1>2, <1>3, <1>4, <1>5, <1>6, <1>7, <1>8, <1>9, <1>10, <1>11, <1>12, <1>13, <1>14
        DEF Next, ServerCall, Handles
---------------------------------------------------------------------------
WaitingInv == BaseInv /\ WaitInv /\ PoolOrder /\ ServerOrder /\ ConnOrder

\* The invariant of a server whose start() and stop() wait.
THEOREM WaitingInvariance ==
  ASSUME Waits = {TRUE} PROVE Spec => []WaitingInv
<1>1. Init => WaitInv /\ PoolOrder /\ ServerOrder /\ ConnOrder
  BY DEF Init, PoolInit, WaitInv, PoolOrder, ServerOrder, ConnOrder
<1>2. BaseInv /\ BaseInv' /\ WaitingInv /\ [Next]_vars => WaitingInv'
  <2> SUFFICES ASSUME BaseInv, BaseInv', WaitingInv, [Next]_vars PROVE WaitingInv'
    OBVIOUS
  <2>1. TypeOK /\ OneAtATime /\ WaitInv /\ PoolOrder /\ ServerOrder /\ ConnOrder
    BY DEF WaitingInv, BaseInv
  <2>2. TypeOK' /\ Counts'
    BY DEF BaseInv
  <2>3. WaitInv'      BY <2>1, WaitStep
  <2>4. PoolOrder'    BY <2>1, <2>2, PoolOrderStep
  <2>5. ServerOrder'  BY <2>1, ServerOrderStep
  <2>6. ConnOrder'    BY <2>1, ConnOrderStep
  <2> QED BY <2>3, <2>4, <2>5, <2>6 DEF WaitingInv
<1>3. BaseInv /\ WaitInv /\ PoolOrder /\ ServerOrder /\ ConnOrder => WaitingInv
  BY DEF WaitingInv
<1> QED BY <1>1, <1>2, <1>3, BaseInvariance, PTL DEF Spec

\* The status that the workers set says what they all do.
THEOREM StatusIsTrue ==
  ASSUME Waits = {TRUE} PROVE Spec => []StatusTrue
<1>1. WaitingInv => StatusTrue
  <2> SUFFICES ASSUME WaitingInv PROVE StatusTrue
    OBVIOUS
  <2> USE DEF WaitingInv, BaseInv, TypeOK, PoolTypeOK, PoolOrder
  <2>1. ~(kRunning \in {kInitialized, kStarting, kStopping, kStopped})
        /\ ~(kStopped \in {kInitialized, kStarting, kStopping, kRunning})
    BY DEF kInitialized, kStarting, kRunning, kStopping, kStopped
  <2>2. user = "idle" => StatusTrue    BY <2>1 DEF StatusTrue
  <2>3. user = "create" => StatusTrue  BY <2>1 DEF StatusTrue
  <2>4. user = "await" => StatusTrue   BY <2>1 DEF StatusTrue
  <2>5. user = "tell" => StatusTrue    BY <2>1 DEF StatusTrue
  <2>6. user = "join" => StatusTrue    BY <2>1 DEF StatusTrue
  <2> QED BY <2>2, <2>3, <2>4, <2>5, <2>6
<1> QED BY <1>1, WaitingInvariance, PTL

\* When stop() has returned no thread is left, and no channel.
THEOREM StopLeavesNothing ==
  ASSUME Waits = {TRUE} PROVE Spec => []StopCleans
<1>1. WaitingInv => StopCleans
  <2> SUFFICES ASSUME WaitingInv, server = "down", starts > 0
               PROVE  channels = {} /\ acceptor = "ended" /\ \A w \in Workers : worker[w] = "ended"
    BY DEF StopCleans
  <2>1. acceptor = "ended" /\ status = kStopped /\ user = "idle"
    BY DEF WaitingInv, ServerOrder, BaseInv, TypeOK, PoolTypeOK
  <2>2. \A w \in Workers : worker[w] = "ended"
    BY <2>1 DEF WaitingInv, PoolOrder, kInitialized, kRunning, kStopped
  <2>3. channels = {}
    BY <2>2 DEF WaitingInv, BaseInv, OneAtATime, ConnOrder, InLoop
  <2> QED BY <2>1, <2>2, <2>3
<1> QED BY <1>1, WaitingInvariance, PTL

\* A connection is lost, or a handler finds its loop gone, only by stop().
THEOREM OnlyStopLosesConnections ==
  ASSUME Waits = {TRUE} PROVE Spec => []OnlyStopLoses
<1>1. WaitingInv => OnlyStopLoses
  BY DEF WaitingInv, ConnOrder, ServerOrder, OnlyStopLoses
<1> QED BY <1>1, WaitingInvariance, PTL
=============================================================================
