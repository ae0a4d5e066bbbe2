------------------------------ MODULE TcpServer ------------------------------
(***************************************************************************)
(* TcpServer: an acceptor thread that hands each connection to one of the  *)
(* worker loops of its pool, and the handlers of a connection on its       *)
(* worker: newConnEvent and onclose.  They share the map of channels,      *)
(* under a mutex, and each worker loop's connectionNum, an atomic.         *)
(*                                                                         *)
(* Each operation on the map is a step; between two of them, in one        *)
(* handler, other threads may come.  A worker thread runs one handler at a *)
(* time; its functors may run in any order here, since nothing tells the   *)
(* connections apart.                                                      *)
(***************************************************************************)
EXTENDS EventLoopThreadPool, Integers

CONSTANTS Conns,            \* the connections that clients make
          max_connections,
          Policies          \* the values of load_balance

ASSUME ServerAssumption ==
  /\ IsFiniteSet(Conns)
  /\ max_connections \in Nat \ {0}
  /\ Policies \subseteq {"RoundRobin", "LeastConnections"}

VARIABLES
  server,         \* where the user is in TcpServer::start or stop
  waits,          \* the argument of stop
  acceptor,       \* the thread that accepts
  load_balance,
  conn,           \* where each connection is
  home,           \* its worker, or ThreadNum if it has none
  channels,
  connectionNum,  \* of each worker's loop
  nullLoop        \* history: a handler gave libhv the NULL loop of a stopped worker

serverVars == <<server, waits, acceptor>>
connVars == <<conn, home, channels, connectionNum>>
vars == <<poolVars, serverVars, load_balance, connVars, nullLoop>>

NoHome == ThreadNum

Init == /\ PoolInit
        /\ server = "down" /\ waits = FALSE
        /\ acceptor = "none"
        /\ load_balance \in Policies
        /\ conn = [c \in Conns |-> "none"]
        /\ home = [c \in Conns |-> NoHome]
        /\ channels = {}
        /\ connectionNum = [w \in Workers |-> 0]
        /\ nullLoop = FALSE

At(w, states) == {c \in Conns : home[c] = w /\ conn[c] \in states}
Busy(w) == At(w, {"checked", "closing", "astray"}) # {}
Move(c, from, to) == conn[c] = from /\ conn' = [conn EXCEPT ![c] = to]
---------------------------------------------------------------------------
(***************************************************************************)
(* start() and stop()                                                      *)
(***************************************************************************)
\* The workers first; new ones have new loops, which know no connection.
StartPool == /\ server = "down"
             /\ PoolStart
             /\ server' = "startPool"
             /\ IF user' = "create"
                THEN /\ conn' = [c \in Conns |-> IF conn[c] = "none" THEN "none" ELSE "closed"]
                     /\ home' = [c \in Conns |-> NoHome]
                     /\ connectionNum' = [w \in Workers |-> 0]
                ELSE UNCHANGED <<conn, home, connectionNum>>
             /\ UNCHANGED <<waits, acceptor, load_balance, channels, nullLoop>>

\* Then the acceptor; its loop cannot be started a second time.
StartAcceptor == /\ server = "startPool" /\ user = "idle"
                 /\ server' = "startAcceptor"
                 /\ acceptor' = IF acceptor = "none" THEN "created" ELSE acceptor
                 /\ UNCHANGED <<poolVars, waits, load_balance, connVars, nullLoop>>

StartReturns == /\ server = "startAcceptor"
                /\ wait => acceptor # "created"
                /\ server' = "up"
                /\ UNCHANGED <<poolVars, waits, acceptor, load_balance, connVars, nullLoop>>

StopAcceptor == /\ server = "up"
                /\ waits' \in Waits
                /\ server' = "stopAcceptor"
                /\ acceptor' = IF acceptor = "running" THEN "told" ELSE acceptor
                /\ UNCHANGED <<poolVars, load_balance, connVars, nullLoop>>

\* Mutant: the workers are stopped while the acceptor still runs.
StopPoolAtOnce == /\ server = "stopAcceptor"
                  /\ PoolStop(waits)
                  /\ server' = "stopPool"
                  /\ UNCHANGED <<waits, acceptor, load_balance, connVars, nullLoop>>

StopPool == /\ server = "stopAcceptor"
            /\ waits => acceptor = "ended"
            /\ PoolStop(waits)
            /\ server' = "stopPool"
            /\ UNCHANGED <<waits, acceptor, load_balance, connVars, nullLoop>>

StopReturns == /\ server = "stopPool" /\ user = "idle"
               /\ server' = "down"
               /\ UNCHANGED <<poolVars, waits, acceptor, load_balance, connVars, nullLoop>>
---------------------------------------------------------------------------
(***************************************************************************)
(* The acceptor thread                                                     *)
(***************************************************************************)
StartAccept == /\ acceptor = "created"
               /\ acceptor' = "running"
               /\ UNCHANGED <<poolVars, server, waits, load_balance, connVars, nullLoop>>

\* onAccept; a functor for a loop that is gone is dropped, and with it the
\* connection, which is attached to no loop.
OnAccept(c, w) ==
  /\ acceptor \in {"running", "told"}
  /\ Move(c, "none", IF HasLoop(w) THEN "posted" ELSE "lost")
  /\ home' = [home EXCEPT ![c] = w]
  /\ connectionNum' = [connectionNum EXCEPT ![w] = @ + 1]
  /\ \/ load_balance = "RoundRobin" /\ NextRoundRobin(w)
     \/ load_balance = "LeastConnections" /\ NextLeastConnections(w, connectionNum)
  /\ UNCHANGED <<user, wait, starts, status, worker, next, started_cnt, exited_cnt, early,
                 serverVars, load_balance, channels, nullLoop>>

AcceptorEnds == /\ acceptor = "told"
                /\ acceptor' = "ended"
                /\ UNCHANGED <<poolVars, server, waits, load_balance, connVars, nullLoop>>
---------------------------------------------------------------------------
(***************************************************************************)
(* The worker threads                                                      *)
(***************************************************************************)
\* Mutant: the limit is not looked at.
CheckLimitNot(w, c) ==
  /\ InLoop(w) /\ ~Busy(w) /\ home[c] = w
  /\ Move(c, "posted", "checked")
  /\ UNCHANGED <<poolVars, serverVars, load_balance, home, channels, connectionNum, nullLoop>>

\* newConnEvent compares the number of channels; a connection over the limit
\* is closed, and connectionNum goes on counting it.
CheckLimit(w, c) ==
  /\ InLoop(w) /\ ~Busy(w) /\ home[c] = w
  /\ Move(c, "posted", IF Cardinality(channels) >= max_connections THEN "rejected" ELSE "checked")
  /\ UNCHANGED <<poolVars, serverVars, load_balance, home, channels, connectionNum, nullLoop>>

\* Then it attaches the connection to the worker's loop and adds the channel.
\* Without a loop nothing is known of the program any more: here the handler
\* does not return.
AddChannel(w, c) ==
  /\ home[c] = w
  /\ IF HasLoop(w) THEN Move(c, "checked", "open") /\ channels' = channels \cup {c}
                   ELSE Move(c, "checked", "astray") /\ UNCHANGED channels
  /\ nullLoop' = (nullLoop \/ ~HasLoop(w))
  /\ UNCHANGED <<poolVars, serverVars, load_balance, home, connectionNum>>

\* Mutant: the counter is left alone.
OnCloseUncounted(w, c) ==
  /\ InLoop(w) /\ ~Busy(w) /\ home[c] = w
  /\ Move(c, "open", "closing")
  /\ UNCHANGED <<poolVars, serverVars, load_balance, home, channels, connectionNum, nullLoop>>

\* onclose, also of the connections that are open when the loop ends.
OnClose(w, c) ==
  /\ InLoop(w) /\ ~Busy(w) /\ home[c] = w
  /\ Move(c, "open", "closing")
  /\ connectionNum' = [connectionNum EXCEPT ![w] = @ - 1]
  /\ UNCHANGED <<poolVars, serverVars, load_balance, home, channels, nullLoop>>

RemoveChannel(w, c) ==
  /\ home[c] = w
  /\ Move(c, "closing", "closed")
  /\ channels' = channels \ {c}
  /\ UNCHANGED <<poolVars, serverVars, load_balance, home, connectionNum, nullLoop>>

\* Functors that its loop has not run are dropped.
WorkerEnds(w) ==
  /\ At(w, {"checked", "open", "closing", "astray"}) = {}
  /\ Post(w)
  /\ conn' = [c \in Conns |-> IF c \in At(w, {"posted"}) THEN "lost" ELSE conn[c]]
  /\ UNCHANGED <<serverVars, load_balance, home, channels, connectionNum, nullLoop>>
---------------------------------------------------------------------------
ServerCall == \/ StartAcceptor \/ StartReturns \/ StopPool \/ StopReturns
              \/ PoolCall /\ UNCHANGED <<serverVars, load_balance, connVars, nullLoop>>
AcceptorThread == StartAccept \/ AcceptorEnds
Handles(w) == \E c \in Conns : \/ CheckLimit(w, c) \/ AddChannel(w, c)
                               \/ OnClose(w, c) \/ RemoveChannel(w, c)
WorkerThread(w) ==
  PoolThread(w) /\ UNCHANGED <<serverVars, load_balance, connVars, nullLoop>>

Next == \/ StartPool \/ StopAcceptor \/ ServerCall
        \/ AcceptorThread \/ \E c \in Conns, w \in Workers : OnAccept(c, w)
        \/ \E w \in Workers : WorkerThread(w) \/ Handles(w) \/ WorkerEnds(w)

Spec == Init /\ [][Next]_vars

(***************************************************************************)
(* Threads run: a call of start() or stop() goes on, a thread starts and   *)
(* ends, a posted functor is run; a loop that ends closes what is open.    *)
(* No connection needs to be made or closed otherwise.                     *)
(***************************************************************************)
Closing(w) == \E c \in Conns : worker[w] = "told" /\ OnClose(w, c)
Handling(w) == \E c \in Conns : CheckLimit(w, c) \/ AddChannel(w, c) \/ RemoveChannel(w, c)

FairSpec ==
  /\ Spec
  /\ WF_vars(ServerCall) /\ WF_vars(AcceptorThread)
  /\ \A w \in Workers : /\ WF_vars(WorkerThread(w)) /\ WF_vars(Handling(w))
                        /\ WF_vars(Closing(w)) /\ WF_vars(WorkerEnds(w))
---------------------------------------------------------------------------
TypeOK ==
  /\ PoolTypeOK
  /\ server \in {"down", "startPool", "startAcceptor", "up", "stopAcceptor", "stopPool"}
  /\ waits \in BOOLEAN /\ nullLoop \in BOOLEAN
  /\ acceptor \in {"none", "created", "running", "told", "ended"}
  /\ load_balance \in Policies
  /\ conn \in [Conns -> {"none", "posted", "lost", "checked", "rejected", "open", "closing",
                         "closed", "astray"}]
  /\ home \in [Conns -> 0 .. ThreadNum]
  /\ channels \subseteq Conns
  /\ connectionNum \in [Workers -> Int]

(***************************************************************************)
(* setMaxConnectionNum: the workers test the limit one by one but not      *)
(* together with the insertion, so that all of them but one may exceed it. *)
(* More than that is never open.                                           *)
(***************************************************************************)
LimitHeld == Cardinality(channels) <= max_connections + ThreadNum - 1

(***************************************************************************)
(* connectionNum, by which LB_LeastConnections chooses, is the number of   *)
(* connections that were given to the worker and are not closed, and those *)
(* that it has turned away or dropped, which it counts for ever.           *)
(***************************************************************************)
CountersExact ==
  \A w \in Workers :
    connectionNum[w] =
      Cardinality(At(w, {"posted", "checked", "open", "rejected", "lost", "astray"}))

(***************************************************************************)
(* When stop() has returned no thread runs a callback of the server and no *)
(* channel is left, although the channels are closed by the workers; but   *)
(* not when a handler was between the test of the limit and hio_attach     *)
(* while its worker was told to stop.                                      *)
(***************************************************************************)
StopCleans ==
  (server = "down" /\ starts > 0 /\ waits /\ ~nullLoop) =>
    channels = {} /\ acceptor = "ended" /\ \A w \in Workers : worker[w] = "ended"

(***************************************************************************)
(* A connection is lost, or a handler finds its loop gone, only when       *)
(* stop() came between the accept and the handler.                         *)
(***************************************************************************)
OnlyStopLoses ==
  (nullLoop \/ \E c \in Conns : conn[c] = "lost") => acceptor = "ended" /\ server # "up"

(***************************************************************************)
(* start() and stop() return, whatever the connections do, unless a        *)
(* handler has given libhv a NULL loop.                                    *)
(***************************************************************************)
CallsReturn == server \notin {"down", "up"} ~> (server \in {"down", "up"} \/ nullLoop)
=============================================================================
