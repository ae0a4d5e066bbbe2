----------------------- MODULE CommandSession_proofs -----------------------
(***************************************************************************)
(* Proofs about CommandSession, for every script and every set of faults.  *)
(*                                                                         *)
(* Waking (WakeInv) is proved with superfluous starts.  The rest is proved *)
(* of the states that no superfluous start has led to: there the           *)
(* connection goes through the same states as the caller (Phases), which   *)
(* fixes whose request and whose reply it carries (Data).                  *)
(***************************************************************************)
EXTENDS CommandSession, SequenceTheorems, TLAPS

---------------------------------------------------------------------------
(***************************************************************************)
(* The inductive invariants                                                *)
(***************************************************************************)
Stopped == {"stopping", "joining", "gone"}

\* The latch is raised or about to be.
Woken == m_command_finished = 1 \/ callback = "weak_up"

\* Why a waiting caller will be woken.
WakeInv ==
  /\ stopping => pc \in {"joining", "gone"}
  /\ \A i \in 1 .. Len(queue) : queue[i].op = "closesocket" => pc \in Stopped
  /\ pc \in {"test", "connect"} /\ chan = "CLOSED" => Woken
  /\ pc \in {"start", "waits"} /\ ~starved => Hooked \/ Woken

\* Between two calls, and in a call before its startConnect(), the connection
\* of the call before is closed; the socket of the first call is made before.
Quiet == {"out", "callbacks", "clear", "check"} \cup Stopped

Setup == {"callbacks", "clear", "check", "create", "test", "connect"}
InCall == Setup \cup {"start", "waits"}

CallerPhase ==
  /\ pc \in Quiet => chan = IF loop = "down" THEN "OPENED" ELSE "CLOSED"
  /\ pc \in {"check", "create", "test", "connect"} => m_command_finished = 0
  /\ pc = "create" => chan = "CLOSED"
  /\ pc \in {"test", "connect"} => chan = "OPENED"
  /\ pc = "start" /\ starved => /\ chan = "CLOSED" /\ m_command_finished = 0
                               /\ callback # "weak_up"
  /\ pc \in {"start", "waits"} => \/ Hooked /\ m_command_finished = 0
                                  \/ chan = "CLOSED" /\ Woken
                                  \/ starved /\ m_command_finished = 0
  /\ pc \in InCall => cmd > 0 /\ latch = "alive"
  /\ pc \in Setup => ~starved
  /\ ~aborted
  /\ callback = "weak_up" => /\ pc \in {"start", "waits"} /\ chan = "CLOSED"
                             /\ m_command_finished = 0 /\ loop = "idle"
  /\ ~Overtakes /\ callback # "none" => pc \in {"start", "waits"}

LoopPhase ==
  /\ loop = "down" => /\ queue = <<>> /\ cmd <= 1 /\ ~starved
                      /\ pc \in {"out", "callbacks", "clear", "check", "test", "connect",
                                 "start"}
                      /\ callback = "none"
                      /\ pc = "out" => cmd = 0
                      /\ pc = "start" => chan = "CONNECTING"
  /\ loop # "down" => cmd > 0
  /\ loop \in {"create", "test", "connect"} =>
       \/ starved /\ pc = "waits" /\ m_command_finished = 0
       \/ loop = "test" /\ Hooked
  /\ loop = "create" => chan = "CLOSED"
  /\ loop = "test" => chan = "OPENED" \/ Hooked
  /\ loop = "connect" => chan = "OPENED"
  /\ chan = "OPENED" /\ pc \in {"start", "waits"} => loop \in {"test", "connect"}
  /\ loop = "exited" => pc \in Stopped

\* Each call posts one start.  One that is still queued and is needed finds
\* the call as its startConnect() has left it.
QueuePhase ==
  /\ \A i \in 1 .. Len(queue) : queue[i].op = "startConnect" =>
       /\ queue[i].call <= cmd
       /\ queue[i].call = cmd => pc \notin Setup \cup {"start"}
       /\ Needed(queue[i]) => /\ pc = "waits" /\ m_command_finished = 0
                              /\ chan = "CLOSED" /\ loop = "idle"
                              /\ callback # "weak_up"
  /\ \A i, j \in 1 .. Len(queue) :
       queue[i].op = "startConnect" /\ queue[j].op = "startConnect"
         /\ queue[i].call = queue[j].call => i = j

\* Whose request and whose reply the connection carries.
Data ==
  /\ undefined \subseteq overtook
  /\ ~Overtakes => overtook = {}
  /\ latch = "dead" /\ callback = "notify" => "deadLatch" \in overtook
  /\ m_command = cmd
  /\ onMessage = IF pc = "callbacks" THEN cmd - 1 ELSE cmd
  /\ \A c \in Calls : asked[c] \in {0, 1} /\ (c > cmd => asked[c] = 0)
  /\ got \subseteq {cmd}
  /\ cmd = 0 => got = {} /\ reply = "none" /\ pc = "out"
  /\ cmd > 0 /\ got = {} => status = Script[cmd].initial
  /\ cmd > 0 /\ got # {} => asked[cmd] = 1
  /\ starved => failed
  /\ pc \in Setup => asked[cmd] = 0 /\ got = {} /\ ~failed
  /\ starved /\ ~Hooked /\ ~Woken => asked[cmd] = 0 /\ got = {}
  /\ chan \in {"OPENED", "CONNECTING"} /\ cmd > 0 => asked[cmd] = 0 /\ got = {}
  /\ chan \in {"OPENED", "CONNECTING"} => reply = "none"
  /\ chan = "CONNECTED" => sent = cmd /\ asked[cmd] = 1 /\ (reply = "none" <=> got = {})
  /\ pc \in {"start", "waits"} \cup Stopped \cup {"out"} /\ chan = "CLOSED" /\ ~failed
       => got = {cmd} /\ reply = "whole"

Clean == CallerPhase /\ LoopPhase /\ QueuePhase /\ Data

CleanInv == ~late => Clean
---------------------------------------------------------------------------
(***************************************************************************)
(* Type correctness                                                        *)
(***************************************************************************)
\* A callback leaves 0 or -1 in the status.
LEMMA ReadingStatus ==
  ASSUME NEW r \in Readers, NEW c \in Chunks, NEW s \in Statuses
  PROVE  Reading(r, c, s).status \in Statuses
BY DEF Reading, Readers, Statuses, Chunks, read_protocol_string,
   respond_transport_command, shell_reader, list_reverse_reader, screencap_reader

\* The table entry of a call.
LEMMA ScriptEntry ==
  ASSUME NEW c \in Calls
  PROVE  Script[c].initial \in Statuses /\ Script[c].reader \in Readers
<1>1. Script \in [1 .. Len(Script) -> CommandRecords]
  BY SessionAssumption, LenProperties DEF SessionAssumption
<1> QED BY <1>1 DEF Calls, CommandRecords

\* The script is finite.
LEMMA ScriptLength == Len(Script) \in Nat
BY SessionAssumption, LenProperties DEF SessionAssumption

\* Initially the variables are well typed.
LEMMA TypeInit == Init => TypeOK
<1> SUFFICES ASSUME Init PROVE TypeOK
  OBVIOUS
<1>1. queue \in Seq(Posted)
  BY EmptySeq DEF Init
<1>2. asked \in [Calls -> Nat]
  BY DEF Init
<1>3. Flags
  BY DEF Init, Flags
<1>4. Values
  BY <1>1, <1>2, ScriptLength DEF Init, Values, CallerPc, LoopPc, CallbackPc, Statuses
<1> QED BY <1>3, <1>4 DEF TypeOK

\* The flags stay Boolean.
LEMMA FlagsStep == Flags /\ [Next]_vars => Flags'
<1> SUFFICES ASSUME Flags, [Next]_vars PROVE Flags'
  OBVIOUS
<1> USE DEF Flags, Noted, caller, conn, thread, hist
<1>1. CASE SetCommand BY <1>1 DEF SetCommand
<1>2. CASE SetCallbacks BY <1>2 DEF SetCallbacks
<1>3. CASE ClearFinished BY <1>3 DEF ClearFinished
<1>4. CASE CallerCheck BY <1>4 DEF CallerCheck
<1>5. CASE CallerCreate BY <1>5 DEF CallerCreate, LoopAt
<1>6. CASE CallerCreateFails BY <1>6 DEF CallerCreateFails
<1>7. CASE CallerConnect BY <1>7 DEF CallerConnect, Connect
<1>8. CASE Start BY <1>8 DEF Start
<1>9. CASE Return BY <1>9 DEF Return
<1>10. CASE StopCloseSocket BY <1>10 DEF StopCloseSocket
<1>11. CASE StopLoop BY <1>11 DEF StopLoop
<1>12. CASE Join BY <1>12 DEF Join, LoopAt
<1>13. CASE DestroyLatch BY <1>13 DEF DestroyLatch
<1>14. CASE RunStartConnect BY <1>14 DEF RunStartConnect, LoopAt
<1>15. CASE LoopCreate BY <1>15 DEF LoopCreate, Closing, LoopAt
<1>16. CASE LoopCreateFails BY <1>16 DEF LoopCreateFails, LoopAt
<1>17. CASE LoopConnect BY <1>17 DEF LoopConnect, LoopAt, Connect
<1>18. CASE RunCloseSocket BY <1>18 DEF RunCloseSocket, Closing, LoopAt
<1>19. CASE LoopExit BY <1>19 DEF LoopExit, Closing, LoopAt
<1>20. CASE OnConnect BY <1>20 DEF OnConnect, TakesEvents, LoopAt
<1>21. CASE OnClose BY <1>21 DEF OnClose, TakesEvents, LoopAt, Closing
<1>22. ASSUME NEW c \in Chunks, NEW last \in BOOLEAN, OnRead(c, last) PROVE Flags'
  BY <1>22 DEF OnRead, TakesEvents, LoopAt
<1>23. CASE UNCHANGED vars BY <1>23 DEF vars
<1>24. CASE CallerTest BY <1>24 DEF CallerTest
<1>25. CASE LoopTest BY <1>25 DEF LoopTest, LoopAt
<1>26. CASE WeakUp BY <1>26 DEF WeakUp, LatchUsed
<1>27. CASE NotifyAll BY <1>27 DEF NotifyAll, LatchUsed
<1>28. CASE CloseReturns BY <1>28 DEF CloseReturns
<1> QED
  BY <1>1, <1>2, <1>3, <1>4, <1>5, <1>6, <1>7, <1>8, <1>9, <1>10, <1>11,
     <1>12, <1>13, <1>14, <1>15, <1>16, <1>17, <1>18, <1>19, <1>20, <1>21,
     <1>22, <1>23, <1>24, <1>25, <1>26, <1>27, <1>28
     DEF Next, Command, Finish, Functor, Callback, Event

\* The other variables stay well typed.
LEMMA ValuesStep == Values /\ [Next]_vars => Values'
<1> SUFFICES ASSUME Values, [Next]_vars PROVE Values'
  OBVIOUS
<1> USE ScriptLength DEF Values, CallerPc, LoopPc, CallbackPc, Calls, caller, conn, thread, hist
<1>1. CASE SetCommand BY <1>1, ScriptEntry DEF SetCommand, Statuses
<1>2. CASE SetCallbacks BY <1>2 DEF SetCallbacks
<1>3. CASE ClearFinished BY <1>3 DEF ClearFinished
<1>4. CASE CallerCheck BY <1>4 DEF CallerCheck, Hooked
<1>5. CASE CallerCreate BY <1>5 DEF CallerCreate, LoopAt
<1>6. CASE CallerCreateFails BY <1>6 DEF CallerCreateFails
<1>7. CASE CallerConnect BY <1>7 DEF CallerConnect, Connect
<1>8. CASE Start
  <2>1. [op |-> "startConnect", call |-> cmd] \in Posted
    BY <1>8 DEF Start, Posted
  <2>2. queue' \in Seq(Posted)
    BY <1>8, <2>1, AppendProperties DEF Start
  <2> QED BY <1>8, <2>2 DEF Start
<1>9. CASE Return BY <1>9 DEF Return
<1>10. CASE StopCloseSocket
  <2>1. queue' \in Seq(Posted)
    BY <1>10, AppendProperties DEF StopCloseSocket, Post, Posted
  <2> QED BY <1>10, <2>1 DEF StopCloseSocket
<1>11. CASE StopLoop BY <1>11 DEF StopLoop
<1>12. CASE Join BY <1>12 DEF Join, LoopAt
<1>13. CASE DestroyLatch BY <1>13 DEF DestroyLatch
<1>14. CASE RunStartConnect
  <2>1. queue' \in Seq(Posted)
    BY <1>14, HeadTailProperties DEF RunStartConnect, LoopAt
  <2> QED BY <1>14, <2>1 DEF RunStartConnect, LoopAt, Hooked
<1>15. CASE LoopCreate
  <2>1. m_command_finished' \in {0, 1}
    BY <1>15 DEF LoopCreate, Closing, LoopAt
  <2>2. undefined' \subseteq {"dangling", "nullLoop", "deadLatch", "deadChannel"}
    BY <1>15 DEF LoopCreate, Closing, LoopAt
  <2> QED BY <1>15, <2>1, <2>2 DEF LoopCreate, Closing, LoopAt
<1>16. CASE LoopCreateFails BY <1>16 DEF LoopCreateFails, LoopAt
<1>17. CASE LoopConnect BY <1>17 DEF LoopConnect, LoopAt, Connect
<1>18. CASE RunCloseSocket
  <2>1. queue' \in Seq(Posted)
    BY <1>18, HeadTailProperties DEF RunCloseSocket, Closing, LoopAt
  <2>2. m_command_finished' \in {0, 1}
    BY <1>18 DEF RunCloseSocket, Closing, LoopAt
  <2>3. undefined' \subseteq {"dangling", "nullLoop", "deadLatch", "deadChannel"}
    BY <1>18 DEF RunCloseSocket, Closing, LoopAt
  <2> QED BY <1>18, <2>1, <2>2, <2>3 DEF RunCloseSocket, Closing, LoopAt
<1>19. CASE LoopExit BY <1>19 DEF LoopExit, Closing, LoopAt
<1>20. CASE OnConnect BY <1>20 DEF OnConnect, TakesEvents, LoopAt
<1>21. CASE OnClose BY <1>21 DEF OnClose, TakesEvents, LoopAt, Closing
<1>22. ASSUME NEW c \in Chunks, NEW last \in BOOLEAN, OnRead(c, last) PROVE Values'
  <2>1. status' \in Statuses
    BY <1>22, ReadingStatus, ScriptEntry DEF OnRead, TakesEvents, LoopAt, FrameAlive
  <2>2. got' \subseteq 0 .. Len(Script)
    BY <1>22 DEF OnRead, TakesEvents, LoopAt
  <2>3. undefined' \subseteq {"dangling", "nullLoop", "deadLatch", "deadChannel"}
    BY <1>22 DEF OnRead, TakesEvents, LoopAt
  <2> QED BY <1>22, <2>1, <2>2, <2>3 DEF OnRead, TakesEvents, LoopAt
<1>23. CASE UNCHANGED vars BY <1>23 DEF vars
<1>24. CASE CallerTest BY <1>24 DEF CallerTest
<1>25. CASE LoopTest BY <1>25 DEF LoopTest, LoopAt
<1>26. CASE WeakUp BY <1>26 DEF WeakUp, LatchUsed
<1>27. CASE NotifyAll BY <1>27 DEF NotifyAll, LatchUsed
<1>28. CASE CloseReturns BY <1>28 DEF CloseReturns
<1> QED
  BY <1>1, <1>2, <1>3, <1>4, <1>5, <1>6, <1>7, <1>8, <1>9, <1>10, <1>11,
     <1>12, <1>13, <1>14, <1>15, <1>16, <1>17, <1>18, <1>19, <1>20, <1>21,
     <1>22, <1>23, <1>24, <1>25, <1>26, <1>27, <1>28
     DEF Next, Command, Finish, Functor, Callback, Event
---------------------------------------------------------------------------
(***************************************************************************)
(* Waking                                                                  *)
(***************************************************************************)
\* The elements of a queue without its head.
LEMMA TailElements ==
  ASSUME NEW q \in Seq(Posted), q # <<>>
  PROVE  /\ Len(q) \in Nat /\ Len(Tail(q)) \in Nat
         /\ 1 \in 1 .. Len(q) /\ Head(q) = q[1]
         /\ \A i \in 1 .. Len(Tail(q)) : i + 1 \in 1 .. Len(q) /\ Tail(q)[i] = q[i + 1]
<1>1. Len(q) \in Nat \ {0}
  BY EmptySeq
<1>2. Len(Tail(q)) = Len(q) - 1 /\ \A i \in 1 .. Len(Tail(q)) : Tail(q)[i] = q[i + 1]
  BY HeadTailProperties
<1>3. Head(q) = q[1]
  OBVIOUS
<1> QED BY <1>1, <1>2, <1>3

\* The elements of a queue to which a functor was appended.
LEMMA AppendElements ==
  ASSUME NEW q \in Seq(Posted), NEW fn \in Posted
  PROVE  /\ Len(q) \in Nat /\ Len(Append(q, fn)) = Len(q) + 1
         /\ \A i \in 1 .. Len(Append(q, fn)) :
              \/ i \in 1 .. Len(q) /\ Append(q, fn)[i] = q[i]
              \/ i = Len(q) + 1 /\ Append(q, fn)[i] = fn
<1>1. Len(q) \in Nat
  BY LenProperties
<1> QED BY <1>1, AppendProperties

\* The start that a call posts.
LEMMA StartPosted == Values /\ pc = "start" => [op |-> "startConnect", call |-> cmd] \in Posted
BY ScriptLength DEF Values, Posted, Calls

\* Initially nobody waits and nothing is posted.
LEMMA WakeInit == Init => WakeInv
<1> SUFFICES ASSUME Init PROVE WakeInv
  OBVIOUS
<1>1. Len(queue) = 0
  BY DEF Init
<1> QED BY <1>1 DEF Init, WakeInv, Stopped

\* Every step leaves a waiting caller somebody who will wake it.
LEMMA WakeStep == Values /\ WakeInv /\ [Next]_vars => WakeInv'
<1> SUFFICES ASSUME Values, WakeInv, [Next]_vars PROVE WakeInv'
  OBVIOUS
<1> USE DEF Values, WakeInv, Woken, Hooked, Stopped, CallerPc, CallbackPc, caller, conn, thread, hist
<1>1. CASE SetCommand BY <1>1 DEF SetCommand
<1>2. CASE SetCallbacks BY <1>2 DEF SetCallbacks
<1>3. CASE ClearFinished BY <1>3 DEF ClearFinished
<1>4. CASE CallerCheck BY <1>4 DEF CallerCheck, Hooked
<1>5. CASE CallerCreate BY <1>5 DEF CallerCreate, LoopAt
<1>6. CASE CallerCreateFails BY <1>6 DEF CallerCreateFails
<1>7. CASE CallerConnect BY <1>7 DEF CallerConnect, Connect
<1>8. CASE Start
  <2>1. \A i \in 1 .. Len(queue') : queue'[i].op = "closesocket" => pc' \in Stopped
    BY <1>8, StartPosted, AppendElements DEF Start
  <2> QED BY <1>8, <2>1 DEF Start
<1>9. CASE Return BY <1>9 DEF Return
<1>10. CASE StopCloseSocket
  BY <1>10 DEF StopCloseSocket
<1>11. CASE StopLoop BY <1>11 DEF StopLoop
<1>12. CASE Join BY <1>12 DEF Join, LoopAt
<1>13. CASE DestroyLatch BY <1>13 DEF DestroyLatch
<1>14. CASE RunStartConnect
  <2>1. \A i \in 1 .. Len(queue') : queue'[i].op = "closesocket" => pc' \in Stopped
    BY <1>14, TailElements DEF RunStartConnect, LoopAt
  <2> QED BY <1>14, <2>1 DEF RunStartConnect, LoopAt
<1>15. CASE LoopCreate BY <1>15 DEF LoopCreate, Closing, LoopAt
<1>16. CASE LoopCreateFails BY <1>16 DEF LoopCreateFails, LoopAt
<1>17. CASE LoopConnect BY <1>17 DEF LoopConnect, LoopAt, Connect
<1>18. CASE RunCloseSocket
  <2>1. pc \in Stopped
    BY <1>18, TailElements DEF RunCloseSocket, Closing, LoopAt
  <2>2. \A i \in 1 .. Len(queue') : queue'[i].op = "closesocket" => pc' \in Stopped
    BY <1>18, TailElements DEF RunCloseSocket, Closing, LoopAt
  <2> QED BY <1>18, <2>1, <2>2 DEF RunCloseSocket, Closing, LoopAt
<1>19. CASE LoopExit BY <1>19 DEF LoopExit, Closing, LoopAt
<1>20. CASE OnConnect BY <1>20 DEF OnConnect, TakesEvents, LoopAt
<1>21. CASE OnClose BY <1>21 DEF OnClose, TakesEvents, LoopAt, Closing
<1>22. ASSUME NEW c \in Chunks, NEW last \in BOOLEAN, OnRead(c, last) PROVE WakeInv'
  BY <1>22 DEF OnRead, TakesEvents, LoopAt
<1>23. CASE UNCHANGED vars BY <1>23 DEF vars
<1>24. CASE CallerTest BY <1>24 DEF CallerTest
<1>25. CASE LoopTest BY <1>25 DEF LoopTest, LoopAt
<1>26. CASE WeakUp BY <1>26 DEF WeakUp, LatchUsed
<1>27. CASE NotifyAll BY <1>27 DEF NotifyAll, LatchUsed
<1>28. CASE CloseReturns BY <1>28 DEF CloseReturns
<1> QED
  BY <1>1, <1>2, <1>3, <1>4, <1>5, <1>6, <1>7, <1>8, <1>9, <1>10, <1>11,
     <1>12, <1>13, <1>14, <1>15, <1>16, <1>17, <1>18, <1>19, <1>20, <1>21,
     <1>22, <1>23, <1>24, <1>25, <1>26, <1>27, <1>28
     DEF Next, Command, Finish, Functor, Callback, Event

\* The control state is well typed and a waiting caller can be woken, in every
\* reachable state.
LEMMA Waking == Spec => [](TypeOK /\ WakeInv)
<1>1. TypeOK /\ WakeInv /\ [Next]_vars => (TypeOK /\ WakeInv)'
  BY FlagsStep, ValuesStep, WakeStep DEF TypeOK
<1> QED BY TypeInit, WakeInit, <1>1, PTL DEF Spec

\* The variables of a session have their types in every reachable state.
THEOREM TypeCorrect == Spec => []TypeOK
BY Waking, PTL

\* No command waits for a wake-up that nobody will give: whatever the script,
\* the faults and the interleaving of the two threads, superfluous starts
\* included, while a command waits the latch is raised or `channel` is a
\* connection whose close will raise it (or there was no socket).
THEOREM NeverStuck == Spec => []NoStuck
<1>1. TypeOK /\ WakeInv => NoStuck
  BY DEF TypeOK, Values, WakeInv, Woken, NoStuck
<1> QED BY Waking, <1>1, PTL
---------------------------------------------------------------------------
(***************************************************************************)
(* Clean sessions                                                          *)
(***************************************************************************)
\* Initially there is one socket, not connected, and no request on it.
LEMMA CleanInit == Init => Clean
<1> SUFFICES ASSUME Init PROVE Clean
  OBVIOUS
<1>1. Len(queue) = 0
  BY DEF Init
<1>2. CallerPhase
  BY DEF Init, CallerPhase, Quiet, Stopped, Setup, InCall
<1>3. LoopPhase
  BY DEF Init, LoopPhase, Stopped
<1>4. QueuePhase
  BY <1>1 DEF QueuePhase
<1>5. Data
  BY ScriptLength DEF Init, Data, Setup, Stopped, Hooked, Calls
<1> QED BY <1>2, <1>3, <1>4, <1>5 DEF Clean

\* The connection follows the caller.
LEMMA CallerPhaseStep == TypeOK /\ WakeInv /\ Clean /\ ~late /\ ~late' /\ [Next]_vars => CallerPhase'
<1> SUFFICES ASSUME TypeOK, WakeInv, Clean, ~late, ~late', [Next]_vars PROVE CallerPhase'
  OBVIOUS
<1> USE DEF TypeOK, Flags, WakeInv, Woken, Clean, CallerPhase, LoopPhase, QueuePhase, Values, Stopped, Setup, InCall, Quiet, Hooked, Noted, CallerPc, LoopPc, CallbackPc,
        caller, conn, thread, hist
<1>1. CASE SetCommand BY <1>1 DEF SetCommand
<1>2. CASE SetCallbacks BY <1>2 DEF SetCallbacks
<1>3. CASE ClearFinished BY <1>3 DEF ClearFinished
<1>4. CASE CallerCheck BY <1>4 DEF CallerCheck
<1>5. CASE CallerCreate BY <1>5 DEF CallerCreate, LoopAt
<1>6. CASE CallerCreateFails BY <1>6 DEF CallerCreateFails
<1>7. CASE CallerConnect BY <1>7 DEF CallerConnect, Connect
<1>8. CASE Start BY <1>8 DEF Start
<1>9. CASE Return BY <1>9 DEF Return
<1>10. CASE StopCloseSocket BY <1>10 DEF StopCloseSocket
<1>11. CASE StopLoop BY <1>11 DEF StopLoop
<1>12. CASE Join BY <1>12 DEF Join, LoopAt
<1>13. CASE DestroyLatch BY <1>13 DEF DestroyLatch
<1>14. CASE RunStartConnect BY <1>14 DEF RunStartConnect, LoopAt, Needed
<1>15. CASE LoopCreate BY <1>15 DEF LoopCreate, Closing, LoopAt
<1>16. CASE LoopCreateFails BY <1>16 DEF LoopCreateFails, LoopAt
<1>17. CASE LoopConnect BY <1>17 DEF LoopConnect, LoopAt, Connect
<1>18. CASE RunCloseSocket BY <1>18 DEF RunCloseSocket, Closing, LoopAt
<1>19. CASE LoopExit BY <1>19 DEF LoopExit, Closing, LoopAt
<1>20. CASE OnConnect BY <1>20 DEF OnConnect, TakesEvents, LoopAt
<1>21. CASE OnClose BY <1>21 DEF OnClose, TakesEvents, LoopAt, Closing
<1>22. ASSUME NEW c \in Chunks, NEW last \in BOOLEAN, OnRead(c, last) PROVE CallerPhase'
  BY <1>22 DEF OnRead, TakesEvents, LoopAt
<1>23. CASE UNCHANGED vars BY <1>23 DEF vars
<1>24. CASE CallerTest BY <1>24 DEF CallerTest
<1>25. CASE LoopTest BY <1>25 DEF LoopTest, LoopAt
<1>26. CASE WeakUp BY <1>26 DEF WeakUp, LatchUsed
<1>27. CASE NotifyAll BY <1>27 DEF NotifyAll, LatchUsed
<1>28. CASE CloseReturns BY <1>28 DEF CloseReturns
<1> QED
  BY <1>1, <1>2, <1>3, <1>4, <1>5, <1>6, <1>7, <1>8, <1>9, <1>10, <1>11,
     <1>12, <1>13, <1>14, <1>15, <1>16, <1>17, <1>18, <1>19, <1>20, <1>21,
     <1>22, <1>23, <1>24, <1>25, <1>26, <1>27, <1>28
     DEF Next, Command, Finish, Functor, Callback, Event

\* The loop works on the connection only for a call that had no socket.
LEMMA LoopPhaseStep == TypeOK /\ WakeInv /\ Clean /\ ~late /\ ~late' /\ [Next]_vars => LoopPhase'
<1> SUFFICES ASSUME TypeOK, WakeInv, Clean, ~late, ~late', [Next]_vars PROVE LoopPhase'
  OBVIOUS
<1> USE DEF TypeOK, Flags, WakeInv, Woken, Clean, CallerPhase, LoopPhase, QueuePhase, Values, Stopped, Setup, InCall, Quiet, Hooked, Noted, CallerPc, LoopPc, CallbackPc,
        caller, conn, thread, hist
<1>1. CASE SetCommand BY <1>1 DEF SetCommand
<1>2. CASE SetCallbacks BY <1>2 DEF SetCallbacks
<1>3. CASE ClearFinished BY <1>3 DEF ClearFinished
<1>4. CASE CallerCheck BY <1>4 DEF CallerCheck
<1>5. CASE CallerCreate BY <1>5 DEF CallerCreate, LoopAt
<1>6. CASE CallerCreateFails BY <1>6 DEF CallerCreateFails
<1>7. CASE CallerConnect BY <1>7 DEF CallerConnect, Connect
<1>8. CASE Start BY <1>8 DEF Start
<1>9. CASE Return BY <1>9 DEF Return
<1>10. CASE StopCloseSocket BY <1>10 DEF StopCloseSocket
<1>11. CASE StopLoop BY <1>11 DEF StopLoop
<1>12. CASE Join BY <1>12 DEF Join, LoopAt
<1>13. CASE DestroyLatch BY <1>13 DEF DestroyLatch
<1>14. CASE RunStartConnect BY <1>14 DEF RunStartConnect, LoopAt, Needed
<1>15. CASE LoopCreate BY <1>15 DEF LoopCreate, Closing, LoopAt
<1>16. CASE LoopCreateFails BY <1>16 DEF LoopCreateFails, LoopAt
<1>17. CASE LoopConnect BY <1>17 DEF LoopConnect, LoopAt, Connect
<1>18. CASE RunCloseSocket BY <1>18 DEF RunCloseSocket, Closing, LoopAt
<1>19. CASE LoopExit BY <1>19 DEF LoopExit, Closing, LoopAt
<1>20. CASE OnConnect BY <1>20 DEF OnConnect, TakesEvents, LoopAt
<1>21. CASE OnClose BY <1>21 DEF OnClose, TakesEvents, LoopAt, Closing
<1>22. ASSUME NEW c \in Chunks, NEW last \in BOOLEAN, OnRead(c, last) PROVE LoopPhase'
  BY <1>22 DEF OnRead, TakesEvents, LoopAt
<1>23. CASE UNCHANGED vars BY <1>23 DEF vars
<1>24. CASE CallerTest BY <1>24 DEF CallerTest
<1>25. CASE LoopTest BY <1>25 DEF LoopTest, LoopAt
<1>26. CASE WeakUp BY <1>26 DEF WeakUp, LatchUsed
<1>27. CASE NotifyAll BY <1>27 DEF NotifyAll, LatchUsed
<1>28. CASE CloseReturns BY <1>28 DEF CloseReturns
<1> QED
  BY <1>1, <1>2, <1>3, <1>4, <1>5, <1>6, <1>7, <1>8, <1>9, <1>10, <1>11,
     <1>12, <1>13, <1>14, <1>15, <1>16, <1>17, <1>18, <1>19, <1>20, <1>21,
     <1>22, <1>23, <1>24, <1>25, <1>26, <1>27, <1>28
     DEF Next, Command, Finish, Functor, Callback, Event

\* The calls of the starts in a queue are numbers.
LEMMA PostedCall ==
  ASSUME NEW q \in Seq(Posted), NEW i \in 1 .. Len(q), q[i].op = "startConnect"
  PROVE  q[i].call \in Int
<1>1. q[i] \in Posted
  BY LenProperties
<1> QED BY <1>1, ScriptLength DEF Posted, Calls

\* A queued start stays needed or superfluous, and each call posts one.
LEMMA QueuePhaseStep == TypeOK /\ WakeInv /\ Clean /\ ~late /\ ~late' /\ [Next]_vars => QueuePhase'
<1> SUFFICES ASSUME TypeOK, WakeInv, Clean, ~late, ~late', [Next]_vars PROVE QueuePhase'
  OBVIOUS
<1> USE DEF TypeOK, Flags, WakeInv, Woken, Clean, CallerPhase, LoopPhase, QueuePhase, Needed,
        Values, Stopped, Setup, InCall, Quiet, Hooked, Noted, CallerPc, LoopPc, CallbackPc,
        caller, conn, thread, hist
<1>1. CASE SetCommand BY <1>1, ScriptLength, PostedCall DEF SetCommand, Needed
<1>2. CASE SetCallbacks BY <1>2 DEF SetCallbacks
<1>3. CASE ClearFinished BY <1>3 DEF ClearFinished
<1>4. CASE CallerCheck BY <1>4 DEF CallerCheck
<1>5. CASE CallerCreate BY <1>5 DEF CallerCreate, LoopAt
<1>6. CASE CallerCreateFails BY <1>6 DEF CallerCreateFails
<1>7. CASE CallerConnect BY <1>7 DEF CallerConnect, Connect
<1>8. CASE Start
  <2>1. \A i \in 1 .. Len(queue) : queue[i].op = "startConnect" => queue[i].call # cmd
    BY <1>8 DEF Start
  <2>2. queue' = Append(queue, [op |-> "startConnect", call |-> cmd])
    BY <1>8 DEF Start
  <2> QED BY <1>8, <2>1, <2>2, StartPosted, AppendElements DEF Start, Needed
<1>9. CASE Return BY <1>9 DEF Return
<1>10. CASE StopCloseSocket
  <2>1. [op |-> "closesocket"] \in Posted
    BY DEF Posted
  <2>2. queue' = Append(queue, [op |-> "closesocket"])
    BY <1>10 DEF StopCloseSocket, Post
  <2> QED BY <1>10, <2>1, <2>2, AppendElements DEF StopCloseSocket, Needed
<1>11. CASE StopLoop BY <1>11 DEF StopLoop
<1>12. CASE Join BY <1>12 DEF Join, LoopAt
<1>13. CASE DestroyLatch BY <1>13 DEF DestroyLatch
<1>14. CASE RunStartConnect
  <2>1. queue # <<>> /\ queue' = Tail(queue) /\ Head(queue).op = "startConnect"
    BY <1>14 DEF RunStartConnect, LoopAt
  <2>2. Hooked \/ Needed(Head(queue))
    BY <1>14 DEF RunStartConnect, LoopAt
  <2>3. /\ Len(queue') \in Nat
        /\ \A i \in 1 .. Len(queue') : i + 1 \in 1 .. Len(queue) /\ queue'[i] = queue[i + 1]
        /\ 1 \in 1 .. Len(queue) /\ Head(queue) = queue[1]
    BY <2>1, TailElements
  <2>4. cmd' = cmd /\ starved' = starved /\ pc' = pc
    BY <1>14 DEF RunStartConnect, LoopAt
  <2>5. \A i \in 1 .. Len(queue') :
          queue'[i].op = "startConnect" => ~Needed(queue[i + 1])
    <3> SUFFICES ASSUME NEW i \in 1 .. Len(queue'), queue[i + 1].op = "startConnect",
                        Needed(queue[i + 1])
                 PROVE  FALSE
      BY <2>3
    <3>1. chan = "CLOSED"
      BY <2>3
    <3>2. queue[1].call = queue[i + 1].call
      BY <2>2, <2>3, <3>1 DEF Needed
    <3>3. i + 1 = 1
      BY <2>1, <2>3, <3>2
    <3> QED BY <2>3, <3>3
  <2>6. \A i, j \in 1 .. Len(queue') :
          queue'[i].op = "startConnect" /\ queue'[j].op = "startConnect"
            /\ queue'[i].call = queue'[j].call => i = j
    <3> SUFFICES ASSUME NEW i \in 1 .. Len(queue'), NEW j \in 1 .. Len(queue'),
                        queue[i + 1].op = "startConnect", queue[j + 1].op = "startConnect",
                        queue[i + 1].call = queue[j + 1].call
                 PROVE  i = j
      BY <2>3
    <3>1. i + 1 = j + 1
      BY <2>3
    <3> QED BY <2>3, <3>1
  <2>7. \A i \in 1 .. Len(queue') : queue'[i].op = "startConnect" =>
          /\ queue'[i].call <= cmd'
          /\ queue'[i].call = cmd' => pc' \notin Setup \cup {"start"}
          /\ ~(Needed(queue[i])')
    BY <2>3, <2>4, <2>5 DEF Needed
  <2> QED BY <2>6, <2>7
<1>15. CASE LoopCreate BY <1>15 DEF LoopCreate, Closing, LoopAt
<1>16. CASE LoopCreateFails BY <1>16 DEF LoopCreateFails, LoopAt
<1>17. CASE LoopConnect BY <1>17 DEF LoopConnect, LoopAt, Connect
<1>18. CASE RunCloseSocket
  <2>1. queue # <<>> /\ queue' = Tail(queue)
    BY <1>18 DEF RunCloseSocket, Closing, LoopAt
  <2> QED BY <1>18, <2>1, TailElements DEF RunCloseSocket, Closing, LoopAt, Needed
<1>19. CASE LoopExit BY <1>19 DEF LoopExit, Closing, LoopAt
<1>20. CASE OnConnect BY <1>20 DEF OnConnect, TakesEvents, LoopAt
<1>21. CASE OnClose BY <1>21 DEF OnClose, TakesEvents, LoopAt, Closing
<1>22. ASSUME NEW c \in Chunks, NEW last \in BOOLEAN, OnRead(c, last) PROVE QueuePhase'
  BY <1>22 DEF OnRead, TakesEvents, LoopAt
<1>23. CASE UNCHANGED vars BY <1>23 DEF vars
<1>24. CASE CallerTest BY <1>24 DEF CallerTest
<1>25. CASE LoopTest BY <1>25 DEF LoopTest, LoopAt
<1>26. CASE WeakUp BY <1>26 DEF WeakUp, LatchUsed
<1>27. CASE NotifyAll BY <1>27 DEF NotifyAll, LatchUsed
<1>28. CASE CloseReturns BY <1>28 DEF CloseReturns
<1> QED
  BY <1>1, <1>2, <1>3, <1>4, <1>5, <1>6, <1>7, <1>8, <1>9, <1>10, <1>11,
     <1>12, <1>13, <1>14, <1>15, <1>16, <1>17, <1>18, <1>19, <1>20, <1>21,
     <1>22, <1>23, <1>24, <1>25, <1>26, <1>27, <1>28
     DEF Next, Command, Finish, Functor, Callback, Event

\* The connection carries the request and the reply of the running call.
LEMMA DataStep == TypeOK /\ WakeInv /\ Clean /\ ~late /\ ~late' /\ [Next]_vars => Data'
<1> SUFFICES ASSUME TypeOK, WakeInv, Clean, ~late, ~late', [Next]_vars PROVE Data'
  OBVIOUS
<1> USE ScriptLength DEF TypeOK, Flags, WakeInv, Woken, Clean, CallerPhase, LoopPhase, Data, Calls,
        Values, Stopped, Setup, InCall, Quiet, Hooked, Noted, CallerPc, LoopPc, CallbackPc,
        caller, conn, thread, hist
<1>1. CASE SetCommand BY <1>1 DEF SetCommand
<1>2. CASE SetCallbacks BY <1>2 DEF SetCallbacks
<1>3. CASE ClearFinished BY <1>3 DEF ClearFinished
<1>4. CASE CallerCheck BY <1>4 DEF CallerCheck
<1>5. CASE CallerCreate BY <1>5 DEF CallerCreate, LoopAt
<1>6. CASE CallerCreateFails BY <1>6 DEF CallerCreateFails
<1>7. CASE CallerConnect BY <1>7 DEF CallerConnect, Connect
<1>8. CASE Start BY <1>8 DEF Start
<1>9. CASE Return BY <1>9 DEF Return
<1>10. CASE StopCloseSocket BY <1>10 DEF StopCloseSocket
<1>11. CASE StopLoop BY <1>11 DEF StopLoop
<1>12. CASE Join BY <1>12 DEF Join, LoopAt
<1>13. CASE DestroyLatch BY <1>13 DEF DestroyLatch
<1>14. CASE RunStartConnect BY <1>14 DEF RunStartConnect, LoopAt, Needed
<1>15. CASE LoopCreate
  <2>1. /\ starved /\ pc = "waits" /\ m_command_finished = 0 /\ chan = "CLOSED"
        /\ callback = "none" /\ ~stopping
    BY <1>15 DEF LoopCreate, LoopAt
  <2>2. asked[cmd] = 0 /\ got = {} /\ cmd > 0 /\ failed
    BY <2>1
  <2>3. /\ chan' = "OPENED" /\ reply' = "none" /\ failed' /\ callback' = "none"
        /\ UNCHANGED <<pc, cmd, m_command, onMessage, latch, status, asked, got>>
        /\ UNCHANGED <<m_command_finished, undefined, overtook, starved>>
    BY <1>15, <2>1, <2>2 DEF LoopCreate, Closing
  <2> QED BY <2>1, <2>2, <2>3
<1>16. CASE LoopCreateFails BY <1>16 DEF LoopCreateFails, LoopAt
<1>17. CASE LoopConnect BY <1>17 DEF LoopConnect, LoopAt, Connect
<1>18. CASE RunCloseSocket BY <1>18, TailElements DEF RunCloseSocket, Closing, LoopAt
<1>19. CASE LoopExit BY <1>19 DEF LoopExit, Closing, LoopAt
<1>20. CASE OnConnect BY <1>20 DEF OnConnect, TakesEvents, LoopAt
<1>21. CASE OnClose
  <2>1. pc \in {"start", "waits"} /\ m_command_finished = 0 /\ latch = "alive"
    BY <1>21 DEF OnClose, TakesEvents, LoopAt, Closing
  <2>2. chan' = "CLOSED" /\ callback' = "weak_up"
    BY <1>21, <2>1 DEF OnClose, TakesEvents, LoopAt, Closing
  <2>3. ~failed' => reply = "whole" /\ got = {cmd}
    <3>1. ~failed' => reply = "whole"
      BY <1>21 DEF OnClose, TakesEvents, LoopAt, Closing
    <3>2. ASSUME chan = "CONNECTED", reply # "none" PROVE got = {cmd}
      BY <3>2
    <3> QED BY <1>21, <3>1, <3>2 DEF OnClose, TakesEvents, LoopAt, Closing
  <2>4. starved' => failed'
    BY <1>21 DEF OnClose, TakesEvents, LoopAt, Closing
  <2>5. /\ UNCHANGED <<pc, cmd, m_command, onMessage, latch, status, reply, asked, got>>
        /\ UNCHANGED <<m_command_finished, undefined, overtook, starved>>
        /\ Hooked
    BY <1>21 DEF OnClose, TakesEvents, LoopAt, Closing
  <2> QED BY <2>1, <2>2, <2>3, <2>4, <2>5
<1>22. ASSUME NEW c \in Chunks, NEW last \in BOOLEAN, OnRead(c, last) PROVE Data'
  <2>1. pc \in {"start", "waits"} /\ chan = "CONNECTED" /\ cmd > 0 /\ sent = cmd
    BY <1>22 DEF OnRead, TakesEvents, LoopAt
  <2>2. got' = {cmd} /\ undefined' = undefined
    BY <1>22, <2>1 DEF OnRead, TakesEvents, LoopAt, FrameAlive
  <2>3. reply' # "none" /\ asked[cmd] = 1
    BY <1>22, <2>1 DEF OnRead, TakesEvents, LoopAt
  <2>4. /\ UNCHANGED <<pc, cmd, m_command, onMessage, chan, sent, asked, failed, starved>>
        /\ UNCHANGED <<m_command_finished, latch, callback, overtook>>
    BY <1>22 DEF OnRead, TakesEvents, LoopAt
  <2> QED BY <2>1, <2>2, <2>3, <2>4
<1>23. CASE UNCHANGED vars BY <1>23 DEF vars
<1>24. CASE CallerTest BY <1>24 DEF CallerTest
<1>25. CASE LoopTest BY <1>25 DEF LoopTest, LoopAt
<1>26. CASE WeakUp BY <1>26 DEF WeakUp, LatchUsed
<1>27. CASE NotifyAll BY <1>27 DEF NotifyAll, LatchUsed
<1>28. CASE CloseReturns BY <1>28 DEF CloseReturns
<1> QED
  BY <1>1, <1>2, <1>3, <1>4, <1>5, <1>6, <1>7, <1>8, <1>9, <1>10, <1>11,
     <1>12, <1>13, <1>14, <1>15, <1>16, <1>17, <1>18, <1>19, <1>20, <1>21,
     <1>22, <1>23, <1>24, <1>25, <1>26, <1>27, <1>28
     DEF Next, Command, Finish, Functor, Callback, Event

\* A superfluous start that took effect is not forgotten.
LEMMA LateStays == late /\ [Next]_vars => late'
<1> SUFFICES ASSUME late, [Next]_vars PROVE late'
  OBVIOUS
<1> USE DEF Noted, caller, conn, thread, hist
<1>1. CASE SetCommand BY <1>1 DEF SetCommand
<1>2. CASE SetCallbacks BY <1>2 DEF SetCallbacks
<1>3. CASE ClearFinished BY <1>3 DEF ClearFinished
<1>4. CASE CallerCheck BY <1>4 DEF CallerCheck
<1>5. CASE CallerCreate BY <1>5 DEF CallerCreate, LoopAt
<1>6. CASE CallerCreateFails BY <1>6 DEF CallerCreateFails
<1>7. CASE CallerConnect BY <1>7 DEF CallerConnect, Connect
<1>8. CASE Start BY <1>8 DEF Start
<1>9. CASE Return BY <1>9 DEF Return
<1>10. CASE StopCloseSocket BY <1>10 DEF StopCloseSocket
<1>11. CASE StopLoop BY <1>11 DEF StopLoop
<1>12. CASE Join BY <1>12 DEF Join, LoopAt
<1>13. CASE DestroyLatch BY <1>13 DEF DestroyLatch
<1>14. CASE RunStartConnect BY <1>14 DEF RunStartConnect, LoopAt
<1>15. CASE LoopCreate BY <1>15 DEF LoopCreate, Closing, LoopAt
<1>16. CASE LoopCreateFails BY <1>16 DEF LoopCreateFails, LoopAt
<1>17. CASE LoopConnect BY <1>17 DEF LoopConnect, LoopAt, Connect
<1>18. CASE RunCloseSocket BY <1>18 DEF RunCloseSocket, Closing, LoopAt
<1>19. CASE LoopExit BY <1>19 DEF LoopExit, Closing, LoopAt
<1>20. CASE OnConnect BY <1>20 DEF OnConnect, TakesEvents, LoopAt
<1>21. CASE OnClose BY <1>21 DEF OnClose, TakesEvents, LoopAt, Closing
<1>22. ASSUME NEW c \in Chunks, NEW last \in BOOLEAN, OnRead(c, last) PROVE late'
  BY <1>22 DEF OnRead, TakesEvents, LoopAt
<1>23. CASE UNCHANGED vars BY <1>23 DEF vars
<1>24. CASE CallerTest BY <1>24 DEF CallerTest
<1>25. CASE LoopTest BY <1>25 DEF LoopTest, LoopAt
<1>26. CASE WeakUp BY <1>26 DEF WeakUp, LatchUsed
<1>27. CASE NotifyAll BY <1>27 DEF NotifyAll, LatchUsed
<1>28. CASE CloseReturns BY <1>28 DEF CloseReturns
<1> QED
  BY <1>1, <1>2, <1>3, <1>4, <1>5, <1>6, <1>7, <1>8, <1>9, <1>10, <1>11,
     <1>12, <1>13, <1>14, <1>15, <1>16, <1>17, <1>18, <1>19, <1>20, <1>21,
     <1>22, <1>23, <1>24, <1>25, <1>26, <1>27, <1>28
     DEF Next, Command, Finish, Functor, Callback, Event

\* Every step of a session without a superfluous start keeps the phases.
LEMMA CleanStep == TypeOK /\ WakeInv /\ CleanInv /\ [Next]_vars => CleanInv'
<1> SUFFICES ASSUME TypeOK, WakeInv, CleanInv, [Next]_vars, ~late' PROVE Clean'
  BY DEF CleanInv
<1>1. ~late
  BY LateStays
<1>2. Clean
  BY <1>1 DEF CleanInv
<1> QED
  BY <1>1, <1>2, CallerPhaseStep, LoopPhaseStep, QueuePhaseStep, DataStep DEF Clean

\* Unless a superfluous start took effect, the phases and the data hold.
LEMMA CleanSession == Spec => [](TypeOK /\ CleanInv)
<1>1. Init => CleanInv
  BY CleanInit DEF CleanInv
<1> QED BY Waking, <1>1, CleanStep, PTL DEF Spec

\* A command reads the reply to its own request and to no other, and returns
\* without an error only when that reply is complete, unless a superfluous
\* start took effect.
THEOREM OwnReplyOnly == Spec => []OwnReply
<1>1. TypeOK /\ CleanInv => OwnReply
  <2> SUFFICES ASSUME TypeOK, CleanInv, ~late PROVE OwnReply
    BY DEF OwnReply
  <2>1. got \subseteq {cmd}
    BY DEF CleanInv, Clean, Data
  <2>2. ASSUME Returned, ~failed PROVE got = {cmd} /\ reply = "whole"
    <3>1. chan = "CLOSED"
      BY <2>2 DEF Returned, CleanInv, Clean, CallerPhase, LoopPhase, Quiet, TypeOK, Values
    <3> QED BY <2>2, <3>1 DEF Returned, CleanInv, Clean, Data
  <2> QED BY <2>1, <2>2 DEF OwnReply
<1> QED BY CleanSession, <1>1, PTL

\* No request reaches the server twice, unless a superfluous start took effect.
THEOREM AskedOnce == Spec => []AtMostOnce
<1>1. CleanInv => AtMostOnce
  BY DEF CleanInv, Clean, Data, AtMostOnce
<1> QED BY CleanSession, <1>1, PTL

\* Unless a superfluous start took effect, no callback touches a returned frame
\* or a stopped loop, nor a dead channel or a dead latch but those that the
\* caller destroyed while the callback that had woken it was still running.
THEOREM Defined == Spec => []NoUndefined
<1>1. CleanInv => NoUndefined
  BY DEF CleanInv, Clean, Data, NoUndefined
<1> QED BY CleanSession, <1>1, PTL

\* That race is the only source: on a schedule where no command returns before
\* the callback that woke it has, and without superfluous starts, nothing
\* undefined happens, with stop() or without.
THEOREM DefinedUnlessOvertaken == Spec => [](~late /\ ~Overtakes => undefined = {})
<1>1. CleanInv => (~late /\ ~Overtakes => undefined = {})
  BY DEF CleanInv, Clean, Data
<1> QED BY CleanSession, <1>1, PTL

\* A command that starts with status -1 succeeds only if the server got its
\* request and answered, unless a superfluous start took effect.
THEOREM SuccessMeansAnswer == Spec => []SuccessIsAnswered
<1>1. TypeOK /\ CleanInv => SuccessIsAnswered
  <2> SUFFICES ASSUME TypeOK, CleanInv, ~late, Returned,
                      Script[cmd].initial = -1, status = 0
               PROVE  asked[cmd] = 1 /\ cmd \in got
    BY DEF SuccessIsAnswered
  <2>1. cmd > 0
    BY DEF Returned
  <2>2. got # {}
    BY <2>1 DEF CleanInv, Clean, Data
  <2> QED BY <2>1, <2>2 DEF CleanInv, Clean, Data
<1> QED BY CleanSession, <1>1, PTL
=============================================================================
