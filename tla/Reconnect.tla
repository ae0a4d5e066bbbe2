------------------------------ MODULE Reconnect ------------------------------
(***************************************************************************)
(* A TcpClient that reconnects (setReconnect), on an event loop with       *)
(* timers: startConnect, startReconnect, closesocket and the callbacks     *)
(* onconnect and onclose of its channel.  Each close arms a timer whose    *)
(* callback is startConnect().  The channel, the setting and the timers    *)
(* are used on the loop thread only; start() and closesocket() are called  *)
(* on another one.  Other users may have timers on the same loop.          *)
(***************************************************************************)
EXTENDS EventLoopTimers, FiniteSets

CONSTANTS MaxRetries,  \* the values of max_retry_cnt, INFINITE among them
          MaxDelay     \* max_delay in seconds; min_delay is 1, delay_policy 2

\* Bound: cur_retry_cnt is not counted further than this.
CountTo == 6

\* A limit beyond the bound would never be reached.
ASSUME ReconnectAssumption ==
  /\ MaxRetries \subseteq 1 .. CountTo \cup {INFINITE} /\ MaxDelay \in Nat \ {0}
  /\ \A b \in Budgets : /\ b.starts \in Nat /\ b.closes \in Nat /\ b.outages \in Nat
                        /\ b.drops \in Nat /\ b.nosockets \in Nat

VARIABLES
  status,          \* of the channel
  reconn_setting,  \* it is not NULL
  max_retry_cnt, cur_retry_cnt, cur_delay,
  up,              \* external: the server listens
  retries,         \* the timers that are startReconnect's
  ran,             \* history: calls of start() that the loop has run
  row,             \* history: closes since the last connection
  ended            \* history: ::socket failed, or the retries were used up

setting == <<reconn_setting, max_retry_cnt, cur_retry_cnt, cur_delay>>
clientVars == <<status, setting, up, retries, ran, row, ended>>
vars == <<timerVars, clientVars>>

Init == /\ TimersInit
        /\ status = "OPENED"
        /\ reconn_setting = TRUE
        /\ max_retry_cnt \in MaxRetries
        /\ cur_retry_cnt = 0 /\ cur_delay = 0
        /\ up = TRUE
        /\ retries = {} /\ ran = 0 /\ row = 0 /\ ended = FALSE

Spend(what) == budget[what] > 0 /\ budget' = [budget EXCEPT ![what] = @ - 1]
Count(n) == IF n < CountTo THEN n + 1 ELSE n
Live == status \in {"CONNECTING", "CONNECTED"}
---------------------------------------------------------------------------
\* A closed channel gets a new socket, an opened one is connected, and one
\* that is connecting or connected is left alone; or ::socket fails.
startConnect ==
  \/ /\ status' = IF Live THEN status ELSE "CONNECTING"
     /\ UNCHANGED <<budget, ended>>
  \/ /\ status = "CLOSED"
     /\ Spend("nosockets")
     /\ ended' = TRUE
     /\ UNCHANGED status

can_retry == max_retry_cnt = INFINITE \/ cur_retry_cnt + 1 < max_retry_cnt
Delay(d) == IF d = 0 THEN 1 ELSE IF 2 * d > MaxDelay THEN MaxDelay ELSE 2 * d

\* Mutant: setInterval instead of setTimeout.
startReconnectInterval ==
  /\ cur_retry_cnt' = Count(cur_retry_cnt)
  /\ cur_delay' = Delay(cur_delay)
  /\ \E i \in TimerIds : /\ NewId(i)
                         /\ setTimer(i, INFINITE)
                         /\ retries' = retries \cup {i}
  /\ UNCHANGED <<reconn_setting, max_retry_cnt, ended>>

startReconnect ==
  /\ cur_retry_cnt' = Count(cur_retry_cnt)
  /\ IF can_retry
     THEN /\ cur_delay' = Delay(cur_delay)
          /\ \E i \in TimerIds : /\ NewId(i)
                                 /\ setTimer(i, 1)
                                 /\ retries' = retries \cup {i}
          /\ UNCHANGED ended
     ELSE ended' = TRUE /\ UNCHANGED <<cur_delay, book, retries>>
  /\ UNCHANGED <<reconn_setting, max_retry_cnt>>
---------------------------------------------------------------------------
(***************************************************************************)
(* The user: start() of a client whose loop runs, and closesocket().       *)
(***************************************************************************)
Start == /\ Spend("starts")
         /\ Post(Functor("start", 0, 0))
         /\ UNCHANGED <<book, current, history, clientVars>>

CloseSocket == /\ Spend("closes")
               /\ Post(Functor("close", 0, 0))
               /\ UNCHANGED <<book, current, history, clientVars>>
---------------------------------------------------------------------------
(***************************************************************************)
(* The loop thread                                                         *)
(***************************************************************************)
Take(op) == /\ current = 0 /\ customEvents # <<>> /\ Head(customEvents).op = op
            /\ customEvents' = Tail(customEvents)

RunStartConnect == /\ Take("start")
                   /\ startConnect
                   /\ ran' = ran + 1
                   /\ UNCHANGED <<book, current, history, setting, up, retries, row>>

\* setReconnect(NULL), then close(), whose onclose finds no setting.
RunCloseSocket ==
  /\ Take("close")
  /\ reconn_setting' = FALSE
  /\ status' = "CLOSED"
  /\ UNCHANGED <<book, current, budget, history, max_retry_cnt, cur_retry_cnt, cur_delay,
                 up, retries, ran, row, ended>>

\* A reconnect timer: onTimer, with startConnect() as its callback.
Retry(i) ==
  /\ i \in retries
  /\ Expire(i)
  /\ IF timers[i] = 1
     THEN timers' = Without(timers, i) /\ retries' = retries \ {i}
     ELSE timers' = Put(timers, i, Less(timers[i])) /\ UNCHANGED retries
  /\ startConnect
  /\ UNCHANGED <<customEvents, current, history, setting, up, ran, row>>

\* Mutant: the count of retries goes on.
OnConnectKeeps ==
  /\ current = 0 /\ status = "CONNECTING" /\ up
  /\ status' = "CONNECTED"
  /\ row' = 0
  /\ UNCHANGED <<timerVars, setting, up, retries, ran, ended>>

\* onconnect, with reconn_setting_reset.
OnConnect ==
  /\ current = 0 /\ status = "CONNECTING" /\ up
  /\ status' = "CONNECTED"
  /\ row' = 0
  /\ IF reconn_setting THEN cur_retry_cnt' = 0 /\ cur_delay' = 0
                       ELSE UNCHANGED <<cur_retry_cnt, cur_delay>>
  /\ UNCHANGED <<timerVars, reconn_setting, max_retry_cnt, up, retries, ran, ended>>

\* Nobody listens, the connect fails for another reason, or the peer closes.
Fails == \/ status = "CONNECTING" /\ ~up /\ UNCHANGED budget
         \/ Live /\ Spend("drops")

\* Mutant: it does not look whether there is a setting.
OnCloseAlways ==
  /\ current = 0 /\ Fails
  /\ status' = "CLOSED" /\ row' = Count(row)
  /\ startReconnect
  /\ UNCHANGED <<customEvents, current, history, up, ran>>

\* Mutant: only a connection that was established is reopened.
OnCloseConnectedOnly ==
  /\ current = 0 /\ Fails
  /\ status' = "CLOSED" /\ row' = Count(row)
  /\ IF reconn_setting /\ status = "CONNECTED"
     THEN startReconnect ELSE UNCHANGED <<setting, book, retries, ended>>
  /\ UNCHANGED <<customEvents, current, history, up, ran>>

\* on_close and onclose.
OnClose ==
  /\ current = 0 /\ Fails
  /\ status' = "CLOSED" /\ row' = Count(row)
  /\ IF reconn_setting THEN startReconnect ELSE UNCHANGED <<setting, book, retries, ended>>
  /\ UNCHANGED <<customEvents, current, history, up, ran>>
---------------------------------------------------------------------------
(***************************************************************************)
(* External: the server                                                    *)
(***************************************************************************)
ServerStops == /\ up
               /\ Spend("outages")
               /\ up' = FALSE
               /\ UNCHANGED <<customEvents, book, current, history, status, setting, retries,
                              ran, row, ended>>
ServerListens == /\ ~up
                 /\ up' = TRUE
                 /\ UNCHANGED <<timerVars, status, setting, retries, ran, row, ended>>
---------------------------------------------------------------------------
UserTimer(i) == i \notin retries /\ OnTimer(i) /\ UNCHANGED clientVars
TimerFunctor == RunTimerFunctor /\ UNCHANGED clientVars
CallbackDone == TimerDone /\ UNCHANGED clientVars
Sets(inside, repeat) == UserSets(inside, repeat) /\ UNCHANGED clientVars
Calls(inside, op, i) == UserCalls(inside, op, i) /\ UNCHANGED clientVars

Due(i) == UserTimer(i) \/ Retry(i)
RunFunctor == TimerFunctor \/ RunStartConnect \/ RunCloseSocket

Next ==
  \/ \E inside \in BOOLEAN, repeat \in Repeats : Sets(inside, repeat)
  \/ \E inside \in BOOLEAN, op \in {"kill", "reset"}, i \in TimerIds : Calls(inside, op, i)
  \/ \E i \in TimerIds : Due(i)
  \/ RunFunctor \/ CallbackDone
  \/ Start \/ CloseSocket
  \/ OnConnect \/ OnClose
  \/ ServerStops \/ ServerListens

Spec == Init /\ [][Next]_vars

(***************************************************************************)
(* The loop runs: in every turn it takes the events that are pending and   *)
(* the timers that are due, so none is passed over for ever (SF), and a    *)
(* callback ends.  A connect is decided, and a server that is down comes   *)
(* back.  Nobody needs to call anything.                                   *)
(***************************************************************************)
FairSpec ==
  /\ Spec
  /\ SF_vars(RunFunctor)
  /\ \A i \in TimerIds : SF_vars(Due(i))
  /\ SF_vars(OnConnect) /\ WF_vars(CallbackDone)
  /\ WF_vars(ServerListens)
---------------------------------------------------------------------------
TypeOK ==
  /\ TimersTypeOK
  /\ status \in {"OPENED", "CONNECTING", "CONNECTED", "CLOSED"}
  /\ reconn_setting \in BOOLEAN /\ max_retry_cnt \in MaxRetries
  /\ cur_retry_cnt \in 0 .. CountTo /\ cur_delay \in 0 .. MaxDelay
  /\ retries \subseteq DOMAIN timers \ issued
  /\ ran \in Nat /\ row \in 0 .. CountTo
  /\ {up, ended} \subseteq BOOLEAN

(***************************************************************************)
(* Reconnecting does not multiply by itself: the connection that is open   *)
(* or under way and the armed reconnect timers are together no more than   *)
(* the calls of start() that have been run.                                *)
(***************************************************************************)
OneChainPerStart == Cardinality(retries) + (IF Live THEN 1 ELSE 0) <= ran

(***************************************************************************)
(* A client that was started and is to reconnect is connected, connecting  *)
(* or has a timer armed, until ::socket fails or its retries are used up.  *)
(***************************************************************************)
StillTrying == ran > 0 /\ reconn_setting /\ ~ended => Live \/ retries # {}

(***************************************************************************)
(* "reconnect: 1,2,4,8,10,10,10..." (main.cpp, where max_delay is 10): the *)
(* delay after the n-th close in a row, whichever timer or start led to    *)
(* it, is doubled each time up to max_delay; and no delay is waited for    *)
(* once max_retry_cnt is reached.  (Closes beyond the bound on the count   *)
(* are told apart only if max_delay is reached before.)                    *)
(***************************************************************************)
Doubled == <<1, 2, 4, 8, 16, 32>>
Said(n) == IF Doubled[n] < MaxDelay THEN Doubled[n] ELSE MaxDelay
BacksOff ==
    /\ row > 0 /\ reconn_setting /\ row < max_retry_cnt
    /\ row < CountTo \/ MaxDelay <= Doubled[CountTo]
  => cur_delay = Said(row)

\* The client gets its connection back when the server does.
KeepsTrying ==
  (ran > 0 /\ reconn_setting) ~> (status = "CONNECTED" \/ ended \/ ~reconn_setting)

(***************************************************************************)
(* After closesocket() nothing is armed again, and what is armed runs out: *)
(* each timer opens the connection once more at most.  (It may do so: a    *)
(* timer that is armed survives closesocket().)                            *)
(***************************************************************************)
ClosedRunsOut ==
  [][~reconn_setting =>
       /\ retries' \subseteq retries
       /\ ~Live /\ Live' => retries' # retries \/ ran' = ran + 1]_vars
=============================================================================
