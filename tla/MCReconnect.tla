---------------------------- MODULE MCReconnect ----------------------------
(***************************************************************************)
(* Reconnect with three uses of the loop: timers only; a client only; and  *)
(* a client beside one timer.                                              *)
(***************************************************************************)
EXTENDS Reconnect

Budget(timers_, calls, starts, closes, outages, drops, nosockets) ==
  [timers |-> timers_, calls |-> calls, starts |-> starts, closes |-> closes,
   outages |-> outages, drops |-> drops, nosockets |-> nosockets]

MCBudgets == {Budget(2, 3, 0, 0, 0, 0, 0), Budget(0, 0, 2, 1, 1, 2, 1),
              Budget(1, 1, 1, 1, 1, 1, 0)}
MCRepeats == {1, 2, INFINITE}
MCMaxRetries == {3, INFINITE}
=============================================================================
