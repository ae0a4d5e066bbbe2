-------------------------- MODULE MCCommandLatch --------------------------
(***************************************************************************)
(* CommandLatch on a small instance: two callers, so that notify_all() has *)
(* more than one thread to wake, and the one event-loop thread a client    *)
(* has.                                                                    *)
(***************************************************************************)
EXTENDS CommandLatch
=============================================================================
