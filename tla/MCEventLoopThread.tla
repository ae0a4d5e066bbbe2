------------------------- MODULE MCEventLoopThread -------------------------
(***************************************************************************)
(* EventLoopThread with five calls: a start, a second start or stop that   *)
(* must do nothing, a stop, another one, and the destructor.               *)
(***************************************************************************)
EXTENDS EventLoopThread
=============================================================================
