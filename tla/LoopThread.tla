----------------------------- MODULE LoopThread -----------------------------
(***************************************************************************)
(* What EventLoopThread promises to one user: a thread that comes up once, *)
(* while start() is called, ends while stop() or the destructor is called, *)
(* and does neither by itself; start() returns when it is up, stop() and   *)
(* the destructor when it is not.                                          *)
(***************************************************************************)
VARIABLES call,   \* the call its user is in
          phase   \* of the thread

vars == <<call, phase>>

Init == call = "none" /\ phase = "down"

Call(o) == call = "none" /\ call' = o /\ UNCHANGED phase

ComesUp      == call = "start" /\ phase = "down" /\ phase' = "up" /\ UNCHANGED call
StartReturns == call = "start" /\ phase = "up" /\ call' = "none" /\ UNCHANGED phase
Ends         == call = "stop" /\ phase = "up" /\ phase' = "ended" /\ UNCHANGED call
StopReturns  == call = "stop" /\ phase # "up" /\ call' = "none" /\ UNCHANGED phase

Next == (\E o \in {"start", "stop"} : Call(o)) \/ ComesUp \/ StartReturns \/ Ends \/ StopReturns

Spec == Init /\ [][Next]_vars
=============================================================================
