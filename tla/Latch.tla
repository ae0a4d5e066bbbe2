------------------------------- MODULE Latch -------------------------------
(***************************************************************************)
(* What AdbCommand promises to the threads that wait for a command: a      *)
(* binary latch.  A caller that is not waiting may clear it, anybody may   *)
(* raise it, and a waiting caller leaves only while it is raised.          *)
(*                                                                         *)
(* CommandLatch (a mutex, a condition variable and an int) implements this *)
(* module, and CommandSession relies on it: weak_up() and the end of       *)
(* waits() are single steps there.                                         *)
(***************************************************************************)
EXTENDS Naturals

CONSTANT Waiters        \* the threads that may wait on the latch

VARIABLES flag,         \* 1 when the latch is raised, 0 when it is cleared
          waiting       \* the threads that wait

vars == <<flag, waiting>>

Init == /\ flag = 0
        /\ waiting = {}

Clear(t) == /\ t \notin waiting
            /\ flag' = 0
            /\ UNCHANGED waiting

Raise == /\ flag' = 1
         /\ UNCHANGED waiting

Arrive(t) == /\ t \notin waiting
             /\ waiting' = waiting \cup {t}
             /\ UNCHANGED flag

Leave(t) == /\ t \in waiting
            /\ flag = 1
            /\ waiting' = waiting \ {t}
            /\ UNCHANGED flag

Next == \/ Raise
        \/ \E t \in Waiters : Clear(t) \/ Arrive(t) \/ Leave(t)

Spec == Init /\ [][Next]_vars
=============================================================================
