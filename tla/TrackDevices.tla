---------------------------- MODULE TrackDevices ----------------------------
(***************************************************************************)
(* HostCommand::track_devices.  Unlike the other commands it returns       *)
(* without waiting; the connection stays open and the server sends a list  *)
(* of devices now and whenever it changes.  The message callback replaces  *)
(* m_tracked_device and wakes the caller, which waits, copies the list     *)
(* with get_tracked_devices() and, in the loop of main.cpp, clears the     *)
(* latch with resume() and waits again.                                    *)
(*                                                                         *)
(* Nothing but the latch orders the callback and the caller: the callback  *)
(* may run at any point of the caller's round.  A list is a number, and    *)
(* m_tracked_device a sequence of lists, so that an empty text and two     *)
(* lists in one text can be seen.                                          *)
(***************************************************************************)
EXTENDS AdbProtocol, Sequences

CONSTANTS Updates,     \* bound: how many lists the server sends
          OkayAlone,   \* the OKAY before the first list is a chunk of its own
          Looping,     \* the caller is the loop of main.cpp (TRACK_LOOP)
          CanDrop      \* the connection can fail

ASSUME TrackAssumption == /\ Updates \in Nat
                          /\ {OkayAlone, Looping, CanDrop} \subseteq BOOLEAN

VARIABLES
  pc,          \* where the caller is
  m_command_finished,
  seen,        \* the text that the caller has copied last
  reads,       \* history: whether it has copied one at all
  connection,  \* none, connecting, open or closed
  posted,      \* the startConnect() that start() has posted is in the queue
  received,    \* how many chunks have been read
  callback,    \* where the message callback is
  m_tracked_device,
  lost,        \* history: a connection was refused or lost
  torn,        \* history: the callback wrote the text during the last copy
  overtaken    \* history: a wake-up came between the copy and resume()

caller == <<pc, seen, reads>>
client == <<connection, posted, received, callback, m_tracked_device, lost>>
vars == <<caller, m_command_finished, client, torn, overtaken>>

Init == /\ pc = "out" /\ seen = <<>> /\ reads = FALSE
        /\ m_command_finished = 0
        /\ connection = "none" /\ posted = FALSE /\ received = 0 /\ callback = "idle"
        /\ m_tracked_device = <<>>
        /\ lost = FALSE /\ torn = FALSE /\ overtaken = FALSE

\* The chunks of the server: OKAY and the first list, together or not, then
\* one chunk for each further list.
Chunk(n) == IF n = 1 THEN [size |-> IF OkayAlone THEN "word" ELSE "long", head |-> "OKAY"]
                     ELSE [size |-> "long", head |-> "other"]
Lists(n) == IF read_protocol_string(Chunk(n)).sink = "result" THEN <<n>> ELSE <<>>
Total == IF OkayAlone THEN Updates + 1 ELSE Updates
Texts == {<<>>} \cup {<<n>> : n \in 1 .. Total}
---------------------------------------------------------------------------
(***************************************************************************)
(* The caller                                                              *)
(***************************************************************************)
\* The request is written by startConnect(); start() posts a second one.
Track == /\ pc = "out"
         /\ pc' = "waits"
         /\ m_command_finished' = 0
         /\ connection' = "connecting"
         /\ posted' = TRUE
         /\ UNCHANGED <<seen, reads, received, callback, m_tracked_device, lost, torn, overtaken>>

WaitsReturn == /\ pc = "waits" /\ m_command_finished = 1
               /\ pc' = "copy"
               /\ overtaken' = FALSE
               /\ UNCHANGED <<seen, reads, m_command_finished, client, torn>>

\* get_tracked_devices() copies the string without a lock; a copy that races
\* with a write yields any text.
CopyBegin == /\ pc = "copy"
             /\ pc' = "copying"
             /\ torn' = FALSE
             /\ UNCHANGED <<seen, reads, m_command_finished, client, overtaken>>

CopyEnd == /\ pc = "copying"
           /\ pc' = IF Looping THEN "resume" ELSE "done"
           /\ seen' \in IF torn THEN Texts ELSE {m_tracked_device}
           /\ reads' = TRUE
           /\ UNCHANGED <<m_command_finished, client, torn, overtaken>>

Resume == /\ pc = "resume"
          /\ pc' = "waits"
          /\ m_command_finished' = 0
          /\ UNCHANGED <<seen, reads, client, torn, overtaken>>
---------------------------------------------------------------------------
(***************************************************************************)
(* The loop thread                                                         *)
(***************************************************************************)
OnConnect == /\ connection = "connecting"
             /\ connection' = "open"
             /\ UNCHANGED <<caller, m_command_finished, posted, received, callback,
                            m_tracked_device, lost, torn, overtaken>>

\* The posted startConnect() opens another connection if the first is closed.
RunStartConnect ==
  /\ posted /\ callback = "idle"
  /\ posted' = FALSE
  /\ IF connection = "closed" THEN connection' = "connecting" /\ received' = 0
                              ELSE UNCHANGED <<connection, received>>
  /\ UNCHANGED <<caller, m_command_finished, callback, m_tracked_device, lost, torn, overtaken>>

Torn == torn' = IF pc = "copying" THEN TRUE ELSE torn

\* The flag is raised; resume() will erase a wake-up that comes too early.
Wake == /\ m_command_finished' = 1
        /\ overtaken' = IF pc \in {"copying", "resume"} THEN TRUE ELSE overtaken

\* Mutant: the caller is woken before the new list is there.
OnReadWakesFirst == /\ connection = "open" /\ callback = "idle" /\ received < Total
                    /\ received' = received + 1
                    /\ callback' = "read"
                    /\ m_tracked_device' = <<>>
                    /\ Torn /\ Wake
                    /\ UNCHANGED <<caller, connection, posted, lost>>

\* The message callback: m_tracked_device.clear() ...
OnRead == /\ connection = "open" /\ callback = "idle" /\ received < Total
          /\ received' = received + 1
          /\ callback' = "read"
          /\ m_tracked_device' = <<>>
          /\ Torn
          /\ UNCHANGED <<caller, m_command_finished, connection, posted, lost, overtaken>>

\* ... read_protocol_string appends to it ...
AppendList == /\ callback = "read"
              /\ callback' = "wake"
              /\ m_tracked_device' = m_tracked_device \o Lists(received)
              /\ Torn
              /\ UNCHANGED <<caller, m_command_finished, connection, posted, received,
                             lost, overtaken>>

\* Mutant: the callback does not wake the caller.
WeakUpNot == /\ callback = "wake"
             /\ callback' = "idle"
             /\ UNCHANGED <<caller, m_command_finished, connection, posted, received,
                            m_tracked_device, lost, torn, overtaken>>

\* ... and weak_up().
WeakUp == /\ callback = "wake"
          /\ callback' = "idle"
          /\ Wake
          /\ UNCHANGED <<caller, connection, posted, received, m_tracked_device, lost, torn>>

\* The connection is refused or lost: the connection callback wakes the caller.
OnClose == /\ CanDrop /\ connection \in {"connecting", "open"} /\ callback = "idle"
           /\ connection' = "closed"
           /\ lost' = TRUE
           /\ Wake
           /\ UNCHANGED <<caller, posted, received, callback, m_tracked_device, torn>>
---------------------------------------------------------------------------
Caller == WaitsReturn \/ CopyBegin \/ CopyEnd \/ Resume
Callback == AppendList \/ WeakUp
Next == \/ Track \/ Caller
        \/ OnConnect \/ RunStartConnect \/ OnRead \/ Callback \/ OnClose

Spec == Init /\ [][Next]_vars

\* Both threads run; the server need not send another list.
FairSpec == Spec /\ WF_vars(Caller) /\ WF_vars(Callback)
---------------------------------------------------------------------------
TypeOK ==
  /\ pc \in {"out", "waits", "copy", "copying", "resume", "done"}
  /\ m_command_finished \in {0, 1}
  /\ connection \in {"none", "connecting", "open", "closed"}
  /\ received \in 0 .. Total
  /\ callback \in {"idle", "read", "wake"}
  /\ {seen, m_tracked_device} \subseteq Texts
  /\ {posted, reads, lost, torn, overtaken} \subseteq BOOLEAN

(***************************************************************************)
(* When OKAY and the first list arrive together, the caller that was woken *)
(* has that list, unless the next one is already on its way or the         *)
(* connection was lost: the callback does not wake it before the list is   *)
(* there.                                                                  *)
(***************************************************************************)
FirstListSeen == ~OkayAlone /\ ~lost /\ reads /\ received = 1 => seen = <<1>>

(***************************************************************************)
(* A caller that waits has the newest list, or it will be woken, or a      *)
(* wake-up came after it had begun to copy and resume() has erased it.     *)
(* (The last is a list that the loop of main.cpp misses until the next.)   *)
(***************************************************************************)
StaleOnlyIfOvertaken ==
  pc = "waits" /\ m_command_finished = 0 /\ callback = "idle" /\ seen # m_tracked_device
    => overtaken

(***************************************************************************)
(* A new list is copied, unless the caller stops after the first or        *)
(* resume() erases its wake-up, or it is replaced.                         *)
(***************************************************************************)
ListIsSeen ==
  \A n \in 1 .. Total :
    m_tracked_device = <<n>>
      ~> (seen = <<n>> \/ overtaken \/ pc = "done" \/ m_tracked_device # <<n>>)

(***************************************************************************)
(* What HostCommandTest asserts of the first wake-up on a connection that  *)
(* works: the text is not empty.                                           *)
(***************************************************************************)
TestTracksDevices == pc = "done" /\ ~lost /\ ~torn => seen # <<>>
=============================================================================
