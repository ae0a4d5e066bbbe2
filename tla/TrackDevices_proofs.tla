------------------------ MODULE TrackDevices_proofs ------------------------
(***************************************************************************)
(* TrackDevices for any number of lists, with the OKAY alone or not, for   *)
(* both callers, and whether the connection can fail or not.               *)
(***************************************************************************)
EXTENDS TrackDevices, TLAPS

\* A callback runs on an open connection and has cleared the text before it
\* appends; before the call there is nothing.
Order ==
  /\ callback # "idle" => connection = "open" /\ received # 0
  /\ callback = "read" => m_tracked_device = <<>>
  /\ connection = "closed" => lost
  /\ pc = "out" => /\ connection = "none" /\ callback = "idle" /\ received = 0
                   /\ m_command_finished = 0 /\ ~reads /\ seen = m_tracked_device

\* On a connection that works nobody is woken before the first list is there,
\* and until the second arrives nothing disturbs a copy of it.
First ==
  ~OkayAlone /\ ~lost =>
    /\ m_command_finished = 1 \/ reads \/ pc \notin {"out", "waits"}
         => received # 0 /\ (received = 1 => callback = "idle")
    /\ received = 1 /\ callback # "read" => m_tracked_device = <<1>>
    /\ received = 1 /\ pc = "copying" => ~torn
    /\ received = 1 /\ reads => seen = <<1>>

\* A list that was replaced during or after its copy has raised the flag, or
\* the callback that replaced it is still to raise it.
Overtaken ==
  /\ pc = "copying" /\ torn /\ callback = "idle" => overtaken
  /\ pc = "resume" /\ callback = "idle" /\ seen # m_tracked_device => overtaken

\* The inductive invariant.
IInv == TypeOK /\ Order /\ First /\ Overtaken /\ StaleOnlyIfOvertaken
---------------------------------------------------------------------------
\* How many chunks there are.
LEMMA TotalNat == Total \in Nat
BY TrackAssumption DEF Total

\* What is read out of a chunk: its list, or nothing.
LEMMA ListsOf ==
  ASSUME NEW n \in 1 .. Total
  PROVE  Lists(n) \in {<<>>, <<n>>} /\ (~OkayAlone => Lists(n) = <<n>>)
BY DEF Lists, Chunk, read_protocol_string

\* Every step keeps the variables well typed.
LEMMA TypeStep == IInv /\ [Next]_vars => TypeOK'
<1> SUFFICES ASSUME IInv, [Next]_vars PROVE TypeOK'
  OBVIOUS
<1> USE TotalNat DEF IInv, TypeOK, Order, Texts, caller, client
<1>1. CASE Track  BY <1>1 DEF Track
<1>2. CASE WaitsReturn  BY <1>2 DEF WaitsReturn
<1>3. CASE CopyBegin  BY <1>3 DEF CopyBegin
<1>4. CASE CopyEnd  BY <1>4 DEF CopyEnd
<1>5. CASE Resume  BY <1>5 DEF Resume
<1>6. CASE OnConnect  BY <1>6 DEF OnConnect
<1>7. CASE RunStartConnect
  <2>1. received' \in 0 .. Total
    BY <1>7 DEF RunStartConnect
  <2> QED BY <1>7, <2>1 DEF RunStartConnect
<1>8. CASE OnRead
  <2>1. received' \in 0 .. Total
    BY <1>8 DEF OnRead
  <2>2. m_tracked_device' \in Texts
    BY <1>8 DEF OnRead
  <2> QED BY <1>8, <2>1, <2>2 DEF OnRead, Torn
<1>9. CASE AppendList
  <2>1. received \in 1 .. Total
    BY <1>9 DEF AppendList
  <2>2. m_tracked_device' \in Texts
    BY <1>9, <2>1, ListsOf DEF AppendList
  <2> QED BY <1>9, <2>2 DEF AppendList, Torn
<1>10. CASE WeakUp  BY <1>10 DEF WeakUp, Wake
<1>11. CASE OnClose  BY <1>11 DEF OnClose, Wake
<1>12. CASE UNCHANGED vars  BY <1>12 DEF vars
<1> QED BY <1>1, <1>2, <1>3, <1>4, <1>5, <1>6, <1>7, <1>8, <1>9, <1>10, <1>11, <1>12
        DEF Next, Caller, Callback

\* Every step keeps the order of the callback.
LEMMA OrderStep == IInv /\ [Next]_vars => Order'
<1> SUFFICES ASSUME IInv, [Next]_vars PROVE Order'
  OBVIOUS
<1> USE DEF IInv, TypeOK, Order, caller, client
<1>1. CASE Track  BY <1>1 DEF Track
<1>2. CASE WaitsReturn  BY <1>2 DEF WaitsReturn
<1>3. CASE CopyBegin  BY <1>3 DEF CopyBegin
<1>4. CASE CopyEnd  BY <1>4 DEF CopyEnd
<1>5. CASE Resume  BY <1>5 DEF Resume
<1>6. CASE OnConnect  BY <1>6 DEF OnConnect
<1>7. CASE RunStartConnect  BY <1>7 DEF RunStartConnect
<1>8. CASE OnRead  BY <1>8 DEF OnRead, Torn
<1>9. CASE AppendList  BY <1>9 DEF AppendList, Torn
<1>10. CASE WeakUp  BY <1>10 DEF WeakUp, Wake
<1>11. CASE OnClose  BY <1>11 DEF OnClose, Wake
<1>12. CASE UNCHANGED vars  BY <1>12 DEF vars
<1> QED BY <1>1, <1>2, <1>3, <1>4, <1>5, <1>6, <1>7, <1>8, <1>9, <1>10, <1>11, <1>12
        DEF Next, Caller, Callback

\* Every step keeps what is known of the first list.
LEMMA FirstStep == IInv /\ [Next]_vars => First'
<1> SUFFICES ASSUME IInv, [Next]_vars PROVE First'
  OBVIOUS
<1> USE DEF IInv, TypeOK, Order, First, caller, client
<1>1. CASE Track  BY <1>1 DEF Track
<1>2. CASE WaitsReturn  BY <1>2 DEF WaitsReturn
<1>3. CASE CopyBegin  BY <1>3 DEF CopyBegin
<1>4. CASE CopyEnd  BY <1>4 DEF CopyEnd
<1>5. CASE Resume  BY <1>5 DEF Resume
<1>6. CASE OnConnect  BY <1>6 DEF OnConnect
<1>7. CASE RunStartConnect  BY <1>7 DEF RunStartConnect
<1>8. CASE OnRead  BY <1>8 DEF OnRead, Torn
<1>9. CASE AppendList  BY <1>9, ListsOf DEF AppendList, Torn
<1>10. CASE WeakUp  BY <1>10 DEF WeakUp, Wake
<1>11. CASE OnClose  BY <1>11 DEF OnClose, Wake
<1>12. CASE UNCHANGED vars  BY <1>12 DEF vars
<1> QED BY <1>1, <1>2, <1>3, <1>4, <1>5, <1>6, <1>7, <1>8, <1>9, <1>10, <1>11, <1>12
        DEF Next, Caller, Callback

\* Every step keeps the record of the wake-ups that are erased.
LEMMA OvertakenStep == IInv /\ [Next]_vars => Overtaken'
<1> SUFFICES ASSUME IInv, [Next]_vars PROVE Overtaken'
  OBVIOUS
<1> USE DEF IInv, TypeOK, Order, Overtaken, caller, client
<1>1. CASE Track  BY <1>1 DEF Track
<1>2. CASE WaitsReturn  BY <1>2 DEF WaitsReturn
<1>3. CASE CopyBegin  BY <1>3 DEF CopyBegin
<1>4. CASE CopyEnd  BY <1>4 DEF CopyEnd
<1>5. CASE Resume  BY <1>5 DEF Resume
<1>6. CASE OnConnect  BY <1>6 DEF OnConnect
<1>7. CASE RunStartConnect  BY <1>7 DEF RunStartConnect
<1>8. CASE OnRead  BY <1>8 DEF OnRead, Torn
<1>9. CASE AppendList  BY <1>9 DEF AppendList, Torn
<1>10. CASE WeakUp  BY <1>10 DEF WeakUp, Wake
<1>11. CASE OnClose  BY <1>11 DEF OnClose, Wake
<1>12. CASE UNCHANGED vars  BY <1>12 DEF vars
<1> QED BY <1>1, <1>2, <1>3, <1>4, <1>5, <1>6, <1>7, <1>8, <1>9, <1>10, <1>11, <1>12
        DEF Next, Caller, Callback

\* Every step keeps a waiting caller up to date, or about to be woken.
LEMMA StaleStep == IInv /\ [Next]_vars => StaleOnlyIfOvertaken'
<1> SUFFICES ASSUME IInv, [Next]_vars PROVE StaleOnlyIfOvertaken'
  OBVIOUS
<1> USE DEF IInv, TypeOK, Order, Overtaken, StaleOnlyIfOvertaken, caller, client
<1>1. CASE Track  BY <1>1 DEF Track
<1>2. CASE WaitsReturn  BY <1>2 DEF WaitsReturn
<1>3. CASE CopyBegin  BY <1>3 DEF CopyBegin
<1>4. CASE CopyEnd  BY <1>4 DEF CopyEnd
<1>5. CASE Resume  BY <1>5 DEF Resume
<1>6. CASE OnConnect  BY <1>6 DEF OnConnect
<1>7. CASE RunStartConnect  BY <1>7 DEF RunStartConnect
<1>8. CASE OnRead  BY <1>8 DEF OnRead, Torn
<1>9. CASE AppendList  BY <1>9 DEF AppendList, Torn
<1>10. CASE WeakUp  BY <1>10 DEF WeakUp, Wake
<1>11. CASE OnClose  BY <1>11 DEF OnClose, Wake
<1>12. CASE UNCHANGED vars  BY <1>12 DEF vars
<1> QED BY <1>1, <1>2, <1>3, <1>4, <1>5, <1>6, <1>7, <1>8, <1>9, <1>10, <1>11, <1>12
        DEF Next, Caller, Callback

\* IInv holds in every reachable state.
THEOREM Invariance == Spec => []IInv
<1>1. Init => IInv
  <2> SUFFICES ASSUME Init PROVE IInv
    OBVIOUS
  <2>1. received \in 0 .. Total
    BY TotalNat DEF Init
  <2>2. TypeOK
    BY <2>1 DEF Init, TypeOK, Texts
  <2>3. Order /\ First /\ Overtaken /\ StaleOnlyIfOvertaken
    BY DEF Init, Order, First, Overtaken, StaleOnlyIfOvertaken
  <2> QED BY <2>2, <2>3 DEF IInv
<1>2. IInv /\ [Next]_vars => IInv'
  BY TypeStep, OrderStep, FirstStep, OvertakenStep, StaleStep DEF IInv
<1> QED BY <1>1, <1>2, PTL DEF Spec

\* The variables are well typed: the text is always empty or one list.
THEOREM TypeCorrect == Spec => []TypeOK
<1>1. IInv => TypeOK
  BY DEF IInv
<1> QED BY <1>1, Invariance, PTL

\* For any number of lists: who is woken first has the first list.
THEOREM FirstListIsSeen == Spec => []FirstListSeen
<1>1. IInv => FirstListSeen
  BY DEF IInv, First, FirstListSeen
<1> QED BY <1>1, Invariance, PTL

\* For any number of lists: a waiting caller has the newest one, will be woken,
\* or resume() has erased its wake-up.
THEOREM StaleMeansOvertaken == Spec => []StaleOnlyIfOvertaken
<1>1. IInv => StaleOnlyIfOvertaken
  BY DEF IInv
<1> QED BY <1>1, Invariance, PTL
=============================================================================
