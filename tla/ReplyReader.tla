---------------------------- MODULE ReplyReader ----------------------------
(***************************************************************************)
(* One conversation with the adb server on one connection, byte by byte:   *)
(* how TCP cuts what the server writes into chunks, what the message       *)
(* callback makes of each chunk, and what libhv's read buffer still holds  *)
(* from the chunk before.                                                  *)
(*                                                                         *)
(* A byte is its position in the stream the server sends, and the texts    *)
(* that a command collects are sequences of such positions, so that a      *)
(* byte that is lost, repeated or misplaced can be seen.  0 is NUL.        *)
(***************************************************************************)
EXTENDS AdbCommands, Sequences, FiniteSets

CONSTANTS Cases,      \* the conversations: command, answer, length of the
                      \* payload, and delivery
          BufSize     \* bound: the size of libhv's read buffer

(***************************************************************************)
(* What a chunk can be:                                                    *)
(*   writes     every write of the server arrives as one chunk             *)
(*   coalesced  a chunk is one or more writes                              *)
(*   any        a chunk ends anywhere, as TCP allows                       *)
(***************************************************************************)
Deliveries == {"writes", "coalesced", "any"}

(***************************************************************************)
(* What the server says to the request (FAIL: no such device or command)   *)
(* and, after OKAY, to the service request that follows a host:transport.  *)
(***************************************************************************)
Answers == {"OKAY", "FAIL", "noservice"}

\* The conversations fit into the read buffer with a NUL to spare.
ASSUME ReplyAssumption ==
  /\ Cases \subseteq [command : Commands, answer : Answers, payload : Nat,
                delivery : Deliveries]
  /\ BufSize \in Nat /\ \A k \in Cases : k.payload + 16 < BufSize

VARIABLES
  case,       \* the conversation
  read,       \* how many bytes of the stream have been read
  buf,        \* the read buffer of the loop, a function to positions
  status,     \* the local variable of the command
  result,     \* the text the command hands to its caller
  m_error,    \* the error text
  requests    \* how often the service request has been written: once for each
              \* OKAY that is a chunk of its own, also those that are not for it

vars == <<case, read, buf, status, result, m_error, requests>>
---------------------------------------------------------------------------
(***************************************************************************)
(* The server (not part of this repository), as adb_protocol.cpp takes it  *)
(* to be: a status word, a length and a message.  Only the first byte of   *)
(* each write is told apart from the rest.                                 *)
(***************************************************************************)
Word(w) == <<w, "rest", "rest", "rest">>
Text(n) == [i \in 1 .. n |-> IF i = 1 THEN "first" ELSE "rest"]
Framed(n) == Text(4 + n)

TwoStage(k) == k.command.reader # "protocol" /\ k.answer # "FAIL"

\* host:transport is answered OKAY, the service that follows too; the reverse
\* service of the device then sends a framed answer of its own.
Stream(k) ==
  IF ~TwoStage(k)
  THEN Word(IF k.answer = "OKAY" THEN "OKAY" ELSE "FAIL") \o Framed(k.payload)
  ELSE IF k.answer = "noservice" THEN Word("OKAY") \o Word("FAIL") \o Framed(k.payload)
  ELSE IF k.command.reader = "list_reverse"
       THEN Word("OKAY") \o Word("OKAY") \o Word("OKAY") \o Framed(k.payload)
       ELSE Word("OKAY") \o Word("OKAY") \o Text(k.payload)

stream == Stream(case)

\* After the first OKAY the server waits for the service request.
Available == IF TwoStage(case) /\ requests = 0 THEN 4 ELSE Len(stream)

\* The places where a chunk that starts after `read` may end.
EndsWrite(p) == p = Len(stream) \/ stream[p + 1] # "rest"
Ends == {p \in read + 1 .. Available :
           /\ case.delivery # "any" => EndsWrite(p)
           /\ case.delivery = "writes" => \A q \in read + 1 .. p - 1 : ~EndsWrite(q)}

\* What the code sees of a chunk.  strncmp looks at its beginning, the strstr
\* of list_reverse everywhere.
Chunk(to) ==
  LET n     == to - read
      words == {p \in read + 1 .. to - 3 : stream[p] \in {"OKAY", "FAIL"}}
      seen  == IF case.command.reader = "list_reverse" THEN words ELSE words \cap {read + 1}
  IN  [size |-> IF n < 4 THEN "short" ELSE IF n = 4 THEN "word" ELSE "long",
       head |-> IF \E p \in seen : stream[p] = "OKAY" THEN "OKAY"
                ELSE IF seen # {} THEN "FAIL" ELSE "other"]
---------------------------------------------------------------------------
(***************************************************************************)
(* The message callback                                                    *)
(***************************************************************************)
\* libhv reads the chunk to the beginning of its buffer.
Filled(to) == [i \in 1 .. BufSize |-> IF i <= to - read THEN read + i ELSE buf[i]]

\* Mutant: a callback without memset.
ClearedNot(b, n) == b

\* memset(buf->data(), 0, buf->size())
Cleared(b, n) == [i \in 1 .. BufSize |-> IF i <= n THEN 0 ELSE b[i]]

\* std::string(data + cursor): up to the first NUL, wherever that is.
CString(b, cursor) ==
  LET tail == [i \in 1 .. BufSize - cursor |-> b[cursor + i]]
      nul  == CHOOSE i \in 1 .. Len(tail) + 1 :
                /\ i = Len(tail) + 1 \/ tail[i] = 0
                /\ \A j \in 1 .. i - 1 : tail[j] # 0
  IN  SubSeq(tail, 1, nul - 1)

\* What becomes of a text, by command: see AdbCommands.
Kept(text) == CASE case.command.keeps = "appends"  -> result \o text
                [] case.command.keeps = "replaces" -> text
                [] case.command.keeps = "parses"   -> IF text = <<>> THEN result ELSE text
                [] case.command.keeps = "drops"    -> result

Init == /\ case \in Cases
        /\ read = 0
        /\ buf = [i \in 1 .. BufSize |-> 0]
        /\ status = case.command.initial
        /\ result = <<>> /\ m_error = <<>>
        /\ requests = 0

\* screencap copies the bytes of the chunk, the others read a C string.
OnRead(to) ==
  LET r    == Reading(case.command.reader, Chunk(to), status)
      text == IF case.command.reader = "screencap"
              THEN [i \in 1 .. to - read |-> read + i] ELSE CString(Filled(to), r.cursor)
  IN  /\ read' = to
      /\ status' = r.status
      /\ result' = IF r.sink = "result" THEN Kept(text) ELSE result
      /\ m_error' = IF r.sink = "error" THEN m_error \o text ELSE m_error
      /\ requests' = IF r.writes THEN requests + 1 ELSE requests
      /\ buf' = Cleared(Filled(to), to - read)
      /\ UNCHANGED case

Next == \E to \in Ends : OnRead(to)

Spec == Init /\ [][Next]_vars

\* TCP delivers what the server has written.
FairSpec == Spec /\ WF_vars(Next)
---------------------------------------------------------------------------
TypeOK == /\ case \in Cases
          /\ read \in 0 .. Len(stream)
          /\ buf \in [1 .. BufSize -> {0}]
          /\ status \in Statuses
          /\ result \in Seq(1 .. read) /\ m_error \in Seq(1 .. read)
          /\ requests \in 0 .. 3

Done == read = Len(stream)

Message == [i \in 1 .. case.payload |-> Len(stream) - case.payload + i]

(***************************************************************************)
(* The layout that adb_protocol.cpp documents: when the server has said    *)
(* everything and its answer is OKAY, the command succeeds and its caller  *)
(* has the message, whole, once, in order and without the status words and *)
(* the length around it.                                                   *)
(***************************************************************************)
LayoutIsRead ==
  Done /\ case.answer = "OKAY"
    => status = 0 /\ result = IF case.command.keeps = "drops" THEN <<>> ELSE Message

(***************************************************************************)
(* This holds when each write arrives as one chunk, and for the services   *)
(* of the host also when writes arrive together.  (screencap takes four    *)
(* bytes of image data for a status word, but an image is longer.)         *)
(***************************************************************************)
Orderly == /\ \/ case.delivery = "writes"
              \/ case.delivery = "coalesced" /\ case.command.reader = "protocol"
           /\ case.command.reader = "screencap" => case.payload # 4
ReplyIsMessage == Orderly => LayoutIsRead

(***************************************************************************)
(* A command whose request, or whose service, the server has refused       *)
(* returns -1.                                                             *)
(***************************************************************************)
FailIsReported == Done /\ case.answer # "OKAY" => status = -1

(***************************************************************************)
(* However TCP cuts the stream, no byte of an earlier chunk is read again  *)
(* out of the buffer: the texts hold each byte at most once, in order.     *)
(* (The code reads C strings, past the end of the chunk.)                  *)
(***************************************************************************)
Increasing(s) == \A i \in 2 .. Len(s) : s[i - 1] < s[i]
NoStaleText == Increasing(result) /\ Increasing(m_error)

(***************************************************************************)
(* The client and the server do not wait for each other: the conversation  *)
(* gets to its end, unless TCP cuts a write.                               *)
(***************************************************************************)
ConversationEnds == (case.delivery # "any") ~> Done
=============================================================================
