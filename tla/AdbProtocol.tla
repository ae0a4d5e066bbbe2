---------------------------- MODULE AdbProtocol ----------------------------
(***************************************************************************)
(* How the message callbacks read what the adb server sends.  The code     *)
(* looks at one TCP chunk at a time and distinguishes only its size        *)
(* (shorter than, equal to or longer than the four bytes of a status word) *)
(* and whether its first four bytes are OKAY, FAIL or something else       *)
(* (list_reverse looks for OKAY in the whole chunk).                       *)
(*                                                                         *)
(* A reading of a chunk is a record:                                       *)
(*   status  what the callback stores in the command's local `status`      *)
(*   cursor  how many bytes of the chunk are skipped                       *)
(*   sink    where the rest goes: "result", "error" or "none"              *)
(*   writes  whether the service request is written to the connection      *)
(***************************************************************************)
EXTENDS Integers

Chunks == {c \in [size : {"short", "word", "long"}, head : {"OKAY", "FAIL", "other"}] :
             c.size = "short" => c.head = "other"}

Statuses == {0, -1}

\* Mutant: the length field is not skipped.
ProtocolKeepsLength(c) ==
  [status |-> IF c.head = "FAIL" THEN -1 ELSE 0,
   cursor |-> IF c.size # "long" \/ c.head = "other" THEN 0 ELSE 4,
   sink   |-> IF c.size = "word" THEN "none"
              ELSE IF c.head = "FAIL" THEN "error" ELSE "result",
   writes |-> FALSE]

read_protocol_string(c) ==
  [status |-> IF c.head = "FAIL" THEN -1 ELSE 0,
   cursor |-> IF c.size # "long" THEN 0 ELSE IF c.head = "other" THEN 4 ELSE 8,
   sink   |-> IF c.size = "word" THEN "none"
              ELSE IF c.head = "FAIL" THEN "error" ELSE "result",
   writes |-> FALSE]

\* Mutant: a status word alone is taken to be too short.
TransportWantsMore(c) == [status |-> 0, cursor |-> 0, sink |-> "none",
                          writes |-> c.size = "long" /\ c.head = "OKAY"]

\* Only a chunk that is exactly the status word is looked at; whatever follows
\* it, the error message of a FAIL included, makes the status 0 again.
respond_transport_command(c) ==
  [status |-> IF c.size = "word" /\ c.head = "FAIL" THEN -1 ELSE 0,
   cursor |-> 0,
   sink   |-> "none",
   writes |-> c.size = "word" /\ c.head = "OKAY"]

\* The callback of shell keeps each chunk that does not begin with OKAY.
shell_reader(c) ==
  LET r == respond_transport_command(c)
  IN  [r EXCEPT !.sink = IF r.status # -1 /\ c.head # "OKAY" THEN "result" ELSE "none"]

\* The callback of list_reverse.
list_reverse_reader(c) ==
  LET r == respond_transport_command(c)
  IN  IF r.status = -1 THEN r
      ELSE [r EXCEPT !.sink = "result", !.cursor = IF c.head = "OKAY" THEN 8 ELSE 4]

\* The callback of screencap: strcmp(..., "FAIL") without "== 0", so a chunk
\* FAIL leaves the status alone and any other four bytes make it -1.
screencap_reader(c, status) ==
  [status |-> IF c.size # "word" THEN status
              ELSE CASE c.head = "OKAY"  -> 0
                     [] c.head = "FAIL"  -> status
                     [] c.head = "other" -> -1,
   cursor |-> 0,
   sink   |-> IF c.size = "word" THEN "none" ELSE "result",
   writes |-> c.size = "word" /\ c.head = "OKAY"]

Readers == {"protocol", "transport", "shell", "list_reverse", "screencap"}

\* The reading of chunk c by the callback of a command whose local status is
\* `status`.
Reading(reader, c, status) ==
  CASE reader = "protocol"     -> read_protocol_string(c)
    [] reader = "transport"    -> respond_transport_command(c)
    [] reader = "shell"        -> shell_reader(c)
    [] reader = "list_reverse" -> list_reverse_reader(c)
    [] reader = "screencap"    -> screencap_reader(c, status)
=============================================================================
