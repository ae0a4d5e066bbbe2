----------------------------- MODULE DeviceList -----------------------------
(***************************************************************************)
(* The lists of devices: string_split, unique_spaces, get_lines_from_buf   *)
(* and get_device_info_from_buf, and the way get_devices and               *)
(* get_devices_with_path collect the text that these read, through         *)
(* read_protocol_string.  A text is a sequence of characters; words are as *)
(* short as they can be.                                                   *)
(*                                                                         *)
(* The server formats a list of devices; its reply arrives in chunks, cut  *)
(* anywhere.  read_protocol_string looks for the status and the length in  *)
(* each of them, so that most cuts cost four characters of the text or     *)
(* more: `torn` tells the others from these.  get_devices_with_path        *)
(* removes repeated spaces from all it has after each chunk, get_devices   *)
(* leaves the text as it is.                                               *)
(***************************************************************************)
EXTENDS Integers, Sequences, SequencesExt

CONSTANTS Chars,                \* the characters of the texts
          Devices,              \* the devices that a list may have
          MaxDevices,           \* bound: how many devices a list has
          MaxChunks             \* bound: in how many chunks a reply arrives

\* The characters that a list has besides those of the serials and the ids.
FormatChars == {" ", "\t", "\n", ":"} \cup {"d", "o", "n", "p", "m", "t", "q", "r", "s"}

\* The characters of the header of a reply.
HeaderChars == {"O", "K", "A", "Y", "0"}

\* External: at least one space follows a serial in the long format (pad).
ASSUME ListAssumption ==
  /\ FormatChars \cup HeaderChars \subseteq Chars
  /\ Devices \subseteq [serial : Seq(Chars), pad : Nat \ {0},
                       state : {"kCsDevice", "kCsOffline", "kCsNoPerm"}, id : Seq(Chars)]
  /\ MaxDevices \in Nat /\ MaxChunks \in Nat

\* External: serials and ids are words, an id has no colon either.
ASSUME FormatAssumption ==
  \A d \in Devices :
    /\ \A i \in 1 .. Len(d.serial) : d.serial[i] \notin {" ", "\t", "\n"}
    /\ \A i \in 1 .. Len(d.id) : d.id[i] \notin {" ", "\t", "\n", ":"}

VARIABLES listed,        \* the devices the server lists
          long,          \* it was asked with devices-l
          arrived,       \* how many characters of the reply have arrived
          chunks,        \* in how many chunks
          status,        \* the local status of the command
          m_error,
          devices_list,  \* the string of the command
          collected,     \* history: what read_protocol_string has appended to it
          torn           \* history: the reply was cut where characters get lost

vars == <<listed, long, arrived, chunks, status, m_error, devices_list, collected, torn>>
---------------------------------------------------------------------------
(***************************************************************************)
(* utils.cpp                                                               *)
(***************************************************************************)
\* Mutant: the idiom `while (getline(...))`, which yields no empty last word.
string_split_nonempty(str, delimiter) ==
  LET words == FoldLeft(LAMBDA res, c :
                          IF c = delimiter THEN Append(res, <<>>)
                          ELSE Append(Front(res), Append(Last(res), c)),
                        << <<>> >>, str)
  IN  IF Last(words) = <<>> THEN Front(words) ELSE words

\* getline() until the end: one word more than there are delimiters.
string_split(str, delimiter) ==
  LET res[n \in 0 .. Len(str)] ==
        IF n = 0 THEN << <<>> >>
        ELSE LET words == res[n - 1]
             IN  IF str[n] = delimiter THEN Append(words, <<>>)
                 ELSE Append(Front(words), Append(Last(words), str[n]))
  IN  res[Len(str)]

unique_spaces(str) ==
  LET res[n \in 0 .. Len(str)] ==
        IF n = 0 THEN <<>>
        ELSE LET text == res[n - 1]
             IN  IF str[n] = " " /\ text # <<>> /\ Last(text) = " " THEN text
                 ELSE Append(text, str[n])
  IN  res[Len(str)]

\* Mutant: the last piece is kept, whether it is a line or not.
get_all_lines(lines, buf) == lines \o string_split(buf, "\n")

\* What follows the last newline is dropped.
get_lines_from_buf(lines, buf) == lines \o Front(string_split(buf, "\n"))

Digit == [c \in {"0", "1", "2"} |-> CASE c = "0" -> 0 [] c = "1" -> 1 [] c = "2" -> 2]
atoi(str) == FoldLeft(LAMBDA n, c : 10 * n + Digit[c], 0, str)

DeviceInfo == [serial |-> <<>>, state |-> <<>>, product |-> <<>>, model |-> <<>>,
               device |-> <<>>, transport_id |-> -1]

OutOfRange == "out of range"
HasValue(word) == Len(string_split(word, ":")) > 1
Value(word) == string_split(word, ":")[2]

\* A line of more than three words must have six, the last four with a colon,
\* one of two or three words is short.
Info(words) ==
  IF Len(words) = 1 \/ Len(words) \in {4, 5} THEN OutOfRange
  ELSE IF Len(words) <= 3
  THEN [DeviceInfo EXCEPT !.serial = words[1], !.state = words[2]]
  ELSE IF \E i \in 3 .. 6 : ~HasValue(words[i]) THEN OutOfRange
  ELSE [serial |-> words[1], state |-> words[2],
        product |-> Value(words[3]), model |-> Value(words[4]),
        device |-> Value(words[5]), transport_id |-> atoi(Value(words[6]))]

\* One line: a tab becomes a space.
DeviceOf(line) == Info(string_split(ReplaceFirstSubSeq(<<" ">>, <<"\t">>, line), " "))

get_device_info_from_buf(devices, buf) ==
  LET lines == Front(string_split(buf, "\n"))
  IN  devices \o [i \in DOMAIN lines |-> DeviceOf(lines[i])]
---------------------------------------------------------------------------
(***************************************************************************)
(* The server, and the command that collects its list                      *)
(***************************************************************************)
state_to_string == [kCsDevice |-> <<"d">>, kCsOffline |-> <<"o">>,
                    kCsNoPerm |-> <<"n", " ", "p">>]

\* External: the two formats.  The serial is padded with spaces in the long one.
Line(d, l) ==
  LET field(key, value) == <<" ", key, ":">> \o value
      state == state_to_string[d.state]
  IN  IF l THEN d.serial \o [i \in 1 .. d.pad |-> " "] \o state
                \o field("p", <<"q">>) \o field("m", <<"r">>) \o field("d", <<"s">>)
                \o field("t", d.id) \o <<"\n">>
           ELSE d.serial \o <<"\t">> \o state \o <<"\n">>

Text == FlattenSeq([i \in DOMAIN listed |-> Line(listed[i], long)])

\* External: what the list says.
Said(d) == IF long
           THEN [serial |-> d.serial, state |-> state_to_string[d.state],
                 product |-> <<"q">>, model |-> <<"r">>, device |-> <<"s">>,
                 transport_id |-> atoi(d.id)]
           ELSE [DeviceInfo EXCEPT !.serial = d.serial, !.state = state_to_string[d.state]]

\* External: the reply.  The four digits of the length are never read.
Stream == <<"O", "K", "A", "Y">> \o <<"0", "0", "0", "0">> \o Text

Init == /\ listed \in BoundedSeq(Devices, MaxDevices)
        /\ long \in BOOLEAN
        /\ arrived = 0 /\ chunks = 0
        /\ status = IF long THEN -1 ELSE 0
        /\ m_error = <<>> /\ devices_list = <<>>
        /\ collected = <<>> /\ torn = FALSE

\* What the function appends to its result and to its error.  The buffer is NUL
\* behind the chunk, so that a short one yields nothing after its header.
read_protocol_string(chunk) ==
  LET word == SubSeq(chunk, 1, 4)
      answer(st, result, error) == [status |-> st, result |-> result, error |-> error]
  IN  IF Len(chunk) < 4 THEN answer(0, chunk, <<>>)
      ELSE IF word = <<"F", "A", "I", "L">> THEN answer(-1, <<>>, SubSeq(chunk, 9, Len(chunk)))
      ELSE IF word = <<"O", "K", "A", "Y">> THEN answer(0, SubSeq(chunk, 9, Len(chunk)), <<>>)
      ELSE answer(0, SubSeq(chunk, 5, Len(chunk)), <<>>)

\* A chunk that ends at n costs no character of the text: the header, whole or in
\* two words, and after it at most three characters at a time.
Harmless(n) == \/ arrived = 0 /\ (n = 4 \/ n >= 8)
               \/ arrived = 4 /\ n >= 8
               \/ arrived >= 8 /\ n - arrived < 4

\* Mutant: the spaces are removed from the new piece only.
ReceiveCleansChunk(n) ==
  /\ arrived < n /\ n <= Len(Stream) /\ chunks < MaxChunks
  /\ arrived' = n /\ chunks' = chunks + 1
  /\ LET r == read_protocol_string(SubSeq(Stream, arrived + 1, n))
     IN  /\ status' = r.status
         /\ m_error' = m_error \o r.error
         /\ devices_list' = devices_list \o (IF long THEN unique_spaces(r.result) ELSE r.result)
         /\ collected' = collected \o r.result
  /\ torn' = (torn \/ ~Harmless(n))
  /\ UNCHANGED <<listed, long>>

\* The message callback takes the characters up to n.
Receive(n) ==
  /\ arrived < n /\ n <= Len(Stream) /\ chunks < MaxChunks
  /\ arrived' = n /\ chunks' = chunks + 1
  /\ LET r == read_protocol_string(SubSeq(Stream, arrived + 1, n))
         text == devices_list \o r.result
     IN  /\ status' = r.status
         /\ m_error' = m_error \o r.error
         /\ devices_list' = IF long /\ r.status # -1 THEN unique_spaces(text) ELSE text
         /\ collected' = collected \o r.result
  /\ torn' = (torn \/ ~Harmless(n))
  /\ UNCHANGED <<listed, long>>

Next == \E n \in 1 .. Len(Stream) : Receive(n)

Spec == Init /\ [][Next]_vars
---------------------------------------------------------------------------
\* A text as the command leaves it.
Cleaned(text) == IF long THEN unique_spaces(text) ELSE text

(***************************************************************************)
(* A reply that was cut at harmless places only: the list that the program *)
(* ends up with is the list the server has sent.                           *)
(***************************************************************************)
ParsedBack ==
  ~torn /\ arrived = Len(Stream) =>
    get_device_info_from_buf(<<>>, devices_list) = [i \in DOMAIN listed |-> Said(listed[i])]

(***************************************************************************)
(* Wherever the reply was cut: removing the spaces after each chunk that   *)
(* is not taken for a failure gives the same as removing them once from    *)
(* all that was collected.                                                 *)
(***************************************************************************)
CleanedOnce == devices_list = Cleaned(collected)

(***************************************************************************)
(* A reply cut at harmless places that breaks off (the connection is lost) *)
(* yields whole lines only ("pop null"): those that the complete text      *)
(* begins with.                                                            *)
(***************************************************************************)
WholeLines ==
  ~torn => IsPrefix(get_lines_from_buf(<<>>, devices_list),
                    get_lines_from_buf(<<>>, Cleaned(Text)))
=============================================================================
