------------------------- MODULE ReplyReader_proofs -------------------------
(***************************************************************************)
(* ReplyReader for every set of conversations: for messages of any length, *)
(* cut by TCP in any way.                                                  *)
(***************************************************************************)
EXTENDS ReplyReader, SequenceTheorems, FiniteSetTheorems, TLAPS

Okays(n) == {p \in 1 .. n : stream[p] = "OKAY"}

\* Why TypeOK bounds `requests`: each stands for an OKAY that was read.
RequestsCounted == requests <= Cardinality(Okays(read))

Safe == TypeOK /\ NoStaleText /\ RequestsCounted
---------------------------------------------------------------------------
(***************************************************************************)
(* The stream                                                              *)
(***************************************************************************)
Bytes == {"OKAY", "FAIL", "first", "rest"}

\* A stream whose OKAYs begin its first three writes at most.
Placed(s) == /\ s \in Seq(Bytes)
             /\ \A p \in 1 .. Len(s) : s[p] = "OKAY" => p \in {1, 5, 9}

LEMMA OneWord ==
  ASSUME NEW w \in {"OKAY", "FAIL"}
  PROVE  Placed(Word(w)) /\ Len(Word(w)) = 4 /\ \A p \in 2 .. 4 : Word(w)[p] # "OKAY"
BY DEF Placed, Word, Bytes

LEMMA AddWord ==
  ASSUME NEW s, Placed(s), Len(s) \in {4, 8}, NEW w \in {"OKAY", "FAIL"}
  PROVE  Placed(s \o Word(w)) /\ Len(s \o Word(w)) = Len(s) + 4
<1> DEFINE t == Word(w)
<1>1. t \in Seq(Bytes) /\ Len(t) = 4 /\ \A p \in 2 .. 4 : t[p] # "OKAY"
  BY OneWord DEF Placed
<1> HIDE DEF t
<1>2. /\ s \o t \in Seq(Bytes) /\ Len(s \o t) = Len(s) + 4
      /\ \A i \in 1 .. Len(s) + 4 : (s \o t)[i] = IF i <= Len(s) THEN s[i] ELSE t[i - Len(s)]
  <2>1. s \in Seq(Bytes)
    BY DEF Placed
  <2>2. /\ s \o t \in Seq(Bytes) /\ Len(s \o t) = Len(s) + Len(t)
        /\ \A i \in 1 .. Len(s) + Len(t) :
             (s \o t)[i] = IF i <= Len(s) THEN s[i] ELSE t[i - Len(s)]
    BY <1>1, <2>1, ConcatProperties
  <2> QED BY <1>1, <2>2
<1>3. ASSUME NEW p \in 1 .. Len(s) + 4, (s \o t)[p] = "OKAY" PROVE p \in {1, 5, 9}
  <2>1. CASE p <= Len(s)
    BY <1>2, <1>3, <2>1 DEF Placed
  <2>2. CASE p > Len(s)
    <3>1. t[p - Len(s)] = "OKAY" /\ p - Len(s) \in 1 .. 4
      BY <1>2, <1>3, <2>2
    <3>2. p - Len(s) = 1
      BY <1>1, <3>1
    <3>3. p = Len(s) + 1
      BY <3>2
    <3>4. CASE Len(s) = 4
      BY <3>3, <3>4
    <3>5. CASE Len(s) = 8
      BY <3>3, <3>5
    <3> QED BY <3>4, <3>5
  <2> QED BY <2>1, <2>2
<1>4. Placed(s \o t) /\ Len(s \o t) = Len(s) + 4
  BY <1>2, <1>3 DEF Placed
<1> QED BY <1>4 DEF t

LEMMA AddText ==
  ASSUME NEW s, Placed(s), NEW n \in Nat
  PROVE  Placed(s \o Text(n)) /\ Len(s \o Text(n)) = Len(s) + n
<1> DEFINE t == Text(n)
<1>1. s \in Seq(Bytes) /\ t \in Seq(Bytes) /\ Len(t) = n /\ \A p \in 1 .. n : t[p] # "OKAY"
  BY DEF Text, Bytes, Placed
<1> HIDE DEF t
<1>2. /\ s \o t \in Seq(Bytes) /\ Len(s \o t) = Len(s) + Len(t) /\ Len(s) \in Nat
      /\ \A i \in 1 .. Len(s) + Len(t) :
           (s \o t)[i] = IF i <= Len(s) THEN s[i] ELSE t[i - Len(s)]
  BY <1>1, ConcatProperties, LenProperties
<1>3. ASSUME NEW p \in 1 .. Len(s) + n, (s \o t)[p] = "OKAY" PROVE p \in {1, 5, 9}
  <2>1. CASE p <= Len(s)
    BY <1>1, <1>2, <1>3, <2>1 DEF Placed
  <2>2. CASE p > Len(s)
    <3>1. p - Len(s) \in 1 .. n /\ t[p - Len(s)] = "OKAY"
      BY <1>1, <1>2, <1>3, <2>2
    <3> QED BY <1>1, <3>1
  <2> QED BY <1>2, <2>1, <2>2
<1>4. Placed(s \o t) /\ Len(s \o t) = Len(s) + n
  BY <1>1, <1>2, <1>3 DEF Placed
<1> QED BY <1>4 DEF t

\* The stream fits into the buffer, and has an OKAY at three places at most.
LEMMA StreamShape ==
  ASSUME NEW k \in Cases
  PROVE  Placed(Stream(k)) /\ Len(Stream(k)) \in 4 .. BufSize - 1 /\ BufSize \in Nat
<1> DEFINE n == k.payload
           m == 4 + n
           a == Word("OKAY")
           e == Word("FAIL")
<1>1. n \in Nat /\ m \in Nat /\ m = 4 + n /\ n + 16 < BufSize /\ BufSize \in Nat
  BY ReplyAssumption DEF ReplyAssumption
<1>2. Placed(a) /\ Len(a) = 4 /\ Placed(e) /\ Len(e) = 4
  BY OneWord
<1>3. Placed(a \o a) /\ Len(a \o a) = 8 /\ Placed(a \o e) /\ Len(a \o e) = 8
  BY <1>2, AddWord
<1>4. Placed(a \o a \o a) /\ Len(a \o a \o a) = 12
  <2>1. Len(a \o a) \in {4, 8} /\ Placed(a \o a)
    BY <1>3
  <2>2. Placed((a \o a) \o Word("OKAY")) /\ Len((a \o a) \o Word("OKAY")) = Len(a \o a) + 4
    BY <2>1, AddWord
  <2> QED BY <1>3, <2>2
<1>5. Stream(k) \in {a \o Text(m), e \o Text(m), a \o e \o Text(m), a \o a \o a \o Text(m),
                     a \o a \o Text(n)}
  BY DEF Stream, Framed
<1> HIDE DEF n, m, a, e
<1>6. ASSUME NEW s, Placed(s), Len(s) \in 4 .. 12, NEW i \in {n, m}
      PROVE  Placed(s \o Text(i)) /\ Len(s \o Text(i)) \in 4 .. BufSize - 1
  <2>1. i \in Nat /\ i <= m
    BY <1>1
  <2>2. Placed(s \o Text(i)) /\ Len(s \o Text(i)) = Len(s) + i
    BY <1>6, <2>1, AddText
  <2>3. Len(s) \in Nat /\ 4 <= Len(s) /\ Len(s) + i < BufSize
    <3> DEFINE l == Len(s)
    <3>1. l \in 4 .. 12
      BY <1>6
    <3> HIDE DEF l
    <3>2. l \in Nat /\ 4 <= l /\ l + i < BufSize
      BY <1>1, <2>1, <3>1
    <3> QED BY <3>2 DEF l
  <2> QED BY <1>1, <2>1, <2>2, <2>3
<1>7. CASE Stream(k) = a \o Text(m)
  BY <1>1, <1>2, <1>6, <1>7
<1>8. CASE Stream(k) = e \o Text(m)
  BY <1>1, <1>2, <1>6, <1>8
<1>9. CASE Stream(k) = a \o e \o Text(m)
  <2>1. Placed(a \o e) /\ Len(a \o e) \in 4 .. 12
    BY <1>3
  <2> QED BY <1>1, <1>6, <1>9, <2>1
<1>10. CASE Stream(k) = a \o a \o a \o Text(m)
  <2>1. Placed(a \o a \o a) /\ Len(a \o a \o a) \in 4 .. 12
    BY <1>4
  <2> QED BY <1>1, <1>6, <1>10, <2>1
<1>11. CASE Stream(k) = a \o a \o Text(n)
  <2>1. Placed(a \o a) /\ Len(a \o a) \in 4 .. 12
    BY <1>3
  <2> QED BY <1>1, <1>6, <1>11, <2>1
<1> QED BY <1>5, <1>7, <1>8, <1>9, <1>10, <1>11
---------------------------------------------------------------------------
(***************************************************************************)
(* The texts                                                               *)
(***************************************************************************)
\* What is left of the chunk that ends at `to` when c bytes are skipped.
Fresh(c, to) == [i \in 1 .. IF to - read > c THEN to - read - c ELSE 0 |-> read + c + i]

LEMMA FreshText ==
  ASSUME read \in Nat, NEW to \in Nat, read < to, NEW c \in Nat
  PROVE  Fresh(c, to) \in Seq(read + 1 .. to) /\ Increasing(Fresh(c, to))
<1> DEFINE m == IF to - read > c THEN to - read - c ELSE 0
           f == [i \in 1 .. m |-> read + c + i]
<1>1. m \in Nat /\ \A i \in 1 .. m : read + c + i \in read + 1 .. to
  OBVIOUS
<1> HIDE DEF m
<1>2. f \in Seq(read + 1 .. to) /\ Len(f) = m
  BY <1>1
<1>3. \A i \in 2 .. m : f[i - 1] < f[i]
  BY <1>1
<1> QED BY <1>2, <1>3 DEF Fresh, Increasing, m

LEMMA Longer ==
  ASSUME NEW a \in Nat, NEW b \in Nat, a <= b, NEW s \in Seq(1 .. a), NEW t \in Seq(a + 1 .. b),
         Increasing(s), Increasing(t)
  PROVE  s \o t \in Seq(1 .. b) /\ Increasing(s \o t)
<1> DEFINE l == Len(s)
           n == Len(t)
           st == s \o t
<1>1. s \in Seq(1 .. b) /\ t \in Seq(1 .. b) /\ l \in Nat /\ n \in Nat
  BY SeqMonotonic, LenProperties
<1>2. /\ st \in Seq(1 .. b) /\ Len(st) = l + n
      /\ \A i \in 1 .. l + n : st[i] = IF i <= l THEN s[i] ELSE t[i - l]
  BY <1>1, ConcatProperties
<1>3. (\A i \in 1 .. l : s[i] \in 1 .. a) /\ (\A i \in 1 .. n : t[i] \in a + 1 .. b)
  BY ElementOfSeq
<1>4. (\A i \in 2 .. l : s[i - 1] < s[i]) /\ (\A i \in 2 .. n : t[i - 1] < t[i])
  BY DEF Increasing
<1> HIDE DEF l, n, st
<1>5. ASSUME NEW i \in 2 .. l + n PROVE st[i - 1] < st[i]
  <2>1. CASE i <= l
    BY <1>1, <1>2, <1>4, <2>1
  <2>2. CASE i = l + 1
    <3>1. st[i - 1] = s[l] /\ st[i] = t[1] /\ l \in 1 .. l /\ 1 \in 1 .. n
      <4>1. /\ i \in 1 .. l + n /\ l + 1 \in 2 .. l + n
            /\ i - 1 = l /\ l \in 1 .. l + n /\ i - l = 1 /\ ~(i <= l)
        BY <1>1, <2>2
      <4>2. st[l] = s[l] /\ st[i] = t[i - l]
        BY <1>1, <1>2, <4>1
      <4>3. l \in 1 .. l /\ 1 \in 1 .. n
        BY <1>1, <4>1
      <4> QED BY <4>1, <4>2, <4>3
    <3> QED BY <1>3, <3>1
  <2>3. CASE i > l + 1
    <3>1. st[i - 1] = t[i - l - 1] /\ st[i] = t[i - l] /\ i - l \in 2 .. n
      BY <1>1, <1>2, <2>3
    <3> QED BY <1>4, <3>1
  <2> QED BY <1>1, <2>1, <2>2, <2>3
<1> QED BY <1>2, <1>5 DEF Increasing, st

\* The C string in a buffer that was cleared is what is left of the chunk.
LEMMA CStringIsFresh ==
  ASSUME BufSize \in Nat, buf \in [1 .. BufSize -> {0}], read \in Nat, NEW to \in Nat,
         read < to, to < BufSize, NEW c \in Nat, c < BufSize
  PROVE  CString(Filled(to), c) = Fresh(c, to)
<1> DEFINE n == to - read
           m == IF n > c THEN n - c ELSE 0
           tail == [i \in 1 .. BufSize - c |-> Filled(to)[c + i]]
           IsNul(i) == /\ i = Len(tail) + 1 \/ tail[i] = 0
                       /\ \A j \in 1 .. i - 1 : tail[j] # 0
<1>1. n \in Nat /\ m \in Nat /\ m < BufSize - c /\ BufSize - c \in Nat /\ n < BufSize
  OBVIOUS
<1>2. \A i \in 1 .. BufSize - c : tail[i] = IF i <= m THEN read + c + i ELSE 0
  <2> SUFFICES ASSUME NEW i \in 1 .. BufSize - c
               PROVE  tail[i] = IF i <= m THEN read + c + i ELSE 0
    OBVIOUS
  <2>1. c + i \in 1 .. BufSize
    OBVIOUS
  <2>2. Filled(to)[c + i] = IF c + i <= n THEN read + (c + i) ELSE 0
    BY <2>1 DEF Filled
  <2> QED BY <2>2
<1>3. tail \in Seq(Int) /\ Len(tail) = BufSize - c
  <2>1. \A i \in 1 .. BufSize - c : Filled(to)[c + i] \in Int
    BY DEF Filled
  <2> QED BY <1>1, <2>1
<1>4. CString(Filled(to), c) = SubSeq(tail, 1, (CHOOSE i \in 1 .. Len(tail) + 1 : IsNul(i)) - 1)
  BY DEF CString
<1> HIDE DEF tail, n, m
<1>5. IsNul(m + 1)
  BY <1>1, <1>2, <1>3
<1>6. ASSUME NEW i \in 1 .. Len(tail) + 1, IsNul(i) PROVE i = m + 1
  <2>1. CASE i <= m
    <3>1. tail[i] = 0
      BY <1>1, <1>3, <1>6, <2>1
    <3> QED BY <1>1, <1>2, <2>1, <3>1
  <2>2. CASE i > m + 1
    <3>1. tail[m + 1] # 0
      BY <1>1, <1>6, <2>2
    <3> QED BY <1>1, <1>2, <3>1
  <2> QED BY <1>1, <2>1, <2>2
<1>7. (CHOOSE i \in 1 .. Len(tail) + 1 : IsNul(i)) = m + 1
  <2>1. m + 1 \in 1 .. Len(tail) + 1
    BY <1>1, <1>3
  <2> HIDE DEF IsNul
  <2> QED BY <1>5, <1>6, <2>1
<1>8. SubSeq(tail, 1, m) = [i \in 1 .. m |-> read + c + i]
  <2>1. /\ SubSeq(tail, 1, m) \in Seq(Int) /\ Len(SubSeq(tail, 1, m)) = m
        /\ \A i \in 1 .. m : SubSeq(tail, 1, m)[i] = tail[i]
    BY <1>1, <1>3
  <2> QED BY <1>1, <1>2, <2>1
<1>9. CString(Filled(to), c) = SubSeq(tail, 1, m)
  <2>1. (m + 1) - 1 = m
    BY <1>1
  <2> HIDE DEF IsNul
  <2> QED BY <1>4, <1>7, <2>1
<1>10. Fresh(c, to) = [i \in 1 .. m |-> read + c + i]
  BY DEF Fresh, m, n
<1> QED BY <1>8, <1>9, <1>10
---------------------------------------------------------------------------
(***************************************************************************)
(* The callback                                                            *)
(***************************************************************************)
LEMMA CommandFields ==
  ASSUME NEW k \in Commands
  PROVE  /\ k.initial \in Statuses /\ k.reader \in Readers
         /\ k.keeps \in {"appends", "replaces", "parses", "drops"}
BY DEF Commands, Statuses, Readers, Cmd, get_version, get_devices, get_devices_with_path, kill,
   connect, disconnect, forward, list_forward, kill_forward, kill_forward_all, get_device_path,
   get_serial_no, get_state, shell, sync, screencap, tcpip, usb, root, reverse, list_reverse,
   kill_reverse, kill_reverse_all, list_packages, get_properties, logcat

LEMMA ReadingFields ==
  ASSUME NEW reader \in Readers, NEW c \in Chunks, NEW s \in Statuses
  PROVE  /\ Reading(reader, c, s).status \in Statuses
         /\ Reading(reader, c, s).cursor \in {0, 4, 8}
         /\ Reading(reader, c, s).writes => c.head = "OKAY"
<1>1. c.size \in {"short", "word", "long"} /\ c.head \in {"OKAY", "FAIL", "other"}
  BY DEF Chunks
<1>2. CASE reader = "protocol"
  BY <1>1, <1>2 DEF Reading, Statuses, read_protocol_string
<1>3. CASE reader = "transport"
  BY <1>1, <1>3 DEF Reading, Statuses, respond_transport_command
<1>4. CASE reader = "shell"
  BY <1>1, <1>4 DEF Reading, Statuses, shell_reader, respond_transport_command
<1>5. CASE reader = "list_reverse"
  BY <1>1, <1>5 DEF Reading, Statuses, list_reverse_reader, respond_transport_command
<1>6. CASE reader = "screencap"
  BY <1>1, <1>6 DEF Reading, Statuses, screencap_reader
<1> QED BY <1>2, <1>3, <1>4, <1>5, <1>6 DEF Readers

\* Where the next chunk can end, in a buffer that has room after it.
LEMMA ChunkEnds ==
  ASSUME TypeOK, NEW to \in Ends
  PROVE  /\ read \in Nat /\ to \in Nat /\ read < to /\ to <= Len(stream)
         /\ Len(stream) \in Nat /\ to < BufSize /\ BufSize \in Nat /\ 8 < BufSize
<1>1. Len(stream) \in 4 .. BufSize - 1 /\ BufSize \in Nat
  BY StreamShape DEF TypeOK, stream
<1>2. 8 < BufSize
  BY ReplyAssumption DEF ReplyAssumption, TypeOK
<1>3. read \in 0 .. Len(stream)
  BY DEF TypeOK
<1>4. to \in read + 1 .. Available
  BY DEF Ends
<1> DEFINE l == Len(stream)
<1>5. Available \in {4, l}
  BY DEF Available
<1> HIDE DEF l
<1>6. l \in 4 .. BufSize - 1 /\ read \in 0 .. l
  BY <1>1, <1>3 DEF l
<1>7. read \in Nat /\ to \in Nat /\ read < to /\ to <= l /\ l \in Nat /\ to < BufSize
  BY <1>1, <1>4, <1>5, <1>6
<1> QED BY <1>1, <1>2, <1>7 DEF l

\* An OKAY that the callback sees is in the chunk.
LEMMA ChunkFields ==
  ASSUME NEW to \in Nat, read \in Nat
  PROVE  /\ Chunk(to) \in Chunks
         /\ Chunk(to).head = "OKAY" => \E p \in read + 1 .. to : stream[p] = "OKAY"
<1> DEFINE n     == to - read
           words == {p \in read + 1 .. to - 3 : stream[p] \in {"OKAY", "FAIL"}}
           seen  == IF case.command.reader = "list_reverse" THEN words
                    ELSE words \cap {read + 1}
           size  == IF n < 4 THEN "short" ELSE IF n = 4 THEN "word" ELSE "long"
           head  == IF \E p \in seen : stream[p] = "OKAY" THEN "OKAY"
                    ELSE IF seen # {} THEN "FAIL" ELSE "other"
<1>1. Chunk(to) = [size |-> size, head |-> head]
  BY DEF Chunk
<1>2. size = "short" => words = {}
  OBVIOUS
<1>3. seen \subseteq words /\ \A p \in words : p \in read + 1 .. to
  OBVIOUS
<1> HIDE DEF words, seen, n
<1>4. size = "short" => head = "other"
  BY <1>2, <1>3
<1>5. [size |-> size, head |-> head] \in [size : {"short", "word", "long"},
                                          head : {"OKAY", "FAIL", "other"}]
  OBVIOUS
<1>6. head = "OKAY" => \E p \in read + 1 .. to : stream[p] = "OKAY"
  BY <1>3
<1> QED BY <1>1, <1>4, <1>5, <1>6 DEF Chunks

\* The text that the callback takes from the chunk that ends at `to`.
TextOf(to) ==
  IF case.command.reader = "screencap" THEN [i \in 1 .. to - read |-> read + i]
  ELSE CString(Filled(to), Reading(case.command.reader, Chunk(to), status).cursor)

LEMMA TextIsFresh ==
  ASSUME TypeOK, NEW to \in Ends
  PROVE  TextOf(to) \in Seq(read + 1 .. to) /\ Increasing(TextOf(to))
<1>1. /\ read \in Nat /\ to \in Nat /\ read < to
      /\ to < BufSize /\ BufSize \in Nat /\ 8 < BufSize
  BY ChunkEnds
<1>2. CASE case.command.reader = "screencap"
  <2>1. TextOf(to) = Fresh(0, to)
    BY <1>1, <1>2 DEF TextOf, Fresh
  <2> QED BY <1>1, <2>1, FreshText
<1>3. CASE case.command.reader # "screencap"
  <2> DEFINE c == Reading(case.command.reader, Chunk(to), status).cursor
  <2>1. case.command.reader \in Readers
    BY CommandFields, ReplyAssumption DEF ReplyAssumption, TypeOK
  <2>2. Chunk(to) \in Chunks /\ status \in Statuses
    BY <1>1, ChunkFields DEF TypeOK
  <2>3. c \in {0, 4, 8}
    BY <2>1, <2>2, ReadingFields
  <2>4. TextOf(to) = CString(Filled(to), c)
    BY <1>3 DEF TextOf
  <2> HIDE DEF c
  <2>5. c \in Nat /\ c < BufSize
    BY <1>1, <2>3
  <2>6. buf \in [1 .. BufSize -> {0}]
    BY DEF TypeOK
  <2>7. CString(Filled(to), c) = Fresh(c, to)
    BY <1>1, <2>5, <2>6, CStringIsFresh
  <2> QED BY <1>1, <2>4, <2>5, <2>7, FreshText
<1> QED BY <1>2, <1>3

\* A text that goes on with bytes of the new chunk only.
LEMMA TextGrows ==
  ASSUME NEW a \in Nat, NEW b \in Nat, a <= b, NEW s \in Seq(1 .. a), Increasing(s),
         NEW t \in Seq(a + 1 .. b), Increasing(t)
  PROVE  \A u \in {s, t, s \o t} : u \in Seq(1 .. b) /\ Increasing(u)
<1>1. s \in Seq(1 .. b)
  <2>1. 1 .. a \subseteq 1 .. b
    OBVIOUS
  <2> QED BY <2>1, SeqMonotonic
<1>2. t \in Seq(1 .. b)
  <2>1. a + 1 .. b \subseteq 1 .. b
    OBVIOUS
  <2> QED BY <2>1, SeqMonotonic
<1>3. s \o t \in Seq(1 .. b) /\ Increasing(s \o t)
  BY Longer
<1> QED BY <1>1, <1>2, <1>3

LEMMA OneMore ==
  ASSUME NEW S, IsFiniteSet(S), NEW n \in Nat, Cardinality(S) <= n, NEW x
  PROVE  IsFiniteSet(S \cup {x}) /\ Cardinality(S \cup {x}) <= n + 1
<1>1. Cardinality(S) \in Nat
  BY FS_CardinalityType
<1>2. /\ IsFiniteSet(S \cup {x})
      /\ Cardinality(S \cup {x}) = IF x \in S THEN Cardinality(S) ELSE Cardinality(S) + 1
  BY FS_AddElement, Zenon
<1> QED BY <1>1, <1>2

\* The stream has three places for an OKAY.
LEMMA OkaysBounded ==
  ASSUME case \in Cases, NEW n \in 0 .. Len(stream)
  PROVE  IsFiniteSet(Okays(n)) /\ Cardinality(Okays(n)) \in 0 .. 3
<1>1. Okays(n) \subseteq {1, 5, 9}
  <2>1. Placed(stream) /\ Len(stream) \in Nat
    BY StreamShape DEF stream, Placed
  <2> QED BY <2>1 DEF Okays, Placed
<1>2. IsFiniteSet({1, 5, 9}) /\ Cardinality({1, 5, 9}) <= 3
  <2>1. IsFiniteSet({1}) /\ Cardinality({1}) <= 1
    <3>1. IsFiniteSet({1}) /\ Cardinality({1}) = 1
      BY FS_Singleton, Zenon
    <3> QED BY <3>1
  <2>2. IsFiniteSet({1} \cup {5}) /\ Cardinality({1} \cup {5}) <= 1 + 1
    BY <2>1, OneMore
  <2>3. IsFiniteSet({1} \cup {5} \cup {9}) /\ Cardinality({1} \cup {5} \cup {9}) <= 2 + 1
    <3>1. Cardinality({1} \cup {5}) <= 2
      BY <2>2
    <3> QED BY <2>2, <3>1, OneMore
  <2>4. {1} \cup {5} \cup {9} = {1, 5, 9}
    OBVIOUS
  <2> QED BY <2>3, <2>4
<1>3. /\ IsFiniteSet(Okays(n)) /\ Cardinality(Okays(n)) <= Cardinality({1, 5, 9})
      /\ Cardinality(Okays(n)) \in Nat
  BY <1>1, <1>2, FS_Subset, FS_CardinalityType
<1> QED
  <2>1. Cardinality({1, 5, 9}) \in Nat
    BY <1>2, FS_CardinalityType
  <2> QED BY <1>2, <1>3, <2>1

\* A chunk with an OKAY adds to the OKAYs that have been read.
LEMMA OkayCounts ==
  ASSUME case \in Cases, NEW m \in 0 .. Len(stream), NEW n \in m .. Len(stream)
  PROVE  /\ Cardinality(Okays(m)) <= Cardinality(Okays(n))
         /\ (\E p \in m + 1 .. n : stream[p] = "OKAY")
              => Cardinality(Okays(m)) + 1 <= Cardinality(Okays(n))
<1>1. Len(stream) \in Nat
  BY StreamShape DEF stream, Placed
<1>2. m \in Nat /\ n \in 0 .. Len(stream) /\ m <= n
  BY <1>1
<1>3. Okays(m) \subseteq Okays(n)
  BY <1>2 DEF Okays
<1>4. /\ IsFiniteSet(Okays(m)) /\ Cardinality(Okays(m)) \in 0 .. 3
      /\ IsFiniteSet(Okays(n)) /\ Cardinality(Okays(n)) \in 0 .. 3
  BY <1>2, OkaysBounded
<1>5. Cardinality(Okays(m)) <= Cardinality(Okays(n))
  BY <1>3, <1>4, FS_Subset
<1>6. ASSUME NEW p \in m + 1 .. n, stream[p] = "OKAY"
      PROVE  Cardinality(Okays(m)) + 1 <= Cardinality(Okays(n))
  <2>1. p \notin Okays(m) /\ Okays(m) \cup {p} \subseteq Okays(n)
    BY <1>2, <1>3, <1>6 DEF Okays
  <2>2. Cardinality(Okays(m) \cup {p}) = Cardinality(Okays(m)) + 1
    BY <1>4, <2>1, FS_AddElement
  <2>3. Cardinality(Okays(m) \cup {p}) <= Cardinality(Okays(n))
    BY <1>4, <2>1, FS_Subset
  <2> QED BY <2>2, <2>3
<1> QED BY <1>5, <1>6
---------------------------------------------------------------------------
(***************************************************************************)
(* The layout                                                              *)
(***************************************************************************)
\* Where the OKAYs of an answer end, and how long the length field is.
OkayBytes == CASE case.command.reader = "protocol"     -> 4
           [] case.command.reader = "list_reverse" -> 12
           [] OTHER                                -> 8
Frame == IF case.command.reader \in {"protocol", "list_reverse"} THEN 4 ELSE 0

\* h bytes of OKAYs and then a text.
Layout(s, h) ==
  \A p \in 1 .. Len(s) :
    s[p] = IF p \in {1, 5, 9} /\ p <= h THEN "OKAY" ELSE IF p = h + 1 THEN "first" ELSE "rest"

LEMMA MoreOkay ==
  ASSUME NEW s \in Seq(Bytes), NEW h \in {0, 4, 8}, Len(s) = h, Layout(s, h)
  PROVE  /\ s \o Word("OKAY") \in Seq(Bytes) /\ Len(s \o Word("OKAY")) = h + 4
         /\ Layout(s \o Word("OKAY"), h + 4)
<1> DEFINE t == Word("OKAY")
<1>0. h \in Nat
  OBVIOUS
<1>1. /\ t \in Seq(Bytes) /\ Len(t) = 4
      /\ t[1] = "OKAY" /\ \A p \in 2 .. 4 : t[p] = "rest"
  BY DEF Word, Bytes
<1> HIDE DEF t
<1>2. /\ s \o t \in Seq(Bytes) /\ Len(s \o t) = h + 4
      /\ \A i \in 1 .. h + 4 : (s \o t)[i] = IF i <= h THEN s[i] ELSE t[i - h]
  <2>1. /\ s \o t \in Seq(Bytes) /\ Len(s \o t) = Len(s) + Len(t)
        /\ \A i \in 1 .. Len(s) + Len(t) :
             (s \o t)[i] = IF i <= Len(s) THEN s[i] ELSE t[i - Len(s)]
    BY <1>1, ConcatProperties
  <2> QED BY <1>1, <2>1
<1>3. ASSUME NEW p \in 1 .. h + 4
      PROVE  (s \o t)[p] = IF p \in {1, 5, 9} /\ p <= h + 4 THEN "OKAY"
                           ELSE IF p = (h + 4) + 1 THEN "first" ELSE "rest"
  <2>1. CASE p <= h
    <3>1. (s \o t)[p] = s[p] /\ p \in 1 .. Len(s) /\ p # h + 1 /\ p # (h + 4) + 1
      BY <1>2, <2>1
    <3> QED BY <2>1, <3>1 DEF Layout
  <2>2. CASE p = h + 1
    <3>1. (s \o t)[p] = t[1]
      BY <1>2, <2>2
    <3> QED BY <1>1, <2>2, <3>1
  <2>3. CASE p > h + 1
    <3>1. (s \o t)[p] = t[p - h] /\ p - h \in 2 .. 4
      BY <1>2, <2>3
    <3>2. p \notin {1, 5, 9} /\ p # (h + 4) + 1
      BY <2>3
    <3> QED BY <1>1, <3>1, <3>2
  <2>4. p <= h \/ p = h + 1 \/ p > h + 1
    BY <1>0
  <2> QED BY <2>1, <2>2, <2>3, <2>4, Zenon
<1>4. Layout(s \o t, h + 4)
  BY <1>2, <1>3 DEF Layout
<1> QED BY <1>2, <1>4 DEF t

LEMMA ThenText ==
  ASSUME NEW s \in Seq(Bytes), NEW h \in {4, 8, 12}, Len(s) = h, Layout(s, h), NEW n \in Nat
  PROVE  Len(s \o Text(n)) = h + n /\ Layout(s \o Text(n), h)
<1> DEFINE t == Text(n)
<1>0. h \in Nat
  OBVIOUS
<1>1. /\ t \in Seq(Bytes) /\ Len(t) = n
      /\ \A p \in 1 .. n : t[p] = IF p = 1 THEN "first" ELSE "rest"
  BY DEF Text, Bytes
<1> HIDE DEF t
<1>2. /\ Len(s \o t) = h + n
      /\ \A i \in 1 .. h + n : (s \o t)[i] = IF i <= h THEN s[i] ELSE t[i - h]
  <2>1. /\ Len(s \o t) = Len(s) + Len(t)
        /\ \A i \in 1 .. Len(s) + Len(t) :
             (s \o t)[i] = IF i <= Len(s) THEN s[i] ELSE t[i - Len(s)]
    BY <1>1, ConcatProperties
  <2> QED BY <1>1, <2>1
<1>3. ASSUME NEW p \in 1 .. h + n
      PROVE  (s \o t)[p] = IF p \in {1, 5, 9} /\ p <= h THEN "OKAY"
                           ELSE IF p = h + 1 THEN "first" ELSE "rest"
  <2>1. CASE p <= h
    <3>1. (s \o t)[p] = s[p] /\ p \in 1 .. Len(s)
      BY <1>2, <2>1
    <3> QED BY <3>1 DEF Layout
  <2>2. CASE p > h
    <3>1. (s \o t)[p] = t[p - h] /\ p - h \in 1 .. n /\ (p - h = 1 <=> p = h + 1)
      BY <1>2, <2>2
    <3> QED BY <1>1, <2>2, <3>1
  <2>3. p <= h \/ p > h
    BY <1>0
  <2> QED BY <2>1, <2>2, <2>3, Zenon
<1>4. Layout(s \o t, h)
  BY <1>2, <1>3 DEF Layout
<1> QED BY <1>2, <1>4 DEF t

\* What the server says when its answer is OKAY.
LEMMA AnswerLayout ==
  ASSUME case \in Cases, case.answer = "OKAY"
  PROVE  Len(stream) = OkayBytes + Frame + case.payload /\ Layout(stream, OkayBytes)
<1> DEFINE n == case.payload
           a == Word("OKAY")
<1>1. n \in Nat /\ 4 + n \in Nat
  BY ReplyAssumption DEF ReplyAssumption
<1>2. a \in Seq(Bytes) /\ Len(a) = 4 /\ Layout(a, 4)
  BY DEF Word, Bytes, Layout
<1> HIDE DEF a
<1>3. a \o a \in Seq(Bytes) /\ Len(a \o a) = 8 /\ Layout(a \o a, 8)
  BY <1>2, MoreOkay DEF a
<1>4. (a \o a) \o a \in Seq(Bytes) /\ Len((a \o a) \o a) = 12 /\ Layout((a \o a) \o a, 12)
  <2> DEFINE aa == a \o a
  <2>1. aa \in Seq(Bytes) /\ Len(aa) = 8 /\ Layout(aa, 8) /\ 8 \in {0, 4, 8} /\ 8 + 4 = 12
    BY <1>3
  <2> HIDE DEF aa
  <2>2. /\ aa \o Word("OKAY") \in Seq(Bytes) /\ Len(aa \o Word("OKAY")) = 8 + 4
        /\ Layout(aa \o Word("OKAY"), 8 + 4)
    BY <2>1, MoreOkay
  <2>3. 8 + 4 = 12
    OBVIOUS
  <2> QED BY <2>2, <2>3 DEF a, aa
<1>5. CASE case.command.reader = "protocol"
  <2>1. stream = a \o Text(4 + n) /\ OkayBytes = 4 /\ Frame = 4
    BY <1>5 DEF stream, Stream, TwoStage, Framed, OkayBytes, Frame, a
  <2>2. Len(a \o Text(4 + n)) = 4 + (4 + n) /\ Layout(a \o Text(4 + n), 4)
    BY <1>1, <1>2, ThenText
  <2> QED BY <1>1, <2>1, <2>2
<1>6. CASE case.command.reader = "list_reverse"
  <2>1. stream = ((a \o a) \o a) \o Text(4 + n) /\ OkayBytes = 12 /\ Frame = 4
    BY <1>6 DEF stream, Stream, TwoStage, Framed, OkayBytes, Frame, a
  <2>2. /\ Len(((a \o a) \o a) \o Text(4 + n)) = 12 + (4 + n)
        /\ Layout(((a \o a) \o a) \o Text(4 + n), 12)
    BY <1>1, <1>4, ThenText
  <2> QED BY <1>1, <2>1, <2>2
<1>7. CASE case.command.reader \notin {"protocol", "list_reverse"}
  <2>1. stream = (a \o a) \o Text(n) /\ OkayBytes = 8 /\ Frame = 0
    BY <1>7 DEF stream, Stream, TwoStage, OkayBytes, Frame, a
  <2>2. Len((a \o a) \o Text(n)) = 8 + n /\ Layout((a \o a) \o Text(n), 8)
    BY <1>1, <1>3, ThenText
  <2> QED BY <1>1, <2>1, <2>2
<1> QED BY <1>5, <1>6, <1>7

LEMMA KeepsByReader ==
  ASSUME NEW k \in Commands
  PROVE  /\ k.reader = "shell" => k.keeps = "replaces"
         /\ k.reader = "transport" => k.keeps = "drops"
         /\ k.reader \in {"screencap", "list_reverse"} => k.keeps = "appends"
BY DEF Commands, Cmd, get_version, get_devices, get_devices_with_path, kill,
   connect, disconnect, forward, list_forward, kill_forward, kill_forward_all, get_device_path,
   get_serial_no, get_state, shell, sync, screencap, tcpip, usb, root, reverse, list_reverse,
   kill_reverse, kill_reverse_all, list_packages, get_properties, logcat

\* Nothing has been kept before the last chunk, which holds the message.
LayoutInv ==
  Orderly /\ case.answer = "OKAY" =>
    /\ read \in {0, 4, 8, 12, Len(stream)} /\ (read <= OkayBytes \/ read = Len(stream))
    /\ read > 0 => status = 0
    /\ result = IF read = Len(stream) /\ case.command.keeps # "drops" THEN Message ELSE <<>>

\* In an orderly conversation a chunk is one OKAY, the whole text after them, or,
\* for a service of the host, both.
LEMMA OrderlyChunk ==
  ASSUME TypeOK, LayoutInv, Orderly, case.answer = "OKAY", NEW to \in Ends
  PROVE  \/ read < OkayBytes /\ to = read + 4
         \/ read = OkayBytes /\ to = Len(stream)
         \/ read = 0 /\ to = Len(stream) /\ case.command.reader = "protocol"
<1> DEFINE l == Len(stream)
           h == OkayBytes
<1>1. /\ read \in Nat /\ to \in Nat /\ read < to /\ to <= l /\ l \in Nat
  BY ChunkEnds
<1>2. case \in Cases /\ case.payload \in Nat
  BY ReplyAssumption DEF TypeOK, ReplyAssumption
<1>3. h \in {4, 8, 12} /\ l >= h
  BY <1>2, AnswerLayout DEF OkayBytes, Frame
<1>4. \A p \in 1 .. l : stream[p] = IF p \in {1, 5, 9} /\ p <= h THEN "OKAY"
                                    ELSE IF p = h + 1 THEN "first" ELSE "rest"
  BY <1>2, AnswerLayout DEF Layout
<1>5. EndsWrite(to) /\ (case.delivery = "writes" => \A q \in read + 1 .. to - 1 : ~EndsWrite(q))
  BY DEF Ends, Orderly
<1>6. read \in {0, 4, 8, 12} /\ read <= h
  BY <1>1, <1>3 DEF LayoutInv
<1>7. to = l \/ (to < l /\ stream[to + 1] # "rest")
  BY <1>1, <1>5 DEF EndsWrite
<1>8. \A p \in Nat : p = l \/ stream[p + 1] # "rest" => EndsWrite(p)
  BY DEF EndsWrite
<1>9. to = l \/ (to \in {4, 8, 12} /\ to <= h)
  BY <1>1, <1>3, <1>4, <1>7
<1>10. CASE read = h
  BY <1>1, <1>3, <1>9, <1>10
<1>11. CASE read < h
  <2>1. read \in {0, 4, 8} /\ read + 4 <= h
    BY <1>3, <1>6, <1>11
  <2>2. EndsWrite(read + 4)
    <3>1. CASE read + 4 = l
      BY <1>8, <2>1, <3>1
    <3>2. CASE read + 4 < l
      <4>1. read + 5 \in 1 .. l
        BY <1>1, <2>1, <3>2
      <4>2. stream[(read + 4) + 1] # "rest"
        BY <1>3, <1>4, <2>1, <4>1
      <4> QED BY <1>8, <2>1, <4>2
    <3> QED BY <1>1, <1>3, <2>1, <3>1, <3>2
  <2>3. to >= read + 4
    BY <1>1, <1>3, <1>9, <2>1
  <2>4. CASE case.delivery = "writes"
    <3>1. to <= read + 4
      BY <1>1, <1>5, <2>1, <2>2, <2>4
    <3> QED BY <1>1, <1>11, <2>1, <2>3, <3>1
  <2>5. CASE case.delivery # "writes"
    <3>1. case.command.reader = "protocol" /\ h = 4 /\ read = 0
      BY <2>1, <2>5 DEF Orderly, OkayBytes
    <3> QED BY <1>9, <1>11, <2>1, <2>3, <3>1
  <2> QED BY <2>4, <2>5
<1>12. read = h \/ read < h
  BY <1>3, <1>6
<1> QED BY <1>10, <1>11, <1>12, Zenon

\* The first text that is kept is the message, unless the command drops it.
LEMMA KeptFirst ==
  ASSUME NEW k \in Commands, k = case.command, result = <<>>, NEW S, NEW text \in Seq(S)
  PROVE  Kept(text) = IF k.keeps = "drops" THEN <<>> ELSE text
<1>1. k.keeps \in {"appends", "replaces", "parses", "drops"}
  BY CommandFields
<1>2. <<>> \o text = text
  BY ConcatEmptySeq
<1> QED BY <1>1, <1>2 DEF Kept

LEMMA LayoutStep ==
  ASSUME TypeOK, LayoutInv, NEW to \in Ends, OnRead(to)
  PROVE  LayoutInv'
<1> SUFFICES ASSUME Orderly, case.answer = "OKAY" PROVE LayoutInv'
  BY DEF LayoutInv, OnRead, Orderly
<1> DEFINE c == Chunk(to)
           reader == case.command.reader
           r == Reading(reader, c, status)
           text == TextOf(to)
           l == Len(stream)
           h == OkayBytes
<1>1. /\ read \in Nat /\ to \in Nat /\ read < to /\ to <= l /\ l \in Nat
      /\ to < BufSize /\ BufSize \in Nat /\ 8 < BufSize /\ buf \in [1 .. BufSize -> {0}]
  BY ChunkEnds DEF TypeOK
<1>2. case \in Cases /\ case.payload \in Nat /\ case.command \in Commands
  BY ReplyAssumption DEF TypeOK, ReplyAssumption
<1>3. reader \in Readers
  BY <1>2, CommandFields
<1>4. h \in {4, 8, 12} /\ l = h + Frame + case.payload /\ Frame \in {0, 4}
  BY <1>2, AnswerLayout DEF OkayBytes, Frame
<1>5. \A p \in 1 .. l : stream[p] = IF p \in {1, 5, 9} /\ p <= h THEN "OKAY"
                                    ELSE IF p = h + 1 THEN "first" ELSE "rest"
  BY <1>2, AnswerLayout DEF Layout
<1>6. /\ read' = to /\ status' = r.status /\ case' = case /\ stream' = stream
      /\ result' = IF r.sink = "result" THEN Kept(text) ELSE result
      /\ Message' = Message /\ OkayBytes' = OkayBytes
  BY DEF OnRead, TextOf, stream, Message, OkayBytes
<1>7. result = <<>> /\ (read > 0 => status = 0) /\ read \in {0, 4, 8, 12} /\ read <= h
  BY <1>1, <1>4 DEF LayoutInv
<1>8. text \in Seq(read + 1 .. to)
  BY TextIsFresh
<1>9. Kept(text) = IF case.command.keeps = "drops" THEN <<>> ELSE text
  BY <1>2, <1>7, <1>8, KeptFirst
<1>10. reader # "screencap" =>
         \A k \in {0, 4, 8} : r.cursor = k => text = Fresh(k, to)
  BY <1>1, CStringIsFresh DEF TextOf
<1>11. reader = "screencap" => text = Fresh(0, to)
  BY <1>1 DEF TextOf, Fresh
\* What a chunk is taken for.
<1>12. ASSUME read < h, read + 4 <= to, to = read + 4 \/ (read = 0 /\ reader = "protocol")
       PROVE  c.head = "OKAY" /\ c.size = IF to = read + 4 THEN "word" ELSE "long"
  <2> DEFINE words == {p \in read + 1 .. to - 3 : stream[p] \in {"OKAY", "FAIL"}}
             seen == IF reader = "list_reverse" THEN words ELSE words \cap {read + 1}
  <2>1. stream[read + 1] = "OKAY"
    BY <1>1, <1>4, <1>5, <1>7, <1>12
  <2>2. read + 1 \in seen
    BY <1>1, <1>12, <2>1
  <2>3. c.head = "OKAY"
    BY <2>1, <2>2 DEF Chunk
  <2>4. c.size = IF to = read + 4 THEN "word" ELSE "long"
    BY <1>1, <1>12 DEF Chunk
  <2> QED BY <2>3, <2>4
<1>13. ASSUME read = h, to = l
       PROVE  c.head = "other" /\ c.size = IF l - h < 4 THEN "short"
                                          ELSE IF l - h = 4 THEN "word" ELSE "long"
  <2>1. \A p \in read + 1 .. to - 3 : stream[p] \notin {"OKAY", "FAIL"}
    BY <1>1, <1>4, <1>5, <1>13
  <2>2. c.head = "other"
    BY <2>1 DEF Chunk
  <2>3. c.size = IF l - h < 4 THEN "short" ELSE IF l - h = 4 THEN "word" ELSE "long"
    BY <1>13 DEF Chunk
  <2> QED BY <2>2, <2>3
<1> HIDE DEF c, text, l, h
\* The message is what remains of the last chunk.
<1>14. /\ read = h /\ to = l => Fresh(Frame, to) = Message
       /\ read = 0 /\ to = l /\ reader = "protocol" => Fresh(8, to) = Message
  <2> DEFINE n == case.payload
  <2>1. ASSUME NEW k \in {0, 4, 8}, read + k + n = l, to = l PROVE Fresh(k, to) = Message
    <3>1. (IF to - read > k THEN to - read - k ELSE 0) = n
      BY <1>1, <1>2, <2>1
    <3>2. \A i \in 1 .. n : read + k + i = l - n + i
      BY <1>1, <1>2, <2>1
    <3> QED BY <3>1, <3>2 DEF Fresh, Message, l
  <2>2. reader = "protocol" => h = 4 /\ Frame = 4
    BY DEF h, OkayBytes, Frame
  <2> QED BY <1>1, <1>2, <1>4, <2>1, <2>2
<1>15. to = read + 4 => Fresh(8, to) = <<>>
  BY <1>1 DEF Fresh
<1>16. ASSUME r.status = 0, to \in {4, 8, 12, l}, to <= h \/ to = l,
              result' = IF to = l /\ case.command.keeps # "drops" THEN Message ELSE <<>>
       PROVE  LayoutInv'
  BY <1>6, <1>16 DEF LayoutInv, l, h
<1>17. case.payload = 0 => Message = <<>>
  BY DEF Message
\* One OKAY.  It may be all there is to say.
<1>18. CASE read < h /\ to = read + 4
  <2>1. c.head = "OKAY" /\ c.size = "word"
    BY <1>1, <1>12, <1>18
  <2>2. r.status = 0 /\ (r.sink = "none" \/ (reader = "list_reverse" /\ r.cursor = 8))
    BY <1>3, <2>1 DEF r, Readers, Reading, read_protocol_string, respond_transport_command,
       shell_reader, list_reverse_reader, screencap_reader
  <2>3. result' = <<>>
    BY <1>6, <1>7, <1>9, <1>10, <1>15, <1>18, <2>2
  <2>4. to \in {4, 8, 12} /\ to <= h
    BY <1>4, <1>7, <1>18
  <2>5. to = l => Message = <<>>
    <3>1. to = l => case.payload = 0
      BY <1>1, <1>2, <1>4, <2>4
    <3> QED BY <1>17, <3>1
  <2> QED BY <1>16, <2>2, <2>3, <2>4, <2>5
\* The text after the OKAYs.
<1>19. CASE read = h /\ to = l
  <2>1. c.head = "other" /\ c.size = IF l - h < 4 THEN "short"
                                     ELSE IF l - h = 4 THEN "word" ELSE "long"
    BY <1>13, <1>19
  <2>2. status = 0
    BY <1>4, <1>7, <1>19
  <2>3. CASE reader = "protocol"
    <3>1. /\ r.status = 0 /\ (c.size = "word" => r.sink = "none")
          /\ (c.size = "long" => r.sink = "result" /\ r.cursor = 4)
      BY <2>1, <2>3 DEF r, Reading, read_protocol_string
    <3>2. Frame = 4
      BY <2>3 DEF Frame
    <3>3. (c.size = "word" /\ case.payload = 0) \/ c.size = "long"
      BY <1>2, <1>4, <2>1, <3>2
    <3>4. result' = IF case.command.keeps # "drops" THEN Message ELSE <<>>
      BY <1>6, <1>7, <1>9, <1>10, <1>14, <1>17, <1>19, <2>3, <3>1, <3>2, <3>3
    <3> QED BY <1>16, <1>19, <3>1, <3>4
  <2>4. CASE reader = "list_reverse"
    <3>1. r.status = 0 /\ r.sink = "result" /\ r.cursor = 4
      <4>1. respond_transport_command(c)
              = [status |-> 0, cursor |-> 0, sink |-> "none", writes |-> FALSE]
        BY <2>1 DEF respond_transport_command
      <4>2. r = list_reverse_reader(c)
        BY <2>4 DEF r, Reading
      <4> QED BY <2>1, <4>1, <4>2 DEF list_reverse_reader
    <3>2. Frame = 4
      BY <2>4 DEF Frame
    <3>3. result' = IF case.command.keeps # "drops" THEN Message ELSE <<>>
      BY <1>6, <1>9, <1>10, <1>14, <1>19, <2>4, <3>1, <3>2
    <3> QED BY <1>16, <1>19, <3>1, <3>3
  <2>5. CASE reader = "transport"
    <3>1. r.status = 0 /\ r.sink = "none"
      BY <2>1, <2>5 DEF r, Reading, respond_transport_command
    <3>2. case.command.keeps = "drops"
      BY <1>2, <2>5, KeepsByReader
    <3> QED BY <1>6, <1>7, <1>16, <1>19, <3>1, <3>2
  <2>6. CASE reader = "shell"
    <3>1. r.status = 0 /\ r.sink = "result" /\ r.cursor = 0
      BY <2>1, <2>6 DEF r, Reading, shell_reader, respond_transport_command
    <3>2. Frame = 0
      BY <2>6 DEF Frame
    <3>3. result' = IF case.command.keeps # "drops" THEN Message ELSE <<>>
      BY <1>6, <1>9, <1>10, <1>14, <1>19, <2>6, <3>1, <3>2
    <3> QED BY <1>16, <1>19, <3>1, <3>3
  <2>7. CASE reader = "screencap"
    <3>1. Frame = 0 /\ case.payload # 4
      BY <2>7 DEF Frame, Orderly
    <3>2. c.size # "word"
      BY <1>2, <1>4, <2>1, <3>1
    <3>3. r.status = 0 /\ r.sink = "result"
      BY <2>2, <2>7, <3>2 DEF r, Reading, screencap_reader
    <3>4. result' = IF case.command.keeps # "drops" THEN Message ELSE <<>>
      BY <1>6, <1>9, <1>11, <1>14, <1>19, <2>7, <3>1, <3>3
    <3> QED BY <1>16, <1>19, <3>3, <3>4
  <2> QED BY <1>3, <2>3, <2>4, <2>5, <2>6, <2>7 DEF Readers
\* OKAY and text together.
<1>20. CASE read = 0 /\ to = l /\ reader = "protocol"
  <2>1. h = 4 /\ Frame = 4
    BY <1>20 DEF h, OkayBytes, Frame
  <2>2. l \in Nat /\ l > 4
    BY <1>1, <1>2, <1>4, <2>1
  <2>3. c.head = "OKAY" /\ c.size = "long"
    BY <1>12, <1>20, <2>1, <2>2
  <2>4. r.status = 0 /\ r.sink = "result" /\ r.cursor = 8
    BY <1>20, <2>3 DEF r, Reading, read_protocol_string
  <2>5. result' = IF case.command.keeps # "drops" THEN Message ELSE <<>>
    BY <1>6, <1>9, <1>10, <1>14, <1>20, <2>4
  <2> QED BY <1>16, <1>20, <2>4, <2>5
<1> QED BY <1>18, <1>19, <1>20, OrderlyChunk DEF l, h
---------------------------------------------------------------------------
LEMMA InitSafe == Init => Safe
<1> SUFFICES ASSUME Init PROVE Safe
  OBVIOUS
<1>1. case \in Cases /\ Len(stream) \in Nat
  BY StreamShape DEF Init, stream, Placed
<1>2. case.command.initial \in Statuses
  BY CommandFields, ReplyAssumption, <1>1 DEF ReplyAssumption
<1>3. TypeOK
  BY <1>1, <1>2 DEF Init, TypeOK
<1>4. NoStaleText
  BY DEF Init, NoStaleText, Increasing
<1>5. RequestsCounted
  <2>1. requests = 0 /\ 0 <= Cardinality(Okays(read))
    BY <1>1, OkaysBounded DEF Init
  <2> QED BY <2>1 DEF RequestsCounted, Okays
<1> QED BY <1>3, <1>4, <1>5 DEF Safe

LEMMA NextSafe == Safe /\ [Next]_vars => Safe'
<1> SUFFICES ASSUME Safe, [Next]_vars PROVE Safe'
  OBVIOUS
<1> USE DEF Safe
<1>1. CASE UNCHANGED vars
  BY <1>1 DEF vars, TypeOK, NoStaleText, RequestsCounted, Okays, stream
<1>2. ASSUME NEW to \in Ends, OnRead(to) PROVE Safe'
  <2> DEFINE r == Reading(case.command.reader, Chunk(to), status)
             text == TextOf(to)
  <2>1. /\ read \in Nat /\ to \in Nat /\ read < to /\ to <= Len(stream)
        /\ Len(stream) \in Nat /\ BufSize \in Nat
    BY ChunkEnds
  <2>2. case \in Cases /\ status \in Statuses
    BY DEF TypeOK
  <2>3. /\ case.command.reader \in Readers
        /\ case.command.keeps \in {"appends", "replaces", "parses", "drops"}
    BY CommandFields, ReplyAssumption, <2>2 DEF ReplyAssumption
  <2>4. /\ r.status \in Statuses
        /\ r.writes => \E p \in read + 1 .. to : stream[p] = "OKAY"
    BY <2>1, <2>2, <2>3, ChunkFields, ReadingFields
  <2>5. text \in Seq(read + 1 .. to) /\ Increasing(text)
    BY TextIsFresh
  <2>6. /\ result \in Seq(1 .. read) /\ Increasing(result)
        /\ m_error \in Seq(1 .. read) /\ Increasing(m_error)
    BY DEF TypeOK, NoStaleText
  <2>7. /\ read' = to /\ status' = r.status /\ case' = case
        /\ result' = IF r.sink = "result" THEN Kept(text) ELSE result
        /\ m_error' = IF r.sink = "error" THEN m_error \o text ELSE m_error
        /\ requests' = IF r.writes THEN requests + 1 ELSE requests
        /\ buf' = Cleared(Filled(to), to - read)
    BY <1>2 DEF OnRead, TextOf
  <2> HIDE DEF r, text
  <2>8. stream' = stream
    BY <2>7 DEF stream
  <2>9. result' \in Seq(1 .. to) /\ Increasing(result')
    <3>1. Kept(text) \in {result, text, result \o text}
      BY <2>3 DEF Kept
    <3>2. \A u \in {result, text, result \o text} : u \in Seq(1 .. to) /\ Increasing(u)
      <4>1. read <= to
        BY <2>1
      <4> QED BY <2>1, <2>5, <2>6, <4>1, TextGrows, Zenon
    <3> QED BY <2>7, <3>1, <3>2
  <2>10. m_error' \in Seq(1 .. to) /\ Increasing(m_error')
    <3>1. \A u \in {m_error, text, m_error \o text} : u \in Seq(1 .. to) /\ Increasing(u)
      <4>1. read <= to
        BY <2>1
      <4> QED BY <2>1, <2>5, <2>6, <4>1, TextGrows, Zenon
    <3> QED BY <2>7, <3>1
  <2>11. requests \in 0 .. 3 /\ requests <= Cardinality(Okays(read))
    BY DEF TypeOK, RequestsCounted, Okays
  <2>12. Cardinality(Okays(read)) \in 0 .. 3 /\ Cardinality(Okays(to)) \in 0 .. 3
    BY <2>1, <2>2, OkaysBounded
  <2>13. requests' \in 0 .. 3 /\ requests' <= Cardinality(Okays(to))
    <3>1. /\ Cardinality(Okays(read)) <= Cardinality(Okays(to))
          /\ (\E p \in read + 1 .. to : stream[p] = "OKAY")
               => Cardinality(Okays(read)) + 1 <= Cardinality(Okays(to))
      BY <2>1, <2>2, OkayCounts
    <3>2. CASE r.writes
      BY <2>4, <2>7, <2>11, <2>12, <3>1, <3>2
    <3>3. CASE ~r.writes
      BY <2>7, <2>11, <2>12, <3>1, <3>3
    <3> QED BY <3>2, <3>3
  <2>14. buf' \in [1 .. BufSize -> {0}]
    <3>1. \A i \in 1 .. BufSize : Cleared(Filled(to), to - read)[i] = 0
      BY <2>1 DEF TypeOK, Cleared, Filled
    <3> QED BY <2>7, <3>1 DEF Cleared
  <2>15. TypeOK'
    BY <2>1, <2>2, <2>4, <2>7, <2>8, <2>9, <2>10, <2>13, <2>14 DEF TypeOK
  <2>16. NoStaleText'
    BY <2>9, <2>10 DEF NoStaleText, Increasing
  <2>17. RequestsCounted'
    BY <2>7, <2>8, <2>13 DEF RequestsCounted, Okays
  <2> QED BY <2>15, <2>16, <2>17
<1> QED BY <1>1, <1>2 DEF Next

IInv == Safe /\ LayoutInv

LEMMA Invariance == Spec => []IInv
<1>1. Init => IInv
  <2> SUFFICES ASSUME Init PROVE LayoutInv
    BY InitSafe DEF IInv
  <2>1. Len(stream) \in 4 .. BufSize - 1 /\ BufSize \in Nat
    BY StreamShape DEF Init, stream
  <2>2. read = 0 /\ read # Len(stream) /\ result = <<>>
    BY <2>1 DEF Init
  <2>3. 0 <= OkayBytes
    BY DEF OkayBytes
  <2> QED BY <2>2, <2>3 DEF LayoutInv
<1>2. IInv /\ [Next]_vars => IInv'
  <2> SUFFICES ASSUME IInv, [Next]_vars PROVE LayoutInv'
    BY NextSafe DEF IInv
  <2>1. CASE UNCHANGED vars
    BY <2>1 DEF vars, IInv, LayoutInv, Orderly, Message, stream, OkayBytes
  <2>2. ASSUME NEW to \in Ends, OnRead(to) PROVE LayoutInv'
    BY <2>2, LayoutStep DEF IInv, Safe
  <2> QED BY <2>1, <2>2 DEF Next
<1> QED BY <1>1, <1>2, PTL DEF Spec

\* For messages of any length, cut in any way: the buffer is empty between two
\* chunks, because each callback clears what it was given, and the texts hold
\* bytes that were read.
THEOREM TypeCorrect == Spec => []TypeOK
<1>1. IInv => TypeOK
  BY DEF IInv, Safe
<1> QED BY <1>1, Invariance, PTL

\* However TCP cuts the stream, no callback reads a byte of an earlier chunk out
\* of the buffer that libhv uses again for each chunk.
THEOREM NothingIsStale == Spec => []NoStaleText
<1>1. IInv => NoStaleText
  BY DEF IInv, Safe
<1> QED BY <1>1, Invariance, PTL

\* For messages of any length: when each write of the server arrives as one chunk,
\* and for the services of the host also when writes arrive together, the command
\* succeeds and its caller has the message, whole and without what is around it.
THEOREM MessageIsRead == Spec => []ReplyIsMessage
<1>1. IInv => ReplyIsMessage
  <2> SUFFICES ASSUME IInv, Orderly, Done, case.answer = "OKAY"
               PROVE  /\ status = 0
                      /\ result = IF case.command.keeps = "drops" THEN <<>> ELSE Message
    BY DEF ReplyIsMessage, LayoutIsRead
  <2>1. Len(stream) \in 4 .. BufSize - 1 /\ BufSize \in Nat
    BY StreamShape DEF IInv, Safe, TypeOK, stream
  <2>2. read = Len(stream) /\ read > 0
    BY <2>1 DEF Done
  <2> QED BY <2>2 DEF IInv, LayoutInv
<1> QED BY <1>1, Invariance, PTL
=============================================================================
