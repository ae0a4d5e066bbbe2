-------------------------- MODULE DeviceList_proofs --------------------------
(***************************************************************************)
(* DeviceList for texts of any length and replies cut in any way.  What    *)
(* string_split and unique_spaces compute is shown by induction on the     *)
(* text: the set of lengths for which a statement holds contains 0 and the *)
(* successor of each of its members.                                       *)
(***************************************************************************)
EXTENDS DeviceList, SequenceTheorems, WellFoundedInduction, TLAPS

Texts == Seq(Chars)

LEMMA Appended ==
  ASSUME NEW C, NEW s \in Seq(C), NEW c \in C
  PROVE  /\ Append(s, c) \in Seq(C) /\ Append(s, c) # <<>> /\ Len(s) \in Nat
         /\ Len(Append(s, c)) = Len(s) + 1 /\ Append(s, c)[Len(s) + 1] = c
         /\ \A n \in 1 .. Len(s) : Append(s, c)[n] = s[n]
  BY AppendProperties, LenProperties
---------------------------------------------------------------------------
(***************************************************************************)
(* Induction and recursive functions                                       *)
(***************************************************************************)
LEMMA SetInduction ==
  ASSUME NEW S, 0 \in S, \A n \in Nat : n \in S => n + 1 \in S
  PROVE  Nat \subseteq S
<1> DEFINE T == Nat \ S
           R == OpToRel(<, Nat)
<1> SUFFICES ASSUME T # {} PROVE FALSE
  OBVIOUS
<1>1. IsWellFoundedOn(R, Nat)
  BY NatLessThanWellFounded
<1>2. T \subseteq Nat
  OBVIOUS
<1>3. \A x, y \in Nat : x < y => <<x, y>> \in R
  BY DEF OpToRel
<1> HIDE DEF T, R
<1>4. PICK x \in T : \A y \in T : ~ (<<y, x>> \in R)
  BY <1>1, <1>2, WFMin
<1>5. x \in Nat /\ x \notin S
  BY <1>2, <1>4 DEF T
<1>6. x - 1 \in Nat
  BY <1>5
<1>7. <<x - 1, x>> \in R
  BY <1>3, <1>5, <1>6
<1>8. x - 1 \in S
  BY <1>4, <1>6, <1>7 DEF T
<1>9. (x - 1) + 1 \in S
  BY <1>6, <1>8
<1> QED BY <1>5, <1>9

Iterates(u, b, g, N) == u[0] = b /\ \A n \in 1 .. N : u[n] = g[<<u[n - 1], n>>]

\* There are functions as the recursive definitions ask for.
LEMMA Iteration ==
  ASSUME NEW R, NEW b \in R, NEW N \in Nat, NEW g \in [R \X (1 .. N) -> R]
  PROVE  \E u \in [0 .. N -> R] : Iterates(u, b, g, N)
<1> USE DEF Iterates
<1> DEFINE Until(m) == {u \in [0 .. m -> R] : Iterates(u, b, g, m)}
           S == {m \in Nat : m <= N => Until(m) # {}}
<1>1. 0 \in S
  <2>1. [i \in 0 .. 0 |-> b] \in Until(0)
    OBVIOUS
  <2> QED BY <2>1
<1>2. ASSUME NEW m \in Nat, m \in S PROVE m + 1 \in S
  <2> SUFFICES ASSUME m + 1 <= N PROVE Until(m + 1) # {}
    OBVIOUS
  <2>1. PICK u \in [0 .. m -> R] : u[0] = b /\ \A n \in 1 .. m : u[n] = g[<<u[n - 1], n>>]
    BY <1>2
  <2> DEFINE v == [i \in 0 .. m + 1 |-> IF i <= m THEN u[i] ELSE g[<<u[m], m + 1>>]]
  <2>2. v \in [0 .. m + 1 -> R]
    <3>1. u[m] \in R /\ m + 1 \in 1 .. N
      BY <2>1
    <3>2. g[<<u[m], m + 1>>] \in R
      BY <3>1
    <3> QED BY <2>1, <3>2
  <2>3. v[0] = b
    BY <2>1
  <2>4. ASSUME NEW n \in 1 .. m + 1 PROVE v[n] = g[<<v[n - 1], n>>]
    <3>1. CASE n <= m
      BY <2>1, <3>1
    <3>2. CASE n = m + 1
      BY <3>2
    <3> QED BY <3>1, <3>2
  <2>5. v \in Until(m + 1)
    BY <2>2, <2>3, <2>4
  <2> QED BY <2>5
<1> HIDE DEF S
<1>3. N \in S
  BY <1>1, <1>2, SetInduction
<1> QED BY <1>3 DEF S

GoAlike(u, v, m) == u[0] = v[0] /\ \A n \in 1 .. m : u[n - 1] = v[n - 1] => u[n] = v[n]
Agree(u, v, m) == \A n \in 0 .. m : u[n] = v[n]

\* Two functions that start alike and go on alike are the same.
LEMMA SameIteration ==
  ASSUME NEW u, NEW v, NEW m \in Nat, GoAlike(u, v, m)
  PROVE  Agree(u, v, m)
<1> USE DEF GoAlike, Agree
<1> DEFINE S == {n \in Nat : n <= m => u[n] = v[n]}
<1>1. 0 \in S
  OBVIOUS
<1>2. ASSUME NEW n \in Nat, n \in S PROVE n + 1 \in S
  BY <1>2
<1> HIDE DEF S
<1>3. Nat \subseteq S
  BY <1>1, <1>2, SetInduction
<1> QED BY <1>3 DEF S

\* Induction over sequences: <<>>, and every sequence with one more element.
LEMMA AppendInduction ==
  ASSUME NEW C, NEW P, <<>> \in P,
         \A s \in Seq(C), c \in C : s \in P => Append(s, c) \in P
  PROVE  Seq(C) \subseteq P
<1> DEFINE S == {n \in Nat : \A s \in Seq(C) : Len(s) = n => s \in P}
<1>1. 0 \in S
  OBVIOUS
<1>2. ASSUME NEW n \in Nat, n \in S PROVE n + 1 \in S
  <2> SUFFICES ASSUME NEW t \in Seq(C), Len(t) = n + 1 PROVE t \in P
    OBVIOUS
  <2>1. t # <<>>
    OBVIOUS
  <2>2. PICK s \in Seq(C), c \in C : t = Append(s, c)
    BY <2>1, SequenceEmptyOrAppend
  <2>3. Len(s) = n
    BY <2>2, Appended
  <2>4. s \in P
    BY <1>2, <2>3
  <2> QED BY <2>2, <2>4
<1> HIDE DEF S
<1>3. Nat \subseteq S
  BY <1>1, <1>2, SetInduction
<1> QED BY <1>3, LenProperties DEF S
---------------------------------------------------------------------------
(***************************************************************************)
(* unique_spaces                                                           *)
(***************************************************************************)
Unspaced(text, c) ==
  IF c = " " /\ text # <<>> /\ Last(text) = " " THEN text ELSE Append(text, c)

IsUnspacing(res, str) ==
  res = [n \in 0 .. Len(str) |-> IF n = 0 THEN <<>> ELSE Unspaced(res[n - 1], str[n])]

LEMMA UnspacedType ==
  ASSUME NEW s \in Texts, NEW c \in Chars PROVE Unspaced(s, c) \in Texts
BY Appended DEF Unspaced, Texts

LEMMA Unspacing ==
  ASSUME NEW str \in Texts
  PROVE  \E res \in [0 .. Len(str) -> Texts] :
           IsUnspacing(res, str) /\ unique_spaces(str) = res[Len(str)]
<1> DEFINE N == Len(str)
           g == [x \in Texts \X (1 .. N) |-> Unspaced(x[1], str[x[2]])]
           res == CHOOSE f : IsUnspacing(f, str)
           e == <<>>
<1>1. N \in Nat /\ \A n \in 1 .. N : str[n] \in Chars
  BY DEF Texts
<1>2. unique_spaces(str) = res[Len(str)]
  BY DEF unique_spaces, IsUnspacing, Unspaced
<1>3. g \in [Texts \X (1 .. N) -> Texts] /\ <<>> \in Texts
  <2>1. \A x \in Texts \X (1 .. N) : Unspaced(x[1], str[x[2]]) \in Texts
    BY <1>1, UnspacedType
  <2>2. <<>> \in Texts
    BY DEF Texts
  <2> QED BY <2>1, <2>2
<1>4. PICK u \in [0 .. N -> Texts] : Iterates(u, e, g, N)
  <2>1. e \in Texts
    BY <1>3
  <2>2. N \in Nat /\ g \in [Texts \X (1 .. N) -> Texts]
    BY <1>1, <1>3
  <2> HIDE DEF g, N, e
  <2> QED BY <2>1, <2>2, Iteration
<1> HIDE DEF g, N
<1>5. \A n \in 1 .. N : u[n] = Unspaced(u[n - 1], str[n])
  BY <1>1, <1>4 DEF g, Iterates
<1>6. IsUnspacing(u, str)
  BY <1>1, <1>4, <1>5 DEF IsUnspacing, Iterates, N
<1>7. IsUnspacing(res, str)
  BY <1>6
<1> HIDE DEF res
<1>8. Agree(res, u, N)
  <2>1. GoAlike(res, u, N)
    BY <1>1, <1>4, <1>5, <1>7 DEF IsUnspacing, Iterates, GoAlike, N
  <2>2. N \in Nat
    BY <1>1
  <2> HIDE DEF N
  <2> QED BY <2>1, <2>2, SameIteration
<1>9. res \in [0 .. Len(str) -> Texts]
  BY <1>1, <1>4, <1>7, <1>8 DEF IsUnspacing, Agree, N
<1> QED BY <1>2, <1>7, <1>9

\* unique_spaces character by character.
LEMMA UniqueSpaces ==
  /\ unique_spaces(<<>>) = <<>>
  /\ \A s \in Texts : unique_spaces(s) \in Texts
  /\ \A s \in Texts, c \in Chars :
       unique_spaces(Append(s, c)) = Unspaced(unique_spaces(s), c)
<1>1. unique_spaces(<<>>) = <<>>
  <2>1. <<>> \in Texts /\ Len(<<>>) = 0
    BY DEF Texts
  <2> QED BY <2>1, Unspacing DEF IsUnspacing
<1>2. ASSUME NEW s \in Texts PROVE unique_spaces(s) \in Texts
  <2>1. Len(s) \in 0 .. Len(s)
    BY DEF Texts
  <2> QED BY <2>1, Unspacing
<1>3. ASSUME NEW s \in Texts, NEW c \in Chars
      PROVE  unique_spaces(Append(s, c)) = Unspaced(unique_spaces(s), c)
  <2> DEFINE t == Append(s, c)
             N == Len(s)
  <2>1. /\ t \in Texts /\ Len(t) = N + 1 /\ N \in Nat
        /\ t[N + 1] = c /\ \A n \in 1 .. N : t[n] = s[n]
    <3>1. s \in Seq(Chars)
      BY DEF Texts
    <3>2. /\ t \in Seq(Chars) /\ Len(t) = N + 1 /\ N \in Nat
          /\ t[N + 1] = c /\ \A n \in 1 .. N : t[n] = s[n]
      BY <3>1, Appended
    <3> QED BY <3>2 DEF Texts
  <2> HIDE DEF t
  <2>2. PICK u : IsUnspacing(u, s) /\ unique_spaces(s) = u[N]
    BY Unspacing
  <2>3. PICK v : IsUnspacing(v, t) /\ unique_spaces(t) = v[N + 1]
    BY <2>1, Unspacing
  <2>4. GoAlike(u, v, N)
    <3>1. u[0] = v[0]
      <4>1. 0 \in 0 .. Len(s) /\ 0 \in 0 .. Len(t)
        BY <2>1
      <4> QED BY <2>2, <2>3, <4>1 DEF IsUnspacing
    <3>2. ASSUME NEW n \in 1 .. N, u[n - 1] = v[n - 1]
          PROVE  u[n] = v[n]
      <4>1. n \in 0 .. Len(s) /\ n \in 0 .. Len(t) /\ n # 0 /\ s[n] = t[n]
        BY <2>1
      <4>2. u[n] = Unspaced(u[n - 1], s[n])
        BY <2>2, <4>1 DEF IsUnspacing
      <4>3. v[n] = Unspaced(v[n - 1], t[n])
        BY <2>3, <4>1 DEF IsUnspacing
      <4> QED BY <3>2, <4>1, <4>2, <4>3
    <3> QED BY <3>1, <3>2 DEF GoAlike
  <2>5. u[N] = v[N]
    <3>1. Agree(u, v, N)
      BY <2>1, <2>4, SameIteration
    <3> QED BY <2>1, <3>1 DEF Agree
  <2>6. v[N + 1] = Unspaced(v[N], c)
    <3>1. N + 1 \in 0 .. Len(t) /\ N + 1 # 0 /\ (N + 1) - 1 = N
      BY <2>1
    <3>2. v[N + 1] = Unspaced(v[(N + 1) - 1], t[N + 1])
      BY <2>3, <3>1 DEF IsUnspacing
    <3> QED BY <2>1, <3>1, <3>2
  <2> QED BY <2>2, <2>3, <2>5, <2>6 DEF t
<1> QED BY <1>1, <1>2, <1>3

\* What was cleaned stays as it is.
LEMMA CleanedTwice == \A s \in Texts : unique_spaces(unique_spaces(s)) = unique_spaces(s)
<1> DEFINE P == {s \in Texts : unique_spaces(unique_spaces(s)) = unique_spaces(s)}
<1>1. <<>> \in P
  BY UniqueSpaces, EmptySeq DEF Texts
<1>2. ASSUME NEW s \in Texts, NEW c \in Chars, s \in P PROVE Append(s, c) \in P
  <2>1. Append(s, c) \in Texts /\ unique_spaces(s) \in Texts
    BY Appended, UniqueSpaces DEF Texts
  <2>2. unique_spaces(Append(s, c)) = Unspaced(unique_spaces(s), c)
    BY UniqueSpaces
  <2>3. unique_spaces(unique_spaces(s)) = unique_spaces(s)
    BY <1>2
  <2>4. CASE Unspaced(unique_spaces(s), c) = unique_spaces(s)
    BY <2>1, <2>2, <2>3, <2>4
  <2>5. CASE Unspaced(unique_spaces(s), c) = Append(unique_spaces(s), c)
    <3>1. unique_spaces(Append(unique_spaces(s), c)) = Unspaced(unique_spaces(unique_spaces(s)), c)
      BY <2>1, UniqueSpaces
    <3> QED BY <2>1, <2>2, <2>3, <2>5, <3>1
  <2> QED BY <2>4, <2>5 DEF Unspaced
<1> HIDE DEF P
<1>3. Texts \subseteq P
  BY <1>1, <1>2, AppendInduction DEF Texts
<1> QED BY <1>3 DEF P

LEMMA ConcatAppend ==
  ASSUME NEW C, NEW s \in Seq(C), NEW t \in Seq(C), NEW c \in C
  PROVE  s \o Append(t, c) = Append(s \o t, c)
<1>1. <<c>> \in Seq(C) /\ s \o t \in Seq(C)
  BY ConcatProperties
<1> QED BY <1>1, AppendIsConcat, ConcatAssociative

LEMMA TextsConcat ==
  /\ \A a, b \in Texts : a \o b \in Texts
  /\ \A a, b, c \in Texts : (a \o b) \o c = a \o (b \o c)
BY ConcatProperties, ConcatAssociative DEF Texts

\* A text may be cleaned before more of it arrives.
LEMMA CleanedFirst ==
  ASSUME NEW a \in Texts, NEW b \in Texts
  PROVE  unique_spaces(unique_spaces(a) \o b) = unique_spaces(a \o b)
<1> DEFINE w == unique_spaces(a)
           P == {t \in Texts : unique_spaces(w \o t) = unique_spaces(a \o t)}
<1>0. w \in Texts /\ unique_spaces(w) = w
  BY UniqueSpaces, CleanedTwice
<1>1. <<>> \in P
  BY <1>0, EmptySeq, ConcatEmptySeq DEF Texts
<1>2. ASSUME NEW t \in Texts, NEW c \in Chars, t \in P PROVE Append(t, c) \in P
  <2> HIDE DEF w
  <2>1. Append(t, c) \in Texts /\ w \o t \in Texts /\ a \o t \in Texts
    BY <1>0, Appended, ConcatProperties DEF Texts
  <2>2. w \o Append(t, c) = Append(w \o t, c) /\ a \o Append(t, c) = Append(a \o t, c)
    BY <1>0, ConcatAppend DEF Texts
  <2>3. unique_spaces(w \o t) = unique_spaces(a \o t)
    BY <1>2
  <2>4. unique_spaces(Append(w \o t, c)) = unique_spaces(Append(a \o t, c))
    BY <2>1, <2>3, UniqueSpaces
  <2> QED BY <2>1, <2>2, <2>4
<1> HIDE DEF P
<1>3. Texts \subseteq P
  BY <1>1, <1>2, AppendInduction DEF Texts
<1> QED BY <1>3 DEF P

Begins(C, s, t) == \E r \in Seq(C) : t = s \o r

LEMMA BeginsFacts ==
  ASSUME NEW C, NEW s \in Seq(C)
  PROVE  /\ Begins(C, s, s)
         /\ \A c \in C : Begins(C, s, Append(s, c))
         /\ \A t \in Seq(C), v \in Seq(C) : Begins(C, s, t) /\ Begins(C, t, v) => Begins(C, s, v)
         /\ \A t : Begins(C, s, t) => IsPrefix(s, t)
<1>1. Begins(C, s, s)
  BY EmptySeq, ConcatEmptySeq DEF Begins
<1>2. ASSUME NEW c \in C PROVE Begins(C, s, Append(s, c))
  <2>1. <<c>> \in Seq(C)
    OBVIOUS
  <2> QED BY <2>1, AppendIsConcat DEF Begins
<1>3. ASSUME NEW t \in Seq(C), NEW v \in Seq(C), Begins(C, s, t), Begins(C, t, v)
      PROVE  Begins(C, s, v)
  <2>1. PICK q \in Seq(C) : t = s \o q
    BY <1>3 DEF Begins
  <2>2. PICK r \in Seq(C) : v = t \o r
    BY <1>3 DEF Begins
  <2>3. v = s \o (q \o r) /\ q \o r \in Seq(C)
    BY <2>1, <2>2, ConcatAssociative, ConcatProperties
  <2> QED BY <2>3 DEF Begins
<1>4. ASSUME NEW t, Begins(C, s, t) PROVE IsPrefix(s, t)
  <2>1. PICK r \in Seq(C) : t = s \o r
    BY <1>4 DEF Begins
  <2>2. /\ Len(t) = Len(s) + Len(r) /\ Len(s) \in Nat /\ Len(r) \in Nat /\ t \in Seq(C)
        /\ \A i \in 1 .. Len(s) : t[i] = s[i]
    BY <2>1, ConcatProperties, LenProperties
  <2>3. SubSeq(s, 1, Len(s)) = SubSeq(t, 1, Len(s))
    BY <2>2
  <2> QED BY <2>2, <2>3 DEF IsPrefix
<1> QED BY <1>1, <1>2, <1>3, <1>4

\* What was cleaned is never taken back.
LEMMA CleanedGrows ==
  ASSUME NEW a \in Texts, NEW b \in Texts
  PROVE  Begins(Chars, unique_spaces(a), unique_spaces(a \o b))
<1> DEFINE w == unique_spaces(a)
           P == {t \in Texts : Begins(Chars, w, unique_spaces(a \o t))}
<1>0. w \in Seq(Chars)
  BY UniqueSpaces DEF Texts
<1>1. <<>> \in P
  BY <1>0, EmptySeq, ConcatEmptySeq, BeginsFacts DEF Texts
<1>2. ASSUME NEW t \in Texts, NEW c \in Chars, t \in P PROVE Append(t, c) \in P
  <2> DEFINE v == unique_spaces(a \o t)
  <2>1. Append(t, c) \in Texts /\ a \o t \in Texts /\ v \in Seq(Chars)
    BY Appended, ConcatProperties, UniqueSpaces DEF Texts
  <2>2. a \o Append(t, c) = Append(a \o t, c)
    BY ConcatAppend DEF Texts
  <2>3. unique_spaces(Append(a \o t, c)) = Unspaced(v, c)
    BY <2>1, UniqueSpaces
  <2>4. Begins(Chars, w, v)
    BY <1>2
  <2> HIDE DEF v, w
  <2>5. Unspaced(v, c) \in Seq(Chars) /\ Begins(Chars, v, Unspaced(v, c))
    BY <2>1, BeginsFacts, Appended DEF Unspaced
  <2>6. Begins(Chars, w, Unspaced(v, c))
    BY <1>0, <2>1, <2>4, <2>5, BeginsFacts
  <2> QED BY <2>1, <2>2, <2>3, <2>6
<1> HIDE DEF P
<1>3. Texts \subseteq P
  BY <1>1, <1>2, AppendInduction DEF Texts
<1> QED BY <1>3 DEF P
---------------------------------------------------------------------------
(***************************************************************************)
(* string_split                                                            *)
(***************************************************************************)
WordLists == Seq(Texts) \ {<<>>}

Split(words, c, d) ==
  IF c = d THEN Append(words, <<>>) ELSE Append(Front(words), Append(Last(words), c))

IsSplitting(res, str, d) ==
  res = [n \in 0 .. Len(str) |-> IF n = 0 THEN << <<>> >> ELSE Split(res[n - 1], str[n], d)]

LEMMA FrontLast ==
  ASSUME NEW C, NEW s \in Seq(C), s # <<>>
  PROVE  /\ Front(s) \in Seq(C) /\ Last(s) \in C /\ s = Append(Front(s), Last(s))
         /\ Len(s) \in Nat \ {0} /\ Len(Front(s)) = Len(s) - 1
<1>1. Len(s) \in Nat \ {0} /\ \A i \in 1 .. Len(s) : s[i] \in C
  BY EmptySeq, ElementOfSeq
<1>2. /\ Front(s) \in Seq(C) /\ Len(Front(s)) = Len(s) - 1
      /\ \A i \in 1 .. Len(s) - 1 : Front(s)[i] = s[i]
  <2> DEFINE n == Len(s) - 1
  <2>1. n \in Int /\ 0 <= n /\ \A i \in 1 .. n : s[i] \in C
    BY <1>1
  <2> HIDE DEF n
  <2>2. /\ SubSeq(s, 1, n) \in Seq(C) /\ Len(SubSeq(s, 1, n)) = n
        /\ \A i \in 1 .. n : SubSeq(s, 1, n)[i] = s[i]
    BY <2>1
  <2> QED BY <2>2 DEF Front, n
<1>3. Last(s) \in C
  BY <1>1 DEF Last
<1> DEFINE t == Append(Front(s), Last(s))
<1>4. t \in Seq(C) /\ Len(t) = Len(s)
  BY <1>1, <1>2, <1>3, Appended
<1>5. ASSUME NEW i \in 1 .. Len(s) PROVE s[i] = t[i]
  <2>1. CASE i = Len(s)
    BY <1>1, <1>2, <1>3, <2>1, Appended DEF Last
  <2>2. CASE i \in 1 .. Len(s) - 1
    BY <1>1, <1>2, <1>3, <2>2, Appended
  <2>3. i = Len(s) \/ i \in 1 .. Len(s) - 1
    BY <1>1
  <2> HIDE DEF t
  <2> QED BY <2>1, <2>2, <2>3
<1>6. s = t
  BY <1>4, <1>5, SeqEqual
<1> QED BY <1>1, <1>2, <1>3, <1>6

LEMMA FrontAppend ==
  ASSUME NEW C, NEW s \in Seq(C), NEW c \in C
  PROVE  Front(Append(s, c)) = s /\ Last(Append(s, c)) = c
<1> DEFINE t == Append(s, c)
<1>1. t \in Seq(C) /\ t # <<>>
  BY Appended
<1>2. t = Append(Front(t), Last(t)) /\ Front(t) \in Seq(C) /\ Last(t) \in C
  BY <1>1, FrontLast
<1> QED BY <1>2, AppendInjective

LEMMA SplitType ==
  ASSUME NEW words \in WordLists, NEW c \in Chars, NEW d
  PROVE  Split(words, c, d) \in WordLists
<1>1. <<>> \in Texts
  BY DEF Texts
<1>2. Front(words) \in Seq(Texts) /\ Last(words) \in Texts
  BY FrontLast DEF WordLists
<1>3. Append(Last(words), c) \in Texts
  BY <1>2, Appended DEF Texts
<1>4. Append(words, <<>>) \in WordLists
  BY <1>1, Appended DEF WordLists
<1>5. Append(Front(words), Append(Last(words), c)) \in WordLists
  <2> DEFINE f == Front(words)
             l == Append(Last(words), c)
  <2>1. f \in Seq(Texts) /\ l \in Texts
    BY <1>2, <1>3
  <2> HIDE DEF f, l
  <2>2. Append(f, l) \in WordLists
    BY <2>1, Appended DEF WordLists
  <2> QED BY <2>2 DEF f, l
<1> QED BY <1>4, <1>5 DEF Split

LEMMA Splitting ==
  ASSUME NEW str \in Texts, NEW d
  PROVE  \E res \in [0 .. Len(str) -> WordLists] :
           IsSplitting(res, str, d) /\ string_split(str, d) = res[Len(str)]
<1> DEFINE N == Len(str)
           g == [x \in WordLists \X (1 .. N) |-> Split(x[1], str[x[2]], d)]
           res == CHOOSE f : IsSplitting(f, str, d)
           e == << <<>> >>
<1>1. N \in Nat /\ \A n \in 1 .. N : str[n] \in Chars
  BY DEF Texts
<1>2. string_split(str, d) = res[Len(str)]
  BY DEF string_split, IsSplitting, Split
<1>3. g \in [WordLists \X (1 .. N) -> WordLists] /\ e \in WordLists
  <2>1. \A x \in WordLists \X (1 .. N) : Split(x[1], str[x[2]], d) \in WordLists
    BY <1>1, SplitType
  <2>2. e \in WordLists
    <3>1. <<>> \in Texts
      BY DEF Texts
    <3> QED BY <3>1 DEF WordLists
  <2> QED BY <2>1, <2>2
<1>4. PICK u \in [0 .. N -> WordLists] : Iterates(u, e, g, N)
  <2>1. e \in WordLists
    BY <1>3
  <2>2. N \in Nat /\ g \in [WordLists \X (1 .. N) -> WordLists]
    BY <1>1, <1>3
  <2> HIDE DEF g, N, e
  <2> QED BY <2>1, <2>2, Iteration
<1> HIDE DEF g, N
<1>5. \A n \in 1 .. N : u[n] = Split(u[n - 1], str[n], d)
  <2> TAKE n \in 1 .. N
  <2>1. u[n - 1] \in WordLists /\ u[n] = g[<<u[n - 1], n>>]
    BY <1>1, <1>4 DEF Iterates
  <2>2. <<u[n - 1], n>> \in WordLists \X (1 .. N)
    BY <2>1
  <2>3. g[<<u[n - 1], n>>] = Split(u[n - 1], str[n], d)
    BY <2>2 DEF g
  <2> QED BY <2>1, <2>3
<1>6. IsSplitting(u, str, d)
  <2>1. u[0] = << <<>> >> /\ u = [n \in 0 .. N |-> u[n]]
    BY <1>4 DEF Iterates
  <2>2. \A n \in 0 .. N : u[n] = IF n = 0 THEN << <<>> >> ELSE Split(u[n - 1], str[n], d)
    <3>1. \A n \in 0 .. N : n # 0 => n \in 1 .. N
      BY <1>1
    <3> QED BY <1>5, <2>1, <3>1
  <2> QED BY <2>1, <2>2 DEF IsSplitting, N
<1>7. IsSplitting(res, str, d)
  BY <1>6
<1> HIDE DEF res
<1>8. Agree(res, u, N)
  <2>1. GoAlike(res, u, N)
    BY <1>1, <1>4, <1>5, <1>7 DEF IsSplitting, Iterates, GoAlike, N
  <2>2. N \in Nat
    BY <1>1
  <2> HIDE DEF N
  <2> QED BY <2>1, <2>2, SameIteration
<1>9. res \in [0 .. Len(str) -> WordLists]
  BY <1>1, <1>4, <1>7, <1>8 DEF IsSplitting, Agree, N
<1> QED BY <1>2, <1>7, <1>9

\* string_split character by character.
LEMMA StringSplit ==
  ASSUME NEW d
  PROVE  /\ string_split(<<>>, d) = << <<>> >>
         /\ \A s \in Texts : string_split(s, d) \in WordLists
         /\ \A s \in Texts, c \in Chars :
              string_split(Append(s, c), d) = Split(string_split(s, d), c, d)
<1>1. string_split(<<>>, d) = << <<>> >>
  <2>1. <<>> \in Texts /\ Len(<<>>) = 0
    BY DEF Texts
  <2> QED BY <2>1, Splitting DEF IsSplitting
<1>2. ASSUME NEW s \in Texts PROVE string_split(s, d) \in WordLists
  <2>1. Len(s) \in 0 .. Len(s)
    BY DEF Texts
  <2> QED BY <2>1, Splitting
<1>3. ASSUME NEW s \in Texts, NEW c \in Chars
      PROVE  string_split(Append(s, c), d) = Split(string_split(s, d), c, d)
  <2> DEFINE t == Append(s, c)
             N == Len(s)
  <2>1. /\ t \in Texts /\ Len(t) = N + 1 /\ N \in Nat
        /\ t[N + 1] = c /\ \A n \in 1 .. N : t[n] = s[n]
    <3>1. s \in Seq(Chars)
      BY DEF Texts
    <3>2. /\ t \in Seq(Chars) /\ Len(t) = N + 1 /\ N \in Nat
          /\ t[N + 1] = c /\ \A n \in 1 .. N : t[n] = s[n]
      BY <3>1, Appended
    <3> QED BY <3>2 DEF Texts
  <2> HIDE DEF t
  <2>2. PICK u : IsSplitting(u, s, d) /\ string_split(s, d) = u[N]
    BY Splitting
  <2>3. PICK v : IsSplitting(v, t, d) /\ string_split(t, d) = v[N + 1]
    BY <2>1, Splitting
  <2>4. GoAlike(u, v, N)
    <3>1. u[0] = v[0]
      <4>1. 0 \in 0 .. Len(s) /\ 0 \in 0 .. Len(t)
        BY <2>1
      <4> QED BY <2>2, <2>3, <4>1 DEF IsSplitting
    <3>2. ASSUME NEW n \in 1 .. N, u[n - 1] = v[n - 1]
          PROVE  u[n] = v[n]
      <4>1. n \in 0 .. Len(s) /\ n \in 0 .. Len(t) /\ n # 0 /\ s[n] = t[n]
        BY <2>1
      <4>2. u[n] = Split(u[n - 1], s[n], d)
        BY <2>2, <4>1 DEF IsSplitting
      <4>3. v[n] = Split(v[n - 1], t[n], d)
        BY <2>3, <4>1 DEF IsSplitting
      <4> QED BY <3>2, <4>1, <4>2, <4>3
    <3> QED BY <3>1, <3>2 DEF GoAlike
  <2>5. u[N] = v[N]
    <3>1. Agree(u, v, N)
      BY <2>1, <2>4, SameIteration
    <3> QED BY <2>1, <3>1 DEF Agree
  <2>6. v[N + 1] = Split(v[N], c, d)
    <3>1. N + 1 \in 0 .. Len(t) /\ N + 1 # 0 /\ (N + 1) - 1 = N
      BY <2>1
    <3>2. v[N + 1] = Split(v[(N + 1) - 1], t[N + 1], d)
      BY <2>3, <3>1 DEF IsSplitting
    <3> QED BY <2>1, <3>1, <3>2
  <2> QED BY <2>2, <2>3, <2>5, <2>6 DEF t
<1> QED BY <1>1, <1>2, <1>3

\* The words before the last one are final.
LEMMA WordsStay ==
  ASSUME NEW a \in Texts, NEW b \in Texts, NEW d
  PROVE  Begins(Texts, Front(string_split(a, d)), Front(string_split(a \o b, d)))
<1> DEFINE w == Front(string_split(a, d))
           P == {t \in Texts : Begins(Texts, w, Front(string_split(a \o t, d)))}
<1>0. w \in Seq(Texts)
  BY StringSplit, FrontLast DEF WordLists
<1>1. <<>> \in P
  BY <1>0, EmptySeq, ConcatEmptySeq, BeginsFacts DEF Texts
<1>2. ASSUME NEW t \in Texts, NEW c \in Chars, t \in P PROVE Append(t, c) \in P
  <2> DEFINE v == string_split(a \o t, d)
             e == <<>>
  <2>1. Append(t, c) \in Texts /\ a \o t \in Texts /\ e \in Texts
    BY Appended, ConcatProperties DEF Texts
  <2>2. v \in Seq(Texts) /\ v # <<>>
    BY <2>1, StringSplit DEF WordLists
  <2>3. a \o Append(t, c) = Append(a \o t, c)
    BY ConcatAppend DEF Texts
  <2>4. string_split(Append(a \o t, c), d) = Split(v, c, d)
    BY <2>1, StringSplit
  <2>5. Begins(Texts, w, Front(v))
    BY <1>2
  <2>6. Split(v, c, d) = IF c = d THEN Append(v, e) ELSE Append(Front(v), Append(Last(v), c))
    BY DEF Split
  <2> HIDE DEF v, w, e
  <2>7. Front(v) \in Seq(Texts) /\ Last(v) \in Texts /\ v = Append(Front(v), Last(v))
    BY <2>2, FrontLast
  <2>8. CASE c = d
    <3>1. Front(Split(v, c, d)) = v
      BY <2>1, <2>2, <2>6, <2>8, FrontAppend
    <3>2. Begins(Texts, Front(v), v)
      BY <2>7, BeginsFacts
    <3>3. Begins(Texts, w, v)
      BY <1>0, <2>2, <2>5, <2>7, <3>2, BeginsFacts
    <3> QED BY <2>1, <2>3, <2>4, <3>1, <3>3
  <2>9. CASE c # d
    <3>1. Append(Last(v), c) \in Texts
      BY <2>7, Appended DEF Texts
    <3>2. Front(Split(v, c, d)) = Front(v)
      BY <2>6, <2>7, <2>9, <3>1, FrontAppend
    <3> QED BY <2>1, <2>3, <2>4, <2>5, <3>2
  <2> QED BY <2>8, <2>9
<1> HIDE DEF P
<1>3. Texts \subseteq P
  BY <1>1, <1>2, AppendInduction DEF Texts
<1> QED BY <1>3 DEF P
---------------------------------------------------------------------------
(***************************************************************************)
(* FlattenSeq: the lines of a text                                         *)
(***************************************************************************)
IsFlattening(f, ss) ==
  f = [i \in 1 .. Len(ss) |-> IF i = 1 THEN ss[i] ELSE f[i - 1] \o ss[i]]

\* The same from 0 on, where nothing has been joined yet.
Joined(f, ss) == [n \in 0 .. Len(ss) |-> IF n = 0 THEN <<>> ELSE f[n]]

Joins(v, ss) ==
  /\ v[0] = <<>>
  /\ \A n \in 1 .. Len(ss) : v[n - 1] \in Texts => v[n] \in Texts /\ v[n] = v[n - 1] \o ss[n]

LEMMA FlatteningJoins ==
  ASSUME NEW ss \in Seq(Texts), NEW f, IsFlattening(f, ss)
  PROVE  Joins(Joined(f, ss), ss)
<1> DEFINE v == Joined(f, ss)
<1>1. Len(ss) \in Nat /\ \A n \in 1 .. Len(ss) : ss[n] \in Texts
  BY LenProperties, ElementOfSeq
<1>2. v[0] = <<>>
  BY <1>1 DEF Joined
<1>3. ASSUME NEW n \in 1 .. Len(ss), v[n - 1] \in Texts
      PROVE  v[n] \in Texts /\ v[n] = v[n - 1] \o ss[n]
  <2>1. v[n] = f[n]
    BY <1>1 DEF Joined
  <2>2. CASE n = 1
    <3>1. f[n] = ss[n]
      BY <2>2 DEF IsFlattening
    <3>2. v[n - 1] = <<>>
      BY <1>2, <2>2
    <3>3. ss[n] \in Texts
      BY <1>1
    <3>4. <<>> \o ss[n] = ss[n]
      BY <3>3, ConcatEmptySeq DEF Texts
    <3> QED BY <2>1, <3>1, <3>2, <3>3, <3>4
  <2>3. CASE n # 1
    <3>1. n - 1 \in 0 .. Len(ss) /\ n - 1 # 0
      BY <1>1, <2>3
    <3>2. f[n] = f[n - 1] \o ss[n]
      BY <2>3 DEF IsFlattening
    <3>3. v[n - 1] = f[n - 1]
      BY <3>1 DEF Joined
    <3> HIDE DEF v
    <3>4. v[n - 1] \o ss[n] \in Texts
      BY <1>1, <1>3, ConcatProperties DEF Texts
    <3> QED BY <2>1, <3>2, <3>3, <3>4
  <2> QED BY <2>2, <2>3
<1> QED BY <1>2, <1>3 DEF Joins

LEMMA Flattening ==
  ASSUME NEW ss \in Seq(Texts), ss # <<>>
  PROVE  \E f : IsFlattening(f, ss) /\ FlattenSeq(ss) = f[Len(ss)]
<1> DEFINE N == Len(ss)
           g == [x \in Texts \X (1 .. N) |-> x[1] \o ss[x[2]]]
           res == CHOOSE f : IsFlattening(f, ss)
           e == <<>>
<1>1. N \in Nat \ {0} /\ \A n \in 1 .. N : ss[n] \in Texts
  BY EmptySeq, LenProperties, ElementOfSeq
<1>2. FlattenSeq(ss) = res[Len(ss)]
  BY <1>1 DEF FlattenSeq, IsFlattening
<1>3. e \in Texts
  BY DEF Texts
<1>4. g \in [Texts \X (1 .. N) -> Texts]
  <2>1. \A x \in Texts \X (1 .. N) : x[1] \o ss[x[2]] \in Texts
    BY <1>1, ConcatProperties DEF Texts
  <2> QED BY <2>1
<1>5. PICK u \in [0 .. N -> Texts] : Iterates(u, e, g, N)
  <2>1. N \in Nat
    BY <1>1
  <2> HIDE DEF g, N, e
  <2> QED BY <1>3, <1>4, <2>1, Iteration
<1>6. \A n \in 1 .. N : u[n] = u[n - 1] \o ss[n]
  <2> TAKE n \in 1 .. N
  <2>1. u[n - 1] \in Texts /\ u[n] = g[<<u[n - 1], n>>]
    <3>1. n - 1 \in 0 .. N
      BY <1>1
    <3> HIDE DEF g, N
    <3> QED BY <1>5, <3>1 DEF Iterates
  <2>2. <<u[n - 1], n>> \in Texts \X (1 .. N)
    BY <2>1
  <2>3. g[<<u[n - 1], n>>] = u[n - 1] \o ss[n]
    BY <2>2
  <2> QED BY <2>1, <2>3
<1> DEFINE f == [n \in 1 .. N |-> u[n]]
<1>7. IsFlattening(f, ss)
  <2>1. ASSUME NEW n \in 1 .. N
        PROVE  u[n] = IF n = 1 THEN ss[n] ELSE f[n - 1] \o ss[n]
    <3>1. CASE n = 1
      <4>1. u[0] = e /\ u[n] = u[0] \o ss[n] /\ ss[n] \in Texts
        BY <1>1, <1>5, <1>6, <3>1 DEF Iterates
      <4>2. e \o ss[n] = ss[n]
        BY <4>1, ConcatEmptySeq DEF Texts
      <4> QED BY <3>1, <4>1, <4>2
    <3>2. CASE n # 1
      <4>1. n - 1 \in 1 .. N
        BY <1>1, <3>2
      <4> QED BY <1>6, <3>2, <4>1
    <3> QED BY <3>1, <3>2
  <2> QED BY <2>1 DEF IsFlattening
<1>8. IsFlattening(res, ss)
  BY <1>7
<1> QED BY <1>2, <1>8

\* FlattenSeq line by line.
LEMMA FlattenLines ==
  /\ FlattenSeq(<<>>) = <<>>
  /\ \A ss \in Seq(Texts) : FlattenSeq(ss) \in Texts
  /\ \A ss \in Seq(Texts), t \in Texts : FlattenSeq(Append(ss, t)) = FlattenSeq(ss) \o t
<1>1. FlattenSeq(<<>>) = <<>>
  BY DEF FlattenSeq
<1>2. ASSUME NEW ss \in Seq(Texts), NEW v, Joins(v, ss)
      PROVE  \A n \in 0 .. Len(ss) : v[n] \in Texts
  <2> DEFINE S == {n \in Nat : n <= Len(ss) => v[n] \in Texts}
  <2>1. 0 \in S
    <3>1. <<>> \in Texts
      BY DEF Texts
    <3>2. v[0] = <<>>
      BY <1>2 DEF Joins
    <3>3. v[0] \in Texts
      BY <3>1, <3>2
    <3> QED BY <3>3
  <2>2. ASSUME NEW n \in Nat, n \in S PROVE n + 1 \in S
    <3> SUFFICES ASSUME n + 1 <= Len(ss) PROVE v[n + 1] \in Texts
      OBVIOUS
    <3>1. n + 1 \in 1 .. Len(ss) /\ (n + 1) - 1 = n /\ v[n] \in Texts
      BY <2>2, LenProperties
    <3> QED BY <1>2, <3>1 DEF Joins
  <2> HIDE DEF S
  <2>3. Nat \subseteq S
    BY <2>1, <2>2, SetInduction
  <2> QED BY <2>3, LenProperties DEF S
<1>3. ASSUME NEW ss \in Seq(Texts)
      PROVE  \E v : /\ Joins(v, ss) /\ FlattenSeq(ss) = v[Len(ss)]
                   /\ Len(ss) \in Nat /\ \A n \in 0 .. Len(ss) : v[n] \in Texts
  <2>0. Len(ss) \in Nat
    BY LenProperties
  <2>1. CASE ss = <<>>
    <3> DEFINE v == Joined(<<>>, ss)
    <3>1. Joins(v, ss) /\ FlattenSeq(ss) = v[Len(ss)]
      BY <1>1, <2>1 DEF Joins, Joined
    <3> HIDE DEF v
    <3> QED BY <1>2, <2>0, <3>1
  <2>2. CASE ss # <<>>
    <3>1. PICK f : IsFlattening(f, ss) /\ FlattenSeq(ss) = f[Len(ss)]
      BY <2>2, Flattening
    <3> DEFINE v == Joined(f, ss)
    <3>2. Joins(v, ss)
      BY <3>1, FlatteningJoins
    <3>3. v[Len(ss)] = f[Len(ss)]
      BY <2>0, <2>2, EmptySeq DEF Joined
    <3> HIDE DEF v
    <3> QED BY <1>2, <2>0, <3>1, <3>2, <3>3
  <2> QED BY <2>1, <2>2
<1>4. ASSUME NEW ss \in Seq(Texts) PROVE FlattenSeq(ss) \in Texts
  <2>1. PICK v : FlattenSeq(ss) = v[Len(ss)] /\ Len(ss) \in Nat /\ \A n \in 0 .. Len(ss) : v[n] \in Texts
    BY <1>3
  <2> QED BY <2>1
<1>5. ASSUME NEW ss \in Seq(Texts), NEW t \in Texts
      PROVE  FlattenSeq(Append(ss, t)) = FlattenSeq(ss) \o t
  <2> DEFINE N == Len(ss)
             tt == Append(ss, t)
  <2>1. /\ tt \in Seq(Texts) /\ Len(tt) = N + 1 /\ N \in Nat
        /\ tt[N + 1] = t /\ \A n \in 1 .. N : tt[n] = ss[n]
    BY Appended
  <2> HIDE DEF tt
  <2>2. PICK u : Joins(u, ss) /\ FlattenSeq(ss) = u[N] /\ \A n \in 0 .. N : u[n] \in Texts
    BY <1>3
  <2>3. PICK v : Joins(v, tt) /\ FlattenSeq(tt) = v[N + 1] /\ \A n \in 0 .. N + 1 : v[n] \in Texts
    BY <1>3, <2>1
  <2>4. \A n \in 1 .. N : u[n] = u[n - 1] \o ss[n]
    <3> TAKE n \in 1 .. N
    <3>1. n - 1 \in 0 .. N
      BY <2>1
    <3> QED BY <2>2, <3>1 DEF Joins
  <2>5. \A n \in 1 .. N + 1 : v[n] = v[n - 1] \o tt[n]
    <3> TAKE n \in 1 .. N + 1
    <3>1. n - 1 \in 0 .. N + 1 /\ n \in 1 .. Len(tt)
      BY <2>1
    <3> QED BY <2>3, <3>1 DEF Joins
  <2>6. GoAlike(u, v, N)
    <3>1. u[0] = v[0]
      BY <2>2, <2>3 DEF Joins
    <3>2. ASSUME NEW n \in 1 .. N, u[n - 1] = v[n - 1] PROVE u[n] = v[n]
      <4>1. n \in 1 .. N + 1 /\ tt[n] = ss[n]
        BY <2>1
      <4> QED BY <2>4, <2>5, <3>2, <4>1
    <3> QED BY <3>1, <3>2 DEF GoAlike
  <2>7. u[N] = v[N]
    <3>1. Agree(u, v, N)
      BY <2>1, <2>6, SameIteration
    <3> QED BY <2>1, <3>1 DEF Agree
  <2>8. v[N + 1] = v[N] \o t
    <3>1. N + 1 \in 1 .. N + 1 /\ (N + 1) - 1 = N
      BY <2>1
    <3> QED BY <2>1, <2>5, <3>1
  <2> QED BY <2>2, <2>3, <2>7, <2>8 DEF tt
<1> QED BY <1>1, <1>4, <1>5
---------------------------------------------------------------------------
(***************************************************************************)
(* Words: texts without the delimiter, texts without spaces                *)
(***************************************************************************)
\* The delimiters, by name: the provers are slow with strings.
Space == " "
Tab == "\t"
Newline == "\n"
Colon == ":"

Without(s, c) == \A i \in 1 .. Len(s) : s[i] # c

LEMMA WithoutAppend ==
  ASSUME NEW s \in Texts, NEW e \in Chars, NEW c, Without(Append(s, e), c)
  PROVE  Without(s, c) /\ e # c
<1> DEFINE t == Append(s, e)
<1>1. Len(s) \in Nat /\ Len(t) = Len(s) + 1 /\ t[Len(s) + 1] = e /\ \A n \in 1 .. Len(s) : t[n] = s[n]
  BY Appended DEF Texts
<1>2. Without(t, c)
  OBVIOUS
<1> HIDE DEF t
<1> QED BY <1>1, <1>2 DEF Without

LEMMA WithoutConcat ==
  ASSUME NEW s \in Texts, NEW t \in Texts, NEW c, Without(s, c), Without(t, c)
  PROVE  Without(s \o t, c)
<1>1. /\ Len(s) \in Nat /\ Len(t) \in Nat /\ Len(s \o t) = Len(s) + Len(t)
      /\ \A i \in 1 .. Len(s) + Len(t) : (s \o t)[i] = IF i <= Len(s) THEN s[i] ELSE t[i - Len(s)]
  BY ConcatProperties, LenProperties DEF Texts
<1> DEFINE v == s \o t
<1>2. /\ Len(v) = Len(s) + Len(t)
      /\ \A i \in 1 .. Len(s) + Len(t) : v[i] = IF i <= Len(s) THEN s[i] ELSE t[i - Len(s)]
  BY <1>1
<1> HIDE DEF v
<1>3. ASSUME NEW i \in 1 .. Len(v) PROVE v[i] # c
  <2>1. CASE i <= Len(s)
    BY <1>1, <1>2, <2>1 DEF Without
  <2>2. CASE ~ (i <= Len(s))
    <3>1. i - Len(s) \in 1 .. Len(t) /\ v[i] = t[i - Len(s)]
      BY <1>1, <1>2, <2>2
    <3> QED BY <3>1 DEF Without
  <2> QED BY <2>1, <2>2
<1>4. Without(v, c)
  BY <1>3 DEF Without
<1> QED BY <1>4 DEF v

\* A text without the delimiter lengthens the last word.
LEMMA LastWord ==
  ASSUME NEW a \in Texts, NEW w \in Texts, NEW d, Without(w, d)
  PROVE  string_split(a \o w, d) = Append(Front(string_split(a, d)), Last(string_split(a, d)) \o w)
<1> DEFINE f == Front(string_split(a, d))
           l == Last(string_split(a, d))
           P == {t \in Texts : Without(t, d) => string_split(a \o t, d) = Append(f, l \o t)}
<1>0. f \in Seq(Texts) /\ l \in Texts /\ string_split(a, d) = Append(f, l)
  BY StringSplit, FrontLast DEF WordLists
<1> HIDE DEF f, l
<1>1. <<>> \in P
  BY <1>0, EmptySeq, ConcatEmptySeq DEF Texts
<1>2. ASSUME NEW t \in Texts, NEW c \in Chars, t \in P PROVE Append(t, c) \in P
  <2>1. Append(t, c) \in Texts /\ a \o t \in Texts /\ l \o t \in Texts
    BY <1>0, Appended, ConcatProperties DEF Texts
  <2> SUFFICES ASSUME Without(Append(t, c), d)
               PROVE  string_split(a \o Append(t, c), d) = Append(f, l \o Append(t, c))
    BY <2>1
  <2>2. Without(t, d) /\ c # d
    BY WithoutAppend
  <2>3. a \o Append(t, c) = Append(a \o t, c) /\ l \o Append(t, c) = Append(l \o t, c)
    BY <1>0, ConcatAppend DEF Texts
  <2>4. string_split(a \o t, d) = Append(f, l \o t)
    BY <1>2, <2>2
  <2>5. string_split(Append(a \o t, c), d) = Split(Append(f, l \o t), c, d)
    BY <2>1, <2>4, StringSplit
  <2>6. Front(Append(f, l \o t)) = f /\ Last(Append(f, l \o t)) = l \o t
    BY <1>0, <2>1, FrontAppend
  <2>7. Split(Append(f, l \o t), c, d) = Append(f, Append(l \o t, c))
    BY <2>2, <2>6 DEF Split
  <2> QED BY <2>3, <2>5, <2>7
<1> HIDE DEF P
<1>3. Texts \subseteq P
  BY <1>1, <1>2, AppendInduction DEF Texts
<1> QED BY <1>3 DEF P, f, l

LEMMA FirstWord ==
  ASSUME NEW w \in Texts, NEW d, Without(w, d) PROVE string_split(w, d) = <<w>>
<1> DEFINE e == <<>>
           ee == << <<>> >>
<1>1. e \in Texts /\ e \in Seq(Texts) /\ ee = Append(e, e) /\ e \o w = w /\ Append(e, w) = <<w>>
  BY EmptySeq, ConcatEmptySeq DEF Texts
<1>2. string_split(e, d) = ee
  BY StringSplit
<1> HIDE DEF e, ee
<1>3. Front(ee) = e /\ Last(ee) = e
  BY <1>1, FrontAppend
<1>4. string_split(e \o w, d) = Append(Front(string_split(e, d)), Last(string_split(e, d)) \o w)
  BY <1>1, LastWord
<1> QED BY <1>1, <1>2, <1>3, <1>4

\* After a delimiter comes the next word.
LEMMA NextWord ==
  ASSUME NEW a \in Texts, NEW w \in Texts, NEW d \in Chars, Without(w, d)
  PROVE  string_split(a \o (<<d>> \o w), d) = Append(string_split(a, d), w)
<1> DEFINE e == <<>>
           v == string_split(a, d)
           b == Append(a, d)
<1>1. e \in Texts /\ v \in Seq(Texts) /\ b \in Texts /\ <<d>> \in Texts
  <2>1. e \in Texts /\ <<d>> \in Texts
    BY DEF Texts
  <2>2. v \in Seq(Texts)
    BY StringSplit DEF WordLists
  <2>3. b \in Texts
    BY Appended DEF Texts
  <2> QED BY <2>1, <2>2, <2>3
<1>2. string_split(b, d) = Append(v, e)
  BY StringSplit DEF Split
<1>3. a \o (<<d>> \o w) = b \o w
  <2> DEFINE q == <<d>>
  <2>1. q \in Texts /\ b = a \o q
    BY <1>1, AppendIsConcat DEF Texts
  <2> HIDE DEF q, b
  <2>2. a \o (q \o w) = (a \o q) \o w
    BY <2>1, ConcatAssociative DEF Texts
  <2> QED BY <2>1, <2>2 DEF q
<1>4. e \o w = w
  BY ConcatEmptySeq DEF Texts
<1> HIDE DEF e, v, b
<1>5. Front(Append(v, e)) = v /\ Last(Append(v, e)) = e
  BY <1>1, FrontAppend
<1>6. string_split(b \o w, d) = Append(v, e \o w)
  <2>1. string_split(b \o w, d) = Append(Front(string_split(b, d)), Last(string_split(b, d)) \o w)
    BY <1>1, LastWord
  <2> QED BY <1>2, <1>5, <2>1
<1> QED BY <1>3, <1>4, <1>6 DEF v

LEMMA LastOfConcat ==
  ASSUME NEW C, NEW s \in Seq(C), NEW t \in Seq(C), t # <<>>
  PROVE  s \o t # <<>> /\ Last(s \o t) = Last(t)
<1>1. /\ Len(s) \in Nat /\ Len(t) \in Nat \ {0} /\ Len(s \o t) = Len(s) + Len(t)
      /\ \A i \in 1 .. Len(s) + Len(t) : (s \o t)[i] = IF i <= Len(s) THEN s[i] ELSE t[i - Len(s)]
  BY ConcatProperties, LenProperties, EmptySeq
<1>2. (s \o t)[Len(s) + Len(t)] = t[Len(t)]
  BY <1>1
<1>3. s \o t # <<>>
  BY <1>1, EmptySeq
<1> QED BY <1>1, <1>2, <1>3 DEF Last

EndsClean(s) == s = <<>> \/ Last(s) # " "

\* Texts are cleaned apart if the first does not end with a space.
LEMMA CleanedApart ==
  ASSUME NEW a \in Texts, NEW b \in Texts, EndsClean(unique_spaces(a))
  PROVE  unique_spaces(a \o b) = unique_spaces(a) \o unique_spaces(b)
<1> DEFINE w == unique_spaces(a)
           P == {t \in Texts : unique_spaces(a \o t) = w \o unique_spaces(t)}
<1>0. w \in Texts /\ EndsClean(w)
  BY UniqueSpaces
<1>1. <<>> \in P
  BY <1>0, UniqueSpaces, EmptySeq, ConcatEmptySeq DEF Texts
<1>2. ASSUME NEW t \in Texts, NEW c \in Chars, t \in P PROVE Append(t, c) \in P
  <2> DEFINE v == unique_spaces(t)
  <2> HIDE DEF w
  <2>1. Append(t, c) \in Texts /\ a \o t \in Texts /\ v \in Texts /\ w \o v \in Texts
    BY <1>0, Appended, ConcatProperties, UniqueSpaces DEF Texts
  <2>2. a \o Append(t, c) = Append(a \o t, c) /\ w \o Append(v, c) = Append(w \o v, c)
    BY <1>0, <2>1, ConcatAppend DEF Texts
  <2>3. unique_spaces(a \o t) = w \o v
    BY <1>2
  <2>4. unique_spaces(Append(a \o t, c)) = Unspaced(w \o v, c)
    BY <2>1, <2>3, UniqueSpaces
  <2>5. unique_spaces(Append(t, c)) = Unspaced(v, c)
    BY UniqueSpaces
  <2> HIDE DEF v
  <2>6. Unspaced(w \o v, c) = w \o Unspaced(v, c)
    <3>1. CASE v = <<>>
      <4>1. w \o v = w
        BY <1>0, <3>1, ConcatEmptySeq DEF Texts
      <4>2. Unspaced(v, c) = Append(v, c)
        BY <3>1 DEF Unspaced
      <4>3. Unspaced(w, c) = Append(w, c)
        BY <1>0 DEF Unspaced, EndsClean
      <4> QED BY <2>2, <4>1, <4>2, <4>3
    <3>2. CASE v # <<>>
      <4>1. w \o v # <<>> /\ Last(w \o v) = Last(v)
        BY <1>0, <2>1, <3>2, LastOfConcat DEF Texts
      <4> QED BY <2>2, <3>2, <4>1 DEF Unspaced
    <3> QED BY <3>1, <3>2
  <2> QED BY <2>1, <2>2, <2>4, <2>5, <2>6
<1> HIDE DEF P
<1>3. Texts \subseteq P
  BY <1>1, <1>2, AppendInduction DEF Texts
<1> QED BY <1>3 DEF P

\* A word is clean, whatever it follows.
LEMMA CleanWord ==
  ASSUME NEW a \in Texts, NEW w \in Texts, Without(w, Space)
  PROVE  unique_spaces(a \o w) = unique_spaces(a) \o w
<1> DEFINE v == unique_spaces(a)
           P == {t \in Texts : Without(t, Space) => unique_spaces(a \o t) = v \o t}
<1>0. v \in Texts
  BY UniqueSpaces
<1>1. <<>> \in P
  BY <1>0, EmptySeq, ConcatEmptySeq DEF Texts
<1>2. ASSUME NEW t \in Texts, NEW c \in Chars, t \in P PROVE Append(t, c) \in P
  <2> HIDE DEF v
  <2>1. Append(t, c) \in Texts /\ a \o t \in Texts /\ v \o t \in Texts
    BY <1>0, Appended, ConcatProperties DEF Texts
  <2>0. a \o Append(t, c) = Append(a \o t, c) /\ v \o Append(t, c) = Append(v \o t, c)
    <3>1. a \o Append(t, c) = Append(a \o t, c)
      BY ConcatAppend DEF Texts
    <3>2. v \o Append(t, c) = Append(v \o t, c)
      BY <1>0, ConcatAppend DEF Texts
    <3> QED BY <3>1, <3>2
  <2> SUFFICES ASSUME Without(Append(t, c), Space)
               PROVE  unique_spaces(a \o Append(t, c)) = v \o Append(t, c)
    BY <2>1
  <2>2. Without(t, Space) /\ c # Space
    BY WithoutAppend
  <2>4. unique_spaces(a \o t) = v \o t
    BY <1>2, <2>2
  <2>5. unique_spaces(Append(a \o t, c)) = Unspaced(v \o t, c)
    BY <2>1, <2>4, UniqueSpaces
  <2>6. Unspaced(v \o t, c) = Append(v \o t, c)
    BY <2>2 DEF Unspaced, Space
  <2> QED BY <2>0, <2>5, <2>6
<1> HIDE DEF P
<1>3. Texts \subseteq P
  BY <1>1, <1>2, AppendInduction DEF Texts
<1> QED BY <1>3 DEF P

LEMMA Characters ==
  ASSUME NEW a \in Chars, NEW b \in Chars, NEW c \in Chars, NEW n \in Nat
  PROVE  <<a>> \in Texts /\ <<a, b, c>> \in Texts /\ [i \in 1 .. n |-> a] \in Texts
BY DEF Texts

\* Any number of spaces is cleaned to one.
LEMMA CleanPad ==
  ASSUME NEW n \in Nat \ {0} PROVE unique_spaces([i \in 1 .. n |-> " "]) = <<" ">>
<1> DEFINE pad(m) == [i \in 1 .. m |-> " "]
           S == {m \in Nat : unique_spaces(pad(m + 1)) = <<" ">>}
<1>0. " " \in Chars
  BY ListAssumption DEF FormatChars
<1>1. \A m \in Nat : pad(m) \in Texts /\ pad(m + 1) = Append(pad(m), " ")
  <2> TAKE m \in Nat
  <2>1. pad(m) \in Texts /\ pad(m + 1) \in Texts
    <3>1. m \in Nat /\ m + 1 \in Nat
      OBVIOUS
    <3> QED BY <1>0, <3>1, Characters
  <2>2. Len(pad(m)) = m /\ Len(pad(m + 1)) = m + 1
    OBVIOUS
  <2>3. \A i \in 1 .. m + 1 : pad(m + 1)[i] = " "
    OBVIOUS
  <2>4. \A i \in 1 .. m : pad(m)[i] = " "
    OBVIOUS
  <2> DEFINE sp == " "
             p == pad(m)
             q == pad(m + 1)
             t == Append(p, sp)
  <2>5. sp \in Chars /\ p \in Texts /\ q \in Texts /\ Len(p) = m /\ Len(q) = m + 1
        /\ (\A i \in 1 .. m + 1 : q[i] = sp) /\ \A i \in 1 .. m : p[i] = sp
    BY <1>0, <2>1, <2>2, <2>3, <2>4
  <2> HIDE DEF sp, p, q
  <2>6. t \in Seq(Chars) /\ Len(t) = m + 1 /\ t[m + 1] = sp /\ \A i \in 1 .. m : t[i] = sp
    BY <2>5, Appended DEF Texts
  <2> HIDE DEF t
  <2>7. \A i \in 1 .. m + 1 : q[i] = t[i]
    BY <2>5, <2>6
  <2>8. q = t
    BY <2>5, <2>6, <2>7, SeqEqual DEF Texts
  <2> QED BY <2>1, <2>8 DEF sp, p, q, t
<1>2. pad(0) = <<>> /\ Append(<<>>, " ") = <<" ">> /\ Last(<<" ">>) = " " /\ <<" ">> # <<>>
  BY DEF Last
<1> HIDE DEF pad
<1>3. 0 \in S
  <2>1. pad(0 + 1) = Append(<<>>, " ") /\ <<>> \in Texts
    BY <1>1, <1>2
  <2>2. unique_spaces(Append(<<>>, " ")) = Unspaced(<<>>, " ")
    BY <1>0, <2>1, UniqueSpaces
  <2>3. Unspaced(<<>>, " ") = <<" ">>
    BY <1>2 DEF Unspaced
  <2> QED BY <2>1, <2>2, <2>3
<1>4. ASSUME NEW m \in Nat, m \in S PROVE m + 1 \in S
  <2>1. unique_spaces(pad(m + 1)) = <<" ">> /\ m + 1 \in Nat
    <3>1. m \in S
      BY <1>4
    <3>2. unique_spaces(pad(m + 1)) = <<" ">>
      BY <3>1, Zenon
    <3>3. m + 1 \in Nat
      OBVIOUS
    <3> QED BY <3>2, <3>3, Zenon
  <2>2. pad((m + 1) + 1) = Append(pad(m + 1), " ") /\ pad(m + 1) \in Texts
    BY <1>1, <2>1
  <2>3. unique_spaces(Append(pad(m + 1), " ")) = Unspaced(<<" ">>, " ")
    BY <1>0, <2>1, <2>2, UniqueSpaces
  <2>4. Unspaced(<<" ">>, " ") = <<" ">>
    BY <1>2 DEF Unspaced
  <2> QED BY <2>1, <2>2, <2>3, <2>4
<1> HIDE DEF S
<1>5. Nat \subseteq S
  BY <1>3, <1>4, SetInduction
<1>6. n - 1 \in Nat /\ (n - 1) + 1 = n
  OBVIOUS
<1>7. unique_spaces(pad(n)) = <<" ">>
  BY <1>5, <1>6 DEF S
<1> QED BY <1>7 DEF pad
---------------------------------------------------------------------------
(***************************************************************************)
(* The command                                                             *)
(***************************************************************************)
LEMMA Field ==
  ASSUME NEW key \in Chars, NEW value \in Texts
  PROVE  <<" ", key, ":">> \o value \in Texts
<1>1. " " \in Chars /\ ":" \in Chars
  BY ListAssumption DEF FormatChars
<1>2. <<" ", key, ":">> \in Texts
  BY <1>1, Characters
<1> QED BY <1>2, ConcatProperties DEF Texts

ConnectionStates == {"kCsDevice", "kCsOffline", "kCsNoPerm"}

LEMMA StateType ==
  ASSUME NEW cs \in ConnectionStates PROVE state_to_string[cs] \in Texts
<1>1. "d" \in Chars /\ "o" \in Chars /\ "n" \in Chars /\ " " \in Chars /\ "p" \in Chars
  BY ListAssumption DEF FormatChars
<1>2. <<"d">> \in Texts /\ <<"o">> \in Texts
  BY <1>1, Characters
<1>3. <<"n", " ", "p">> \in Texts
  BY <1>1, Characters
<1>4. cs \in {"kCsDevice", "kCsOffline", "kCsNoPerm"}
  BY DEF ConnectionStates
<1>5. /\ state_to_string["kCsDevice"] = <<"d">> /\ state_to_string["kCsOffline"] = <<"o">>
      /\ state_to_string["kCsNoPerm"] = <<"n", " ", "p">>
  BY DEF state_to_string
<1> QED BY <1>2, <1>3, <1>4, <1>5

LEMMA PadType == ASSUME NEW n \in Nat PROVE [i \in 1 .. n |-> " "] \in Texts
<1>1. " " \in Chars
  BY ListAssumption DEF FormatChars
<1> QED BY <1>1, Characters

LEMMA LineType == ASSUME NEW d \in Devices, NEW l PROVE Line(d, l) \in Texts
<1> DEFINE pad == [i \in 1 .. d.pad |-> " "]
           state == state_to_string[d.state]
           field(key, value) == <<" ", key, ":">> \o value
<1>1. d.serial \in Texts /\ d.id \in Texts /\ d.pad \in Nat /\ d.state \in ConnectionStates
  BY ListAssumption DEF ConnectionStates, Texts
<1>2. pad \in Texts /\ state \in Texts
  BY <1>1, PadType, StateType
<1>3. /\ <<"q">> \in Texts /\ <<"r">> \in Texts /\ <<"s">> \in Texts
      /\ <<"\n">> \in Texts /\ <<"\t">> \in Texts
  BY Characters, ListAssumption DEF FormatChars
<1>4. /\ field("p", <<"q">>) \in Texts /\ field("m", <<"r">>) \in Texts
      /\ field("d", <<"s">>) \in Texts /\ field("t", d.id) \in Texts
  <2>1. "p" \in Chars /\ "m" \in Chars /\ "d" \in Chars /\ "t" \in Chars
    BY ListAssumption DEF FormatChars
  <2> QED BY <1>1, <1>3, <2>1, Field
<1>5. \A a, b \in Texts : a \o b \in Texts
  BY ConcatProperties DEF Texts
<1> HIDE DEF field, pad, state
<1>6. d.serial \o pad \o state \o field("p", <<"q">>) \o field("m", <<"r">>)
        \o field("d", <<"s">>) \o field("t", d.id) \o <<"\n">> \in Texts
  <2>1. d.serial \o pad \o state \in Texts
    BY <1>1, <1>2, <1>5
  <2>2. d.serial \o pad \o state \o field("p", <<"q">>) \o field("m", <<"r">>) \in Texts
    BY <1>4, <1>5, <2>1
  <2> QED BY <1>1, <1>3, <1>4, <1>5, <2>2
<1>7. d.serial \o <<"\t">> \o state \o <<"\n">> \in Texts
  BY <1>1, <1>2, <1>3, <1>5
<1> QED BY <1>6, <1>7 DEF Line, field, pad, state

TypeOK == /\ listed \in BoundedSeq(Devices, MaxDevices)
          /\ long \in BOOLEAN /\ torn \in BOOLEAN
          /\ arrived \in 0 .. Len(Stream)
          /\ collected \in Texts

LEMMA TextType ==
  ASSUME listed \in BoundedSeq(Devices, MaxDevices) PROVE Text \in Texts
<1>1. PICK m \in 0 .. MaxDevices : listed \in [1 .. m -> Devices]
  BY DEF BoundedSeq, SeqOf
<1>2. m \in Nat
  BY ListAssumption
<1>3. [i \in DOMAIN listed |-> Line(listed[i], long)] \in Seq(Texts)
  <2>1. \A i \in 1 .. m : Line(listed[i], long) \in Texts
    BY <1>1, LineType
  <2>2. DOMAIN listed = 1 .. m
    BY <1>1
  <2> QED BY <1>2, <2>1, <2>2
<1> QED BY <1>3, FlattenLines DEF Text

\* Prefixes of the text.
LEMMA Cut ==
  ASSUME NEW t \in Texts, NEW m \in 0 .. Len(t), NEW n \in m .. Len(t)
  PROVE  /\ SubSeq(t, 1, m) \in Texts /\ SubSeq(t, m + 1, n) \in Texts
         /\ SubSeq(t, 1, m) \o SubSeq(t, m + 1, n) = SubSeq(t, 1, n)
         /\ SubSeq(t, 1, Len(t)) = t
<1>1. Len(t) \in Nat /\ t \in Seq(Chars) /\ \A i \in 1 .. Len(t) : t[i] \in Chars
  BY LenProperties, ElementOfSeq DEF Texts
<1>2. 1 \in 1 .. Len(t) + 1 /\ m \in (1 - 1) .. Len(t) /\ n \in m .. Len(t)
  BY <1>1
<1>3. SubSeq(t, 1, m) \o SubSeq(t, m + 1, n) = SubSeq(t, 1, n)
  BY <1>1, <1>2, ConcatAdjacentSubSeq
<1>4. SubSeq(t, 1, m) \in Texts
  <2>1. m \in Int /\ \A i \in 1 .. m : t[i] \in Chars
    BY <1>1
  <2> QED BY <2>1, SubSeqProperties DEF Texts
<1>5. SubSeq(t, m + 1, n) \in Texts
  <2>1. m + 1 \in Int /\ n \in Int /\ \A i \in m + 1 .. n : t[i] \in Chars
    BY <1>1
  <2> QED BY <2>1, SubSeqProperties DEF Texts
<1> QED BY <1>1, <1>3, <1>4, <1>5, SubSeqFull

---------------------------------------------------------------------------
(***************************************************************************)
(* The reply and its chunks                                                *)
(***************************************************************************)
LEMMA Piece ==
  ASSUME NEW t \in Texts, NEW m \in 1 .. Len(t) + 1, NEW n \in m - 1 .. Len(t)
  PROVE  /\ SubSeq(t, m, n) \in Texts /\ Len(SubSeq(t, m, n)) = n - m + 1
         /\ \A i \in 1 .. n - m + 1 : SubSeq(t, m, n)[i] = t[m + i - 1]
<1>1. m \in Int /\ n \in Int /\ \A i \in m .. n : t[i] \in Chars
  BY LenProperties, ElementOfSeq DEF Texts
<1> QED BY <1>1, SubSeqProperties DEF Texts

\* The end of a piece.
LEMMA PieceOfPiece ==
  ASSUME NEW t \in Texts, NEW m \in 1 .. Len(t) + 1, NEW n \in m - 1 .. Len(t),
         NEW k \in 1 .. n - m + 2
  PROVE  SubSeq(SubSeq(t, m, n), k, n - m + 1) = SubSeq(t, m + k - 1, n)
<1> DEFINE u == SubSeq(t, m, n)
           v == SubSeq(u, k, n - m + 1)
           w == SubSeq(t, m + k - 1, n)
<1>0. Len(t) \in Nat
  BY LenProperties DEF Texts
<1>1. u \in Texts /\ Len(u) = n - m + 1 /\ \A i \in 1 .. n - m + 1 : u[i] = t[m + i - 1]
  BY Piece
<1> HIDE DEF u
<1>2. k \in 1 .. Len(u) + 1 /\ n - m + 1 \in k - 1 .. Len(u)
  BY <1>0, <1>1
<1>3. /\ v \in Texts /\ Len(v) = (n - m + 1) - k + 1
      /\ \A i \in 1 .. (n - m + 1) - k + 1 : v[i] = u[k + i - 1]
  BY <1>1, <1>2, Piece
<1>4. m + k - 1 \in 1 .. Len(t) + 1 /\ n \in (m + k - 1) - 1 .. Len(t)
  BY <1>0
<1>5. /\ w \in Texts /\ Len(w) = n - (m + k - 1) + 1
      /\ \A i \in 1 .. n - (m + k - 1) + 1 : w[i] = t[(m + k - 1) + i - 1]
  BY <1>4, Piece
<1> HIDE DEF v, w
<1>6. \A i \in 1 .. Len(v) : v[i] = w[i]
  <2> TAKE i \in 1 .. Len(v)
  <2>1. k + i - 1 \in 1 .. n - m + 1
    BY <1>0, <1>3
  <2>2. v[i] = t[m + (k + i - 1) - 1]
    BY <1>1, <1>3, <2>1
  <2>3. w[i] = t[(m + k - 1) + i - 1]
    BY <1>0, <1>3, <1>5
  <2> QED BY <1>0, <2>1, <2>2, <2>3
<1>7. v = w
  BY <1>0, <1>3, <1>5, <1>6, SeqEqual DEF Texts
<1> QED BY <1>7 DEF u, v, w

LEMMA StreamFacts ==
  ASSUME Text \in Texts
  PROVE  /\ Stream \in Texts /\ Len(Text) \in Nat /\ Len(Stream) = Len(Text) + 8
         /\ Stream[1] = "O" /\ Stream[2] = "K" /\ Stream[3] = "A" /\ Stream[4] = "Y"
         /\ \A i \in 5 .. 8 : Stream[i] = "0"
         /\ \A i \in 1 .. Len(Text) : Stream[i + 8] = Text[i]
<1> DEFINE o == <<"O", "K", "A", "Y">>
           z == <<"0", "0", "0", "0">>
           h == o \o z
<1>0. \A a, b \in Texts :
        /\ a \o b \in Texts /\ Len(a \o b) = Len(a) + Len(b)
        /\ \A i \in 1 .. Len(a) + Len(b) :
             (a \o b)[i] = IF i <= Len(a) THEN a[i] ELSE b[i - Len(a)]
  BY ConcatProperties DEF Texts
<1>1. /\ o \in Texts /\ Len(o) = 4 /\ o[1] = "O" /\ o[2] = "K" /\ o[3] = "A" /\ o[4] = "Y"
      /\ z \in Texts /\ Len(z) = 4 /\ z[1] = "0" /\ z[2] = "0" /\ z[3] = "0" /\ z[4] = "0"
  BY ListAssumption DEF HeaderChars, Texts
<1>2. Len(Text) \in Nat
  BY LenProperties DEF Texts
<1> HIDE DEF o, z
<1>3. /\ h \in Texts /\ Len(h) = 8
      /\ h[1] = "O" /\ h[2] = "K" /\ h[3] = "A" /\ h[4] = "Y" /\ \A i \in 5 .. 8 : h[i] = "0"
  <2>0. /\ h \in Texts /\ Len(h) = Len(o) + Len(z)
        /\ \A i \in 1 .. Len(o) + Len(z) : h[i] = IF i <= Len(o) THEN o[i] ELSE z[i - Len(o)]
    BY <1>0, <1>1
  <2> HIDE DEF h
  <2>1. /\ h \in Texts /\ Len(h) = 8
        /\ \A i \in 1 .. 8 : h[i] = IF i <= 4 THEN o[i] ELSE z[i - 4]
    BY <1>1, <2>0
  <2>2. \A i \in 1 .. 4 : z[i] = "0"
    <3> TAKE i \in 1 .. 4
    <3> QED BY <1>1
  <2>3. \A i \in 5 .. 8 : h[i] = "0"
    BY <2>1, <2>2
  <2> QED BY <1>1, <2>1, <2>3
<1> HIDE DEF h
<1>4. /\ h \o Text \in Texts /\ Len(h \o Text) = 8 + Len(Text)
      /\ \A i \in 1 .. 8 + Len(Text) : (h \o Text)[i] = IF i <= 8 THEN h[i] ELSE Text[i - 8]
  <2>1. /\ h \o Text \in Texts /\ Len(h \o Text) = Len(h) + Len(Text)
        /\ \A i \in 1 .. Len(h) + Len(Text) :
             (h \o Text)[i] = IF i <= Len(h) THEN h[i] ELSE Text[i - Len(h)]
    BY <1>0, <1>3
  <2> QED BY <1>3, <2>1
<1>5. Stream = h \o Text
  BY DEF Stream, h, o, z
<1>6. \A i \in 1 .. 8 : Stream[i] = h[i]
  BY <1>2, <1>4, <1>5
<1>7. \A i \in 1 .. Len(Text) : Stream[i + 8] = Text[i]
  BY <1>2, <1>4, <1>5
<1> QED BY <1>2, <1>3, <1>4, <1>5, <1>6, <1>7

\* A piece of the reply behind its header is one of the text.
LEMMA BehindHeader ==
  ASSUME Text \in Texts, NEW a \in 8 .. Len(Stream), NEW n \in a .. Len(Stream)
  PROVE  SubSeq(Stream, a + 1, n) = SubSeq(Text, (a - 8) + 1, n - 8)
<1> DEFINE u == SubSeq(Stream, a + 1, n)
           v == SubSeq(Text, (a - 8) + 1, n - 8)
<1>1. /\ Stream \in Texts /\ Len(Text) \in Nat /\ Len(Stream) = Len(Text) + 8
      /\ \A i \in 1 .. Len(Text) : Stream[i + 8] = Text[i]
  BY StreamFacts
<1>2. a + 1 \in 1 .. Len(Stream) + 1 /\ n \in (a + 1) - 1 .. Len(Stream)
  BY <1>1
<1>3. /\ u \in Texts /\ Len(u) = n - (a + 1) + 1
      /\ \A i \in 1 .. n - (a + 1) + 1 : u[i] = Stream[(a + 1) + i - 1]
  BY <1>1, <1>2, Piece
<1>4. (a - 8) + 1 \in 1 .. Len(Text) + 1 /\ n - 8 \in ((a - 8) + 1) - 1 .. Len(Text)
  BY <1>1
<1>5. /\ v \in Texts /\ Len(v) = (n - 8) - ((a - 8) + 1) + 1
      /\ \A i \in 1 .. (n - 8) - ((a - 8) + 1) + 1 : v[i] = Text[((a - 8) + 1) + i - 1]
  BY <1>4, Piece
<1> HIDE DEF u, v
<1>6. \A i \in 1 .. Len(u) : u[i] = v[i]
  <2> TAKE i \in 1 .. Len(u)
  <2>1. (a - 8) + i \in 1 .. Len(Text)
    BY <1>1, <1>3
  <2>2. u[i] = Stream[((a - 8) + i) + 8]
    BY <1>1, <1>3
  <2>3. v[i] = Text[(a - 8) + i]
    BY <1>1, <1>3, <1>5
  <2> QED BY <1>1, <2>1, <2>2, <2>3
<1>7. u = v
  BY <1>1, <1>3, <1>5, <1>6, SeqEqual DEF Texts
<1> QED BY <1>7 DEF u, v

\* What read_protocol_string appends, by the length and the first characters.
LEMMA Result ==
  ASSUME NEW c \in Texts
  PROVE  LET r == read_protocol_string(c).result
         IN  /\ r \in Texts
             /\ Len(c) < 4 => r = c
             /\ Len(c) = 4 => r = <<>>
             /\ Len(c) >= 4 /\ c[1] = "O" /\ c[2] = "K" /\ c[3] = "A" /\ c[4] = "Y"
                  => r = SubSeq(c, 9, Len(c))
             /\ Len(c) >= 4 /\ c[1] = "0" => r = SubSeq(c, 5, Len(c))
             /\ read_protocol_string(c).status = -1 => r = <<>>
<1> DEFINE w == SubSeq(c, 1, 4)
           fail == <<"F", "A", "I", "L">>
           okay == <<"O", "K", "A", "Y">>
           r == read_protocol_string(c).result
<1>1. Len(c) \in Nat /\ \A i \in 1 .. Len(c) : c[i] \in Chars
  BY LenProperties, ElementOfSeq DEF Texts
<1>2. r = IF Len(c) < 4 THEN c
          ELSE IF w = fail THEN <<>>
          ELSE IF w = okay THEN SubSeq(c, 9, Len(c)) ELSE SubSeq(c, 5, Len(c))
  BY DEF read_protocol_string
<1>11. read_protocol_string(c).status = -1 => r = <<>>
  <2>1. Len(c) < 4 => read_protocol_string(c).status = 0
    BY DEF read_protocol_string
  <2>2. Len(c) >= 4 /\ w # fail => read_protocol_string(c).status = 0
    BY DEF read_protocol_string
  <2> HIDE DEF r, w, fail, okay
  <2>3. Len(c) \in Nat
    BY LenProperties DEF Texts
  <2> QED BY <1>2, <2>1, <2>2, <2>3
<1> HIDE DEF r
<1>3. <<>> \in Texts /\ SubSeq(c, 9, Len(c)) \in Texts /\ SubSeq(c, 5, Len(c)) \in Texts
  <2>1. <<>> \in Texts
    BY DEF Texts
  <2>2. \A k \in Int : k >= 1 => SubSeq(c, k, Len(c)) \in Texts
    <3> TAKE k \in Int
    <3> HAVE k >= 1
    <3>1. \A i \in k .. Len(c) : c[i] \in Chars
      BY <1>1
    <3> QED BY <1>1, <3>1, SubSeqProperties DEF Texts
  <2> QED BY <2>1, <2>2
<1>4. r \in Texts
  BY <1>2, <1>3
<1>5. Len(c) < 4 => r = c
  BY <1>2
<1>6. Len(c) = 4 => r = <<>>
  <2> SUFFICES ASSUME Len(c) = 4 PROVE r = <<>>
    OBVIOUS
  <2>1. SubSeq(c, 9, Len(c)) = <<>> /\ SubSeq(c, 5, Len(c)) = <<>>
    BY SubSeqEmpty
  <2> QED BY <1>2, <2>1
<1>7. ASSUME Len(c) >= 4
      PROVE  w \in Texts /\ Len(w) = 4 /\ \A i \in 1 .. 4 : w[i] = c[i]
  <2>1. 1 \in 1 .. Len(c) + 1 /\ 4 \in 1 - 1 .. Len(c)
    BY <1>1, <1>7
  <2> QED BY <2>1, Piece
<1>8. /\ okay[1] = "O" /\ okay[2] = "K" /\ okay[3] = "A" /\ okay[4] = "Y"
      /\ okay \in Texts /\ Len(okay) = 4 /\ fail[1] = "F"
  BY ListAssumption DEF HeaderChars, Texts
<1> HIDE DEF w, okay, fail
<1>9. Len(c) >= 4 /\ c[1] = "O" /\ c[2] = "K" /\ c[3] = "A" /\ c[4] = "Y"
        => r = SubSeq(c, 9, Len(c))
  <2> SUFFICES ASSUME Len(c) >= 4, c[1] = "O", c[2] = "K", c[3] = "A", c[4] = "Y"
               PROVE  r = SubSeq(c, 9, Len(c))
    OBVIOUS
  <2>1. w[1] = "O" /\ w[2] = "K" /\ w[3] = "A" /\ w[4] = "Y" /\ w \in Texts /\ Len(w) = 4
    BY <1>7
  <2>2. \A i \in 1 .. Len(w) : w[i] = okay[i]
    <3> TAKE i \in 1 .. Len(w)
    <3> QED BY <1>8, <2>1
  <2>3. w = okay
    BY <1>8, <2>1, <2>2, SeqEqual DEF Texts
  <2>4. w # fail
    BY <1>8, <2>1
  <2> QED BY <1>1, <1>2, <2>3, <2>4
<1>10. Len(c) >= 4 /\ c[1] = "0" => r = SubSeq(c, 5, Len(c))
  <2> SUFFICES ASSUME Len(c) >= 4, c[1] = "0" PROVE r = SubSeq(c, 5, Len(c))
    OBVIOUS
  <2>1. w[1] = "0"
    BY <1>7
  <2> QED BY <1>1, <1>2, <1>8, <2>1
<1> QED BY <1>4, <1>5, <1>6, <1>9, <1>10, <1>11 DEF r
---------------------------------------------------------------------------
\* Nothing of the text is lost while the cuts are harmless.
Untorn == ~torn => \/ arrived \in {0, 4} /\ collected = <<>>
                   \/ arrived >= 8 /\ collected = SubSeq(Text, 1, arrived - 8)

IInv == TypeOK /\ Untorn /\ CleanedOnce

LEMMA InitIInv == Init => IInv
<1> SUFFICES ASSUME Init PROVE IInv
  OBVIOUS
<1>1. Text \in Texts
  BY TextType DEF Init
<1>2. Len(Stream) \in Nat
  BY <1>1, StreamFacts
<1>3. TypeOK /\ Untorn
  <2>1. arrived \in 0 .. Len(Stream)
    BY <1>2 DEF Init
  <2>2. collected \in Texts
    BY DEF Init, Texts
  <2>3. Untorn
    BY DEF Init, Untorn
  <2> QED BY <2>1, <2>2, <2>3 DEF Init, TypeOK
<1>4. CleanedOnce
  BY UniqueSpaces DEF Init, CleanedOnce, Cleaned
<1> QED BY <1>3, <1>4 DEF IInv

\* A harmless chunk brings the text on, or no character of it is due.
LEMMA HarmlessResult ==
  ASSUME IInv, ~torn, NEW n \in 1 .. Len(Stream), arrived < n, Harmless(n)
  PROVE  LET r == read_protocol_string(SubSeq(Stream, arrived + 1, n)).result
         IN  \/ n = 4 /\ collected \o r = <<>>
             \/ n >= 8 /\ collected \o r = SubSeq(Text, 1, n - 8)
<1> DEFINE c == SubSeq(Stream, arrived + 1, n)
           r == read_protocol_string(c).result
<1>1. Text \in Texts /\ arrived \in 0 .. Len(Stream) /\ collected \in Texts
  BY TextType DEF IInv, TypeOK
<1>2. /\ Stream \in Texts /\ Len(Text) \in Nat /\ Len(Stream) = Len(Text) + 8
      /\ Stream[1] = "O" /\ Stream[2] = "K" /\ Stream[3] = "A" /\ Stream[4] = "Y"
      /\ \A i \in 5 .. 8 : Stream[i] = "0"
  BY <1>1, StreamFacts
<1>3. arrived + 1 \in 1 .. Len(Stream) + 1 /\ n \in (arrived + 1) - 1 .. Len(Stream)
  BY <1>1, <1>2
<1>4. /\ c \in Texts /\ Len(c) = n - arrived
      /\ \A i \in 1 .. n - arrived : c[i] = Stream[arrived + i]
  <2>1. /\ c \in Texts /\ Len(c) = n - (arrived + 1) + 1
        /\ \A i \in 1 .. n - (arrived + 1) + 1 : c[i] = Stream[(arrived + 1) + i - 1]
    BY <1>2, <1>3, Piece
  <2> HIDE DEF c
  <2>2. n - (arrived + 1) + 1 = n - arrived
    BY <1>1
  <2>3. \A i \in 1 .. n - arrived : (arrived + 1) + i - 1 = arrived + i
    BY <1>1
  <2> QED BY <2>1, <2>2, <2>3
<1>5. \A x \in Texts : <<>> \o x = x
  BY ConcatEmptySeq DEF Texts
<1>6. <<>> \in Texts
  BY DEF Texts
\* The end of the chunk, from its k-th character.
<1>7. ASSUME NEW k \in 1 .. n - arrived + 1, arrived + k - 1 = 8
      PROVE  SubSeq(c, k, Len(c)) = SubSeq(Text, 1, n - 8)
  <2>1. k \in 1 .. n - (arrived + 1) + 2
    BY <1>1
  <2>2. SubSeq(c, k, n - (arrived + 1) + 1) = SubSeq(Stream, (arrived + 1) + k - 1, n)
    BY <1>2, <1>3, <2>1, PieceOfPiece
  <2>3. (arrived + 1) + k - 1 = 8 + 1 /\ n - (arrived + 1) + 1 = n - arrived
    BY <1>1, <1>7
  <2>4. 8 \in 8 .. Len(Stream) /\ n \in 8 .. Len(Stream)
    BY <1>1, <1>2, <1>7
  <2>5. SubSeq(Stream, 8 + 1, n) = SubSeq(Text, (8 - 8) + 1, n - 8)
    BY <1>1, <2>4, BehindHeader
  <2>6. (8 - 8) + 1 = 1
    OBVIOUS
  <2> HIDE DEF c
  <2> QED BY <1>4, <2>2, <2>3, <2>5, <2>6
<1> HIDE DEF c
<1>8. /\ Len(c) < 4 => r = c
      /\ Len(c) = 4 => r = <<>>
      /\ Len(c) >= 4 /\ c[1] = "O" /\ c[2] = "K" /\ c[3] = "A" /\ c[4] = "Y"
           => r = SubSeq(c, 9, Len(c))
      /\ Len(c) >= 4 /\ c[1] = "0" => r = SubSeq(c, 5, Len(c))
      /\ r \in Texts
  BY <1>4, Result
<1> HIDE DEF r
<1>9. CASE arrived = 0 /\ n = 4
  <2>1. collected = <<>> /\ r = <<>>
    BY <1>4, <1>8, <1>9 DEF IInv, Untorn
  <2> QED BY <1>5, <1>6, <1>9, <2>1 DEF r, c
<1>10. CASE arrived = 0 /\ n >= 8
  <2>1. collected = <<>>
    BY <1>10 DEF IInv, Untorn
  <2>2. Len(c) >= 4 /\ c[1] = "O" /\ c[2] = "K" /\ c[3] = "A" /\ c[4] = "Y"
    BY <1>2, <1>4, <1>10
  <2>3. 9 \in 1 .. n - arrived + 1 /\ arrived + 9 - 1 = 8
    BY <1>10
  <2>4. r = SubSeq(Text, 1, n - 8)
    BY <1>7, <1>8, <2>2, <2>3
  <2> QED BY <1>5, <1>8, <1>10, <2>1, <2>4 DEF r, c
<1>11. CASE arrived = 4 /\ n >= 8
  <2>1. collected = <<>>
    BY <1>11 DEF IInv, Untorn
  <2>2. Len(c) >= 4 /\ c[1] = "0"
    BY <1>2, <1>4, <1>11
  <2>3. 5 \in 1 .. n - arrived + 1 /\ arrived + 5 - 1 = 8
    BY <1>11
  <2>4. r = SubSeq(Text, 1, n - 8)
    BY <1>7, <1>8, <2>2, <2>3
  <2> QED BY <1>5, <1>8, <1>11, <2>1, <2>4 DEF r, c
<1>12. CASE arrived >= 8 /\ n - arrived < 4
  <2>1. arrived \in 8 .. Len(Stream) /\ n \in arrived .. Len(Stream)
    BY <1>1, <1>12
  <2>2. r = SubSeq(Text, (arrived - 8) + 1, n - 8)
    <3>1. r = SubSeq(Stream, arrived + 1, n)
      BY <1>4, <1>8, <1>12 DEF c
    <3> QED BY <1>1, <2>1, <3>1, BehindHeader
  <2>3. collected = SubSeq(Text, 1, arrived - 8)
    BY <1>12 DEF IInv, Untorn
  <2>4. arrived - 8 \in 0 .. Len(Text) /\ n - 8 \in arrived - 8 .. Len(Text)
    BY <1>2, <2>1
  <2>5. SubSeq(Text, 1, arrived - 8) \o SubSeq(Text, (arrived - 8) + 1, n - 8)
          = SubSeq(Text, 1, n - 8)
    BY <1>1, <2>4, Cut
  <2>6. n >= 8
    BY <2>1
  <2> QED BY <2>2, <2>3, <2>5, <2>6 DEF r, c
<1> QED BY <1>9, <1>10, <1>11, <1>12 DEF Harmless

LEMMA NextIInv == IInv /\ [Next]_vars => IInv'
<1> SUFFICES ASSUME IInv, [Next]_vars PROVE IInv'
  OBVIOUS
<1>1. CASE UNCHANGED vars
  BY <1>1 DEF IInv, TypeOK, Untorn, CleanedOnce, Cleaned, Stream, Text, vars
<1>2. CASE Next
  <2>1. PICK n \in 1 .. Len(Stream) : Receive(n)
    BY <1>2 DEF Next
  <2> DEFINE r == read_protocol_string(SubSeq(Stream, arrived + 1, n))
             c == SubSeq(Stream, arrived + 1, n)
             x == r.result
  <2>2. UNCHANGED <<listed, long, Text, Stream>>
    BY <2>1 DEF Receive, Text, Stream
  <2>3. /\ Text \in Texts /\ arrived \in 0 .. Len(Stream) /\ long \in BOOLEAN
        /\ torn \in BOOLEAN /\ collected \in Texts
    BY TextType DEF IInv, TypeOK
  <2>4. Stream \in Texts /\ Len(Stream) \in Nat
    BY <2>3, StreamFacts
  <2>5. /\ arrived < n /\ arrived' = n /\ collected' = collected \o x
        /\ torn' = (torn \/ ~Harmless(n))
    BY <2>1 DEF Receive
  <2>6. x \in Texts /\ (r.status = -1 => x = <<>>)
    <3>1. arrived + 1 \in 1 .. Len(Stream) + 1 /\ n \in (arrived + 1) - 1 .. Len(Stream)
      BY <2>3, <2>4, <2>5
    <3>2. c \in Texts
      BY <2>4, <3>1, Piece
    <3> HIDE DEF c
    <3>3. LET q == read_protocol_string(c)
          IN  q.result \in Texts /\ (q.status = -1 => q.result = <<>>)
      BY <3>2, Result
    <3> QED BY <3>3 DEF c
  <2>7. TypeOK'
    <3>1. collected' \in Texts
      BY <2>3, <2>5, <2>6, TextsConcat
    <3>2. arrived' \in 0 .. Len(Stream)'
      BY <2>2, <2>4, <2>5
    <3>3. torn' \in BOOLEAN
      BY <2>5
    <3> QED BY <2>2, <3>1, <3>2, <3>3 DEF IInv, TypeOK
  <2>8. Untorn'
    <3> SUFFICES ASSUME ~torn' PROVE Untorn'
      BY DEF Untorn
    <3>1. ~torn /\ Harmless(n)
      BY <2>3, <2>5
    <3>2. \/ n = 4 /\ collected \o x = <<>>
          \/ n >= 8 /\ collected \o x = SubSeq(Text, 1, n - 8)
      BY <2>5, <3>1, HarmlessResult
    <3> HIDE DEF x
    <3> QED BY <2>2, <2>5, <3>2 DEF Untorn
  <2>9. CleanedOnce'
    <3> DEFINE text == devices_list \o x
    <3>1. devices_list' = IF long /\ r.status # -1 THEN unique_spaces(text) ELSE text
      BY <2>1 DEF Receive
    <3>2. r.status = -1 => x = <<>>
      BY <2>6
    <3>3. devices_list = Cleaned(collected)
      BY DEF IInv, CleanedOnce
    <3>4. /\ devices_list \in Texts /\ devices_list \o <<>> = devices_list
          /\ collected \o <<>> = collected
      <4>1. devices_list \in Texts
        BY <2>3, <3>3, UniqueSpaces DEF Cleaned
      <4> QED BY <2>3, <4>1, ConcatEmptySeq DEF Texts
    <3> HIDE DEF r, x
    <3>5. CASE ~long
      BY <2>2, <2>5, <3>1, <3>3, <3>5 DEF CleanedOnce, Cleaned
    <3>6. CASE long /\ r.status # -1
      <4>1. unique_spaces(unique_spaces(collected) \o x) = unique_spaces(collected \o x)
        BY <2>3, <2>6, CleanedFirst DEF x
      <4> QED BY <2>2, <2>5, <3>1, <3>3, <3>6, <4>1 DEF CleanedOnce, Cleaned
    <3>7. CASE long /\ r.status = -1
      BY <2>2, <2>5, <3>1, <3>2, <3>3, <3>4, <3>7 DEF CleanedOnce, Cleaned, x
    <3> QED BY <3>5, <3>6, <3>7
  <2> QED BY <2>7, <2>8, <2>9 DEF IInv
<1> QED BY <1>1, <1>2

LEMMA WholeCollected ==
  ASSUME IInv, ~torn, arrived = Len(Stream) PROVE collected = Text
<1>1. Text \in Texts
  BY TextType DEF IInv, TypeOK
<1>2. Len(Text) \in Nat /\ Len(Stream) = Len(Text) + 8
  BY <1>1, StreamFacts
<1>3. collected = SubSeq(Text, 1, arrived - 8) /\ arrived - 8 = Len(Text)
  BY <1>2 DEF IInv, Untorn
<1> QED BY <1>1, <1>3, SubSeqFull DEF Texts

(***************************************************************************)
(* Wherever the reply is cut, what get_devices_with_path keeps is what it  *)
(* has collected with its repeated spaces removed once: cleaning after     *)
(* each chunk that is not taken for a failure is no different.             *)
(***************************************************************************)
THEOREM CleanedOnceAlways == Spec => []CleanedOnce
<1>1. IInv => CleanedOnce
  BY DEF IInv
<1> QED BY InitIInv, NextIInv, <1>1, PTL DEF Spec

LEMMA GetLines ==
  ASSUME NEW s \in Texts
  PROVE  /\ get_lines_from_buf(<<>>, s) = Front(string_split(s, "\n"))
         /\ Front(string_split(s, "\n")) \in Seq(Texts)
<1>1. Front(string_split(s, "\n")) \in Seq(Texts)
  BY StringSplit, FrontLast DEF WordLists
<1> QED BY <1>1, ConcatEmptySeq DEF get_lines_from_buf

LEMMA LinesOfPrefix ==
  ASSUME NEW s \in Texts, NEW t \in Texts, Begins(Chars, s, t)
  PROVE  IsPrefix(get_lines_from_buf(<<>>, s), get_lines_from_buf(<<>>, t))
<1>1. PICK r \in Seq(Chars) : t = s \o r
  BY DEF Begins
<1>2. Begins(Texts, Front(string_split(s, "\n")), Front(string_split(t, "\n")))
  BY <1>1, WordsStay DEF Texts
<1>3. IsPrefix(Front(string_split(s, "\n")), Front(string_split(t, "\n")))
  BY <1>2, GetLines, BeginsFacts
<1> QED BY <1>3, GetLines

(***************************************************************************)
(* A reply that is cut at harmless places and breaks off at any of them    *)
(* yields whole lines only, those that the complete text begins with:      *)
(* get_lines_from_buf drops what follows the last newline, and what is     *)
(* still to come changes no line before it.                                *)
(***************************************************************************)
THEOREM WholeLinesAlways == Spec => []WholeLines
<1>1. IInv => WholeLines
  <2> SUFFICES ASSUME IInv, ~torn
               PROVE  IsPrefix(get_lines_from_buf(<<>>, devices_list),
                               get_lines_from_buf(<<>>, Cleaned(Text)))
    BY DEF WholeLines
  <2>1. /\ Text \in Texts /\ collected \in Texts /\ arrived \in 0 .. Len(Stream)
        /\ long \in BOOLEAN
    BY TextType DEF IInv, TypeOK
  <2>2. Len(Text) \in Nat /\ Len(Stream) = Len(Text) + 8
    BY <2>1, StreamFacts
  <2>3. PICK b \in Texts : collected \o b = Text
    <3>1. CASE arrived < 8
      <4>1. collected = <<>>
        BY <2>1, <3>1 DEF IInv, Untorn
      <4> QED BY <2>1, <4>1, ConcatEmptySeq DEF Texts
    <3>2. CASE arrived >= 8
      <4>1. collected = SubSeq(Text, 1, arrived - 8)
        BY <3>2 DEF IInv, Untorn
      <4>2. arrived - 8 \in 0 .. Len(Text) /\ Len(Text) \in arrived - 8 .. Len(Text)
        BY <2>1, <2>2, <3>2
      <4>3. /\ SubSeq(Text, (arrived - 8) + 1, Len(Text)) \in Texts
            /\ SubSeq(Text, 1, arrived - 8) \o SubSeq(Text, (arrived - 8) + 1, Len(Text))
                 = SubSeq(Text, 1, Len(Text))
            /\ SubSeq(Text, 1, Len(Text)) = Text
        BY <2>1, <4>2, Cut
      <4> QED BY <4>1, <4>3
    <3> QED BY <2>1, <2>2, <3>1, <3>2
  <2>4. devices_list = Cleaned(collected)
    BY DEF IInv, CleanedOnce
  <2>5. CASE long
    <3>1. Begins(Chars, unique_spaces(collected), unique_spaces(Text))
      BY <2>1, <2>3, CleanedGrows
    <3>2. unique_spaces(collected) \in Texts /\ unique_spaces(Text) \in Texts
      BY <2>1, UniqueSpaces
    <3> QED BY <2>4, <2>5, <3>1, <3>2, LinesOfPrefix DEF Cleaned
  <2>6. CASE ~ long
    <3>1. Begins(Chars, collected, Text)
      BY <2>3 DEF Begins, Texts
    <3> QED BY <2>1, <2>4, <2>6, <3>1, LinesOfPrefix DEF Cleaned
  <2> QED BY <2>5, <2>6
<1> QED BY InitIInv, NextIInv, <1>1, PTL DEF Spec
---------------------------------------------------------------------------
(***************************************************************************)
(* One line                                                                *)
(***************************************************************************)
LEMMA Delimiters ==
  /\ Space \in Chars /\ Tab \in Chars /\ Newline \in Chars /\ Colon \in Chars
  /\ Space # Tab /\ Space # Newline /\ Space # Colon
  /\ Tab # Newline /\ Tab # Colon /\ Newline # Colon
BY ListAssumption DEF FormatChars, Space, Tab, Newline, Colon

\* <<x>> is a part of t if t has an x.
LEMMA OneElementSubSeqs ==
  ASSUME NEW C, NEW t \in Seq(C), NEW x
  PROVE  <<x>> \in SubSeqs(t) <=> \E i \in 1 .. Len(t) : t[i] = x
<1> DEFINE n == Len(t)
<1>1. n \in Nat /\ \A i \in 1 .. n : t[i] \in C
  BY LenProperties, ElementOfSeq
<1>2. ASSUME <<x>> \in SubSeqs(t) PROVE \E i \in 1 .. n : t[i] = x
  <2>1. PICK i \in 0 .. n, j \in 0 .. n : <<x>> = SubSeq(t, i + 1, j)
    BY <1>2 DEF SubSeqs
  <2>2. \A k \in i + 1 .. j : t[k] \in C
    BY <1>1
  <2>3. i + 1 \in Int /\ j \in Int
    BY <1>1
  <2>4. /\ Len(SubSeq(t, i + 1, j)) = IF i + 1 <= j THEN j - (i + 1) + 1 ELSE 0
        /\ \A k \in 1 .. j - (i + 1) + 1 : SubSeq(t, i + 1, j)[k] = t[(i + 1) + k - 1]
    BY <2>2, <2>3, SubSeqProperties
  <2>5. Len(<<x>>) = 1 /\ <<x>>[1] = x
    OBVIOUS
  <2>6. j = i + 1
    BY <1>1, <2>1, <2>4, <2>5
  <2>7. t[i + 1] = x
    BY <1>1, <2>1, <2>4, <2>5, <2>6
  <2> QED BY <1>1, <2>6, <2>7
<1>3. ASSUME NEW i \in 1 .. n, t[i] = x PROVE <<x>> \in SubSeqs(t)
  <2>1. SubSeq(t, (i - 1) + 1, i) = <<x>>
    <3> DEFINE v == SubSeq(t, i, i)
               w == <<x>>
    <3>1. i \in Int /\ (i - 1) + 1 = i /\ \A j \in i .. i : t[j] \in C
      BY <1>1
    <3>2. /\ v \in Seq(C) /\ Len(v) = IF i <= i THEN i - i + 1 ELSE 0
          /\ \A j \in 1 .. i - i + 1 : v[j] = t[i + j - 1]
      BY <3>1, SubSeqProperties
    <3>3. w \in Seq(C) /\ Len(w) = 1 /\ w[1] = x
      BY <1>1, <1>3
    <3> HIDE DEF v, w
    <3>4. Len(v) = Len(w) /\ \A j \in 1 .. Len(v) : v[j] = w[j]
      BY <1>3, <3>1, <3>2, <3>3
    <3>5. v = w
      BY <3>2, <3>3, <3>4, SeqEqual
    <3> QED BY <3>1, <3>5 DEF v, w
  <2>2. i - 1 \in 0 .. n /\ i \in 0 .. n
    BY <1>1
  <2>3. \A p, q \in 0 .. Len(t) : SubSeq(t, p + 1, q) \in SubSeqs(t)
    BY DEF SubSeqs
  <2> QED BY <2>1, <2>2, <2>3
<1> QED BY <1>2, <1>3

LEMMA ReplacedNothing ==
  ASSUME NEW t \in Texts, NEW x, NEW y, Without(t, x)
  PROVE  ReplaceFirstSubSeq(<<y>>, <<x>>, t) = t
<1>1. ~ (<<x>> \in SubSeqs(t))
  BY OneElementSubSeqs DEF Without, Texts
<1> QED BY <1>1 DEF ReplaceFirstSubSeq

LEMMA ReplacedFirst ==
  ASSUME NEW a \in Texts, NEW b \in Texts, NEW x \in Chars, NEW y \in Chars, Without(a, x)
  PROVE  ReplaceFirstSubSeq(<<y>>, <<x>>, a \o <<x>> \o b) = a \o <<y>> \o b
<1> DEFINE c == Append(a, x)
           t == c \o b
           k == Len(a) + 1
<1>1. /\ c \in Seq(Chars) /\ a \in Seq(Chars) /\ b \in Seq(Chars) /\ k \in Nat /\ 1 <= k
      /\ Len(c) = k /\ c[k] = x /\ \A i \in 1 .. k - 1 : c[i] = a[i]
  BY Appended DEF Texts
<1>2. a \o <<x>> \o b = t
  BY AppendIsConcat DEF Texts
<1> HIDE DEF c
<1>3. /\ t \in Seq(Chars) /\ Len(b) \in Nat /\ Len(t) = k + Len(b)
      /\ \A i \in 1 .. k : t[i] = c[i]
      /\ \A i \in 1 .. Len(b) : t[k + i] = b[i]
  <2>1. /\ t \in Seq(Chars) /\ Len(t) = Len(c) + Len(b) /\ Len(b) \in Nat
        /\ \A i \in 1 .. Len(c) + Len(b) : t[i] = IF i <= Len(c) THEN c[i] ELSE b[i - Len(c)]
    BY <1>1, ConcatProperties, LenProperties
  <2> HIDE DEF t, k
  <2>2. \A i \in 1 .. k : t[i] = c[i]
    BY <1>1, <2>1
  <2>3. ASSUME NEW i \in 1 .. Len(b) PROVE t[k + i] = b[i]
    <3>1. k + i \in 1 .. k + Len(b) /\ ~ (k + i <= k) /\ (k + i) - k = i
      BY <1>1, <2>1
    <3> QED BY <1>1, <2>1, <3>1
  <2> QED BY <1>1, <2>1, <2>2, <2>3
<1> HIDE DEF t
<1>4. t[k] = x /\ \A i \in 1 .. k - 1 : t[i] # x
  <2>1. k - 1 = Len(a) /\ Len(a) \in Nat
    BY <1>1, LenProperties
  <2>2. t[k] = x
    BY <1>1, <1>3
  <2>3. ASSUME NEW i \in 1 .. k - 1 PROVE t[i] # x
    <3>1. t[i] = a[i] /\ i \in 1 .. Len(a)
      BY <1>1, <1>3, <2>1
    <3> QED BY <3>1 DEF Without
  <2> QED BY <2>2, <2>3
<1> HIDE DEF k
<1>5. ASSUME NEW i \in 0 .. Len(t)
      PROVE  <<x>> \in SubSeqs(SubSeq(t, 1, i)) <=> k <= i
  <2> DEFINE v == SubSeq(t, 1, i)
  <2>1. i \in Nat /\ i <= Len(t) /\ Len(t) \in Nat
    BY <1>1, <1>3
  <2>2. \A j \in 1 .. i : t[j] \in Chars
    BY <1>3, <2>1, ElementOfSeq
  <2>3. v \in Seq(Chars) /\ Len(v) = i /\ \A j \in 1 .. i : v[j] = t[j]
    BY <2>1, <2>2
  <2> HIDE DEF v
  <2>4. <<x>> \in SubSeqs(v) <=> \E j \in 1 .. i : t[j] = x
    BY <2>3, OneElementSubSeqs
  <2>5. (\E j \in 1 .. i : t[j] = x) <=> k <= i
    BY <1>1, <1>4, <2>1
  <2> QED BY <2>4, <2>5 DEF v
<1> DEFINE IsLast(i) == /\ <<x>> \in SubSeqs(SubSeq(t, 1, i))
                        /\ \A j \in 0 .. i - 1 : <<x>> \notin SubSeqs(SubSeq(t, 1, j))
<1>6. k \in 0 .. Len(t) /\ IsLast(k)
  <2>1. k \in 0 .. Len(t) /\ \A j \in 0 .. k - 1 : j \in 0 .. Len(t) /\ ~ (k <= j)
    BY <1>1, <1>3
  <2> QED BY <1>1, <1>5, <2>1
<1>7. \A i \in 0 .. Len(t) : IsLast(i) => i = k
  <2> SUFFICES ASSUME NEW i \in 0 .. Len(t), IsLast(i) PROVE i = k
    OBVIOUS
  <2>1. k <= i
    BY <1>5
  <2>2. CASE k < i
    <3>1. k \in 0 .. i - 1
      BY <1>1, <1>6, <2>2
    <3>2. <<x>> \notin SubSeqs(SubSeq(t, 1, k))
      BY <3>1
    <3> QED BY <1>6, <3>2
  <2> QED BY <1>1, <1>6, <2>1, <2>2
<1>8. (CHOOSE i \in 0 .. Len(t) : IsLast(i)) = k
  <2> HIDE DEF IsLast
  <2> QED BY <1>6, <1>7
<1>9. IndexFirstSubSeq(<<x>>, t) = k
  <2> DEFINE last == CHOOSE i \in 0 .. Len(t) : IsLast(i)
  <2>1. IndexFirstSubSeq(<<x>>, t) = last - (Len(<<x>>) - 1)
    BY DEF IndexFirstSubSeq
  <2>2. Len(<<x>>) = 1
    OBVIOUS
  <2>3. last = k
    BY <1>8
  <2> HIDE DEF last
  <2> QED BY <1>1, <2>1, <2>2, <2>3
<1>10. <<x>> \in SubSeqs(t)
  BY <1>1, <1>3, <1>4, OneElementSubSeqs
<1>11. SubSeq(t, 1, k - 1) = a
  <2>1. k - 1 = Len(a) /\ Len(a) \in Nat
    BY <1>1, LenProperties DEF k
  <2>2. \A i \in 1 .. Len(a) : t[i] = a[i]
    BY <1>1, <1>3, <2>1
  <2>3. SubSeq(t, 1, Len(a)) = a
    BY <1>1, <2>1, <2>2
  <2> QED BY <2>1, <2>3
<1>12. SubSeq(t, k + 1, Len(t)) = b
  <2>1. k + 1 \in Int /\ Len(t) \in Int /\ \A i \in k + 1 .. Len(t) : t[i] \in Chars
    BY <1>1, <1>3, ElementOfSeq
  <2> DEFINE v == SubSeq(t, k + 1, Len(t))
  <2>2. /\ v \in Seq(Chars) /\ Len(v) = IF k + 1 <= Len(t) THEN Len(t) - (k + 1) + 1 ELSE 0
        /\ \A i \in 1 .. Len(t) - (k + 1) + 1 : v[i] = t[(k + 1) + i - 1]
    BY <2>1, SubSeqProperties
  <2> HIDE DEF v
  <2>3. Len(v) = Len(b)
    BY <1>1, <1>3, <2>2
  <2>4. ASSUME NEW i \in 1 .. Len(b) PROVE v[i] = b[i]
    <3>1. i \in 1 .. Len(t) - (k + 1) + 1 /\ (k + 1) + i - 1 = k + i
      BY <1>1, <1>3
    <3> QED BY <1>3, <2>2, <3>1
  <2>5. v = b
    BY <1>1, <2>2, <2>3, <2>4, SeqEqual
  <2> QED BY <2>5 DEF v
<1>13. ReplaceSubSeqAt(k, <<y>>, <<x>>, t) = a \o <<y>> \o b
  <2>1. Len(<<x>>) = 1
    OBVIOUS
  <2> QED BY <1>11, <1>12, <2>1 DEF ReplaceSubSeqAt
<1> QED BY <1>2, <1>9, <1>10, <1>13 DEF ReplaceFirstSubSeq

\* A word of a line.
Plain(w) == w \in Texts /\ Without(w, Space) /\ Without(w, Tab) /\ Without(w, Newline)

\* The text a is cleaned to b, whose words are ws.
CleanedTo(a, b, ws) ==
  /\ a \in Texts /\ b \in Texts /\ unique_spaces(a) = b /\ EndsClean(b)
  /\ Without(b, Tab) /\ Without(b, Newline)
  /\ ws \in Seq(Texts) /\ string_split(b, Space) = ws

LEMMA OneCharacterWithout ==
  ASSUME NEW e \in Chars, NEW c, e # c PROVE Without(<<e>>, c)
BY DEF Without

LEMMA CleanStart ==
  ASSUME NEW w, Plain(w) PROVE CleanedTo(w, w, <<w>>)
<1>1. w \in Texts /\ Without(w, Space) /\ <<>> \in Texts
  BY DEF Plain, Texts
<1>2. unique_spaces(w) = w
  <2>1. unique_spaces(<<>> \o w) = unique_spaces(<<>>) \o w
    BY <1>1, CleanWord
  <2>2. <<>> \o w = w /\ unique_spaces(<<>>) = <<>>
    BY <1>1, ConcatEmptySeq, UniqueSpaces DEF Texts
  <2> QED BY <2>1, <2>2
<1>3. EndsClean(w)
  <2> SUFFICES ASSUME w # <<>> PROVE Last(w) # Space
    BY DEF EndsClean, Space
  <2>1. Len(w) \in 1 .. Len(w)
    BY <1>1, EmptySeq DEF Texts
  <2> QED BY <1>1, <2>1 DEF Without, Last
<1>4. string_split(w, Space) = <<w>> /\ <<w>> \in Seq(Texts)
  BY <1>1, FirstWord
<1> QED BY <1>1, <1>2, <1>3, <1>4 DEF Plain, CleanedTo

Spaces(n) == [i \in 1 .. n |-> " "]

LEMMA OneSpace == Spaces(1) = <<Space>>
<1>1. ASSUME NEW c PROVE [i \in 1 .. 1 |-> c] = <<c>>
  OBVIOUS
<1> QED BY <1>1 DEF Spaces, Space

LEMMA CleanSpaces ==
  ASSUME NEW n \in Nat \ {0}, NEW w \in Texts, Without(w, Space)
  PROVE  unique_spaces(Spaces(n) \o w) = <<Space>> \o w
<1> DEFINE pad == Spaces(n)
           sp == <<Space>>
<1>1. pad \in Texts
  BY PadType DEF Spaces
<1>2. unique_spaces(pad) = sp
  BY CleanPad DEF Space, Spaces
<1> HIDE DEF pad, sp
<1>3. unique_spaces(pad \o w) = unique_spaces(pad) \o w
  BY <1>1, CleanWord
<1> QED BY <1>2, <1>3 DEF pad, sp

\* One more word.
LEMMA CleanMore ==
  ASSUME NEW a, NEW b, NEW ws, CleanedTo(a, b, ws),
         NEW p \in Texts, NEW w, Plain(w), w # <<>>, unique_spaces(p) = <<Space>> \o w
  PROVE  CleanedTo(a \o p, b \o (<<Space>> \o w), Append(ws, w))
<1> DEFINE sp == <<Space>>
           q == sp \o w
<1>1. /\ a \in Texts /\ b \in Texts /\ unique_spaces(a) = b /\ EndsClean(b)
      /\ Without(b, Tab) /\ Without(b, Newline)
      /\ ws \in Seq(Texts) /\ string_split(b, Space) = ws
  BY DEF CleanedTo
<1>2. w \in Texts /\ Without(w, Space) /\ Without(w, Tab) /\ Without(w, Newline)
  BY DEF Plain
<1>3. sp \in Texts /\ Without(sp, Tab) /\ Without(sp, Newline)
  <2>1. sp \in Texts
    BY Delimiters DEF Texts
  <2> QED BY <2>1, Delimiters, OneCharacterWithout
<1>4. unique_spaces(p) = q
  OBVIOUS
<1>5. string_split(b \o q, Space) = Append(ws, w)
  BY <1>1, <1>2, Delimiters, NextWord
<1> HIDE DEF sp
<1>6. q \in Texts /\ Without(q, Tab) /\ Without(q, Newline)
  BY <1>2, <1>3, WithoutConcat, ConcatProperties DEF Texts
<1>7. q # <<>> /\ Last(q) = Last(w)
  BY <1>2, <1>3, LastOfConcat DEF Texts
<1>8. Last(w) # Space
  <2>1. Len(w) \in 1 .. Len(w)
    BY <1>2, EmptySeq DEF Texts
  <2> QED BY <1>2, <2>1 DEF Without, Last
<1> HIDE DEF q
<1>9. b \o q \in Texts /\ Without(b \o q, Tab) /\ Without(b \o q, Newline) /\ a \o p \in Texts
  BY <1>1, <1>6, WithoutConcat, ConcatProperties DEF Texts
<1>10. unique_spaces(a \o p) = b \o q
  BY <1>1, <1>4, CleanedApart
<1>11. EndsClean(b \o q)
  <2>1. Last(b \o q) # Space
    BY <1>1, <1>6, <1>7, <1>8, LastOfConcat DEF Texts
  <2> QED BY <2>1 DEF EndsClean, Space
<1>12. Append(ws, w) \in Seq(Texts)
  BY <1>1, <1>2
<1>13. CleanedTo(a \o p, b \o q, Append(ws, w))
  BY <1>5, <1>9, <1>10, <1>11, <1>12 DEF CleanedTo
<1> QED BY <1>13 DEF q, sp

LEMMA Pair == ASSUME NEW x, NEW y PROVE Append(<<x>>, y) = <<x, y>>
<1> DEFINE C == {x, y}
           s == <<x>>
           t == <<x, y>>
           a == Append(s, y)
<1>1. s \in Seq(C) /\ Len(s) = 1 /\ s[1] = x /\ y \in C
  OBVIOUS
<1>2. t \in Seq(C) /\ Len(t) = 2 /\ t[1] = x /\ t[2] = y
  OBVIOUS
<1> HIDE DEF C, s, t
<1>3. a \in Seq(C) /\ Len(a) = 2 /\ a[1] = x /\ a[2] = y
  <2>1. /\ a \in Seq(C) /\ Len(a) = Len(s) + 1 /\ a[Len(s) + 1] = y
        /\ \A n \in 1 .. Len(s) : a[n] = s[n]
    <3>1. s \in Seq(C) /\ y \in C
      BY <1>1
    <3> QED BY <3>1, Appended
  <2> HIDE DEF a
  <2>2. 1 \in 1 .. Len(s) /\ Len(s) + 1 = 2
    BY <1>1
  <2>3. a[1] = s[1]
    BY <2>1, <2>2
  <2> QED BY <1>1, <2>1, <2>2, <2>3
<1> HIDE DEF a
<1>4. a = t
  BY <1>2, <1>3, SeqEqual
<1> QED BY <1>4 DEF a, s, t

\* The fields `key:value` of a line.
FieldWord(key, value) == <<key, ":">> \o value

LEMMA FieldFacts ==
  ASSUME NEW key \in Chars, key \notin {Space, Tab, Newline, Colon},
         NEW v \in Texts, Plain(v), Without(v, Colon)
  PROVE  /\ <<" ", key, ":">> \o v \in Texts
         /\ unique_spaces(<<" ", key, ":">> \o v) = <<Space>> \o FieldWord(key, v)
         /\ Plain(FieldWord(key, v)) /\ FieldWord(key, v) # <<>>
         /\ HasValue(FieldWord(key, v)) /\ Value(FieldWord(key, v)) = v
<1> DEFINE kk == <<key>>
           co == <<Colon>>
           kc == <<key, Colon>>
           w == kc \o v
           sp == <<Space>>
           skc == <<Space, key, Colon>>
<1>1. FieldWord(key, v) = w /\ <<" ", key, ":">> \o v = skc \o v
  BY DEF FieldWord, Space, Colon
<1>2. /\ kk \in Texts /\ co \in Texts /\ kc \in Texts /\ sp \in Texts /\ skc \in Texts
      /\ kc = kk \o co /\ skc = sp \o kc /\ kc # <<>>
  BY Delimiters DEF Texts
<1>3. /\ Without(kc, Space) /\ Without(kc, Tab) /\ Without(kc, Newline) /\ Without(kk, Colon)
  BY Delimiters DEF Without
<1>4. v \in Texts /\ Without(v, Space) /\ Without(v, Tab) /\ Without(v, Newline) /\ Without(v, Colon)
  BY DEF Plain
<1> HIDE DEF kk, kc, sp, skc
<1>5. w \in Texts /\ Without(w, Space) /\ Without(w, Tab) /\ Without(w, Newline) /\ w # <<>>
  <2>1. w \in Texts
    BY <1>2, <1>4, ConcatProperties DEF Texts
  <2>2. w # <<>>
    BY <1>2, <1>4, ConcatEqualIffEmpty DEF Texts
  <2> QED BY <1>2, <1>3, <1>4, <2>1, <2>2, WithoutConcat
<1>6. skc \o v = sp \o w /\ w = kk \o (co \o v)
  <2>0. kk \in Texts /\ co \in Texts /\ sp \in Texts /\ kc \in Texts /\ v \in Texts
    BY <1>2, <1>4
  <2> HIDE DEF co, w
  <2>1. (sp \o kc) \o v = sp \o (kc \o v)
    BY <2>0, TextsConcat
  <2>2. (kk \o co) \o v = kk \o (co \o v)
    BY <2>0, TextsConcat
  <2> QED BY <1>2, <2>1, <2>2 DEF w
<1>7. unique_spaces(sp \o w) = sp \o w
  <2> HIDE DEF w
  <2>1. 1 \in Nat \ {0}
    OBVIOUS
  <2>2. unique_spaces(Spaces(1) \o w) = <<Space>> \o w
    BY <1>5, <2>1, CleanSpaces
  <2> QED BY <2>2, OneSpace DEF sp
<1>8. string_split(w, Colon) = <<kk, v>>
  <2>1. string_split(kk, Colon) = <<kk>>
    BY <1>2, <1>3, FirstWord
  <2>2. string_split(kk \o (co \o v), Colon) = Append(string_split(kk, Colon), v)
    BY <1>2, <1>4, Delimiters, NextWord
  <2>3. Append(<<kk>>, v) = <<kk, v>>
    BY Pair
  <2> HIDE DEF w, co
  <2> QED BY <1>6, <2>1, <2>2, <2>3
<1>9. HasValue(w) /\ Value(w) = v
  <2>1. string_split(w, ":") = <<kk, v>>
    BY <1>8 DEF Colon
  <2>2. Len(<<kk, v>>) = 2 /\ <<kk, v>>[2] = v
    OBVIOUS
  <2> HIDE DEF w
  <2> QED BY <2>1, <2>2 DEF HasValue, Value
<1>10. sp \o w \in Texts
  BY <1>2, <1>5, ConcatProperties DEF Texts
<1>11. Plain(w)
  BY <1>5 DEF Plain
<1> HIDE DEF w
<1> QED BY <1>1, <1>5, <1>6, <1>7, <1>9, <1>10, <1>11 DEF sp

LEMMA SixWords ==
  ASSUME NEW a \in Texts, NEW b \in Texts, NEW c \in Texts,
         NEW d \in Texts, NEW e \in Texts, NEW f \in Texts,
         NEW ws, ws = Append(Append(Append(Append(Append(<<a>>, b), c), d), e), f)
  PROVE  /\ Len(ws) = 6 /\ ws[1] = a /\ ws[2] = b /\ ws[3] = c
         /\ ws[4] = d /\ ws[5] = e /\ ws[6] = f
<1> DEFINE w1 == <<a>>
           w2 == Append(w1, b)
           w3 == Append(w2, c)
           w4 == Append(w3, d)
           w5 == Append(w4, e)
           w6 == Append(w5, f)
<1>1. w1 \in Seq(Texts) /\ Len(w1) = 1 /\ w1[1] = a
  OBVIOUS
<1>7. ws = w6
  OBVIOUS
<1> HIDE DEF w1
<1>2. w2 \in Seq(Texts) /\ Len(w2) = 2 /\ w2[2] = b /\ w2[1] = a
  <2>1. /\ w2 \in Seq(Texts) /\ Len(w2) = 1 + 1 /\ w2[1 + 1] = b
        /\ \A i \in 1 .. 1 : w2[i] = w1[i]
    <3>1. w1 \in Seq(Texts)
      BY <1>1
    <3>2. /\ w2 \in Seq(Texts) /\ Len(w2) = Len(w1) + 1 /\ w2[Len(w1) + 1] = b
          /\ \A i \in 1 .. Len(w1) : w2[i] = w1[i]
      BY <3>1, Appended
    <3> HIDE DEF w2
    <3> QED BY <1>1, <3>2
  <2> HIDE DEF w2
  <2> QED BY <1>1, <2>1
<1> HIDE DEF w2
<1>3. w3 \in Seq(Texts) /\ Len(w3) = 3 /\ w3[3] = c /\ w3[2] = b /\ w3[1] = a
  <2>1. /\ w3 \in Seq(Texts) /\ Len(w3) = 2 + 1 /\ w3[2 + 1] = c
        /\ \A i \in 1 .. 2 : w3[i] = w2[i]
    <3>1. w2 \in Seq(Texts)
      BY <1>2
    <3>2. /\ w3 \in Seq(Texts) /\ Len(w3) = Len(w2) + 1 /\ w3[Len(w2) + 1] = c
          /\ \A i \in 1 .. Len(w2) : w3[i] = w2[i]
      BY <3>1, Appended
    <3> HIDE DEF w3
    <3> QED BY <1>2, <3>2
  <2> HIDE DEF w3
  <2> QED BY <1>2, <2>1
<1> HIDE DEF w3
<1>4. /\ w4 \in Seq(Texts) /\ Len(w4) = 4 /\ w4[4] = d
      /\ w4[3] = c /\ w4[2] = b /\ w4[1] = a
  <2>1. /\ w4 \in Seq(Texts) /\ Len(w4) = 3 + 1 /\ w4[3 + 1] = d
        /\ \A i \in 1 .. 3 : w4[i] = w3[i]
    <3>1. w3 \in Seq(Texts)
      BY <1>3
    <3>2. /\ w4 \in Seq(Texts) /\ Len(w4) = Len(w3) + 1 /\ w4[Len(w3) + 1] = d
          /\ \A i \in 1 .. Len(w3) : w4[i] = w3[i]
      BY <3>1, Appended
    <3> HIDE DEF w4
    <3> QED BY <1>3, <3>2
  <2> HIDE DEF w4
  <2> QED BY <1>3, <2>1
<1> HIDE DEF w4
<1>5. /\ w5 \in Seq(Texts) /\ Len(w5) = 5 /\ w5[5] = e /\ w5[4] = d
      /\ w5[3] = c /\ w5[2] = b /\ w5[1] = a
  <2>1. /\ w5 \in Seq(Texts) /\ Len(w5) = 4 + 1 /\ w5[4 + 1] = e
        /\ \A i \in 1 .. 4 : w5[i] = w4[i]
    <3>1. w4 \in Seq(Texts)
      BY <1>4
    <3>2. /\ w5 \in Seq(Texts) /\ Len(w5) = Len(w4) + 1 /\ w5[Len(w4) + 1] = e
          /\ \A i \in 1 .. Len(w4) : w5[i] = w4[i]
      BY <3>1, Appended
    <3> HIDE DEF w5
    <3> QED BY <1>4, <3>2
  <2> HIDE DEF w5
  <2> QED BY <1>4, <2>1
<1> HIDE DEF w5
<1>6. /\ Len(w6) = 6 /\ w6[6] = f /\ w6[5] = e /\ w6[4] = d
      /\ w6[3] = c /\ w6[2] = b /\ w6[1] = a
  <2>1. /\ Len(w6) = 5 + 1 /\ w6[5 + 1] = f
        /\ \A i \in 1 .. 5 : w6[i] = w5[i]
    <3>1. w5 \in Seq(Texts)
      BY <1>5
    <3>2. /\ w6 \in Seq(Texts) /\ Len(w6) = Len(w5) + 1 /\ w6[Len(w5) + 1] = f
          /\ \A i \in 1 .. Len(w5) : w6[i] = w5[i]
      BY <3>1, Appended
    <3> HIDE DEF w6
    <3> QED BY <1>5, <3>2
  <2> HIDE DEF w6
  <2> QED BY <1>5, <2>1
<1> HIDE DEF w6
<1> QED BY <1>6, <1>7

\* What a line of words is read as.
LongInfo(w1, w2, w3, w4, w5, w6) ==
  [serial |-> w1, state |-> w2, product |-> Value(w3), model |-> Value(w4),
   device |-> Value(w5), transport_id |-> atoi(Value(w6))]

LEMMA DeviceOfSix ==
  ASSUME NEW b \in Texts, Without(b, Tab),
         NEW w1 \in Texts, NEW w2 \in Texts, NEW w3 \in Texts,
         NEW w4 \in Texts, NEW w5 \in Texts, NEW w6 \in Texts,
         string_split(b, Space) = Append(Append(Append(Append(Append(<<w1>>, w2), w3), w4), w5), w6),
         HasValue(w3), HasValue(w4), HasValue(w5), HasValue(w6)
  PROVE  DeviceOf(b) = LongInfo(w1, w2, w3, w4, w5, w6)
<1> DEFINE words == string_split(b, Space)
<1>1. ReplaceFirstSubSeq(<<" ">>, <<"\t">>, b) = b
  BY ReplacedNothing DEF Tab
<1>2. string_split(ReplaceFirstSubSeq(<<" ">>, <<"\t">>, b), " ") = words
  BY <1>1 DEF Space
<1>3. /\ Len(words) = 6 /\ words[1] = w1 /\ words[2] = w2 /\ words[3] = w3
      /\ words[4] = w4 /\ words[5] = w5 /\ words[6] = w6
  BY SixWords
<1> HIDE DEF words
<1>4. ~ \E i \in 3 .. 6 : ~ HasValue(words[i])
  BY <1>3
<1>5. DeviceOf(b) = Info(words)
  BY <1>2 DEF DeviceOf
<1> QED BY <1>3, <1>4, <1>5 DEF Info, LongInfo

LEMMA DeviceOfTwo ==
  ASSUME NEW s, Plain(s), NEW st, Plain(st)
  PROVE  DeviceOf(s \o <<Tab>> \o st) = [DeviceInfo EXCEPT !.serial = s, !.state = st]
<1>1. /\ s \in Texts /\ Without(s, Space) /\ Without(s, Tab)
      /\ st \in Texts /\ Without(st, Space)
  BY DEF Plain
<1> DEFINE words == <<s, st>>
<1>2. ReplaceFirstSubSeq(<<Space>>, <<Tab>>, s \o <<Tab>> \o st) = s \o <<Space>> \o st
  BY <1>1, Delimiters, ReplacedFirst
<1>3. string_split(s \o <<Space>> \o st, Space) = words
  <2>1. <<Space>> \in Texts
    BY Delimiters, Characters
  <2>2. s \o <<Space>> \o st = s \o (<<Space>> \o st)
    BY <1>1, <2>1, TextsConcat
  <2>3. string_split(s \o (<<Space>> \o st), Space) = Append(string_split(s, Space), st)
    BY <1>1, Delimiters, NextWord
  <2>4. string_split(s, Space) = <<s>>
    BY <1>1, FirstWord
  <2> QED BY <2>2, <2>3, <2>4, Pair
<1>4. string_split(ReplaceFirstSubSeq(<<" ">>, <<"\t">>, s \o <<Tab>> \o st), " ") = words
  BY <1>2, <1>3 DEF Space, Tab
<1>5. Len(words) = 2 /\ words[1] = s /\ words[2] = st
  OBVIOUS
<1> HIDE DEF words
<1>6. DeviceOf(s \o <<Tab>> \o st) = Info(words)
  BY <1>4 DEF DeviceOf
<1> QED BY <1>5, <1>6 DEF Info

LEMMA OnePlain ==
  ASSUME NEW e \in Chars, e \notin {Space, Tab, Newline, Colon}
  PROVE  Plain(<<e>>) /\ Without(<<e>>, Colon) /\ <<e>> # <<>>
<1>1. <<e>> \in Texts /\ <<e>> # <<>>
  BY Characters
<1> QED BY <1>1, OneCharacterWithout DEF Plain

LEMMA Letters ==
  /\ {"d", "o", "p", "m", "t", "q", "r", "s"} \subseteq Chars
  /\ \A e \in {"d", "o", "p", "m", "t", "q", "r", "s"} : e \notin {Space, Tab, Newline, Colon}
BY ListAssumption DEF FormatChars, Space, Tab, Newline, Colon

LEMMA StatePlain ==
  ASSUME NEW cs \in ConnectionStates, cs # "kCsNoPerm"
  PROVE  Plain(state_to_string[cs]) /\ state_to_string[cs] # <<>>
<1>1. Plain(<<"d">>) /\ <<"d">> # <<>> /\ Plain(<<"o">>) /\ <<"o">> # <<>>
  BY Letters, OnePlain
<1>2. cs = "kCsDevice" \/ cs = "kCsOffline"
  BY DEF ConnectionStates
<1>3. state_to_string["kCsDevice"] = <<"d">> /\ state_to_string["kCsOffline"] = <<"o">>
  BY DEF state_to_string
<1> QED BY <1>1, <1>2, <1>3

LEMMA DevicePlain ==
  ASSUME NEW d \in Devices
  PROVE  /\ Plain(d.serial) /\ Plain(d.id) /\ Without(d.id, Colon)
         /\ d.pad \in Nat \ {0} /\ d.state \in ConnectionStates
<1>1. d.pad \in Nat \ {0} /\ d.state \in ConnectionStates
  BY ListAssumption DEF ConnectionStates
<1>2. d.serial \in Texts /\ d.id \in Texts
  BY ListAssumption DEF Texts
<1>3. \A i \in 1 .. Len(d.serial) : d.serial[i] \notin {Space, Tab, Newline}
  BY FormatAssumption DEF Space, Tab, Newline
<1>4. \A i \in 1 .. Len(d.id) : d.id[i] \notin {Space, Tab, Newline, Colon}
  BY FormatAssumption DEF Space, Tab, Newline, Colon
<1> QED BY <1>1, <1>2, <1>3, <1>4 DEF Plain, Without

Reads(s, d) ==
  \E body \in Texts : /\ Without(body, Newline) /\ s = body \o <<Newline>>
                      /\ DeviceOf(body) = Said(d)

LEMMA ShortLine ==
  ASSUME NEW d \in Devices, d.state # "kCsNoPerm", long = FALSE
  PROVE  Reads(Cleaned(Line(d, long)), d)
<1> DEFINE st == state_to_string[d.state]
           tab == <<Tab>>
           body == d.serial \o tab \o st
<1>1. Plain(d.serial) /\ Plain(st)
  BY DevicePlain, StatePlain
<1>2. Line(d, long) = body \o <<Newline>>
  BY DEF Line, Tab, Newline
<1>3. DeviceOf(body) = Said(d)
  BY <1>1, DeviceOfTwo DEF Said
<1>4. tab \in Texts /\ Without(tab, Newline)
  BY Delimiters, Characters, OneCharacterWithout
<1> HIDE DEF tab, st
<1>5. body \in Texts /\ Without(body, Newline)
  <2>1. d.serial \o tab \in Texts /\ Without(d.serial \o tab, Newline)
    BY <1>1, <1>4, TextsConcat, WithoutConcat DEF Plain
  <2> QED BY <1>1, <2>1, TextsConcat, WithoutConcat DEF Plain
<1> HIDE DEF body
<1>6. Cleaned(Line(d, long)) = body \o <<Newline>>
  BY <1>2 DEF Cleaned
<1> QED BY <1>3, <1>5, <1>6 DEF Reads

LEMMA LongLine ==
  ASSUME NEW d \in Devices, d.state # "kCsNoPerm", long = TRUE
  PROVE  Reads(Cleaned(Line(d, long)), d)
<1> DEFINE st == state_to_string[d.state]
           s == d.serial
           pad == Spaces(d.pad)
           field(key, value) == <<" ", key, ":">> \o value
           f1 == field("p", <<"q">>)
           f2 == field("m", <<"r">>)
           f3 == field("d", <<"s">>)
           f4 == field("t", d.id)
           w1 == FieldWord("p", <<"q">>)
           w2 == FieldWord("m", <<"r">>)
           w3 == FieldWord("d", <<"s">>)
           w4 == FieldWord("t", d.id)
           nl == <<Newline>>
           sp == <<Space>>
<1>1. Plain(s) /\ Plain(st) /\ st # <<>> /\ Plain(d.id) /\ Without(d.id, Colon) /\ d.pad \in Nat \ {0}
  BY DevicePlain, StatePlain
<1>2. /\ Plain(<<"q">>) /\ Without(<<"q">>, Colon)
      /\ Plain(<<"r">>) /\ Without(<<"r">>, Colon)
      /\ Plain(<<"s">>) /\ Without(<<"s">>, Colon)
  BY Letters, OnePlain
<1>3. Line(d, long) = s \o pad \o st \o f1 \o f2 \o f3 \o f4 \o nl
  BY DEF Line, Newline, Spaces
<1>4. Said(d) = [serial |-> s, state |-> st, product |-> <<"q">>, model |-> <<"r">>,
                 device |-> <<"s">>, transport_id |-> atoi(d.id)]
  BY DEF Said
<1>5. /\ f1 \in Texts /\ unique_spaces(f1) = sp \o w1 /\ Plain(w1) /\ w1 # <<>>
      /\ HasValue(w1) /\ Value(w1) = <<"q">>
  BY <1>2, Letters, FieldFacts DEF Plain
<1>6. /\ f2 \in Texts /\ unique_spaces(f2) = sp \o w2 /\ Plain(w2) /\ w2 # <<>>
      /\ HasValue(w2) /\ Value(w2) = <<"r">>
  BY <1>2, Letters, FieldFacts DEF Plain
<1>7. /\ f3 \in Texts /\ unique_spaces(f3) = sp \o w3 /\ Plain(w3) /\ w3 # <<>>
      /\ HasValue(w3) /\ Value(w3) = <<"s">>
  BY <1>2, Letters, FieldFacts DEF Plain
<1>8. /\ f4 \in Texts /\ unique_spaces(f4) = sp \o w4 /\ Plain(w4) /\ w4 # <<>>
      /\ HasValue(w4) /\ Value(w4) = d.id
  BY <1>1, Letters, FieldFacts DEF Plain
<1>9. pad \in Texts /\ nl \in Texts /\ Without(nl, Space)
  BY <1>1, PadType, Delimiters, Characters, OneCharacterWithout DEF Spaces
<1>10. unique_spaces(pad \o st) = sp \o st
  BY <1>1, CleanSpaces DEF Plain
<1> HIDE DEF field, f1, f2, f3, f4, w1, w2, w3, w4, pad, nl, st, sp
<1>11. s \in Texts /\ st \in Texts /\ pad \o st \in Texts /\ s \o pad \o st = s \o (pad \o st)
  BY <1>1, <1>9, TextsConcat DEF Plain
<1> DEFINE a1 == s \o (pad \o st)   b1 == s \o (sp \o st)   v1 == Append(<<s>>, st)
           a2 == a1 \o f1             b2 == b1 \o (sp \o w1)  v2 == Append(v1, w1)
           a3 == a2 \o f2             b3 == b2 \o (sp \o w2)  v3 == Append(v2, w2)
           a4 == a3 \o f3             b4 == b3 \o (sp \o w3)  v4 == Append(v3, w3)
           a5 == a4 \o f4             b5 == b4 \o (sp \o w4)  v5 == Append(v4, w4)
<1>12. CleanedTo(s, s, <<s>>)
  BY <1>1, CleanStart
<1>13. CleanedTo(a1, b1, v1)
  BY <1>1, <1>10, <1>11, <1>12, CleanMore DEF sp
<1> HIDE DEF a1, b1
<1>14. CleanedTo(a2, b2, v2)
  <2> HIDE DEF v1
  <2> QED BY <1>5, <1>13, CleanMore DEF sp
<1> HIDE DEF a2, b2
<1>15. CleanedTo(a3, b3, v3)
  <2> HIDE DEF v2
  <2> QED BY <1>6, <1>14, CleanMore DEF sp
<1> HIDE DEF a3, b3
<1>16. CleanedTo(a4, b4, v4)
  <2> HIDE DEF v3
  <2> QED BY <1>7, <1>15, CleanMore DEF sp
<1> HIDE DEF a4, b4
<1>17. CleanedTo(a5, b5, v5)
  <2> HIDE DEF v4
  <2> QED BY <1>8, <1>16, CleanMore DEF sp
<1>18. Line(d, long) = a5 \o nl
  BY <1>3, <1>11 DEF a1, a2, a3, a4
<1> HIDE DEF a5, b5
<1>19. /\ a5 \in Texts /\ b5 \in Texts /\ unique_spaces(a5) = b5
       /\ Without(b5, Tab) /\ Without(b5, Newline) /\ string_split(b5, Space) = v5
  BY <1>17 DEF CleanedTo
<1>20. Cleaned(Line(d, long)) = b5 \o nl
  <2>1. unique_spaces(a5 \o nl) = b5 \o nl
    BY <1>9, <1>19, CleanWord
  <2> QED BY <1>18, <2>1 DEF Cleaned
<1>21. DeviceOf(b5) = Said(d)
  <2>1. w1 \in Texts /\ w2 \in Texts /\ w3 \in Texts /\ w4 \in Texts
    BY <1>5, <1>6, <1>7, <1>8 DEF Plain
  <2>2. /\ b5 \in Texts /\ Without(b5, Tab) /\ s \in Texts /\ st \in Texts
        /\ string_split(b5, Space) = Append(Append(Append(Append(Append(<<s>>, st), w1), w2), w3), w4)
    BY <1>11, <1>19
  <2>3. HasValue(w1) /\ HasValue(w2) /\ HasValue(w3) /\ HasValue(w4)
    BY <1>5, <1>6, <1>7, <1>8
  <2> HIDE DEF s
  <2>4. DeviceOf(b5) = LongInfo(s, st, w1, w2, w3, w4)
    BY <2>1, <2>2, <2>3, DeviceOfSix
  <2> QED BY <1>4, <1>5, <1>6, <1>7, <1>8, <2>4 DEF LongInfo, s
<1> QED BY <1>19, <1>20, <1>21 DEF Reads, nl

LEMMA LineRead ==
  ASSUME NEW d \in Devices, d.state # "kCsNoPerm", long \in BOOLEAN
  PROVE  Reads(Cleaned(Line(d, long)), d)
BY ShortLine, LongLine

(***************************************************************************)
(* The list: every line is read as what it says of its device, whatever    *)
(* the lines before it.                                                    *)
(***************************************************************************)
TextOf(l) == FlattenSeq([i \in DOMAIN l |-> Line(l[i], long)])

ListRead(l) ==
  \E bodies \in Seq(Texts) :
    /\ string_split(Cleaned(TextOf(l)), Newline) = Append(bodies, <<>>)
    /\ Len(bodies) = Len(l) /\ \A i \in 1 .. Len(l) : DeviceOf(bodies[i]) = Said(l[i])

LEMMA MoreLines ==
  ASSUME NEW l \in Seq(Devices), NEW d \in Devices
  PROVE  /\ TextOf(l) \in Texts /\ Line(d, long) \in Texts
         /\ TextOf(Append(l, d)) = TextOf(l) \o Line(d, long)
<1> DEFINE lines(k) == [i \in DOMAIN k |-> Line(k[i], long)]
           L(e) == Line(e, long)
           m == Append(l, d)
           n == Len(l)
<1>1. /\ n \in Nat /\ DOMAIN l = 1 .. n /\ \A i \in 1 .. n : l[i] \in Devices
  BY LenProperties, ElementOfSeq
<1>2. /\ m \in Seq(Devices) /\ Len(m) = n + 1 /\ m[n + 1] = d /\ \A i \in 1 .. n : m[i] = l[i]
  BY Appended
<1> HIDE DEF m
<1>3. DOMAIN m = 1 .. n + 1
  BY <1>2, LenProperties
<1>4. \A e \in Devices : L(e) \in Texts
  BY LineType
<1> HIDE DEF L
<1> DEFINE p == [i \in 1 .. n |-> L(l[i])]
           q == [i \in 1 .. n + 1 |-> L(m[i])]
<1>5. lines(l) = p /\ lines(m) = q
  BY <1>1, <1>3 DEF L
<1>6. p \in Seq(Texts) /\ Len(p) = n /\ \A i \in 1 .. n : p[i] = L(l[i])
  BY <1>1, <1>4
<1>7. q \in Seq(Texts) /\ Len(q) = n + 1 /\ \A i \in 1 .. n + 1 : q[i] = L(m[i])
  <2>1. \A i \in 1 .. n + 1 : m[i] \in Devices
    BY <1>2, ElementOfSeq
  <2> QED BY <1>1, <1>4, <2>1
<1> HIDE DEF p, q, n
<1> DEFINE r == Append(p, L(d))
<1>8. /\ L(d) \in Texts /\ r \in Seq(Texts) /\ Len(r) = n + 1 /\ r[n + 1] = L(d)
      /\ \A i \in 1 .. n : r[i] = p[i]
  <2>1. L(d) \in Texts
    BY <1>4
  <2>2. /\ r \in Seq(Texts) /\ Len(r) = Len(p) + 1 /\ r[Len(p) + 1] = L(d)
        /\ \A i \in 1 .. Len(p) : r[i] = p[i]
    BY <1>6, <2>1, Appended
  <2> HIDE DEF r
  <2> QED BY <1>6, <2>1, <2>2
<1> HIDE DEF r
<1>9. q = r
  <2>1. \A i \in 1 .. Len(q) : q[i] = r[i]
    <3> TAKE i \in 1 .. Len(q)
    <3>1. CASE i = n + 1
      BY <1>1, <1>2, <1>7, <1>8, <3>1
    <3>2. CASE i \in 1 .. n
      BY <1>1, <1>2, <1>6, <1>7, <1>8, <3>2
    <3> QED BY <1>1, <1>7, <3>1, <3>2
  <2> QED BY <1>7, <1>8, <2>1, SeqEqual
<1>10. FlattenSeq(q) = FlattenSeq(p) \o L(d) /\ FlattenSeq(p) \in Texts
  BY <1>6, <1>8, <1>9, FlattenLines DEF r
<1> QED BY <1>5, <1>8, <1>10 DEF TextOf, L, m

LEMMA ListIsRead ==
  ASSUME \A d \in Devices : d.state # "kCsNoPerm", long \in BOOLEAN, NEW k \in Seq(Devices)
  PROVE  ListRead(k)
<1> DEFINE P == {l \in Seq(Devices) : EndsClean(Cleaned(TextOf(l))) /\ ListRead(l)}
           nl == <<Newline>>
           e == <<>>
<1>0. e \in Texts /\ e \in Seq(Texts) /\ nl \in Texts
  BY Delimiters DEF Texts
<1>1. <<>> \in P
  <2>1. TextOf(<<>>) = <<>>
    <3>1. [i \in DOMAIN <<>> |-> Line(<<>>[i], long)] = <<>>
      OBVIOUS
    <3> QED BY <3>1, FlattenLines DEF TextOf
  <2>2. Cleaned(TextOf(<<>>)) = e
    BY <2>1, UniqueSpaces DEF Cleaned
  <2>3. string_split(e, Newline) = Append(e, e)
    <3>1. Without(e, Newline)
      BY DEF Without
    <3> QED BY <1>0, <3>1, FirstWord
  <2>4. Len(e) = Len(<<>>) /\ \A i \in 1 .. Len(<<>>) : DeviceOf(e[i]) = Said(<<>>[i])
    OBVIOUS
  <2>5. ListRead(<<>>)
    BY <1>0, <2>2, <2>3, <2>4 DEF ListRead
  <2>6. EndsClean(Cleaned(TextOf(<<>>)))
    BY <2>2 DEF EndsClean
  <2>7. <<>> \in Seq(Devices)
    BY EmptySeq
  <2> QED BY <2>5, <2>6, <2>7
<1>2. ASSUME NEW l \in Seq(Devices), NEW d \in Devices, l \in P PROVE Append(l, d) \in P
  <2> DEFINE t == TextOf(l)
             x == Line(d, long)
             kt == Cleaned(t)
             m == Append(l, d)
             n == Len(l)
  <2>1. t \in Texts /\ x \in Texts /\ TextOf(m) = t \o x
    BY MoreLines
  <2>2. PICK bodies \in Seq(Texts) :
          /\ string_split(kt, Newline) = Append(bodies, e)
          /\ Len(bodies) = n /\ \A i \in 1 .. n : DeviceOf(bodies[i]) = Said(l[i])
    BY <1>2 DEF ListRead
  <2>3. EndsClean(kt)
    BY <1>2
  <2>4. d.state # "kCsNoPerm"
    OBVIOUS
  <2>5. PICK body \in Texts : /\ Without(body, Newline) /\ Cleaned(x) = body \o nl
                              /\ DeviceOf(body) = Said(d)
    BY <2>4, LineRead DEF Reads
  <2>6. /\ m \in Seq(Devices) /\ Len(m) = n + 1 /\ m[n + 1] = d /\ n \in Nat
        /\ \A i \in 1 .. n : m[i] = l[i]
    BY Appended
  <2> HIDE DEF t, x, m, nl, e, n
  <2>7. Cleaned(t \o x) = kt \o (body \o nl) /\ kt \in Texts
    <3>1. CASE long
      <4>1. unique_spaces(t \o x) = unique_spaces(t) \o unique_spaces(x)
        BY <2>1, <2>3, <3>1, CleanedApart DEF Cleaned
      <4> QED BY <2>1, <2>5, <3>1, <4>1, UniqueSpaces DEF Cleaned
    <3>2. CASE ~ long
      BY <2>1, <2>5, <3>2 DEF Cleaned
    <3> QED BY <3>1, <3>2
  <2> HIDE DEF kt
  <2>8. kt \o (body \o nl) = (kt \o body) \o nl /\ kt \o body \in Texts
    BY <1>0, <2>5, <2>7, TextsConcat
  <2>9. string_split(kt \o body, Newline) = Append(bodies, body)
    <3>1. string_split(kt \o body, Newline)
            = Append(Front(string_split(kt, Newline)), Last(string_split(kt, Newline)) \o body)
      BY <2>5, <2>7, LastWord
    <3>2. Front(Append(bodies, e)) = bodies /\ Last(Append(bodies, e)) = e
      BY <1>0, FrontAppend
    <3>3. e \o body = body
      BY ConcatEmptySeq DEF Texts, e
    <3> QED BY <2>2, <3>1, <3>2, <3>3
  <2> DEFINE bs == Append(bodies, body)
  <2>10. /\ bs \in Seq(Texts) /\ Len(bs) = n + 1 /\ bs[n + 1] = body
         /\ \A i \in 1 .. n : bs[i] = bodies[i]
    <3>1. /\ bs \in Seq(Texts) /\ Len(bs) = Len(bodies) + 1 /\ bs[Len(bodies) + 1] = body
          /\ \A i \in 1 .. Len(bodies) : bs[i] = bodies[i]
      BY Appended
    <3> HIDE DEF bs
    <3> QED BY <2>2, <3>1
  <2> HIDE DEF bs
  <2>11. string_split((kt \o body) \o nl, Newline) = Append(bs, e)
    <3> DEFINE y == kt \o body
    <3>1. y \o nl = Append(y, Newline)
      BY <2>8, Delimiters, AppendIsConcat DEF Texts, nl
    <3>2. y \in Texts /\ string_split(y, Newline) = bs
      BY <2>8, <2>9 DEF bs
    <3> HIDE DEF y
    <3>3. string_split(Append(y, Newline), Newline) = Split(bs, Newline, Newline)
      BY <3>2, Delimiters, StringSplit
    <3> QED BY <3>1, <3>3 DEF Split, e, y
  <2>12. Cleaned(TextOf(m)) = (kt \o body) \o nl
    BY <2>1, <2>7, <2>8
  <2>13. EndsClean((kt \o body) \o nl)
    <3>1. nl # <<>> /\ Last(nl) = Newline
      BY DEF nl, Last
    <3>2. Last((kt \o body) \o nl) = Newline
      BY <1>0, <2>8, <3>1, LastOfConcat DEF Texts
    <3> QED BY <3>2, Delimiters DEF EndsClean, Space
  <2>14. \A i \in 1 .. Len(m) : DeviceOf(bs[i]) = Said(m[i])
    <3> TAKE i \in 1 .. Len(m)
    <3>1. CASE i = n + 1
      BY <2>5, <2>6, <2>10, <3>1
    <3>2. CASE i \in 1 .. n
      BY <2>2, <2>6, <2>10, <3>2
    <3> QED BY <2>6, <3>1, <3>2
  <2>15. ListRead(m)
    BY <2>6, <2>10, <2>11, <2>12, <2>14 DEF ListRead, e
  <2> QED BY <2>6, <2>12, <2>13, <2>15 DEF m
<1> HIDE DEF P
<1>3. Seq(Devices) \subseteq P
  BY <1>1, <1>2, AppendInduction
<1> QED BY <1>3 DEF P

(***************************************************************************)
(* Whatever devices are listed, in either format, and at whatever harmless *)
(* places the reply is cut: once it has arrived, get_device_info_from_buf  *)
(* reads from it the devices of the list, in its order.  The state "no     *)
(* permissions" is left out: it has two words, and the code reads the      *)
(* second word of a line.                                                  *)
(***************************************************************************)
THEOREM ParsedBackAlways ==
  ASSUME \A d \in Devices : d.state # "kCsNoPerm"
  PROVE  Spec => []ParsedBack
<1>1. IInv => ParsedBack
  <2> SUFFICES ASSUME IInv, ~torn, arrived = Len(Stream)
               PROVE  get_device_info_from_buf(<<>>, devices_list)
                        = [i \in DOMAIN listed |-> Said(listed[i])]
    BY DEF ParsedBack
  <2>1. PICK m \in 0 .. MaxDevices : listed \in [1 .. m -> Devices]
    BY DEF IInv, TypeOK, BoundedSeq, SeqOf
  <2>2. m \in Nat /\ DOMAIN listed = 1 .. m
    BY <2>1, ListAssumption
  <2>3. listed \in Seq(Devices) /\ Len(listed) = m
    BY <2>1, <2>2
  <2>4. Text \in Texts /\ long \in BOOLEAN
    BY TextType DEF IInv, TypeOK
  <2>5. devices_list = Cleaned(Text)
    <3>1. collected = Text
      BY <2>4, WholeCollected DEF IInv
    <3> QED BY <3>1 DEF IInv, CleanedOnce
  <2>6. Text = TextOf(listed)
    BY DEF Text, TextOf
  <2>7. PICK bodies \in Seq(Texts) :
          /\ string_split(Cleaned(TextOf(listed)), Newline) = Append(bodies, <<>>)
          /\ Len(bodies) = m /\ \A i \in 1 .. m : DeviceOf(bodies[i]) = Said(listed[i])
    BY <2>3, <2>4, ListIsRead DEF ListRead
  <2>8. Front(string_split(devices_list, "\n")) = bodies
    <3>1. <<>> \in Texts
      BY DEF Texts
    <3>2. string_split(devices_list, "\n") = Append(bodies, <<>>)
      BY <2>5, <2>6, <2>7 DEF Newline
    <3> QED BY <3>1, <3>2, FrontAppend
  <2>9. DOMAIN bodies = 1 .. m
    BY <2>7, LenProperties
  <2> DEFINE infos == [i \in 1 .. m |-> DeviceOf(bodies[i])]
  <2>10. get_device_info_from_buf(<<>>, devices_list) = <<>> \o infos
    BY <2>8, <2>9 DEF get_device_info_from_buf
  <2>11. <<>> \o infos = infos
    <3>1. infos \in Seq({DeviceOf(bodies[i]) : i \in 1 .. m})
      BY <2>2
    <3> HIDE DEF infos
    <3> QED BY <3>1, ConcatEmptySeq
  <2>12. infos = [i \in 1 .. m |-> Said(listed[i])]
    BY <2>7
  <2> QED BY <2>2, <2>10, <2>11, <2>12
<1> QED BY InitIInv, NextIInv, <1>1, PTL DEF Spec
=============================================================================
