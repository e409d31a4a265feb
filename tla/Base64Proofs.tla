----------------------------- MODULE Base64Proofs ------------------------------
(***************************************************************************)
(* Proofs about Base64: decoding undoes encoding, group by group and then, *)
(* by induction, for a text of any length.                                 *)
(***************************************************************************)
EXTENDS Base64, SequenceLemmas, FiniteSetTheorems

Byte    == 0 .. 255
Sixtets == 0 .. 63

LEMMA InInterval ==
  ASSUME NEW low \in Int, NEW high \in Int, NEW n
  PROVE  n \in low .. high <=> n \in Int /\ n >= low /\ n <= high
OBVIOUS

LEMMA Bounds ==
  ASSUME NEW n
  PROVE  /\ n \in Byte <=> n \in Int /\ n >= 0 /\ n <= 255
         /\ n \in Sixtets <=> n \in Int /\ n >= 0 /\ n <= 63
<1>1. 0 \in Int /\ 63 \in Int /\ 255 \in Int
  OBVIOUS
<1>2. \A high \in Int : n \in 0 .. high <=> n \in Int /\ n >= 0 /\ n <= high
  BY <1>1, InInterval
<1> QED
  BY <1>1, <1>2, Zenon DEF Byte, Sixtets

-----------------------------------------------------------------------------
(* The tables.                                                             *)

LEMMA LettersAreDistinct ==
  ASSUME NEW m \in 0 .. 63, NEW n \in 0 .. 63, Letter(m) = Letter(n)
  PROVE  m = n
BY DEF Letter

\* The tables of the decoder invert that of the encoder.
LEMMA SixtetOfLetter ==
  ASSUME NEW n \in 0 .. 63
  PROVE  Sixtet(Letter(n)) = n /\ Letter(n) # Padding
<1>1. Letter(n) # Padding
  BY DEF Letter, Padding
<1>2. \A m \in 0 .. 63 : Letter(m) = Letter(n) => m = n
  BY LettersAreDistinct
<1>3. (CHOOSE m \in 0 .. 63 : Letter(m) = Letter(n)) = n
  BY <1>2, Zenon
<1> QED
  BY <1>1, <1>3, Zenon DEF Sixtet

-----------------------------------------------------------------------------
(* Three bytes as four sixtets.                                            *)

First(b)      == b \div 4
Second(b, c)  == (b % 4) * 16 + c \div 16
Third(c, d)   == (c % 16) * 4 + d \div 64
Fourth(d)     == d % 64

LEMMA Parts ==
  ASSUME NEW b \in Int, b >= 0, b < 256
  PROVE  /\ b = (b \div 4) * 4 + (b % 4)
         /\ b \div 4 \in Int /\ b \div 4 >= 0 /\ b \div 4 < 64
         /\ b % 4 \in Int /\ b % 4 >= 0 /\ b % 4 < 4
         /\ b = (b \div 16) * 16 + (b % 16)
         /\ b \div 16 \in Int /\ b \div 16 >= 0 /\ b \div 16 < 16
         /\ b % 16 \in Int /\ b % 16 >= 0 /\ b % 16 < 16
         /\ b = (b \div 64) * 64 + (b % 64)
         /\ b \div 64 \in Int /\ b \div 64 >= 0 /\ b \div 64 < 4
         /\ b % 64 \in Int /\ b % 64 >= 0 /\ b % 64 < 64
<1>1. /\ b = (b \div 4) * 4 + (b % 4)
      /\ b \div 4 \in Int /\ b \div 4 >= 0 /\ b \div 4 < 64
      /\ b % 4 \in Int /\ b % 4 >= 0 /\ b % 4 < 4
  OBVIOUS
<1>2. /\ b = (b \div 16) * 16 + (b % 16)
      /\ b \div 16 \in Int /\ b \div 16 >= 0 /\ b \div 16 < 16
      /\ b % 16 \in Int /\ b % 16 >= 0 /\ b % 16 < 16
  OBVIOUS
<1>3. /\ b = (b \div 64) * 64 + (b % 64)
      /\ b \div 64 \in Int /\ b \div 64 >= 0 /\ b \div 64 < 4
      /\ b % 64 \in Int /\ b % 64 >= 0 /\ b % 64 < 64
  OBVIOUS
<1> QED
  BY <1>1, <1>2, <1>3, Zenon

LEMMA Halves ==
  ASSUME NEW hi \in Int, NEW lo \in Int, hi >= 0, lo >= 0
  PROVE  /\ lo < 16 => (hi * 16 + lo) \div 16 = hi /\ (hi * 16 + lo) % 16 = lo
         /\ lo < 4 => (hi * 4 + lo) \div 4 = hi /\ (hi * 4 + lo) % 4 = lo
OBVIOUS

LEMMA SixtetsOfBytes ==
  ASSUME NEW b \in Byte, NEW c \in Byte, NEW d \in Byte
  PROVE  /\ First(b) \in Sixtets /\ Second(b, c) \in Sixtets
         /\ Third(c, d) \in Sixtets /\ Fourth(d) \in Sixtets
         /\ First(b) * 4 + Second(b, c) \div 16 = b
         /\ (Second(b, c) % 16) * 16 + Third(c, d) \div 4 = c
         /\ (Third(c, d) % 4) * 64 + Fourth(d) = d
<1>1. /\ b \in Int /\ b >= 0 /\ b < 256
      /\ c \in Int /\ c >= 0 /\ c < 256
      /\ d \in Int /\ d >= 0 /\ d < 256
  BY Bounds
<1>2. /\ b = (b \div 4) * 4 + (b % 4)
      /\ b \div 4 \in Int /\ b \div 4 >= 0 /\ b \div 4 < 64
      /\ b % 4 \in Int /\ b % 4 >= 0 /\ b % 4 < 4
  BY <1>1, Parts
<1>3. /\ c = (c \div 16) * 16 + (c % 16)
      /\ c \div 16 \in Int /\ c \div 16 >= 0 /\ c \div 16 < 16
      /\ c % 16 \in Int /\ c % 16 >= 0 /\ c % 16 < 16
  BY <1>1, Parts
<1>4. /\ d = (d \div 64) * 64 + (d % 64)
      /\ d \div 64 \in Int /\ d \div 64 >= 0 /\ d \div 64 < 4
      /\ d % 64 \in Int /\ d % 64 >= 0 /\ d % 64 < 64
  BY <1>1, Parts
<1>5. Second(b, c) \div 16 = b % 4 /\ Second(b, c) % 16 = c \div 16
  BY <1>2, <1>3, Halves DEF Second
<1>6. Third(c, d) \div 4 = c % 16 /\ Third(c, d) % 4 = d \div 64
  BY <1>3, <1>4, Halves DEF Third
<1>7. /\ First(b) \in Sixtets /\ Second(b, c) \in Sixtets
      /\ Third(c, d) \in Sixtets /\ Fourth(d) \in Sixtets
  <2>1. /\ First(b) \in Int /\ First(b) >= 0 /\ First(b) <= 63
        /\ Fourth(d) \in Int /\ Fourth(d) >= 0 /\ Fourth(d) <= 63
    BY <1>2, <1>4 DEF First, Fourth
  <2>2. Second(b, c) \in Int /\ Second(b, c) >= 0 /\ Second(b, c) <= 63
    <3> DEFINE x == b % 4
               y == c \div 16
    <3> HIDE DEF x, y
    <3> QED
      BY <1>2, <1>3 DEF Second
  <2>3. Third(c, d) \in Int /\ Third(c, d) >= 0 /\ Third(c, d) <= 63
    BY <1>3, <1>4 DEF Third
  <2> QED
    BY <2>1, <2>2, <2>3, Bounds
<1>8. First(b) * 4 + Second(b, c) \div 16 = b
  BY <1>2, <1>5 DEF First
<1>9. (Second(b, c) % 16) * 16 + Third(c, d) \div 4 = c
  BY <1>3, <1>5, <1>6
<1>10. (Third(c, d) % 4) * 64 + Fourth(d) = d
  BY <1>4, <1>6 DEF Fourth
<1> QED
  BY <1>7, <1>8, <1>9, <1>10, Zenon

-----------------------------------------------------------------------------
(* Groups.                                                                 *)

ByteAt(t, i) == IF i <= Len(t) THEN t[i] ELSE 0

SixtetsOf(t) ==
  <<First(ByteAt(t, 1)), Second(ByteAt(t, 1), ByteAt(t, 2)),
    Third(ByteAt(t, 2), ByteAt(t, 3)), Fourth(ByteAt(t, 3))>>

LEMMA EncodedLetters ==
  ASSUME NEW t \in Seq(Byte), Len(t) \in 1 .. 3
  PROVE  /\ EncodeGroup(t) = [i \in 1 .. 4 |-> IF i <= Len(t) + 1 THEN Letter(SixtetsOf(t)[i])
                                                                  ELSE Padding]
         /\ \A i \in 1 .. 4 : SixtetsOf(t)[i] \in Sixtets
         /\ \A i \in 1 .. 3 : ByteAt(t, i) \in Byte
<1>1. \A i \in 1 .. 3 : ByteAt(t, i) \in Byte
  <2>1. 0 \in Byte
    BY Bounds
  <2> QED
    BY <2>1 DEF ByteAt
<1>2. EncodeGroup(t) = [i \in 1 .. 4 |-> IF i <= Len(t) + 1 THEN Letter(SixtetsOf(t)[i])
                                                            ELSE Padding]
  BY Zenon DEF EncodeGroup, SixtetsOf, First, Second, Third, Fourth, ByteAt
<1>3. /\ First(ByteAt(t, 1)) \in Sixtets /\ Second(ByteAt(t, 1), ByteAt(t, 2)) \in Sixtets
      /\ Third(ByteAt(t, 2), ByteAt(t, 3)) \in Sixtets /\ Fourth(ByteAt(t, 3)) \in Sixtets
  BY <1>1, SixtetsOfBytes
<1>4. \A i \in 1 .. 4 : SixtetsOf(t)[i] \in Sixtets
  BY <1>3 DEF SixtetsOf
<1> QED
  BY <1>1, <1>2, <1>4

\* base64.h: of one, two or three bytes, whatever they are, decoding returns
\* exactly these; the zeros and padding signs that fill the last group are
\* taken off again.
THEOREM GroupComesBack ==
  ASSUME NEW t \in Seq(Byte), Len(t) \in 1 .. 3
  PROVE  DecodeGroup(EncodeGroup(t)) = t
<1> DEFINE n == Len(t)
           e == EncodeGroup(t)
           s == SixtetsOf(t)
           v(i) == IF e[i] = Padding THEN 0 ELSE Sixtet(e[i])
           bytes == <<v(1) * 4 + v(2) \div 16, (v(2) % 16) * 16 + v(3) \div 4,
                      (v(3) % 4) * 64 + v(4)>>
<1>1. n \in Nat /\ (n = 1 \/ n = 2 \/ n = 3)
  OBVIOUS
<1>2. /\ \A i \in 1 .. 4 : e[i] = IF i <= n + 1 THEN Letter(s[i]) ELSE Padding
      /\ \A i \in 1 .. 4 : s[i] \in Sixtets
  BY EncodedLetters
<1>3. \A i \in 1 .. 4 : IF i <= n + 1 THEN e[i] # Padding /\ v(i) = s[i] ELSE e[i] = Padding
  <2>1. \A i \in 1 .. 4 : s[i] \in 0 .. 63
    BY <1>2, Zenon DEF Sixtets
  <2> HIDE DEF s, e
  <2> QED
    BY <1>2, <2>1, SixtetOfLetter
<1>4. /\ s[1] * 4 + s[2] \div 16 = ByteAt(t, 1)
      /\ (s[2] % 16) * 16 + s[3] \div 4 = ByteAt(t, 2)
      /\ (s[3] % 4) * 64 + s[4] = ByteAt(t, 3)
  <2> DEFINE b == ByteAt(t, 1)
             c == ByteAt(t, 2)
             d == ByteAt(t, 3)
  <2>1. b \in Byte /\ c \in Byte /\ d \in Byte
    BY EncodedLetters
  <2>2. s[1] = First(b) /\ s[2] = Second(b, c) /\ s[3] = Third(c, d) /\ s[4] = Fourth(d)
    BY DEF SixtetsOf
  <2> HIDE DEF s, b, c, d
  <2>3. First(b) * 4 + Second(b, c) \div 16 = b
    BY <2>1, SixtetsOfBytes
  <2>4. (Second(b, c) % 16) * 16 + Third(c, d) \div 4 = c
    BY <2>1, SixtetsOfBytes
  <2>5. (Third(c, d) % 4) * 64 + Fourth(d) = d
    BY <2>1, SixtetsOfBytes
  <2> QED
    BY <2>2, <2>3, <2>4, <2>5 DEF b, c, d
<1>5. \A i \in 1 .. 3 : i <= n => bytes[i] = t[i]
  <2> HIDE DEF v, e, s, n
  <2>1. v(1) = s[1] /\ v(2) = s[2]
    BY <1>1, <1>3
  <2>2. n >= 2 => v(3) = s[3]
    BY <1>1, <1>3
  <2>3. n >= 3 => v(4) = s[4]
    BY <1>1, <1>3
  <2>4. ByteAt(t, 1) = t[1] /\ (n >= 2 => ByteAt(t, 2) = t[2]) /\ (n >= 3 => ByteAt(t, 3) = t[3])
    BY <1>1 DEF ByteAt, n
  <2>5. bytes[1] = t[1]
    BY <1>4, <2>1, <2>4
  <2>6. n >= 2 => bytes[2] = t[2]
    BY <1>4, <2>1, <2>2, <2>4
  <2>7. n >= 3 => bytes[3] = t[3]
    BY <1>4, <2>2, <2>3, <2>4, <1>1
  <2> HIDE DEF bytes
  <2> QED
    BY <1>1, <2>5, <2>6, <2>7
<1>6. Cardinality({i \in 1 .. 4 : e[i] = Padding}) = 3 - n
  <2>1. {i \in 1 .. 4 : e[i] = Padding} = (n + 2) .. 4
    <3> HIDE DEF v, e, s, n
    <3> QED
      BY <1>1, <1>3
  <2>2. n + 2 \in Int /\ 4 \in Int
    BY <1>1
  <2> HIDE DEF n, e
  <2>3. Cardinality((n + 2) .. 4) = IF n + 2 > 4 THEN 0 ELSE 4 - (n + 2) + 1
    BY <2>2, FS_Interval, Zenon
  <2>4. (IF n + 2 > 4 THEN 0 ELSE 4 - (n + 2) + 1) = 3 - n
    BY <1>1
  <2> QED
    BY <2>1, <2>3, <2>4, Zenon
<1>7. DecodeGroup(e) = SubSeq(bytes, 1, 3 - (3 - n))
  <2> DEFINE pads == Cardinality({i \in 1 .. 4 : e[i] = Padding})
  <2>1. DecodeGroup(e) = SubSeq(bytes, 1, 3 - pads)
    <3> HIDE DEF e
    <3> QED
      BY Zenon DEF DecodeGroup
  <2>2. pads = 3 - n
    BY <1>6
  <2> HIDE DEF pads, bytes, n, e
  <2> QED
    BY <2>1, <2>2, Zenon
<1>8. 3 - (3 - n) = n
  BY <1>1
<1>9. SubSeq(bytes, 1, n) = [i \in 1 .. n |-> bytes[i]]
  <2> HIDE DEF bytes
  <2> QED
    BY <1>1
<1>10. t = [i \in 1 .. n |-> t[i]]
  OBVIOUS
<1> HIDE DEF bytes, n
<1>11. [i \in 1 .. n |-> bytes[i]] = [i \in 1 .. n |-> t[i]]
  BY <1>1, <1>5
<1> QED
  BY <1>7, <1>8, <1>9, <1>10, <1>11

-----------------------------------------------------------------------------
(* A whole text, group by group.                                           *)

Four(S) == {x \in Seq(S) : Len(x) = 4}

InFours(S, E, L) ==
  /\ L \in Seq(S) /\ Len(L) = 4 * Len(E)
  /\ \A g \in 1 .. Len(E), j \in 1 .. 4 : L[4 * (g - 1) + j] = E[g][j]

LEMMA FoursInFours ==
  ASSUME NEW S, NEW E \in Seq(Four(S))
  PROVE  InFours(S, E, FlattenSeq(E))
<1>a. PICK A : A = Four(S)
  OBVIOUS
<1>b. PICK T : T = {s \in Seq(A) : InFours(S, s, FlattenSeq(s))}
  OBVIOUS
<1>1. <<>> \in T
  <2>1. <<>> \in Seq(A) /\ <<>> \in Seq(S) /\ Len(<<>>) = 0 /\ 4 * 0 = 0
    BY EmptySeq
  <2>2. \A g \in 1 .. 0 : FALSE
    OBVIOUS
  <2>3. InFours(S, <<>>, <<>>)
    BY <2>1, <2>2 DEF InFours
  <2> QED
    BY <1>b, <2>1, <2>3, FlattenEmpty
<1>2. ASSUME NEW s \in T, NEW a \in A
      PROVE  Append(s, a) \in T
  <2>a. PICK n, t, L, M : n = Len(s) /\ t = Append(s, a) /\ L = FlattenSeq(s) /\ M = FlattenSeq(t)
    OBVIOUS
  <2>1. s \in Seq(A) /\ n \in Nat /\ L \in Seq(S) /\ Len(L) = 4 * n
        /\ \A g \in 1 .. n, j \in 1 .. 4 : L[4 * (g - 1) + j] = s[g][j]
    BY <1>b, <2>a DEF InFours
  <2>2. /\ t \in Seq(A) /\ Len(t) = n + 1 /\ t[n + 1] = a
        /\ \A g \in 1 .. n : t[g] = s[g]
    BY <2>1, <2>a, AppendProperties
  <2>3. a \in Seq(S) /\ Len(a) = 4
    BY <1>a DEF Four
  <2>4. M = L \o a
    <3>1. s \in Seq(Seq(S))
      <4>1. A \subseteq Seq(S)
        BY <1>a DEF Four
      <4> QED
        BY <2>1, <4>1
    <3> QED
      BY <2>3, <2>a, <3>1, FlattenAppend
  <2>5. IsConcat(S, L, a, M)
    BY <2>1, <2>3, <2>4, IsConcatFacts, Zenon
  <2>6. /\ M \in Seq(S) /\ Len(M) = 4 * (n + 1)
        /\ \A i \in 1 .. 4 * n + 4 : M[i] = IF i <= 4 * n THEN L[i] ELSE a[i - 4 * n]
    BY <2>1, <2>3, <2>5 DEF IsConcat
  <2>7. ASSUME NEW g \in 1 .. n + 1, NEW j \in 1 .. 4
        PROVE  M[4 * (g - 1) + j] = t[g][j]
    <3>a. PICK i : i = 4 * (g - 1) + j
      OBVIOUS
    <3>1. CASE g = n + 1
      <4>1. i \in 1 .. 4 * n + 4 /\ ~(i <= 4 * n) /\ i - 4 * n = j
        BY <2>1, <3>1, <3>a
      <4> QED
        BY <2>2, <2>6, <3>1, <3>a, <4>1
    <3>2. CASE g # n + 1
      <4>1. g \in 1 .. n
        BY <2>1, <3>2
      <4>2. i \in 1 .. 4 * n + 4 /\ i <= 4 * n
        BY <2>1, <3>a, <4>1
      <4>3. M[i] = L[i]
        BY <2>6, <4>2
      <4>4. L[i] = s[g][j]
        BY <2>1, <3>a, <4>1
      <4> QED
        BY <2>2, <3>a, <4>1, <4>3, <4>4
    <3> QED
      BY <3>1, <3>2
  <2>8. InFours(S, t, M)
    BY <2>2, <2>6, <2>7 DEF InFours
  <2> QED
    BY <1>b, <2>2, <2>8, <2>a
<1>3. T = Seq(A)
  BY <1>1, <1>2, <1>b, SeqSet
<1> QED
  BY <1>3, <1>a, <1>b

LEMMA FoursAreGroups ==
  ASSUME NEW S, NEW E \in Seq(Four(S)), NEW L, InFours(S, E, L)
  PROVE  Groups(L, 4) = E
<1>a. PICK n, A : n = Len(E) /\ A = Four(S)
  OBVIOUS
<1>1. /\ n \in Nat /\ L \in Seq(S) /\ Len(L) = 4 * n
      /\ \A g \in 1 .. n, j \in 1 .. 4 : L[4 * (g - 1) + j] = E[g][j]
  BY <1>a DEF InFours
<1>2. (4 * n + 4 - 1) \div 4 = n
  BY <1>1
<1>3. Groups(L, 4) =
        [g \in 1 .. n |-> SubSeq(L, 4 * (g - 1) + 1, IF 4 * g < 4 * n THEN 4 * g ELSE 4 * n)]
  BY <1>1, <1>2, Zenon DEF Groups
<1>4. ASSUME NEW g \in 1 .. n
      PROVE  SubSeq(L, 4 * (g - 1) + 1, IF 4 * g < 4 * n THEN 4 * g ELSE 4 * n) = E[g]
  <2>a. PICK e, m, x : e = E[g] /\ m = 4 * (g - 1) + 1 /\ x = SubSeq(L, m, 4 * g)
    OBVIOUS
  <2>1. (IF 4 * g < 4 * n THEN 4 * g ELSE 4 * n) = 4 * g
    BY <1>1
  <2>2. e \in Seq(S) /\ Len(e) = 4
    <3>1. E \in Seq(A) /\ g \in 1 .. Len(E)
      BY <1>a
    <3>2. e \in A
      BY <2>a, <3>1, ElementOfSeq
    <3> QED
      BY <1>a, <3>2 DEF Four
  <2>3. \A i \in m .. 4 * g : i \in 1 .. Len(L)
    BY <1>1, <2>a
  <2>4. /\ m \in Int /\ 4 * g \in Int /\ m <= 4 * g /\ 4 * g - m + 1 = 4
        /\ \A j \in 1 .. 4 : m + j - 1 = 4 * (g - 1) + j
    BY <1>1, <2>a
  <2>5. x \in Seq(S) /\ Len(x) = 4 /\ \A j \in 1 .. 4 : x[j] = L[m + j - 1]
    <3>1. \A i \in m .. 4 * g : L[i] \in S
      BY <1>1, <2>3, ElementOfSeq
    <3> QED
      BY <2>4, <2>a, <3>1, SubSeqProperties
  <2>6. \A j \in 1 .. 4 : x[j] = e[j]
    BY <1>1, <2>4, <2>5, <2>a
  <2>7. x = e
    BY <2>2, <2>5, <2>6, SeqEqual
  <2> QED
    BY <2>1, <2>7, <2>a
<1>5. E = [g \in 1 .. n |-> E[g]]
  BY <1>a
<1>6. Groups(L, 4) = [g \in 1 .. n |-> E[g]]
  BY <1>3, <1>4
<1> QED
  BY <1>5, <1>6

-----------------------------------------------------------------------------
(* The groups of the data.                                                 *)

Count(d) == (Len(d) + 2) \div 3
Upto(d, k) == IF 3 * k < Len(d) THEN 3 * k ELSE Len(d)

LEMMA CountFacts ==
  ASSUME NEW d \in Seq(Byte)
  PROVE  /\ Len(d) \in Nat /\ Count(d) \in Nat
         /\ 3 * Count(d) >= Len(d) /\ 3 * Count(d) <= Len(d) + 2
BY DEF Count

LEMMA GroupsFacts ==
  ASSUME NEW d \in Seq(Byte)
  PROVE  /\ Groups(d, 3) = [g \in 1 .. Count(d) |-> SubSeq(d, 3 * (g - 1) + 1, Upto(d, g))]
         /\ Groups(d, 3) \in Seq(Seq(Byte)) /\ Len(Groups(d, 3)) = Count(d)
         /\ \A g \in 1 .. Count(d) :
              /\ Groups(d, 3)[g] \in Seq(Byte)
              /\ Len(Groups(d, 3)[g]) = IF g < Count(d) THEN 3 ELSE Len(d) - 3 * (Count(d) - 1)
              /\ Len(Groups(d, 3)[g]) \in 1 .. 3
<1>a. PICK n, G : n = Count(d) /\ G = Groups(d, 3)
  OBVIOUS
<1>0. Len(d) \in Nat /\ n \in Nat /\ 3 * n >= Len(d) /\ 3 * n <= Len(d) + 2
  BY <1>a, CountFacts
<1>1. G = [g \in 1 .. n |-> SubSeq(d, 3 * (g - 1) + 1, Upto(d, g))]
  <2>1. Len(d) + 3 - 1 = Len(d) + 2
    BY <1>0
  <2> QED
    BY <1>a, <2>1, Zenon DEF Groups, Count, Upto
<1>2. ASSUME NEW g \in 1 .. n
      PROVE  /\ G[g] \in Seq(Byte)
             /\ Len(G[g]) = IF g < n THEN 3 ELSE Len(d) - 3 * (n - 1)
             /\ Len(G[g]) \in 1 .. 3
  <2>a. PICK m, u : m = 3 * (g - 1) + 1 /\ u = Upto(d, g)
    OBVIOUS
  <2>1. m \in Int /\ u \in Int /\ m <= u
    BY <1>0, <2>a DEF Upto
  <2>2. \A i \in m .. u : i \in 1 .. Len(d)
    BY <1>0, <2>a DEF Upto
  <2>3. \A i \in m .. u : d[i] \in Byte
    BY <2>2, ElementOfSeq
  <2>4. SubSeq(d, m, u) \in Seq(Byte) /\ Len(SubSeq(d, m, u)) = u - m + 1
    BY <2>1, <2>3, SubSeqProperties
  <2>5. u - m + 1 = IF g < n THEN 3 ELSE Len(d) - 3 * (n - 1)
    <3>1. CASE g < n
      <4>1. 3 * g < Len(d)
        BY <1>0, <3>1
      <4> QED
        BY <1>0, <2>a, <3>1, <4>1 DEF Upto
    <3>2. CASE ~(g < n)
      <4>1. g = n /\ ~(3 * g < Len(d))
        BY <1>0, <3>2
      <4>2. u = Len(d)
        BY <2>a, <4>1 DEF Upto
      <4> QED
        BY <1>0, <2>a, <4>1, <4>2
    <3> QED
      BY <3>1, <3>2
  <2>6. u - m + 1 \in 1 .. 3
    BY <1>0, <2>5
  <2>7. G[g] = SubSeq(d, m, u)
    BY <1>1, <2>a
  <2> QED
    BY <2>4, <2>5, <2>6, <2>7
<1>3. G \in Seq(Seq(Byte)) /\ Len(G) = n
  <2>1. G \in [1 .. n -> Seq(Byte)]
    BY <1>1, <1>2
  <2> QED
    BY <1>0, <2>1, FunctionIsSeq, Zenon
<1> QED
  BY <1>1, <1>2, <1>3, <1>a

LEMMA GroupsFlatten ==
  ASSUME NEW d \in Seq(Byte)
  PROVE  FlattenSeq(Groups(d, 3)) = d
<1>a. PICK n, G : n = Count(d) /\ G = Groups(d, 3)
  OBVIOUS
<1>0. Len(d) \in Nat /\ n \in Nat /\ 3 * n >= Len(d) /\ 3 * n <= Len(d) + 2
  BY <1>a, CountFacts
<1>1. /\ G \in Seq(Seq(Byte)) /\ Len(G) = n
      /\ \A g \in 1 .. n : G[g] = SubSeq(d, 3 * (g - 1) + 1, Upto(d, g)) /\ G[g] \in Seq(Byte)
  BY <1>a, GroupsFacts
<1>b. PICK T : T = {k \in Nat : k <= n => FlattenSeq(SubSeq(G, 1, k)) = SubSeq(d, 1, Upto(d, k))}
  OBVIOUS
<1>2. 0 \in T
  <2>1. Upto(d, 0) = 0
    BY <1>0 DEF Upto
  <2>2. SubSeq(G, 1, 0) = <<>> /\ SubSeq(d, 1, 0) = <<>>
    BY SubSeqEmpty
  <2> QED
    BY <1>b, <2>1, <2>2, FlattenEmpty
<1>3. ASSUME NEW k \in T
      PROVE  k + 1 \in T
  <2> SUFFICES ASSUME k + 1 <= n
               PROVE  FlattenSeq(SubSeq(G, 1, k + 1)) = SubSeq(d, 1, Upto(d, k + 1))
    BY <1>b
  <2>a. PICK A, p, e, x : A = Seq(Byte) /\ p = SubSeq(G, 1, k) /\ e = G[k + 1]
                          /\ x = SubSeq(G, 1, k + 1)
    OBVIOUS
  <2>1. k \in Nat /\ k < n /\ k + 1 \in 1 .. n /\ FlattenSeq(p) = SubSeq(d, 1, Upto(d, k))
    BY <1>0, <1>b, <2>a
  <2>2. e \in A /\ p \in Seq(A)
    <3>1. e \in A
      BY <1>1, <2>1, <2>a
    <3>2. \A i \in 1 .. k : i \in 1 .. Len(G)
      BY <1>1, <2>1
    <3>3. \A i \in 1 .. k : G[i] \in A
      BY <1>1, <2>a, <3>2, ElementOfSeq
    <3> QED
      BY <2>1, <2>a, <3>1, <3>3, SubSeqProperties
  <2>3. x = Append(p, e)
    <3>1. G \in Seq(A) /\ 1 \in 1 .. Len(G) /\ k + 1 \in 1 .. Len(G) /\ (k + 1) - 1 = k
      BY <1>1, <2>1, <2>a
    <3>2. x = SubSeq(G, 1, (k + 1) - 1) \o <<G[k + 1]>>
      BY <3>1, <2>a, SubSeqRecursiveSecond
    <3>3. Append(p, e) = p \o <<e>>
      BY <2>2, AppendIsConcat
    <3> QED
      BY <2>a, <3>1, <3>2, <3>3
  <2>4. FlattenSeq(x) = FlattenSeq(p) \o e
    BY <2>2, <2>3, <2>a, FlattenAppend
  <2>5. e = SubSeq(d, Upto(d, k) + 1, Upto(d, k + 1))
    <3>1. Upto(d, k) = 3 * k /\ 3 * ((k + 1) - 1) + 1 = 3 * k + 1
      BY <1>0, <2>1 DEF Upto
    <3> QED
      BY <1>1, <2>1, <2>a, <3>1
  <2>6. SubSeq(d, 1, Upto(d, k)) \o SubSeq(d, Upto(d, k) + 1, Upto(d, k + 1))
          = SubSeq(d, 1, Upto(d, k + 1))
    <3>a. PICK u, v, m : u = Upto(d, k) /\ v = Upto(d, k + 1) /\ m = 1
      OBVIOUS
    <3>1. u \in 0 .. Len(d) /\ v \in u .. Len(d)
      BY <1>0, <2>1, <3>a DEF Upto
    <3>2. m \in 1 .. Len(d) + 1 /\ u \in m - 1 .. Len(d)
      BY <1>0, <3>1, <3>a
    <3>3. SubSeq(d, m, u) \o SubSeq(d, u + 1, v) = SubSeq(d, m, v)
      BY <3>1, <3>2, ConcatAdjacentSubSeq
    <3> QED
      BY <3>3, <3>a
  <2> QED
    BY <2>1, <2>4, <2>5, <2>6, <2>a
<1>4. T = Nat
  BY <1>2, <1>3, <1>b, NatSet
<1>5. n \in T /\ n <= n
  BY <1>0, <1>4
<1>6. SubSeq(G, 1, n) = G /\ SubSeq(d, 1, Len(d)) = d
  BY <1>1, SubSeqFull
<1>7. Upto(d, n) = Len(d)
  BY <1>0 DEF Upto
<1> QED
  BY <1>5, <1>6, <1>7, <1>a, <1>b

-----------------------------------------------------------------------------
(* Decoding undoes encoding.                                               *)

LEMMA LettersAreInts == Letters \subseteq 43 .. 122 /\ Padding \in Int /\ Padding \notin Letters
<1>1. \A n \in 0 .. 63 : Letter(n) \in 43 .. 122 /\ Letter(n) # Padding
  BY DEF Letter, Padding
<1> QED
  BY <1>1 DEF Letters, Padding

Encoded(d) == [g \in DOMAIN Groups(d, 3) |-> EncodeGroup(Groups(d, 3)[g])]

LEMMA EncodedFacts ==
  ASSUME NEW d \in Seq(Byte)
  PROVE  /\ Encoded(d) \in Seq(Four(Int)) /\ Len(Encoded(d)) = Count(d)
         /\ \A g \in 1 .. Count(d) :
              /\ Encoded(d)[g] = EncodeGroup(Groups(d, 3)[g])
              /\ \A i \in 1 .. 4 : IF i <= Len(Groups(d, 3)[g]) + 1
                                   THEN Encoded(d)[g][i] \in Letters
                                   ELSE Encoded(d)[g][i] = Padding
<1>a. PICK n, G, E : n = Count(d) /\ G = Groups(d, 3) /\ E = Encoded(d)
  OBVIOUS
<1>1. /\ n \in Nat /\ G \in Seq(Seq(Byte)) /\ Len(G) = n
      /\ \A g \in 1 .. n : G[g] \in Seq(Byte) /\ Len(G[g]) \in 1 .. 3
  BY <1>a, CountFacts, GroupsFacts
<1>2. E = [g \in 1 .. n |-> EncodeGroup(G[g])]
  <2>1. DOMAIN G = 1 .. n
    BY <1>1
  <2> QED
    BY <2>1, <1>a DEF Encoded
<1>3. ASSUME NEW g \in 1 .. n
      PROVE  /\ E[g] \in Four(Int)
             /\ \A i \in 1 .. 4 : IF i <= Len(G[g]) + 1 THEN E[g][i] \in Letters
                                  ELSE E[g][i] = Padding
  <2>a. PICK t, e, m : t = G[g] /\ e = E[g] /\ m = Len(t) + 1
    OBVIOUS
  <2>1. t \in Seq(Byte) /\ Len(t) \in 1 .. 3 /\ e = EncodeGroup(t)
    BY <1>1, <1>2, <2>a
  <2>2. /\ e = [i \in 1 .. 4 |-> IF i <= m THEN Letter(SixtetsOf(t)[i]) ELSE Padding]
        /\ \A i \in 1 .. 4 : SixtetsOf(t)[i] \in Sixtets
    BY <2>1, <2>a, EncodedLetters
  <2>3. \A i \in 1 .. 4 : IF i <= m THEN e[i] \in Letters ELSE e[i] = Padding
    <3>1. \A s \in Sixtets : Letter(s) \in Letters
      BY Zenon DEF Letters, Sixtets
    <3>2. ASSUME NEW i \in 1 .. 4
          PROVE  IF i <= m THEN e[i] \in Letters ELSE e[i] = Padding
      <4>a. PICK s : s = SixtetsOf(t)[i]
        OBVIOUS
      <4>1. Letter(s) \in Letters
        BY <2>2, <3>1, <4>a
      <4>2. e[i] = IF i <= m THEN Letter(s) ELSE Padding
        BY <2>2, <4>a
      <4> QED
        BY <4>1, <4>2
    <3> QED
      BY <3>2
  <2>4. \A i \in 1 .. 4 : e[i] \in Int
    <3>1. \A c \in Letters : c \in Int
      BY LettersAreInts
    <3>2. ASSUME NEW i \in 1 .. 4
          PROVE  e[i] \in Int
      <4>1. e[i] \in Letters \/ e[i] = Padding
        BY <2>3
      <4> QED
        BY <3>1, <4>1, LettersAreInts
    <3> QED
      BY <3>2
  <2>5. e \in [1 .. 4 -> Int]
    BY <2>2, <2>4
  <2>6. e \in Seq(Int) /\ Len(e) = 4
    BY <2>5, FunctionIsSeq
  <2> QED
    BY <2>3, <2>6, <2>a DEF Four
<1>4. E \in Seq(Four(Int)) /\ Len(E) = n
  <2>1. E \in [1 .. n -> Four(Int)]
    BY <1>2, <1>3
  <2> QED
    BY <1>1, <2>1, FunctionIsSeq, Zenon
<1> QED
  BY <1>2, <1>3, <1>4, <1>a

LEMMA ToBase64Facts ==
  ASSUME NEW d \in Seq(Byte)
  PROVE  InFours(Int, Encoded(d), ToBase64(d)) /\ Groups(ToBase64(d), 4) = Encoded(d)
<1>1. ToBase64(d) = FlattenSeq(Encoded(d))
  BY Zenon DEF ToBase64, Encoded
<1>2. InFours(Int, Encoded(d), FlattenSeq(Encoded(d)))
  BY EncodedFacts, FoursInFours, Zenon
<1> QED
  BY <1>1, <1>2, EncodedFacts, FoursAreGroups

\* to_base64 and from_base64: what is encoded is decoded to the same bytes,
\* however many there are.
THEOREM FromToBase64 ==
  ASSUME NEW d \in Seq(Byte)
  PROVE  FromBase64(ToBase64(d)) = d
<1>a. PICK n, G, E, L : n = Count(d) /\ G = Groups(d, 3) /\ E = Encoded(d) /\ L = ToBase64(d)
  OBVIOUS
<1>1. /\ n \in Nat /\ G \in Seq(Seq(Byte)) /\ Len(G) = n
      /\ \A g \in 1 .. n : G[g] \in Seq(Byte) /\ Len(G[g]) \in 1 .. 3
  BY <1>a, CountFacts, GroupsFacts
<1>2. E \in Seq(Four(Int)) /\ Len(E) = n /\ \A g \in 1 .. n : E[g] = EncodeGroup(G[g])
  BY <1>a, EncodedFacts
<1>3. Groups(L, 4) = E
  BY <1>a, ToBase64Facts
<1>4. FromBase64(L) = FlattenSeq([g \in DOMAIN E |-> DecodeGroup(E[g])])
  BY <1>3, Zenon DEF FromBase64
<1>5. DOMAIN E = 1 .. n
  BY <1>2
<1>6. \A g \in 1 .. n : DecodeGroup(E[g]) = G[g]
  BY <1>1, <1>2, GroupComesBack
<1>7. [g \in 1 .. n |-> DecodeGroup(E[g])] = [g \in 1 .. n |-> G[g]]
  BY <1>6
<1>8. G = [g \in 1 .. n |-> G[g]]
  BY <1>1
<1>9. FlattenSeq(G) = d
  BY <1>a, GroupsFlatten
<1> QED
  BY <1>4, <1>5, <1>7, <1>8, <1>9, <1>a, Zenon

\* Padding is only in the last group, and there are at most two.
LEMMA EncodedIsValid ==
  ASSUME NEW d \in Seq(Byte)
  PROVE  ~InvalidBase64(ToBase64(d))
<1>a. PICK n, G, E, L : n = Count(d) /\ G = Groups(d, 3) /\ E = Encoded(d) /\ L = ToBase64(d)
  OBVIOUS
<1>1. /\ n \in Nat
      /\ \A g \in 1 .. n : Len(G[g]) \in 1 .. 3 /\ (g < n => Len(G[g]) = 3)
  BY <1>a, CountFacts, GroupsFacts
<1>2. /\ \A g \in 1 .. n : \A i \in 1 .. 4 :
           IF i <= Len(G[g]) + 1 THEN E[g][i] \in Letters ELSE E[g][i] = Padding
      /\ Len(E) = n
  BY <1>a, EncodedFacts
<1>3. /\ L \in Seq(Int) /\ Len(L) = 4 * n
      /\ \A g \in 1 .. n, j \in 1 .. 4 : L[4 * (g - 1) + j] = E[g][j]
  BY <1>2, <1>a, ToBase64Facts DEF InFours
<1>4. CASE n = 0
  <2>1. L = <<>>
    BY <1>3, <1>4, EmptySeq
  <2> QED
    BY <2>1, <1>a DEF InvalidBase64
<1>5. CASE n # 0
  <2>a. PICK k : k = Len(G[n])
    OBVIOUS
  <2>1. k \in 1 .. 3 /\ n \in 1 .. n
    BY <1>1, <1>5, <2>a
  <2>2. (4 * n) % 4 = 0
    BY <1>1
  <2>3. {i \in 4 * n - 3 .. 4 * n : L[i] = Padding} = 4 * n - 2 + k .. 4 * n
    <3>1. ASSUME NEW i \in 4 * n - 3 .. 4 * n
          PROVE  L[i] = Padding <=> i >= 4 * n - 2 + k
      <4>a. PICK j : j = i - 4 * (n - 1)
        OBVIOUS
      <4>1. j \in 1 .. 4 /\ 4 * (n - 1) + j = i
        BY <1>1, <4>a
      <4>2. L[i] = E[n][j]
        BY <1>3, <2>1, <4>1
      <4>3. IF j <= k + 1 THEN E[n][j] \in Letters ELSE E[n][j] = Padding
        BY <1>2, <2>1, <2>a, <4>1
      <4>4. L[i] = Padding <=> ~(j <= k + 1)
        BY <4>2, <4>3, LettersAreInts
      <4>5. ~(j <= k + 1) <=> i >= 4 * n - 2 + k
        BY <1>1, <2>1, <4>a
      <4> QED
        BY <4>4, <4>5
    <3>2. \A i \in 4 * n - 2 + k .. 4 * n : i \in 4 * n - 3 .. 4 * n
      BY <1>1, <2>1
    <3>3. \A i \in 4 * n - 3 .. 4 * n : i \in 4 * n - 2 + k .. 4 * n <=> i >= 4 * n - 2 + k
      BY <1>1, <2>1
    <3> QED
      BY <3>1, <3>2, <3>3
  <2>4. Cardinality(4 * n - 2 + k .. 4 * n) = 3 - k
    <3>a. PICK low, high : low = 4 * n - 2 + k /\ high = 4 * n
      OBVIOUS
    <3>1. low \in Int /\ high \in Int
      BY <1>1, <2>1, <3>a
    <3>2. Cardinality(low .. high) = IF low > high THEN 0 ELSE high - low + 1
      BY <3>1, FS_Interval, Zenon
    <3>3. (IF low > high THEN 0 ELSE high - low + 1) = 3 - k
      BY <1>1, <2>1, <3>a
    <3>4. Cardinality(low .. high) = 3 - k
      <4>a. PICK c : c = Cardinality(low .. high)
        OBVIOUS
      <4>1. c = IF low > high THEN 0 ELSE high - low + 1
        BY <3>2, <4>a
      <4> QED
        BY <3>3, <4>1, <4>a
    <3> QED
      BY <3>4, <3>a
  <2>5. NumPadding(L) = 3 - k
    BY <1>3, <2>3, <2>4, Zenon DEF NumPadding
  <2>6. ASSUME NEW i \in 1 .. 4 * n - (3 - k)
        PROVE  L[i] \in Letters
    <3>a. PICK g, j : g = (i + 3) \div 4 /\ j = i - 4 * (g - 1)
      OBVIOUS
    <3>1. g \in 1 .. n /\ j \in 1 .. 4 /\ 4 * (g - 1) + j = i
      BY <1>1, <2>1, <3>a
    <3>2. g = n => j <= k + 1
      BY <1>1, <2>1, <3>1
    <3>3. j <= Len(G[g]) + 1
      <4>1. CASE g = n
        <5>1. Len(G[g]) = k /\ j <= k + 1
          BY <2>a, <3>2, <4>1
        <5> QED
          BY <5>1
      <4>2. CASE g # n
        <5>1. g < n /\ g \in 1 .. n
          BY <1>1, <3>1, <4>2
        <5>2. Len(G[g]) = 3
          BY <1>1, <5>1
        <5> QED
          BY <3>1, <5>2
      <4> QED
        BY <4>1, <4>2
    <3>4. E[g][j] \in Letters
      BY <1>2, <3>1, <3>3
    <3> QED
      BY <1>3, <3>1, <3>4
  <2>7. ~(3 - k > 2)
    BY <2>1
  <2> QED
    BY <1>3, <1>a, <2>2, <2>5, <2>6, <2>7 DEF InvalidBase64
<1> QED
  BY <1>4, <1>5

-----------------------------------------------------------------------------
(* What is decoded is a text, whatever was given, if it is no error.       *)

LEMMA ValidLetters ==
  ASSUME NEW L \in Seq(Int), L # <<>>, ~InvalidBase64(L)
  PROVE  Len(L) \in Nat /\ Len(L) % 4 = 0 /\ \A i \in 1 .. Len(L) : L[i] \in Letters \cup {Padding}
<1>a. PICK n, p, P : /\ n = Len(L) /\ p = NumPadding(L)
                     /\ P = {i \in n - 3 .. n : L[i] = Padding}
  OBVIOUS
<1>1. n \in Nat /\ n # 0
  BY <1>a, EmptySeq
<1>2. n % 4 = 0 /\ ~(p > 2) /\ \A i \in 1 .. n - p : L[i] \in Letters
  BY <1>a DEF InvalidBase64
<1>3. IsFiniteSet(P) /\ p = Cardinality(P) /\ p \in Nat
  <2>1. n - 3 \in Int /\ n \in Int /\ P \subseteq n - 3 .. n
    BY <1>1, <1>a
  <2>2. IsFiniteSet(n - 3 .. n)
    BY <2>1, FS_Interval
  <2>3. IsFiniteSet(P)
    BY <2>1, <2>2, FS_Subset
  <2>4. p = Cardinality(P)
    BY <1>a, Zenon DEF NumPadding
  <2> QED
    BY <2>3, <2>4, FS_CardinalityType
<1>4. n >= 4
  BY <1>1, <1>2
<1>5. P \subseteq n - p + 1 .. n
  <2> SUFFICES ASSUME NEW i \in P PROVE i \in n - p + 1 .. n
    OBVIOUS
  <2>1. i \in n - 3 .. n /\ L[i] = Padding
    BY <1>a
  <2>2. i \notin 1 .. n - p
    BY <1>2, <2>1, LettersAreInts
  <2> QED
    BY <1>1, <1>3, <1>4, <2>1, <2>2
<1>6. P = n - p + 1 .. n
  <2>a. PICK low, c : low = n - p + 1 /\ c = Cardinality(low .. n)
    OBVIOUS
  <2>1. low \in Int /\ n \in Int
    BY <1>1, <1>3, <2>a
  <2>2. IsFiniteSet(low .. n) /\ c = IF low > n THEN 0 ELSE n - low + 1
    BY <2>1, <2>a, FS_Interval
  <2>3. c = p
    BY <1>1, <1>3, <2>2, <2>a
  <2>4. P \subseteq low .. n /\ Cardinality(P) = Cardinality(low .. n)
    BY <1>3, <1>5, <2>3, <2>a
  <2>5. P = low .. n
    BY <2>2, <2>4, FS_Subset
  <2> QED
    BY <2>5, <2>a
<1>7. ASSUME NEW i \in 1 .. n
      PROVE  L[i] \in Letters \cup {Padding}
  <2>1. CASE i <= n - p
    <3>1. i \in 1 .. n - p
      BY <1>1, <1>3, <2>1
    <3> QED
      BY <1>2, <3>1
  <2>2. CASE ~(i <= n - p)
    <3>1. i \in n - p + 1 .. n
      BY <1>1, <1>3, <2>2
    <3>2. i \in P
      BY <1>6, <3>1
    <3> QED
      BY <1>a, <3>2
  <2> QED
    BY <2>1, <2>2
<1> QED
  BY <1>1, <1>2, <1>7, <1>a

LEMMA DecodedType ==
  ASSUME NEW t, \A i \in 1 .. 4 : t[i] \in Letters \cup {Padding}
  PROVE  DecodeGroup(t) \in Seq(Int)
<1> DEFINE v(i) == IF t[i] = Padding THEN 0 ELSE Sixtet(t[i])
<1>a. PICK a, b, c, d : a = v(1) /\ b = v(2) /\ c = v(3) /\ d = v(4)
  OBVIOUS
<1>1. \A i \in 1 .. 4 : v(i) \in Int
  <2> SUFFICES ASSUME NEW i \in 1 .. 4, t[i] # Padding PROVE Sixtet(t[i]) \in Int
    OBVIOUS
  <2>1. PICK n \in 0 .. 63 : t[i] = Letter(n)
    BY DEF Letters
  <2>2. Sixtet(t[i]) = n
    BY <2>1, SixtetOfLetter
  <2> QED
    BY <2>2
<1>2. a \in Int /\ b \in Int /\ c \in Int /\ d \in Int
  BY <1>1, <1>a
<1>b. PICK x, y, z, bytes : /\ x = a * 4 + b \div 16 /\ y = (b % 16) * 16 + c \div 4
                            /\ z = (c % 4) * 64 + d /\ bytes = <<x, y, z>>
  OBVIOUS
<1>3. x \in Int /\ y \in Int /\ z \in Int
  BY <1>2, <1>b
<1>c. PICK P, p : P = {i \in 1 .. 4 : t[i] = Padding} /\ p = Cardinality(P)
  OBVIOUS
<1>4. p \in Nat
  <2>1. P \subseteq 1 .. 4 /\ IsFiniteSet(1 .. 4)
    <3>a. PICK low, high : low = 1 /\ high = 4
      OBVIOUS
    <3>0. low \in Int /\ high \in Int
      BY <3>a
    <3>1. IsFiniteSet(low .. high)
      BY <3>0, FS_Interval
    <3>2. IsFiniteSet(1 .. 4)
      BY <3>1, <3>a
    <3> QED
      BY <1>c, <3>2
  <2>2. IsFiniteSet(P)
    BY <2>1, FS_Subset
  <2> QED
    BY <1>c, <2>2, FS_CardinalityType
<1>5. DecodeGroup(t) = SubSeq(bytes, 1, 3 - p)
  BY <1>a, <1>b, <1>c, Zenon DEF DecodeGroup
<1>6. \A i \in 1 .. 3 - p : bytes[i] \in Int
  <2>1. bytes[1] = x /\ bytes[2] = y /\ bytes[3] = z
    BY <1>b
  <2>2. \A i \in 1 .. 3 - p : i = 1 \/ i = 2 \/ i = 3
    BY <1>4
  <2> QED
    BY <1>3, <2>1, <2>2
<1>7. 3 - p \in Int
  BY <1>4
<1> QED
  BY <1>5, <1>6, <1>7, SubSeqProperties

LEMMA FromBase64Type ==
  ASSUME NEW L \in Seq(Int), ~InvalidBase64(L)
  PROVE  FromBase64(L) \in Seq(Int)
<1>a. PICK n, N, G, D : /\ n = Len(L) /\ N = (n + 4 - 1) \div 4 /\ G = Groups(L, 4)
                        /\ D = [g \in DOMAIN G |-> DecodeGroup(G[g])]
  OBVIOUS
<1>1. FromBase64(L) = FlattenSeq(D)
  BY <1>a, Zenon DEF FromBase64
<1>2. G = [g \in 1 .. N |-> SubSeq(L, 4 * (g - 1) + 1, IF 4 * g < n THEN 4 * g ELSE n)]
  BY <1>a, Zenon DEF Groups
<1>3. n \in Nat /\ N \in Nat
  BY <1>a
<1>4. D = [g \in 1 .. N |-> DecodeGroup(G[g])]
  BY <1>2, <1>a
<1>5. ASSUME NEW g \in 1 .. N
      PROVE  DecodeGroup(G[g]) \in Seq(Int)
  <2>1. L # <<>>
    <3>1. (0 + 4 - 1) \div 4 = 0 /\ Len(<<>>) = 0
      OBVIOUS
    <3>2. N # 0
      BY <1>3
    <3> QED
      BY <1>a, <3>1, <3>2
  <2>2. n % 4 = 0 /\ \A i \in 1 .. n : L[i] \in Letters \cup {Padding}
    BY <1>a, <2>1, ValidLetters
  <2>a. PICK low, high, t : /\ low = 4 * (g - 1) + 1 /\ high = IF 4 * g < n THEN 4 * g ELSE n
                            /\ t = G[g]
    OBVIOUS
  <2>3. low \in Int /\ high \in Int /\ low >= 1 /\ high <= n /\ high = low + 3
    <3>a. PICK v : v = 4 * g
      OBVIOUS
    <3>1. v \in Int /\ v >= 4 /\ low = v - 3
      BY <3>a, <2>a
    <3>2. v <= n
      BY <1>3, <1>a, <2>2, <3>a
    <3>3. high = v
      BY <1>3, <2>a, <3>1, <3>2, <3>a
    <3> QED
      BY <1>3, <3>1, <3>2, <3>3
  <2>4. t = SubSeq(L, low, high)
    BY <1>2, <2>a
  <2>5. \A i \in low .. high : L[i] \in Letters \cup {Padding}
    BY <1>3, <2>2, <2>3
  <2>6. \A i \in 1 .. high - low + 1 : t[i] = L[low + i - 1]
    BY <2>3, <2>4, <2>5, SubSeqProperties
  <2>7. \A i \in 1 .. 4 : i \in 1 .. high - low + 1 /\ low + i - 1 \in low .. high
    BY <2>3
  <2>8. \A i \in 1 .. 4 : t[i] \in Letters \cup {Padding}
    BY <2>5, <2>6, <2>7
  <2> QED
    BY <2>8, <2>a, DecodedType
<1>6. D \in Seq(Seq(Int))
  <2>1. D \in [1 .. N -> Seq(Int)]
    BY <1>4, <1>5
  <2> QED
    BY <1>3, <2>1, FunctionIsSeq, Zenon
<1> QED
  BY <1>1, <1>6, FlattenType

================================================================================
