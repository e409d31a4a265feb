--------------------------------- MODULE Base64 ---------------------------------
(***************************************************************************)
(* base64.h: groups of three bytes become four letters, which are their    *)
(* ASCII codes.                                                            *)
(***************************************************************************)
EXTENDS Integers, SequencesExt

Padding == 61   \* '='

\* encode_table_1: 'A'..'Z', 'a'..'z', '0'..'9', '+', '/'.
Letter(n) ==
  CASE n \in 0 .. 25  -> n + 65
    [] n \in 26 .. 51 -> n + 71
    [] n \in 52 .. 61 -> n - 4
    [] n = 62         -> 43
    [] n = 63         -> 47

Letters == {Letter(n) : n \in 0 .. 63}

\* decode_table_0 .. 3, before their shifts.
Sixtet(c) == CHOOSE n \in 0 .. 63 : Letter(n) = c

\* Mutant: the high bits of the third byte are lost.
EncodeGroupShort(t) ==
  LET b(i)    == IF i <= Len(t) THEN t[i] ELSE 0
      sixtets == <<b(1) \div 4, (b(1) % 4) * 16 + b(2) \div 16,
                   (b(2) % 16) * 4, b(3) % 64>>
  IN  [i \in 1 .. 4 |-> IF i <= Len(t) + 1 THEN Letter(sixtets[i]) ELSE Padding]

\* The last group may have one byte or two; the output is filled with padding
\* beforehand.
EncodeGroup(t) ==
  LET b(i)    == IF i <= Len(t) THEN t[i] ELSE 0
      sixtets == <<b(1) \div 4, (b(1) % 4) * 16 + b(2) \div 16,
                   (b(2) % 16) * 4 + b(3) \div 64, b(3) % 64>>
  IN  [i \in 1 .. 4 |-> IF i <= Len(t) + 1 THEN Letter(sixtets[i]) ELSE Padding]

\* The groups of n of a sequence; the last one may be shorter.
Groups(s, n) ==
  [g \in 1 .. (Len(s) + n - 1) \div n |->
     SubSeq(s, n * (g - 1) + 1, IF n * g < Len(s) THEN n * g ELSE Len(s))]

ToBase64(data) ==
  LET groups == Groups(data, 3)
  IN  FlattenSeq([g \in DOMAIN groups |-> EncodeGroup(groups[g])])

-----------------------------------------------------------------------------

\* Padding signs are counted among the last four letters wherever they stand;
\* the letters in front of that many are looked up, and one that is not in the
\* table is an error.
NumPadding(text) ==
  Cardinality({i \in Len(text) - 3 .. Len(text) : text[i] = Padding})

InvalidBase64(text) ==
  /\ text # <<>>
  /\ \/ Len(text) % 4 # 0
     \/ NumPadding(text) > 2
     \/ \E i \in 1 .. Len(text) - NumPadding(text) : text[i] \notin Letters

DecodeGroup(t) ==
  LET v(i)  == IF t[i] = Padding THEN 0 ELSE Sixtet(t[i])
      bytes == <<v(1) * 4 + v(2) \div 16, (v(2) % 16) * 16 + v(3) \div 4,
                 (v(3) % 4) * 64 + v(4)>>
  IN  SubSeq(bytes, 1, 3 - Cardinality({i \in 1 .. 4 : t[i] = Padding}))

FromBase64(text) ==
  LET groups == Groups(text, 4)
  IN  FlattenSeq([g \in DOMAIN groups |-> DecodeGroup(groups[g])])

=============================================================================
