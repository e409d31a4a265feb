--------------------- MODULE ConversationSerializerProofs ----------------------
(***************************************************************************)
(* Proofs about ConversationSerializer: what the placeholders of an action *)
(* are, whatever is in the file; that what is read is what was written, up *)
(* to the first action that the file does not hold or that cannot be told  *)
(* from its end tag; and that everything comes back if there is no such    *)
(* action.  The last two follow the reader through the file: what it has not *)
(* read yet is what was written behind the place where it is.              *)
(***************************************************************************)
EXTENDS ConversationSerializer, Base64Proofs

-----------------------------------------------------------------------------
(* Texts, and searching them.                                              *)

Text == Seq(Int)

LEMMA MinFacts ==
  \A S : S \subseteq Nat /\ S # {} => Min(S) \in S /\ \A y \in S : Min(S) <= y
<1> SUFFICES ASSUME NEW S, S \subseteq Nat, S # {}
             PROVE  Min(S) \in S /\ \A y \in S : Min(S) <= y
  OBVIOUS
<1>a. PICK R : R = OpToRel(<, Nat)
  OBVIOUS
<1>1. PICK x \in S : \A y \in S : <<y, x>> \notin R
  BY <1>a, NatLessThanWellFounded, WFMin
<1>2. \A y \in S : ~(y < x)
  BY <1>1, <1>a DEF OpToRel
<1>3. \E z \in S : \A y \in S : z <= y
  BY <1>2
<1>4. Min(S) = CHOOSE z \in S : \A y \in S : z <= y
  BY DEF Min
<1> QED
  BY <1>3, <1>4, Zenon

Stands(d, what, k) == SubSeq(d, k, k + Len(what) - 1) = what

\* j is the first place from i on where what stands, or 0.
FirstAt(d, what, i, j) ==
  \/ j = 0 /\ \A k \in i .. Len(d) - Len(what) + 1 : ~Stands(d, what, k)
  \/ /\ j \in i .. Len(d) - Len(what) + 1 /\ Stands(d, what, j)
     /\ \A k \in i .. Len(d) - Len(what) + 1 : Stands(d, what, k) => j <= k

LEMMA FindFromFacts ==
  \A d, what \in Text, i \in Nat : FirstAt(d, what, i, FindFrom(d, what, i))
<1> SUFFICES ASSUME NEW d \in Text, NEW what \in Text, NEW i \in Nat
             PROVE  FirstAt(d, what, i, FindFrom(d, what, i))
  OBVIOUS
<1>a. PICK found : found = {j \in i .. Len(d) - Len(what) + 1 : Stands(d, what, j)}
  OBVIOUS
<1>1. FindFrom(d, what, i) = IF found = {} THEN 0 ELSE Min(found)
  BY <1>a, Zenon DEF FindFrom, Stands
<1>2. Len(d) \in Nat /\ Len(what) \in Nat
  BY DEF Text
<1>3. found \subseteq Nat
  BY <1>2, <1>a
<1>4. CASE found = {}
  BY <1>1, <1>4, <1>a DEF FirstAt
<1>5. CASE found # {}
  <2>1. Min(found) \in found /\ \A y \in found : Min(found) <= y
    BY <1>3, <1>5, MinFacts, Zenon
  <2> QED
    BY <1>1, <1>5, <1>a, <2>1 DEF FirstAt
<1> QED
  BY <1>4, <1>5

-----------------------------------------------------------------------------
(* Placeholders.                                                           *)

\* Where the next placeholder begins, and where it ends.
Begin(d, i) == FindFrom(d, Prefix, i)
End(d, i)   == IF Begin(d, i) = 0 THEN 0 ELSE FindFrom(d, Suffix, Begin(d, i) + Len(Prefix))

AreTokens(d, f) ==
  f = [i \in 1 .. Len(d) + 1 |->
         IF End(d, i) = 0 THEN <<>>
         ELSE <<Token(d, Begin(d, i), End(d, i))>> \o f[End(d, i) + Len(Suffix)]]

LEMMA SubTokensChosen ==
  ASSUME NEW d
  PROVE  SubTokens(d) = (CHOOSE f : AreTokens(d, f))[1]
BY Zenon DEF SubTokens, AreTokens, Begin, End

LEMMA Signs ==
  /\ Prefix \in Text /\ Len(Prefix) = 2 /\ Suffix \in Text /\ Len(Suffix) = 1
BY DEF Prefix, Suffix, Text

LEMMA EndFacts ==
  ASSUME NEW d \in Text, NEW i \in 1 .. Len(d) + 1
  PROVE  \/ End(d, i) = 0
         \/ /\ Begin(d, i) \in i .. Len(d) /\ End(d, i) \in Begin(d, i) + 2 .. Len(d)
            /\ FirstAt(d, Prefix, i, Begin(d, i))
            /\ FirstAt(d, Suffix, Begin(d, i) + 2, End(d, i))
<1>0. Len(d) \in Nat /\ i \in Nat /\ i >= 1
  BY DEF Text
<1>a. PICK b, e : b = Begin(d, i) /\ e = End(d, i)
  OBVIOUS
<1>1. FirstAt(d, Prefix, i, b)
  BY <1>0, <1>a, Signs, FindFromFacts, Zenon DEF Begin
<1>2. CASE b = 0
  BY <1>2, <1>a DEF End
<1>3. CASE b # 0
  <2>1. b \in i .. Len(d) - 1
    BY <1>0, <1>1, <1>3, Signs DEF FirstAt
  <2>2. e = FindFrom(d, Suffix, b + 2)
    BY <1>3, <1>a, Signs DEF End
  <2>3. b + 2 \in Nat
    BY <1>0, <2>1
  <2>4. FirstAt(d, Suffix, b + 2, e)
    BY <2>2, <2>3, Signs, FindFromFacts, Zenon
  <2>5. e = 0 \/ e \in b + 2 .. Len(d)
    BY <1>0, <2>1, <2>4, Signs DEF FirstAt
  <2> QED
    BY <1>0, <1>1, <1>a, <2>1, <2>4, <2>5
<1> QED
  BY <1>2, <1>3

TokensBody(d, f, i) ==
  IF End(d, i) = 0 THEN <<>>
  ELSE <<Token(d, Begin(d, i), End(d, i))>> \o f[End(d, i) + Len(Suffix)]

LEMMA TokensExist ==
  ASSUME NEW d \in Text
  PROVE  \E f : AreTokens(d, f)
<1>0. Len(d) \in Nat
  BY DEF Text
<1>a. PICK L, D : L = Len(d) + 1 /\ D = 1 .. L
  OBVIOUS
<1>b. PICK T : T = {n \in Nat : \E f : f = [i \in D |-> f[i]] /\
                                  \A i \in D : i > L - n => f[i] = TokensBody(d, f, i)}
  OBVIOUS
<1>1. 0 \in T
  <2>1. \A i \in D : ~(i > L - 0)
    BY <1>0, <1>a
  <2>2. PICK f : f = [i \in D |-> 0]
    OBVIOUS
  <2>3. f = [i \in D |-> f[i]]
    BY <2>2
  <2> QED
    BY <1>b, <2>1, <2>3
<1>2. ASSUME NEW n \in T
      PROVE  n + 1 \in T
  <2>0. n \in Nat /\ L \in Nat
    BY <1>0, <1>a, <1>b
  <2>1. PICK f : f = [i \in D |-> f[i]] /\ \A i \in D : i > L - n => f[i] = TokensBody(d, f, i)
    BY <1>b
  <2>2. PICK g : g = [i \in D |-> IF i > L - n THEN f[i] ELSE TokensBody(d, f, i)]
    OBVIOUS
  <2>3. ASSUME NEW i \in D, i > L - (n + 1)
        PROVE  g[i] = TokensBody(d, g, i)
    <3>1. g[i] = TokensBody(d, f, i)
      BY <2>1, <2>2
    <3>2. CASE End(d, i) = 0
      BY <3>1, <3>2 DEF TokensBody
    <3>3. CASE End(d, i) # 0
      <4>a. PICK next : next = End(d, i) + Len(Suffix)
        OBVIOUS
      <4>1. next \in D /\ next > L - n
        BY <1>0, <1>a, <2>0, <2>3, <3>3, <4>a, EndFacts, Signs
      <4>2. g[next] = f[next]
        BY <2>2, <4>1
      <4> QED
        BY <3>1, <4>2, <4>a, Zenon DEF TokensBody
    <3> QED
      BY <3>2, <3>3
  <2>4. g = [i \in D |-> g[i]]
    BY <2>2
  <2> QED
    BY <1>b, <2>0, <2>3, <2>4
<1>3. T = Nat
  BY <1>1, <1>2, <1>b, NatSet
<1>4. L \in T /\ \A i \in D : i > L - L
  BY <1>0, <1>3, <1>a
<1>5. PICK f : f = [i \in D |-> f[i]] /\ \A i \in D : f[i] = TokensBody(d, f, i)
  BY <1>4, <1>b
<1>6. f = [i \in D |-> TokensBody(d, f, i)]
  BY <1>5
<1> QED
  BY <1>6, <1>a DEF AreTokens, TokensBody

TokenRecords == [begin : Nat, end : Nat, token : Seq(Int)]

\* t is what create_action finds from i on.
TokensFrom(d, i, t) ==
  /\ t \in Seq(TokenRecords)
  /\ \A k \in 1 .. Len(t) : t[k].begin >= i /\ IsPlaceholder(d, t[k].begin, t[k].end)
  /\ \A k \in 1 .. Len(t) - 1 : t[k].end <= t[k + 1].begin
  /\ \A b \in 1 .. Len(d), e \in 1 .. Len(d) + 1 :
       b >= i /\ IsPlaceholder(d, b, e) =>
         \E k \in 1 .. Len(t) : t[k].begin <= b /\ b < t[k].end

LEMMA PlaceholderFacts ==
  \A d \in Text : \A b, e \in Nat :
    IsPlaceholder(d, b, e) <=>
      e >= b + 3 /\ Stands(d, Prefix, b) /\ FindFrom(d, Suffix, b + 2) = e - 1
<1> SUFFICES ASSUME NEW d \in Text, NEW b \in Nat, NEW e \in Nat
             PROVE  IsPlaceholder(d, b, e) <=>
               e >= b + 3 /\ Stands(d, Prefix, b) /\ FindFrom(d, Suffix, b + 2) = e - 1
  OBVIOUS
<1>1. e - b >= 2 + 1 <=> e >= b + 3
  OBVIOUS
<1> QED
  BY <1>1, Signs, Zenon DEF IsPlaceholder, Stands

\* No placeholder begins between i and the next prefix that is closed.
LEMMA NothingBefore ==
  ASSUME NEW d \in Text, NEW i \in 1 .. Len(d) + 1,
         NEW b \in 1 .. Len(d), NEW e \in 1 .. Len(d) + 1, b >= i, IsPlaceholder(d, b, e)
  PROVE  End(d, i) # 0 /\ Begin(d, i) <= b
<1>0. Len(d) \in Nat
  BY DEF Text
<1>1. e >= b + 3 /\ Stands(d, Prefix, b) /\ FindFrom(d, Suffix, b + 2) = e - 1
  BY <1>0, PlaceholderFacts
<1>a. PICK x : x = Begin(d, i)
  OBVIOUS
<1>2. FirstAt(d, Prefix, i, x)
  BY <1>0, <1>a, Signs, FindFromFacts DEF Begin
<1>3. b \in i .. Len(d) - 2 + 1
  BY <1>0, <1>1
<1>4. x # 0 /\ x <= b /\ x >= i
  BY <1>0, <1>1, <1>2, <1>3, Signs DEF FirstAt
<1>b. PICK y : y = FindFrom(d, Suffix, x + 2)
  OBVIOUS
<1>5. x + 2 \in Nat /\ b + 2 \in Nat /\ x \in Int
  BY <1>0, <1>2, <1>4, Signs DEF FirstAt
<1>6. FirstAt(d, Suffix, x + 2, y) /\ FirstAt(d, Suffix, b + 2, e - 1)
  BY <1>1, <1>5, <1>b, Signs, FindFromFacts
<1>7. e - 1 \in b + 2 .. Len(d) /\ Stands(d, Suffix, e - 1)
  BY <1>0, <1>1, <1>6, Signs DEF FirstAt
<1>8. e - 1 \in x + 2 .. Len(d) - 1 + 1
  BY <1>0, <1>4, <1>5, <1>7
<1>9. y # 0
  BY <1>0, <1>4, <1>5, <1>6, <1>7, <1>8, Signs DEF FirstAt
<1>10. End(d, i) = y
  BY <1>4, <1>a, <1>b, Signs DEF End
<1> QED
  BY <1>4, <1>9, <1>10, <1>a

LEMMA TokenFacts ==
  ASSUME NEW d \in Text, NEW b \in Nat \ {0}, NEW e \in Nat
  PROVE  /\ Token(d, b, e) \in TokenRecords
         /\ Token(d, b, e).begin = b /\ Token(d, b, e).end = e + 1
<1>1. Len(d) \in Nat
  BY DEF Text
<1>a. PICK S, n : S = {b + 2 + e - 2, Len(d)} /\ n = Min(S)
  OBVIOUS
<1>2. n \in Nat /\ n <= Len(d)
  BY <1>1, <1>a, MinFacts
<1>3. \A k \in b + 2 .. n : d[k] \in Int
  <2>1. d \in Seq(Int) /\ \A k \in b + 2 .. n : k \in 1 .. Len(d)
    BY <1>1, <1>2 DEF Text
  <2> QED
    BY <2>1, ElementOfSeq
<1>4. SubSeq(d, b + 2, n) \in Seq(Int)
  BY <1>2, <1>3, SubSeqProperties
<1>5. Token(d, b, e) = [begin |-> b, end |-> e + 1, token |-> SubSeq(d, b + 2, n)]
  BY <1>a, Signs, Zenon DEF Token
<1> QED
  BY <1>4, <1>5 DEF TokenRecords

\* One more in front.
LEMMA TokensStep ==
  ASSUME NEW d \in Text, NEW i \in 1 .. Len(d) + 1, End(d, i) # 0,
         NEW t, TokensFrom(d, End(d, i) + 1, t),
         NEW x, x = Token(d, Begin(d, i), End(d, i)),
         NEW u, u = <<x>> \o t
  PROVE  TokensFrom(d, i, u)
<1>a. PICK b, e : b = Begin(d, i) /\ e = End(d, i)
  OBVIOUS
<1>0. Len(d) \in Nat
  BY DEF Text
<1>1. /\ b \in i .. Len(d) /\ e \in b + 2 .. Len(d)
      /\ FirstAt(d, Prefix, i, b) /\ FirstAt(d, Suffix, b + 2, e)
  BY <1>a, EndFacts
<1>2. x \in TokenRecords /\ x.begin = b /\ x.end = e + 1
  BY <1>0, <1>1, <1>a, TokenFacts
<1>3. IsPlaceholder(d, b, e + 1)
  <2>1. e + 1 >= b + 3 /\ b \in Nat /\ e + 1 \in Nat /\ (e + 1) - 1 = e
    BY <1>0, <1>1
  <2>2. Stands(d, Prefix, b)
    BY <1>0, <1>1 DEF FirstAt
  <2>3. FindFrom(d, Suffix, b + 2) = e
    <3>1. b # 0
      BY <1>0, <1>1
    <3>2. e = FindFrom(d, Suffix, b + Len(Prefix))
      BY <1>a, <3>1 DEF End
    <3> QED
      BY <3>2, Signs
  <2> QED
    BY <2>1, <2>2, <2>3, PlaceholderFacts
<1>b. PICK n : n = Len(t)
  OBVIOUS
<1>4. /\ t \in Seq(TokenRecords) /\ n \in Nat
      /\ \A k \in 1 .. n : t[k].begin >= e + 1 /\ IsPlaceholder(d, t[k].begin, t[k].end)
      /\ \A k \in 1 .. n : t[k] \in TokenRecords
      /\ \A k \in 1 .. n - 1 : t[k].end <= t[k + 1].begin
      /\ \A c \in 1 .. Len(d), g \in 1 .. Len(d) + 1 :
           c >= e + 1 /\ IsPlaceholder(d, c, g) =>
             \E k \in 1 .. n : t[k].begin <= c /\ c < t[k].end
  <2>1. TokensFrom(d, e + 1, t)
    BY <1>a
  <2>2. /\ t \in Seq(TokenRecords)
        /\ \A k \in 1 .. n : t[k].begin >= e + 1 /\ IsPlaceholder(d, t[k].begin, t[k].end)
        /\ \A k \in 1 .. n - 1 : t[k].end <= t[k + 1].begin
        /\ \A c \in 1 .. Len(d), g \in 1 .. Len(d) + 1 :
             c >= e + 1 /\ IsPlaceholder(d, c, g) =>
               \E k \in 1 .. n : t[k].begin <= c /\ c < t[k].end
    BY <2>1, <1>b, Zenon DEF TokensFrom
  <2>3. n \in Nat /\ \A k \in 1 .. n : t[k] \in TokenRecords
    BY <2>2, <1>b, ElementOfSeq
  <2> QED
    BY <2>2, <2>3
<1>5. /\ u \in Seq(TokenRecords) /\ Len(u) = n + 1
      /\ u[1] = x /\ \A k \in 1 .. n : u[k + 1] = t[k]
  <2>a. PICK o : o = <<x>>
    OBVIOUS
  <2>1. o \in Seq(TokenRecords) /\ Len(o) = 1 /\ o[1] = x
    BY <1>2, <2>a
  <2>2. IsConcat(TokenRecords, o, t, u)
    BY <1>4, <2>1, <2>a, IsConcatFacts, Zenon
  <2>3. \A j \in 1 .. n + 1 : u[j] = IF j <= 1 THEN o[j] ELSE t[j - 1]
    BY <1>4, <1>b, <2>1, <2>2 DEF IsConcat
  <2>4. Len(u) = n + 1 /\ u \in Seq(TokenRecords)
    BY <1>4, <1>b, <2>1, <2>2 DEF IsConcat
  <2>6. ASSUME NEW k \in 1 .. n
        PROVE  u[k + 1] = t[k]
    <3>a. PICK j : j = k + 1
      OBVIOUS
    <3>1. j \in 1 .. n + 1 /\ ~(j <= 1) /\ j - 1 = k
      BY <1>4, <3>a
    <3>2. u[j] = t[j - 1]
      BY <2>3, <3>1
    <3> QED
      BY <3>1, <3>2, <3>a
  <2>7. 1 \in 1 .. n + 1
    BY <1>4
  <2>8. u[1] = x
    <3>1. u[1] = o[1]
      BY <2>3, <2>7
    <3> QED
      BY <2>1, <3>1
  <2> QED
    BY <2>4, <2>6, <2>8
<1>6. \A k \in 1 .. n + 1 : k = 1 \/ (k - 1 \in 1 .. n /\ u[k] = t[k - 1])
  <2> SUFFICES ASSUME NEW k \in 1 .. n + 1, k # 1 PROVE k - 1 \in 1 .. n /\ u[k] = t[k - 1]
    OBVIOUS
  <2>1. k - 1 \in 1 .. n /\ (k - 1) + 1 = k
    BY <1>4
  <2> QED
    BY <1>5, <2>1
<1>7. ASSUME NEW k \in 1 .. n + 1
      PROVE  u[k].begin >= i /\ IsPlaceholder(d, u[k].begin, u[k].end)
  <2>1. CASE k = 1
    BY <1>0, <1>1, <1>2, <1>3, <1>5, <2>1
  <2>2. CASE k # 1
    <3>a. PICK y : y = t[k - 1]
      OBVIOUS
    <3>1. y = u[k] /\ y.begin >= e + 1 /\ y \in TokenRecords /\ IsPlaceholder(d, y.begin, y.end)
      BY <1>4, <1>6, <2>2, <3>a
    <3>2. y.begin \in Nat
      BY <3>1 DEF TokenRecords
    <3>3. y.begin >= i
      <4>a. PICK m : m = y.begin
        OBVIOUS
      <4>1. m \in Nat /\ m >= e + 1
        BY <3>1, <3>2, <4>a
      <4>2. m >= i
        BY <1>0, <1>1, <4>1
      <4> QED
        BY <4>2, <4>a
    <3> QED
      BY <3>1, <3>3
  <2> QED
    BY <2>1, <2>2
<1>8. ASSUME NEW k \in 1 .. n
      PROVE  u[k].end <= u[k + 1].begin
  <2>1. u[k + 1] = t[k]
    BY <1>5
  <2>2. CASE k = 1
    BY <1>2, <1>4, <1>5, <2>1, <2>2
  <2>3. CASE k # 1
    <3>1. k - 1 \in 1 .. n - 1 /\ k \in 1 .. n + 1 /\ (k - 1) + 1 = k
      BY <1>4, <2>3
    <3>2. u[k] = t[k - 1]
      BY <1>6, <2>3, <3>1
    <3> QED
      BY <1>4, <2>1, <3>1, <3>2
  <2> QED
    BY <2>2, <2>3
<1>9. ASSUME NEW c \in 1 .. Len(d), NEW g \in 1 .. Len(d) + 1, c >= i, IsPlaceholder(d, c, g)
      PROVE  \E k \in 1 .. n + 1 : u[k].begin <= c /\ c < u[k].end
  <2>1. b <= c
    BY <1>9, <1>a, NothingBefore
  <2>2. CASE c < e + 1
    <3>1. 1 \in 1 .. n + 1 /\ u[1].begin <= c /\ c < u[1].end
      BY <1>2, <1>4, <1>5, <2>1, <2>2
    <3> QED
      BY <3>1
  <2>3. CASE ~(c < e + 1)
    <3>1. c >= e + 1
      BY <1>0, <1>1, <2>3
    <3>2. PICK k \in 1 .. n : t[k].begin <= c /\ c < t[k].end
      BY <1>4, <1>9, <3>1
    <3>3. k + 1 \in 1 .. n + 1 /\ u[k + 1] = t[k]
      BY <1>4, <1>5
    <3> QED
      BY <3>2, <3>3
  <2> QED
    BY <2>2, <2>3
<1>10. (n + 1) - 1 = n /\ u \in Seq(TokenRecords) /\ Len(u) = n + 1
  BY <1>4, <1>5
<1> QED
  BY <1>7, <1>8, <1>9, <1>10 DEF TokensFrom

LEMMA SubTokensFacts ==
  \A d \in Text : TokensFrom(d, 1, SubTokens(d))
<1> SUFFICES ASSUME NEW d \in Text PROVE TokensFrom(d, 1, SubTokens(d))
  OBVIOUS
<1>0. Len(d) \in Nat
  BY DEF Text
<1>a. PICK f : f = CHOOSE g : AreTokens(d, g)
  OBVIOUS
<1>1. AreTokens(d, f) /\ SubTokens(d) = f[1]
  BY <1>a, TokensExist, SubTokensChosen, Zenon
<1>b. PICK L, D : L = Len(d) + 1 /\ D = 1 .. L
  OBVIOUS
<1>2. \A i \in D : f[i] = IF End(d, i) = 0 THEN <<>>
                          ELSE <<Token(d, Begin(d, i), End(d, i))>> \o f[End(d, i) + 1]
  BY <1>1, <1>b, Signs DEF AreTokens
<1>c. PICK T : T = {n \in Nat : \A i \in D : i > L - n => TokensFrom(d, i, f[i])}
  OBVIOUS
<1>3. 0 \in T
  <2>1. \A i \in D : ~(i > L - 0)
    BY <1>0, <1>b
  <2> QED
    BY <1>c, <2>1
<1>4. ASSUME NEW n \in T
      PROVE  n + 1 \in T
  <2>0. n \in Nat /\ L \in Nat
    BY <1>0, <1>b, <1>c
  <2>1. ASSUME NEW i \in D, i > L - (n + 1)
        PROVE  TokensFrom(d, i, f[i])
    <3>1. CASE End(d, i) = 0
      <4>1. f[i] = <<>> /\ <<>> \in Seq(TokenRecords) /\ Len(<<>>) = 0
        BY <1>2, <3>1, EmptySeq
      <4>2. \A b \in 1 .. Len(d), e \in 1 .. Len(d) + 1 : ~(b >= i /\ IsPlaceholder(d, b, e))
        BY <1>b, <3>1, NothingBefore
      <4>3. /\ \A k \in 1 .. 0 : FALSE
            /\ \A k \in 1 .. 0 - 1 : FALSE
        OBVIOUS
      <4> QED
        BY <4>1, <4>2, <4>3 DEF TokensFrom
    <3>2. CASE End(d, i) # 0
      <4>a. PICK next : next = End(d, i) + 1
        OBVIOUS
      <4>1. next \in D /\ next > L - n
        BY <1>0, <1>b, <2>0, <2>1, <3>2, <4>a, EndFacts
      <4>2. TokensFrom(d, next, f[next])
        BY <1>c, <4>1
      <4>3. f[i] = <<Token(d, Begin(d, i), End(d, i))>> \o f[next]
        BY <1>2, <3>2, <4>a
      <4> QED
        BY <1>b, <3>2, <4>2, <4>3, <4>a, TokensStep
    <3> QED
      BY <3>1, <3>2
  <2> QED
    BY <1>c, <2>0, <2>1
<1>5. T = Nat
  BY <1>3, <1>4, <1>c, NatSet
<1>6. L \in T /\ 1 \in D /\ 1 > L - L
  BY <1>0, <1>5, <1>b
<1> QED
  BY <1>1, <1>6, <1>c

-----------------------------------------------------------------------------
(* Parts of texts.                                                         *)

LEMMA TextFacts ==
  /\ <<>> \in Text /\ Len(<<>>) = 0
  /\ \A s, t \in Text : s \o t \in Text /\ Len(s \o t) = Len(s) + Len(t)
  /\ \A s, t, u \in Text : (s \o t) \o u = s \o (t \o u)
  /\ \A s \in Text : Len(s) \in Nat /\ s \o <<>> = s /\ <<>> \o s = s
  /\ \A s \in Text : \A i \in 1 .. Len(s) : s[i] \in Int
<1>1. ASSUME NEW s \in Text, NEW t \in Text
      PROVE  s \o t \in Text /\ Len(s \o t) = Len(s) + Len(t)
  <2>a. PICK z : z = s \o t
    OBVIOUS
  <2>1. IsConcat(Int, s, t, z)
    BY <2>a, IsConcatFacts, Zenon DEF Text
  <2>2. z \in Text /\ Len(z) = Len(s) + Len(t)
    BY <2>1 DEF IsConcat, Text
  <2> QED
    BY <2>2, <2>a
<1>2. \A s, t, u \in Text : (s \o t) \o u = s \o (t \o u)
  <2>1. AssociatesIn(Int)
    BY AllAssociate, Zenon
  <2> QED
    BY <2>1, Zenon DEF AssociatesIn, Text
<1>3. \A s \in Text : Len(s) \in Nat /\ s \o <<>> = s /\ <<>> \o s = s
  BY ConcatEmptySeq DEF Text
<1>4. <<>> \in Text /\ Len(<<>>) = 0
  BY EmptySeq DEF Text
<1>5. \A s \in Text : \A i \in 1 .. Len(s) : s[i] \in Int
  BY ElementOfSeq DEF Text
<1> QED
  BY <1>1, <1>2, <1>3, <1>4, <1>5

\* x is the n symbols of s behind the first m.
IsSlice(s, m, n, x) ==
  x \in Text /\ Len(x) = n /\ \A i \in 1 .. n : x[i] = s[m + i]

LEMMA SliceFacts ==
  \A s \in Text : \A m, n \in Nat : \A low, high, x :
    low = m + 1 /\ high = m + n /\ high <= Len(s) /\ x = SubSeq(s, low, high)
      => IsSlice(s, m, n, x)
<1> SUFFICES ASSUME NEW s \in Text, NEW m \in Nat, NEW n \in Nat, NEW low, NEW high, NEW x,
                    low = m + 1, high = m + n, high <= Len(s), x = SubSeq(s, low, high)
             PROVE  IsSlice(s, m, n, x)
  OBVIOUS
<1>0. Len(s) \in Nat /\ low \in Int /\ high \in Int
  BY TextFacts
<1>1. \A i \in low .. high : i \in 1 .. Len(s)
  BY <1>0
<1>2. \A i \in low .. high : s[i] \in Int
  BY <1>1, TextFacts
<1>3. /\ x \in Seq(Int) /\ Len(x) = IF low <= high THEN high - low + 1 ELSE 0
      /\ \A i \in 1 .. high - low + 1 : x[i] = s[low + i - 1]
  BY <1>0, <1>2, SubSeqProperties
<1>4. (IF low <= high THEN high - low + 1 ELSE 0) = n
  OBVIOUS
<1>5. \A i \in 1 .. n : i \in 1 .. high - low + 1 /\ low + i - 1 = m + i
  OBVIOUS
<1>6. \A i \in 1 .. n : x[i] = s[m + i]
  BY <1>3, <1>5
<1> QED
  BY <1>3, <1>4, <1>6 DEF IsSlice, Text

LEMMA SlicesEqual ==
  \A s, x, y : \A m, n \in Nat : IsSlice(s, m, n, x) /\ IsSlice(s, m, n, y) => x = y
<1> SUFFICES ASSUME NEW s, NEW x, NEW y, NEW m \in Nat, NEW n \in Nat,
                    IsSlice(s, m, n, x), IsSlice(s, m, n, y)
             PROVE  x = y
  OBVIOUS
<1> QED
  BY SeqEqual DEF IsSlice, Text

\* What stands where in one text behind another.
LEMMA TextCat ==
  \A s, t \in Text : \A z : z = s \o t =>
    z \in Text /\ Len(z) = Len(s) + Len(t)
      /\ IsSlice(z, 0, Len(s), s) /\ IsSlice(z, Len(s), Len(t), t)
<1> SUFFICES ASSUME NEW s \in Text, NEW t \in Text, NEW z, z = s \o t
             PROVE  /\ z \in Text /\ Len(z) = Len(s) + Len(t)
                    /\ IsSlice(z, 0, Len(s), s) /\ IsSlice(z, Len(s), Len(t), t)
  OBVIOUS
<1>a. PICK m, n : m = Len(s) /\ n = Len(t)
  OBVIOUS
<1>1. IsConcat(Int, s, t, z)
  BY IsConcatFacts, Zenon DEF Text
<1>2. /\ m \in Nat /\ n \in Nat /\ z \in Text /\ Len(z) = m + n
      /\ \A i \in 1 .. m + n : z[i] = IF i <= m THEN s[i] ELSE t[i - m]
  BY <1>1, <1>a, TextFacts DEF IsConcat, Text
<1>3. ASSUME NEW i \in 1 .. m
      PROVE  s[i] = z[0 + i]
  <2>1. i \in 1 .. m + n /\ i <= m /\ 0 + i = i
    BY <1>2
  <2> QED
    BY <1>2, <2>1
<1>4. ASSUME NEW i \in 1 .. n
      PROVE  t[i] = z[m + i]
  <2>a. PICK j : j = m + i
    OBVIOUS
  <2>1. j \in 1 .. m + n /\ ~(j <= m) /\ j - m = i
    BY <1>2, <2>a
  <2>2. z[j] = t[j - m]
    BY <1>2, <2>1
  <2> QED
    BY <2>1, <2>2, <2>a
<1> QED
  BY <1>2, <1>3, <1>4, <1>a DEF IsSlice

\* What comes first in a text, and the rest of it.
IsCut(s, t, z) ==
  SubSeq(z, 1, Len(s)) = s /\ SubSeq(z, Len(s) + 1, Len(z)) = t

LEMMA Cut ==
  \A s, t \in Text : \A z : z = s \o t => IsCut(s, t, z)
<1> SUFFICES ASSUME NEW s \in Text, NEW t \in Text, NEW z, z = s \o t
             PROVE  IsCut(s, t, z)
  BY Zenon
<1>a. PICK k, m, n, x, y, low :
        /\ k = Len(t) /\ m = Len(s) /\ n = Len(z)
        /\ x = SubSeq(z, 1, m) /\ low = m + 1 /\ y = SubSeq(z, low, n)
  BY Zenon
<1>1. /\ z \in Text /\ n = m + k /\ m \in Nat /\ k \in Nat
      /\ IsSlice(z, 0, m, s) /\ IsSlice(z, m, k, t)
  <2>1. z \in Text /\ Len(z) = Len(s) + Len(t)
         /\ IsSlice(z, 0, Len(s), s) /\ IsSlice(z, Len(s), Len(t), t)
    BY TextCat, Zenon
  <2>2. Len(s) \in Nat /\ Len(t) \in Nat
    BY TextFacts, Zenon
  <2> QED
    BY <2>1, <2>2, <1>a, Zenon
<1>2. IsSlice(z, 0, m, x)
  <2>1. 0 \in Nat /\ 1 = 0 + 1 /\ m = 0 + m /\ m <= n
    BY <1>1
  <2> QED
    BY <1>1, <1>a, <2>1, SliceFacts, Zenon
<1>3. IsSlice(z, m, k, y)
  <2>1. n <= n
    BY <1>1
  <2> QED
    BY <1>1, <1>a, <2>1, SliceFacts, Zenon
<1>4. x = s /\ y = t
  <2>1. 0 \in Nat
    OBVIOUS
  <2> QED
    BY <1>1, <1>2, <1>3, <2>1, SlicesEqual, Zenon
<1> QED
  BY <1>4, <1>a, Zenon DEF IsCut

\* A text is cut where one likes.
IsHalved(s, n, x, y) ==
  x \in Text /\ Len(x) = n /\ y \in Text /\ Len(y) = Len(s) - n /\ s = x \o y

LEMMA Halved ==
  \A s \in Text : \A n \in Nat : \A x, y :
    n <= Len(s) /\ x = SubSeq(s, 1, n) /\ y = SubSeq(s, n + 1, Len(s)) => IsHalved(s, n, x, y)
<1> SUFFICES ASSUME NEW s \in Text, NEW n \in Nat, NEW x, NEW y,
                    n <= Len(s), x = SubSeq(s, 1, n), y = SubSeq(s, n + 1, Len(s))
             PROVE  IsHalved(s, n, x, y)
  OBVIOUS
<1>a. PICK z, l, k, low : l = Len(s) /\ k = l - n /\ low = n + 1 /\ z = x \o y
  OBVIOUS
<1>1. l \in Nat /\ n <= l /\ k \in Nat /\ l = n + k
  BY <1>a, TextFacts
<1>2. IsSlice(s, 0, n, x)
  <2>1. 0 \in Nat /\ 1 = 0 + 1 /\ n = 0 + n
    OBVIOUS
  <2> QED
    BY <2>1, SliceFacts, Zenon
<1>3. IsSlice(s, n, k, y)
  <2>1. l <= Len(s) /\ y = SubSeq(s, low, l)
    BY <1>1, <1>a
  <2> QED
    BY <1>1, <1>a, <2>1, SliceFacts, Zenon
<1>4. /\ x \in Text /\ Len(x) = n /\ y \in Text /\ Len(y) = k
      /\ \A i \in 1 .. n : x[i] = s[0 + i]
      /\ \A i \in 1 .. k : y[i] = s[n + i]
  BY <1>2, <1>3 DEF IsSlice
<1>5. z \in Text /\ Len(z) = l /\ \A i \in 1 .. n + k : z[i] = IF i <= n THEN x[i] ELSE y[i - n]
  <2>1. IsConcat(Int, x, y, z)
    BY <1>4, <1>a, IsConcatFacts, Zenon DEF Text
  <2> QED
    BY <1>1, <1>4, <2>1 DEF IsConcat, Text
<1>6. ASSUME NEW i \in 1 .. l
      PROVE  z[i] = s[i]
  <2>1. z[i] = IF i <= n THEN x[i] ELSE y[i - n]
    BY <1>1, <1>5
  <2>2. CASE i <= n
    <3>1. i \in 1 .. n /\ 0 + i = i
      BY <1>1, <2>2
    <3> QED
      BY <1>4, <2>1, <2>2, <3>1
  <2>3. CASE ~(i <= n)
    <3>1. i - n \in 1 .. k /\ n + (i - n) = i
      BY <1>1, <2>3
    <3> QED
      BY <1>4, <2>1, <2>3, <3>1
  <2> QED
    BY <2>2, <2>3
<1>7. z = s
  BY <1>1, <1>5, <1>6, <1>a, SeqEqual DEF Text
<1> QED
  BY <1>1, <1>4, <1>7, <1>a DEF IsHalved

\* Of two ways to cut a text in two, the shorter first part begins the other.
IsBetween(a, b, x, y) ==
  \E c \in Text : b = a \o c /\ x = c \o y

LEMMA CutTwice ==
  \A a, b, x, y \in Text : \A k \in Nat : \A z :
    z = a \o x /\ z = b \o y /\ k = Len(a) /\ k <= Len(b) => IsBetween(a, b, x, y)
<1> SUFFICES ASSUME NEW a \in Text, NEW b \in Text, NEW x \in Text, NEW y \in Text,
                    NEW k \in Nat, NEW z,
                    z = a \o x, z = b \o y, k = Len(a), k <= Len(b)
             PROVE  IsBetween(a, b, x, y)
  OBVIOUS
<1>a. PICK p, c, w : /\ p = SubSeq(b, 1, k) /\ c = SubSeq(b, k + 1, Len(b))
                        /\ w = c \o y
  BY Zenon
<1>2. p \in Text /\ c \in Text /\ b = p \o c /\ Len(p) = k
  <2>1. IsHalved(b, k, p, c)
    BY <1>a, Halved, Zenon
  <2> QED
    BY <2>1, Zenon DEF IsHalved
<1>3. w \in Text
  BY <1>2, <1>a, TextFacts, Zenon
<1>4. z = p \o w
  <2>1. z = (p \o c) \o y
    BY <1>2, <1>a, Zenon
  <2> QED
    BY <1>2, <1>a, <2>1, TextFacts, Zenon
<1>5. SubSeq(z, 1, k) = a /\ SubSeq(z, k + 1, Len(z)) = x
  <2>1. IsCut(a, x, z)
    BY Cut, Zenon
  <2> QED
    BY <2>1, Zenon DEF IsCut
<1>6. SubSeq(z, 1, k) = p /\ SubSeq(z, k + 1, Len(z)) = w
  <2>1. IsCut(p, w, z)
    BY <1>2, <1>3, <1>4, Cut, Zenon
  <2> QED
    BY <2>1, <1>2, Zenon DEF IsCut
<1> QED
  BY <1>2, <1>5, <1>6, <1>a, Zenon DEF IsBetween

-----------------------------------------------------------------------------
(* What is written.                                                        *)

LEMMA SeqMonotone ==
  \A A, B, s : A \subseteq B /\ s \in Seq(A) => s \in Seq(B)
<1> SUFFICES ASSUME NEW A, NEW B, NEW s, A \subseteq B, s \in Seq(A)
             PROVE  s \in Seq(B)
  OBVIOUS
<1>1. Len(s) \in Nat /\ s \in [1 .. Len(s) -> A]
  BY LenProperties
<1>2. s \in [1 .. Len(s) -> B]
  BY <1>1
<1> QED
  BY <1>1, <1>2, FunctionIsSeq, Zenon

LEMMA EndTagFacts ==
  /\ EndTag \in Text /\ Len(EndTag) \in Nat /\ Len(EndTag) > 1
  /\ Delim \in Int /\ Delim = EndTag[Len(EndTag)]
  /\ \A i \in 1 .. Len(EndTag) - 1 : EndTag[i] # Delim
<1>1. 0 .. 255 \subseteq Int
  OBVIOUS
<1>2. EndTag \in Text
  BY <1>1, EndTagAssumption, SeqMonotone, Zenon DEF Text
<1>3. Len(EndTag) \in Nat /\ Len(EndTag) > 1
  BY EndTagAssumption
<1>4. EndTag[Len(EndTag)] \in Int
  BY <1>2, <1>3, ElementOfSeq DEF Text
<1> QED
  BY <1>2, <1>3, <1>4, EndTagAssumption DEF Delim

Types == Range(ActionTypes)

LEMMA TypeLineFacts ==
  /\ \A t \in Types : TypeLine(t) \in -4 .. -1
  /\ \A t, u \in Types : TypeLine(t) = TypeLine(u) => t = u
  /\ \A t \in DOMAIN ActionTypes : ActionTypes[t] \in Types
  /\ \A u \in Types : \E t \in DOMAIN ActionTypes : ActionTypes[t] = u
<1>1. DOMAIN ActionTypes = 1 .. 4
  BY DEF ActionTypes
<1>2. \A u \in Types : \E t \in DOMAIN ActionTypes : ActionTypes[t] = u
  BY DEF Types, Range
<1>3. \A t \in DOMAIN ActionTypes : ActionTypes[t] \in Types
  BY DEF Types, Range
<1>a. PICK place : place = [u \in Types |-> CHOOSE i \in DOMAIN ActionTypes : ActionTypes[i] = u]
  OBVIOUS
<1>4. \A u \in Types : place[u] \in DOMAIN ActionTypes /\ ActionTypes[place[u]] = u
  <2> SUFFICES ASSUME NEW u \in Types
               PROVE  place[u] \in DOMAIN ActionTypes /\ ActionTypes[place[u]] = u
    OBVIOUS
  <2>1. place[u] = CHOOSE i \in DOMAIN ActionTypes : ActionTypes[i] = u
    BY <1>a
  <2>2. \E i \in DOMAIN ActionTypes : ActionTypes[i] = u
    BY <1>2
  <2> QED
    BY <2>1, <2>2, Zenon
<1>5. \A u \in Types : TypeLine(u) = -place[u]
  <2> SUFFICES ASSUME NEW u \in Types PROVE TypeLine(u) = -place[u]
    OBVIOUS
  <2>1. place[u] = CHOOSE i \in DOMAIN ActionTypes : ActionTypes[i] = u
    BY <1>a
  <2> QED
    BY <2>1, Zenon DEF TypeLine
<1>6. \A t \in Types : TypeLine(t) \in -4 .. -1
  <2> SUFFICES ASSUME NEW t \in Types PROVE TypeLine(t) \in -4 .. -1
    OBVIOUS
  <2>1. place[t] \in 1 .. 4 /\ TypeLine(t) = -place[t]
    BY <1>1, <1>4, <1>5
  <2> QED
    BY <2>1
<1>7. ASSUME NEW t \in Types, NEW u \in Types, TypeLine(t) = TypeLine(u)
      PROVE  t = u
  <2>1. place[t] \in 1 .. 4 /\ place[u] \in 1 .. 4 /\ -place[t] = -place[u]
    BY <1>1, <1>4, <1>5, <1>7
  <2>2. place[t] = place[u]
    BY <2>1
  <2> QED
    BY <1>4, <2>2, Zenon
<1> QED
  BY <1>2, <1>3, <1>6, <1>7

LEMMA ShortTexts ==
  /\ \A x \in Int : <<x>> \in Text /\ Len(<<x>>) = 1 /\ <<x>>[1] = x
  /\ \A x, y \in Int : <<x, y>> \in Text /\ Len(<<x, y>>) = 2
                         /\ <<x, y>>[1] = x /\ <<x, y>>[2] = y
BY DEF Text

LEMMA DataFacts ==
  /\ \A d \in Data : d \in Text /\ (IsBinary(d) => d \in Seq(Byte))
  /\ <<>> \in Data /\ <<45>> \in Data
<1>1. ASSUME NEW d \in Data
      PROVE  d \in Text /\ (IsBinary(d) => d \in Seq(Byte))
  <2>1. d \in Seq(SeparatorLine .. 255) /\ (IsBinary(d) => d \in Seq(0 .. 255))
    BY DEF Data
  <2>2. SeparatorLine .. 255 \subseteq Int
    BY DEF SeparatorLine
  <2> QED
    BY <2>1, <2>2, SeqMonotone, Zenon DEF Byte, Text
<1>2. <<>> \in Seq(SeparatorLine .. 255) /\ <<>> \in Seq(0 .. 255)
  BY EmptySeq
<1>3. <<45>> \in Seq(SeparatorLine .. 255) /\ <<45>> \in Seq(0 .. 255)
  BY DEF SeparatorLine
<1> QED
  BY <1>1, <1>2, <1>3 DEF Data

LEMMA StoredType == \A d \in Data : Stored(d) \in Text /\ Len(Stored(d)) \in Nat
<1> SUFFICES ASSUME NEW d \in Data PROVE Stored(d) \in Text /\ Len(Stored(d)) \in Nat
  OBVIOUS
<1>1. CASE IsBinary(d)
  <2>1. ToBase64(d) \in Text
    BY <1>1, DataFacts, ToBase64Facts DEF InFours, Text
  <2>2. Stored(d) = ToBase64(d)
    BY <1>1 DEF Stored
  <2> QED
    BY <2>1, <2>2, TextFacts, Zenon
<1>2. CASE ~IsBinary(d)
  <2>2. Stored(d) = d
    BY <1>2 DEF Stored
  <2> QED
    BY <2>2, DataFacts, TextFacts, Zenon
<1> QED
  BY <1>1, <1>2

\* An action is written as the line of its type, what else stands in front of
\* its data, and that to the end of the line of its end tag.
EncodingPart(a) == IF IsBinary(a.data) THEN <<EncodingLine, NL>> ELSE <<>>

Tagged(a) == Stored(a.data) \o EndTag

Properties(a) == EncodingPart(a) \o (<<StartLine, NL>> \o Tagged(a))

LEMMA PartTypes ==
  \A a \in Action : /\ EncodingPart(a) \in Text /\ Tagged(a) \in Text /\ Properties(a) \in Text
                    /\ <<TypeLine(a.type), NL>> \in Text /\ <<StartLine, NL>> \in Text
                    /\ Stored(a.data) \in Text /\ <<NL>> \in Text
<1> SUFFICES ASSUME NEW a \in Action
             PROVE  /\ EncodingPart(a) \in Text /\ Tagged(a) \in Text /\ Properties(a) \in Text
                    /\ <<TypeLine(a.type), NL>> \in Text /\ <<StartLine, NL>> \in Text
                    /\ Stored(a.data) \in Text /\ <<NL>> \in Text
  OBVIOUS
<1>1. a.type \in Types /\ a.data \in Data
  BY DEF Action, Types
<1>2. NL \in Int /\ EncodingLine \in Int /\ StartLine \in Int /\ TypeLine(a.type) \in Int
  BY <1>1, TypeLineFacts DEF NL, EncodingLine, StartLine
<1>3. Stored(a.data) \in Text
  BY <1>1, StoredType, Zenon
<1>4. Tagged(a) \in Text
  BY <1>3, EndTagFacts, TextFacts, Zenon DEF Tagged
<1>5. EncodingPart(a) \in Text
  BY <1>2, ShortTexts, TextFacts, Zenon DEF EncodingPart
<1>6. <<StartLine, NL>> \in Text /\ <<TypeLine(a.type), NL>> \in Text /\ <<NL>> \in Text
  BY <1>2, ShortTexts, Zenon
<1>7. Properties(a) \in Text
  BY <1>4, <1>5, <1>6, TextFacts, Zenon DEF Properties
<1> QED
  BY <1>3, <1>4, <1>5, <1>6, <1>7

Associates(s, t, u) == (s \o t) \o u = s \o (t \o u)

LEMMA TextAssociates == \A s, t, u \in Text : Associates(s, t, u)
BY TextFacts, Zenon DEF Associates

LEMMA TextCatType == \A s, t \in Text : s \o t \in Text
BY TextFacts, Zenon

FiveAssociate(h, e, s, d, t) == (((h \o e) \o s) \o d) \o t = h \o (e \o (s \o (d \o t)))

LEMMA FiveTextsAssociate ==
  \A h, e, s, d, t \in Text : FiveAssociate(h, e, s, d, t)
<1> SUFFICES ASSUME NEW h \in Text, NEW e \in Text, NEW s \in Text, NEW d \in Text,
                    NEW t \in Text
             PROVE  FiveAssociate(h, e, s, d, t)
  OBVIOUS
<1>1. PICK dt : dt = d \o t
  OBVIOUS
<1>2. dt \in Text
  BY <1>1, TextFacts, Zenon
<1>3. PICK sdt : sdt = s \o dt
  OBVIOUS
<1>4. sdt \in Text
  BY <1>2, <1>3, TextFacts, Zenon
<1>5. PICK he : he = h \o e
  OBVIOUS
<1>6. he \in Text
  BY <1>5, TextFacts, Zenon
<1>7. PICK hes : hes = he \o s
  OBVIOUS
<1>8. hes \in Text
  BY <1>6, <1>7, TextFacts, Zenon
<1>9. (hes \o d) \o t = hes \o dt
  <2>1. Associates(hes, d, t)
    BY <1>8, TextAssociates, Zenon
  <2> QED
    BY <2>1, <1>1, Zenon DEF Associates
<1>10. hes \o dt = he \o sdt
  <2>1. Associates(he, s, dt)
    BY <1>2, <1>6, TextAssociates, Zenon
  <2> QED
    BY <2>1, <1>3, <1>7, Zenon DEF Associates
<1>11. he \o sdt = h \o (e \o sdt)
  <2>1. Associates(h, e, sdt)
    BY <1>4, TextAssociates, Zenon
  <2> QED
    BY <2>1, <1>5, Zenon DEF Associates
<1> QED
  BY <1>1, <1>3, <1>5, <1>7, <1>9, <1>10, <1>11, Zenon DEF FiveAssociate

LEMMA WriteActionFacts ==
  \A a \in Action : WriteAction(a) = (<<TypeLine(a.type), NL>> \o Properties(a)) \o <<NL>>
                      /\ WriteAction(a) \in Text
<1> SUFFICES ASSUME NEW a \in Action
             PROVE  WriteAction(a) = (<<TypeLine(a.type), NL>> \o Properties(a)) \o <<NL>>
                      /\ WriteAction(a) \in Text
  OBVIOUS
<1>a. PICK h, e, s, d, t, n :
        /\ h = <<TypeLine(a.type), NL>> /\ e = EncodingPart(a) /\ s = <<StartLine, NL>>
        /\ d = Stored(a.data) /\ t = EndTag /\ n = <<NL>>
  BY Zenon
<1>1. h \in Text /\ e \in Text /\ s \in Text /\ d \in Text /\ t \in Text /\ n \in Text
  BY <1>a, PartTypes, EndTagFacts, Zenon
<1>2. WriteAction(a) = ((((h \o e) \o s) \o d) \o t) \o n
  BY <1>a, Zenon DEF WriteAction, EncodingPart
<1>3. Properties(a) = e \o (s \o (d \o t))
  BY <1>a, Zenon DEF Properties, Tagged
<1>4. WriteAction(a) = (h \o Properties(a)) \o n
  <2>1. FiveAssociate(h, e, s, d, t)
    BY <1>1, FiveTextsAssociate, Zenon
  <2> QED
    BY <2>1, <1>2, <1>3, Zenon DEF FiveAssociate
<1>5. h \o Properties(a) \in Text
  BY <1>1, PartTypes, TextCatType, Zenon
<1>6. WriteAction(a) \in Text
  BY <1>1, <1>4, <1>5, TextCatType, Zenon
<1> QED
  BY <1>4, <1>6, <1>a, Zenon

-----------------------------------------------------------------------------
(* What is written of several actions.                                     *)

Opening == <<NL, SeparatorLine, NL, NL>>

Block == [a \in Action |-> Opening \o WriteAction(a)]

LEMMA OpeningType == Opening \in Text /\ Len(Opening) = 4
BY DEF Opening, Text, NL, SeparatorLine

LEMMA BlockType == Block \in [Action -> Text]
<1> SUFFICES ASSUME NEW a \in Action PROVE Opening \o WriteAction(a) \in Text
  BY DEF Block
<1> QED
  BY OpeningType, WriteActionFacts, TextCatType, Zenon

LEMMA WrittenIsFlatMap == \A s \in Seq(Action) : Written(s) = FlatMap(Block, s)
<1> SUFFICES ASSUME NEW s \in Seq(Action) PROVE Written(s) = FlatMap(Block, s)
  OBVIOUS
<1>a. PICK w, m : /\ w = [i \in DOMAIN s |-> Opening \o WriteAction(s[i])]
                  /\ m = [i \in DOMAIN s |-> Block[s[i]]]
  OBVIOUS
<1>1. \A i \in DOMAIN s : s[i] \in Action
  BY LenProperties, ElementOfSeq
<1>2. \A i \in DOMAIN s : Block[s[i]] = Opening \o WriteAction(s[i])
  BY <1>1, Zenon DEF Block
<1>3. w = m
  BY <1>2, <1>a, Zenon
<1>4. Written(s) = FlattenSeq(w)
  BY <1>a, Zenon DEF Written, Opening
<1>5. FlatMap(Block, s) = FlattenSeq(m)
  BY <1>a, Zenon DEF FlatMap, Mapped
<1> QED
  BY <1>3, <1>4, <1>5, Zenon

LEMMA WrittenType == \A s \in Seq(Action) : Written(s) \in Text /\ Len(Written(s)) \in Nat
<1> SUFFICES ASSUME NEW s \in Seq(Action) PROVE Written(s) \in Text /\ Len(Written(s)) \in Nat
  OBVIOUS
<1>1. FlatMap(Block, s) \in Seq(Int)
  BY BlockType, FlatMapType, Zenon DEF Text
<1>2. Written(s) \in Text
  BY <1>1, WrittenIsFlatMap, Zenon DEF Text
<1> QED
  BY <1>2, TextFacts, Zenon

LEMMA WrittenConcat ==
  \A s, t \in Seq(Action) : s \o t \in Seq(Action) /\ Written(s \o t) = Written(s) \o Written(t)
<1> SUFFICES ASSUME NEW s \in Seq(Action), NEW t \in Seq(Action)
             PROVE  s \o t \in Seq(Action) /\ Written(s \o t) = Written(s) \o Written(t)
  OBVIOUS
<1>1. s \o t \in Seq(Action)
  BY IsConcatFacts, Zenon DEF IsConcat
<1>2. Maps(Block, Action, Seq(Int))
  BY BlockType, Zenon DEF Maps, Text
<1>3. FlatMap(Block, s \o t) = FlatMap(Block, s) \o FlatMap(Block, t)
  <2>a. PICK f, A : f = Block /\ A = Action
    OBVIOUS
  <2>1. Maps(f, A, Seq(Int)) /\ s \in Seq(A) /\ t \in Seq(A)
    BY <1>2, <2>a, Zenon
  <2>2. FlatMap(f, s \o t) = FlatMap(f, s) \o FlatMap(f, t)
    BY <2>1, FlatMapConcat
  <2> QED
    BY <2>2, <2>a, Zenon
<1>4. Written(s) = FlatMap(Block, s) /\ Written(t) = FlatMap(Block, t)
  BY WrittenIsFlatMap, Zenon
<1>5. Written(s \o t) = FlatMap(Block, s \o t)
  BY <1>1, WrittenIsFlatMap, Zenon
<1> QED
  BY <1>1, <1>3, <1>4, <1>5, Zenon

\* What is written of the first n actions, and of those behind them.
Leading(s, n) == SubSeq(s, 1, n)
Trailing(s, n) == SubSeq(s, n + 1, Len(s))

LEMMA WrittenInTwo ==
  \A s \in Seq(Action) : \A n \in 0 .. Len(s) :
    /\ Leading(s, n) \in Seq(Action) /\ Trailing(s, n) \in Seq(Action)
    /\ Len(Leading(s, n)) = n /\ Len(Trailing(s, n)) = Len(s) - n
    /\ Written(s) = Written(Leading(s, n)) \o Written(Trailing(s, n))
<1> SUFFICES ASSUME NEW s \in Seq(Action), NEW n \in 0 .. Len(s)
             PROVE  /\ Leading(s, n) \in Seq(Action) /\ Trailing(s, n) \in Seq(Action)
                    /\ Len(Leading(s, n)) = n /\ Len(Trailing(s, n)) = Len(s) - n
                    /\ Written(s) = Written(Leading(s, n)) \o Written(Trailing(s, n))
  OBVIOUS
<1>1. Len(s) \in Nat /\ n \in Nat /\ n <= Len(s)
  BY LenProperties
<1>2. \A i \in 1 .. Len(s) : s[i] \in Action
  BY ElementOfSeq
<1>a. PICK u, v, m : u = Leading(s, n) /\ v = Trailing(s, n) /\ m = n + 1
  OBVIOUS
<1>3. u \in Seq(Action) /\ Len(u) = n
  <2>1. \A i \in 1 .. n : s[i] \in Action
    BY <1>1, <1>2
  <2>2. 1 \in Int /\ n \in Int
    BY <1>1
  <2>3. u \in Seq(Action) /\ Len(u) = IF 1 <= n THEN n - 1 + 1 ELSE 0
    BY <1>a, <2>1, <2>2, SubSeqProperties DEF Leading
  <2> QED
    BY <1>1, <2>3
<1>4. v \in Seq(Action) /\ Len(v) = Len(s) - n
  <2>1. \A i \in n + 1 .. Len(s) : s[i] \in Action
    BY <1>1, <1>2
  <2>2. n + 1 \in Int /\ Len(s) \in Int
    BY <1>1
  <2>3. v \in Seq(Action) /\ Len(v) = IF n + 1 <= Len(s) THEN Len(s) - (n + 1) + 1 ELSE 0
    BY <1>a, <2>1, <2>2, SubSeqProperties DEF Trailing
  <2> QED
    BY <1>1, <2>3
<1>5. u \o v = s
  <2>1. 1 \in 1 .. Len(s) + 1 /\ n \in 1 - 1 .. Len(s) /\ Len(s) \in n .. Len(s)
    BY <1>1
  <2>2. SubSeq(s, 1, n) \o SubSeq(s, n + 1, Len(s)) = SubSeq(s, 1, Len(s))
    BY <2>1, ConcatAdjacentSubSeq
  <2>3. SubSeq(s, 1, Len(s)) = s
    BY SubSeqFull
  <2> QED
    BY <2>2, <2>3, <1>a, Zenon DEF Leading, Trailing
<1>6. Written(u \o v) = Written(u) \o Written(v)
  BY <1>3, <1>4, WrittenConcat, Zenon
<1> QED
  BY <1>3, <1>4, <1>5, <1>6, <1>a, Zenon

LEMMA WrittenNext ==
  \A s \in Seq(Action) : \A n \in 1 .. Len(s) :
    Written(Leading(s, n)) = Written(Leading(s, n - 1)) \o (Opening \o WriteAction(s[n]))
<1> SUFFICES ASSUME NEW s \in Seq(Action), NEW n \in 1 .. Len(s)
             PROVE  Written(Leading(s, n)) = Written(Leading(s, n - 1)) \o (Opening \o WriteAction(s[n]))
  OBVIOUS
<1>1. s[n] \in Action
  BY ElementOfSeq
<1>2. n - 1 \in 0 .. Len(s) /\ n \in Nat /\ Len(s) \in Nat
  BY LenProperties
<1>a. PICK u, a : u = Leading(s, n - 1) /\ a = s[n]
  OBVIOUS
<1>3. u \in Seq(Action)
  BY <1>2, <1>a, WrittenInTwo, Zenon
<1>4. Leading(s, n) = u \o <<a>>
  <2>1. 1 \in 1 .. Len(s) /\ n \in 1 .. Len(s)
    BY <1>2
  <2>2. SubSeq(s, 1, n) = SubSeq(s, 1, n - 1) \o <<s[n]>>
    BY <2>1, SubSeqRecursiveSecond
  <2> QED
    BY <2>2, <1>a, Zenon DEF Leading
<1>5. <<a>> \in Seq(Action)
  BY <1>1, <1>a
<1>6. Written(u \o <<a>>) = Written(u) \o Written(<<a>>)
  BY <1>3, <1>5, WrittenConcat, Zenon
<1>7. Written(<<a>>) = Opening \o WriteAction(a)
  <2>1. FlatMap(Block, <<a>>) = Block[a]
    BY <1>1, <1>a, BlockType, FlatMapOne, Zenon DEF Text
  <2>2. Written(<<a>>) = FlatMap(Block, <<a>>)
    BY <1>5, WrittenIsFlatMap, Zenon
  <2>3. Block[a] = Opening \o WriteAction(a)
    BY <1>1, <1>a, Zenon DEF Block
  <2> QED
    BY <2>1, <2>2, <2>3, Zenon
<1> QED
  BY <1>4, <1>6, <1>7, <1>a, Zenon

-----------------------------------------------------------------------------
(* What the variables hold.                                                *)

Buffers == [0 .. Len(EndTag) -> Int]

Record(t, d) == [type |-> t, data |-> d, tokens |-> SubTokens(d)]

Pushed == {Record(t, d) : t \in Types \cup {"NONE"}, d \in Text}

ActionType == [type : Types \cup {"NONE"}, encoded : BOOLEAN]

ReaderType ==
  /\ input \in Text /\ data \in Text /\ buf \in Buffers
  /\ at \in {0, Len(EndTag), Len(EndTag) + 1}
  /\ action \in ActionType /\ queue \in Seq(Pushed)

ConvType ==
  conv \in [protocol : {"TCP", "UDP"}, test_port : Word, actions : Seq(Action)]

\* The file is the first part of what was to be written.
FileIsCut == \E lost \in Text : Written(conv.actions) = file \o lost

TypeInv ==
  /\ ReaderType /\ ConvType /\ file \in Text
  /\ pc \notin {"write", "edit"} => FileIsCut
  /\ pc \in {"write", "edit", "headers"} => queue = <<>>
  /\ pc = "headers" => input = file

LEMMA LineEndFacts ==
  ASSUME input \in Text
  PROVE  /\ Len(input) \in Nat /\ LineEnd \in 1 .. Len(input) + 1
         /\ LineEnd = Len(input) + 1 \/ input[LineEnd] = NL
         /\ \A i \in 1 .. Len(input) : input[i] = NL => LineEnd <= i
<1>a. PICK S, n : n = Len(input) /\ S = {i \in DOMAIN input : input[i] = NL} \cup {n + 1}
  OBVIOUS
<1>1. n \in Nat /\ DOMAIN input = 1 .. n
  BY <1>a, LenProperties DEF Text
<1>2. S \subseteq Nat /\ S # {}
  BY <1>1, <1>a
<1>3. LineEnd = Min(S)
  BY <1>a DEF LineEnd
<1>4. LineEnd \in S /\ \A y \in S : LineEnd <= y
  BY <1>2, <1>3, MinFacts, Zenon
<1> QED
  BY <1>1, <1>4, <1>a

LEMMA TakeLineType ==
  ASSUME input \in Text, TakeLine
  PROVE  input' \in Text
<1>1. Len(input) \in Nat /\ LineEnd \in 1 .. Len(input) + 1
  BY LineEndFacts
<1>2. \A i \in LineEnd + 1 .. Len(input) : input[i] \in Int
  BY <1>1, TextFacts
<1>3. LineEnd + 1 \in Int /\ Len(input) \in Int
  BY <1>1
<1>4. SubSeq(input, LineEnd + 1, Len(input)) \in Seq(Int)
  BY <1>2, <1>3, SubSeqProperties
<1> QED
  BY <1>4 DEF TakeLine, Text

LEMMA AppendType ==
  \A S, q, e : q \in Seq(S) /\ e \in S => Append(q, e) \in Seq(S) /\ Len(Append(q, e)) = Len(q) + 1
                 /\ \A i \in 1 .. Len(q) : Append(q, e)[i] = q[i]
                 /\ Append(q, e)[Len(q) + 1] = e
BY AppendProperties

\* What is pushed of the data d.
Content(d) == IF action.encoded THEN FromBase64(d) ELSE d

Entry(d) == Record(action.type, Content(d))

LEMMA PushFacts ==
  ASSUME NEW d \in Text, action \in ActionType, queue \in Seq(Pushed), ActionPush(d)
  PROVE  /\ queue' \in Seq(Pushed)
         /\ \/ pc' = "threw" /\ queue' = queue /\ action.encoded /\ InvalidBase64(d)
            \/ /\ pc' = "type" /\ queue' = Append(queue, Entry(d)) /\ Entry(d) \in Pushed
               /\ ~(action.encoded /\ InvalidBase64(d))
<1>1. CASE action.encoded /\ InvalidBase64(d)
  <2>1. pc' = "threw" /\ queue' = queue
    BY <1>1 DEF ActionPush
  <2> QED
    BY <1>1, <2>1
<1>2. CASE ~(action.encoded /\ InvalidBase64(d))
  <2>1. Content(d) \in Text
    <3>1. CASE action.encoded
      BY <1>2, <3>1, FromBase64Type DEF Content, Text
    <3>2. CASE ~action.encoded
      BY <3>2 DEF Content
    <3> QED
      BY <3>1, <3>2
  <2>2. action.type \in Types \cup {"NONE"}
    BY DEF ActionType
  <2>3. Entry(d) \in Pushed
    BY <2>1, <2>2 DEF Entry, Pushed
  <2>4. pc' = "type" /\ queue' = Append(queue, Entry(d))
    BY <1>2, Zenon DEF ActionPush, Entry, Record, Content
  <2>5. queue' \in Seq(Pushed)
    BY <2>3, <2>4, AppendType, Zenon
  <2> QED
    BY <1>2, <2>3, <2>4, <2>5
<1> QED
  BY <1>1, <1>2

-----------------------------------------------------------------------------
(* An iteration of read_action_data.                                       *)

\* The n symbols of a text that are a first part of it.
IsFirst(s, n, x) == n \in Nat /\ n <= Len(s) /\ IsSlice(s, 0, n, x)

ChunkEnds(n, m) ==
  /\ m \in Nat /\ m <= n /\ m <= Len(input)
  /\ \A i \in 1 .. m : input[i] # Delim
  /\ m = n \/ m = Len(input) \/ input[m + 1] = Delim

LEMMA ChunkFacts ==
  ASSUME input \in Text, NEW n \in Nat
  PROVE  \E m : ChunkEnds(n, m) /\ IsFirst(input, m, Chunk(n)) /\ Len(Chunk(n)) = m
<1>a. PICK stops, S, m, x, l :
        /\ stops = {i \in DOMAIN input : input[i] = Delim} /\ l = Len(input)
        /\ S = {n, l} \cup {i - 1 : i \in stops} /\ m = Min(S) /\ x = SubSeq(input, 1, m)
  OBVIOUS
<1>1. l \in Nat /\ DOMAIN input = 1 .. l
  BY <1>a, LenProperties DEF Text
<1>2. S \subseteq Nat /\ S # {}
  BY <1>1, <1>a
<1>3. Chunk(n) = x
  BY <1>a, Zenon DEF Chunk
<1>4. m \in S /\ \A y \in S : m <= y
  BY <1>2, <1>a, MinFacts, Zenon
<1>5. m \in Nat /\ m <= n /\ m <= l
  BY <1>2, <1>4, <1>a
<1>6. ASSUME NEW i \in 1 .. m
      PROVE  input[i] # Delim
  <2> SUFFICES ASSUME input[i] = Delim PROVE FALSE
    OBVIOUS
  <2>1. i \in stops
    BY <1>1, <1>5, <1>a
  <2>2. i - 1 \in S
    BY <2>1, <1>a
  <2>3. m <= i - 1
    BY <1>4, <2>2
  <2> QED
    BY <1>5, <2>3
<1>7. m = n \/ m = l \/ input[m + 1] = Delim
  <2> SUFFICES ASSUME m # n, m # l PROVE input[m + 1] = Delim
    OBVIOUS
  <2>1. PICK i \in stops : m = i - 1
    BY <1>4, <1>a
  <2>2. i \in Nat /\ input[i] = Delim /\ m + 1 = i
    BY <1>1, <1>a, <2>1
  <2> QED
    BY <2>2
<1>8. IsSlice(input, 0, m, x)
  <2>1. 0 \in Nat /\ 1 = 0 + 1 /\ m = 0 + m
    BY <1>5
  <2>2. m <= Len(input)
    BY <1>5, <1>a
  <2> QED
    BY <1>5, <1>a, <2>1, <2>2, SliceFacts, Zenon
<1>9. Len(x) = m
  BY <1>8 DEF IsSlice
<1>10. ChunkEnds(n, m)
  BY <1>5, <1>6, <1>7, <1>a DEF ChunkEnds
<1>11. IsFirst(input, m, x)
  BY <1>5, <1>8, <1>a DEF IsFirst
<1> QED
  BY <1>3, <1>9, <1>10, <1>11

\* The first n symbols of a buffer.
Held(b, n) == [i \in 1 .. n |-> b[i - 1]]

LEMMA HeldFacts ==
  ASSUME NEW b \in Buffers, NEW n \in 0 .. Len(EndTag) + 1
  PROVE  /\ Held(b, n) \in Text /\ Len(Held(b, n)) = n
         /\ \A i \in 1 .. n : Held(b, n)[i] = b[i - 1]
<1>1. Len(EndTag) \in Nat
  BY EndTagFacts
<1>2. \A i \in 1 .. n : b[i - 1] \in Int
  <2> SUFFICES ASSUME NEW i \in 1 .. n PROVE b[i - 1] \in Int
    OBVIOUS
  <2>1. i - 1 \in 0 .. Len(EndTag)
    BY <1>1
  <2> QED
    BY <2>1 DEF Buffers
<1>3. Held(b, n) \in [1 .. n -> Int] /\ n \in Nat
  BY <1>1, <1>2 DEF Held
<1> QED
  BY <1>3, FunctionIsSeq DEF Held, Text

Room     == BUFSIZ - at - 1
Gathered == Held(buf, at) \o Chunk(Room)
Hold     == Len(Gathered) - Len(EndTag)
HeldBack == [i \in 0 .. Len(EndTag) |->
               IF i < Len(EndTag) THEN Gathered[Hold + i + 1] ELSE buf[Len(EndTag)]]
Rest     == SubSeq(input, Len(Chunk(Room)) + 1, Len(input))
More     == data \o SubSeq(Gathered, 1, Hold)

AtDelim == input # <<>> /\ input[1] = Delim

ReadFails == Chunk(Room) = <<>> \/ Hold < 0

ReadOn ==
  /\ input' = Rest /\ data' = More /\ buf' = HeldBack /\ at' = Len(EndTag)
  /\ UNCHANGED <<pc, queue>>

LEMMA ReadDataCases ==
  ASSUME ReadData
  PROVE  /\ pc = "data" /\ UNCHANGED <<conv, address, file, action, test_port>>
         /\ \/ AtDelim /\ CheckTag(buf, input, data)
            \/ ~AtDelim /\ ReadFails /\ pc' = "threw" /\ UNCHANGED <<input, data, buf, at, queue>>
            \/ ~AtDelim /\ ~ReadFails /\ Len(Chunk(Room)) # Room /\ CheckTag(HeldBack, Rest, More)
            \/ ~AtDelim /\ ~ReadFails /\ Len(Chunk(Room)) = Room /\ ReadOn
<1>1. pc = "data" /\ UNCHANGED <<conv, address, file, action, test_port>>
  BY DEF ReadData
<1>2. CASE AtDelim
  <2>1. CheckTag(buf, input, data)
    BY <1>2, Zenon DEF ReadData, AtDelim
  <2> QED
    BY <1>1, <1>2, <2>1
<1>3. CASE ~AtDelim
  <2>1. IF ReadFails THEN pc' = "threw" /\ UNCHANGED <<input, data, buf, at, queue>>
        ELSE IF Len(Chunk(Room)) # Room THEN CheckTag(HeldBack, Rest, More) ELSE ReadOn
    BY <1>3, Zenon DEF ReadData, AtDelim, ReadFails, ReadOn, HeldBack, Rest, More, Hold,
                       Gathered, Held, Room
  <2> QED
    BY <1>1, <1>3, <2>1
<1> QED
  BY <1>2, <1>3

LEMMA SuffixFacts ==
  \A s \in Text : \A n \in Nat : SubSeq(s, n + 1, Len(s)) \in Text
<1> SUFFICES ASSUME NEW s \in Text, NEW n \in Nat PROVE SubSeq(s, n + 1, Len(s)) \in Text
  OBVIOUS
<1>1. n + 1 \in Int /\ Len(s) \in Int
  BY TextFacts
<1>2. \A i \in n + 1 .. Len(s) : s[i] \in Int
  BY TextFacts
<1> QED
  BY <1>1, <1>2, SubSeqProperties DEF Text

GatheredFacts(m) ==
  /\ Room \in Nat /\ Room > 0 /\ ChunkEnds(Room, m)
  /\ Chunk(Room) \in Text /\ Len(Chunk(Room)) = m /\ IsSlice(input, 0, m, Chunk(Room))
  /\ Held(buf, at) \in Text /\ Len(Held(buf, at)) = at
  /\ Gathered \in Text /\ Len(Gathered) = at + m /\ Hold = (at + m) - Len(EndTag)
  /\ Rest \in Text /\ Len(Rest) = Len(input) - m /\ input = Chunk(Room) \o Rest

LEMMA GatheredType ==
  ASSUME ReaderType
  PROVE  \E m : GatheredFacts(m)
<1>1. /\ input \in Text /\ data \in Text /\ buf \in Buffers
      /\ at \in {0, Len(EndTag), Len(EndTag) + 1}
      /\ Len(EndTag) \in Nat /\ Len(EndTag) > 1
  BY EndTagFacts DEF ReaderType
<1>2. Room \in Nat /\ Room > 0
  BY <1>1, SizeAssumption DEF Room
<1>3. PICK m : ChunkEnds(Room, m) /\ IsFirst(input, m, Chunk(Room)) /\ Len(Chunk(Room)) = m
  BY <1>1, <1>2, ChunkFacts
<1>a. PICK x, h, g, r : x = Chunk(Room) /\ h = Held(buf, at) /\ g = Gathered /\ r = Rest
  OBVIOUS
<1>4. x \in Text /\ m \in Nat /\ m <= Len(input) /\ IsSlice(input, 0, m, x)
  BY <1>3, <1>a DEF IsFirst, IsSlice
<1>5. h \in Text /\ Len(h) = at
  BY <1>1, <1>a, HeldFacts
<1>6. g \in Text /\ Len(g) = at + m
  <2>1. g = h \o x
    BY <1>a DEF Gathered
  <2>2. g \in Text /\ Len(g) = Len(h) + Len(x)
    BY <1>4, <1>5, <2>1, TextCat, Zenon
  <2> QED
    BY <1>3, <1>5, <1>a, <2>2
<1>7. r \in Text /\ Len(r) = Len(input) - m /\ input = x \o r
  <2>a. PICK p : p = SubSeq(input, 1, m)
    OBVIOUS
  <2>1. r = SubSeq(input, m + 1, Len(input))
    BY <1>3, <1>a DEF Rest
  <2>2. IsHalved(input, m, p, r)
    BY <1>1, <1>4, <2>1, <2>a, Halved, Zenon
  <2>3. IsSlice(input, 0, m, p)
    <3>1. 0 \in Nat /\ 1 = 0 + 1 /\ m = 0 + m
      BY <1>4
    <3> QED
      BY <1>1, <1>4, <2>a, <3>1, SliceFacts, Zenon
  <2>4. p = x
    <3>1. 0 \in Nat
      OBVIOUS
    <3> QED
      BY <1>4, <2>3, <3>1, SlicesEqual, Zenon
  <2> QED
    BY <2>2, <2>4 DEF IsHalved
<1>8. Hold = (at + m) - Len(EndTag)
  BY <1>6, <1>a, Zenon DEF Hold
<1>9. /\ Chunk(Room) \in Text /\ IsSlice(input, 0, m, Chunk(Room))
      /\ Held(buf, at) \in Text /\ Len(Held(buf, at)) = at
      /\ Gathered \in Text /\ Len(Gathered) = at + m
      /\ Rest \in Text /\ Len(Rest) = Len(input) - m /\ input = Chunk(Room) \o Rest
  BY <1>4, <1>5, <1>6, <1>7, <1>a, Zenon
<1> QED
  BY <1>2, <1>3, <1>8, <1>9, Zenon DEF GatheredFacts

\* What is held back and what has been read before it is all that was gathered.
LEMMA HeldBackFacts ==
  ASSUME ReaderType, ~ReadFails
  PROVE  /\ HeldBack \in Buffers /\ HeldBack[Len(EndTag)] = buf[Len(EndTag)]
         /\ More \in Text /\ More \o Held(HeldBack, Len(EndTag)) = data \o Gathered
<1>1. /\ input \in Text /\ data \in Text /\ buf \in Buffers
      /\ at \in {0, Len(EndTag), Len(EndTag) + 1}
      /\ Len(EndTag) \in Nat /\ Len(EndTag) > 1
  BY EndTagFacts DEF ReaderType
<1>2. PICK m : GatheredFacts(m)
  BY GatheredType
<1>a. PICK T, g, k, p, q, h, l : /\ T = Len(EndTag) /\ g = Gathered /\ k = Hold /\ l = Len(g)
                           /\ p = SubSeq(g, 1, k) /\ q = SubSeq(g, k + 1, Len(g))
                           /\ h = HeldBack
  OBVIOUS
<1>3. g \in Text /\ k \in Nat /\ l = k + T /\ T \in Nat /\ m \in Nat
  <2>1. Gathered \in Text /\ Hold = Len(Gathered) - Len(EndTag) /\ m \in Nat
    BY <1>2 DEF GatheredFacts, Hold, ChunkEnds
  <2>2. Len(g) \in Nat
    BY <2>1, <1>a, TextFacts
  <2>3. ~(Hold < 0)
    BY DEF ReadFails
  <2> QED
    BY <1>1, <1>a, <2>1, <2>2, <2>3
<1>4. IsHalved(g, k, p, q)
  <2>1. k <= Len(g)
    BY <1>3, <1>a
  <2> QED
    BY <1>3, <1>a, <2>1, Halved, Zenon
<1>5. p \in Text /\ q \in Text /\ g = p \o q /\ Len(q) = T
  BY <1>3, <1>4, <1>a DEF IsHalved
<1>6. IsSlice(g, k, T, q)
  <2>1. Len(g) <= Len(g) /\ k + T = Len(g)
    BY <1>3, <1>a
  <2> QED
    BY <1>3, <1>a, <2>1, SliceFacts, Zenon
<1>7. h = [i \in 0 .. T |-> IF i < T THEN g[k + i + 1] ELSE buf[T]]
  BY <1>a, Zenon DEF HeldBack
<1>8. h \in Buffers
  <2> SUFFICES ASSUME NEW i \in 0 .. T PROVE (IF i < T THEN g[k + i + 1] ELSE buf[T]) \in Int
    BY <1>7, <1>a DEF Buffers
  <2>1. CASE i < T
    <3>1. k + i + 1 \in 1 .. Len(g)
      BY <1>3, <1>a, <2>1
    <3> QED
      BY <1>3, <2>1, <3>1, TextFacts
  <2>2. CASE ~(i < T)
    <3>1. T \in 0 .. Len(EndTag)
      BY <1>3, <1>a
    <3> QED
      BY <1>1, <2>2, <3>1 DEF Buffers
  <2> QED
    BY <2>1, <2>2
<1>9. h[T] = buf[T]
  BY <1>3, <1>7
<1>10. Held(h, T) = q
  <2>1. T \in 0 .. Len(EndTag) + 1
    BY <1>3, <1>a
  <2>2. Held(h, T) \in Text /\ Len(Held(h, T)) = T /\ \A i \in 1 .. T : Held(h, T)[i] = h[i - 1]
    BY <1>8, <2>1, HeldFacts
  <2>3. ASSUME NEW i \in 1 .. T
        PROVE  Held(h, T)[i] = q[i]
    <3>1. i - 1 \in 0 .. T /\ i - 1 < T /\ k + (i - 1) + 1 = k + i
      BY <1>3
    <3>2. h[i - 1] = g[k + i]
      BY <1>7, <3>1
    <3>3. q[i] = g[k + i]
      BY <1>6 DEF IsSlice
    <3> QED
      BY <2>2, <3>2, <3>3
  <2>4. \A i \in 1 .. T : Held(h, T)[i] = q[i]
    BY <2>3
  <2> QED
    BY <1>5, <2>2, <2>4, SeqEqual DEF Text
<1>11. More = data \o p
  BY <1>a, Zenon DEF More
<1>12. More \in Text
  BY <1>1, <1>5, <1>11, TextCatType, Zenon
<1>13. (data \o p) \o q = data \o g
  <2>1. Associates(data, p, q)
    BY <1>1, <1>5, TextAssociates, Zenon
  <2> QED
    BY <1>5, <2>1, Zenon DEF Associates
<1> QED
  BY <1>8, <1>9, <1>10, <1>11, <1>12, <1>13, <1>a, Zenon

NextOf(rest)          == IF rest = <<>> THEN -1 ELSE rest[1]
Compared(held, rest)  == [held EXCEPT ![Len(EndTag)] = NextOf(rest)]
IsTag(b)              == \A i \in 1 .. Len(EndTag) : b[i] = EndTag[i]

LEMMA CheckTagCases ==
  ASSUME NEW held, NEW rest, NEW d, CheckTag(held, rest, d)
  PROVE  /\ input' = SubSeq(rest, 2, Len(rest)) /\ buf' = Compared(held, rest)
         /\ \/ /\ IsTag(Compared(held, rest)) /\ ActionPush(Append(d, Compared(held, rest)[0]))
               /\ data' = data /\ at' = at
            \/ /\ ~IsTag(Compared(held, rest)) /\ rest = <<>> /\ ActionPush(d)
               /\ data' = data /\ at' = at
            \/ /\ ~IsTag(Compared(held, rest)) /\ rest # <<>>
               /\ data' = d /\ at' = Len(EndTag) + 1 /\ pc' = pc /\ queue' = queue
<1>1. /\ input' = SubSeq(rest, 2, Len(rest)) /\ buf' = Compared(held, rest)
      /\ IF IsTag(Compared(held, rest))
         THEN ActionPush(Append(d, Compared(held, rest)[0])) /\ UNCHANGED <<data, at>>
         ELSE IF rest = <<>> THEN ActionPush(d) /\ UNCHANGED <<data, at>>
         ELSE data' = d /\ at' = Len(EndTag) + 1 /\ UNCHANGED <<pc, queue>>
  BY Zenon DEF CheckTag, Compared, NextOf, IsTag
<1> QED
  BY <1>1

LEMMA ComparedFacts ==
  ASSUME NEW held \in Buffers, NEW rest \in Text
  PROVE  /\ Compared(held, rest) \in Buffers
         /\ Compared(held, rest)[Len(EndTag)] = NextOf(rest)
         /\ \A i \in 0 .. Len(EndTag) - 1 : Compared(held, rest)[i] = held[i]
         /\ Compared(held, rest)[0] \in Int
<1>1. Len(EndTag) \in Nat /\ Len(EndTag) > 1
  BY EndTagFacts
<1>2. NextOf(rest) \in Int
  <2>1. CASE rest = <<>>
    BY <2>1 DEF NextOf
  <2>2. CASE rest # <<>>
    <3>1. Len(rest) \in Nat /\ Len(rest) # 0
      BY <2>2, EmptySeq DEF Text
    <3>2. rest[1] \in Int
      BY <3>1, TextFacts
    <3> QED
      BY <2>2, <3>2 DEF NextOf
  <2> QED
    BY <2>1, <2>2
<1>a. PICK x, T : x = NextOf(rest) /\ T = Len(EndTag)
  OBVIOUS
<1>3. Compared(held, rest) = [held EXCEPT ![T] = x]
  BY <1>a, Zenon DEF Compared
<1>4. held \in [0 .. T -> Int] /\ Buffers = [0 .. T -> Int]
  BY <1>a DEF Buffers
<1> QED
  BY <1>1, <1>2, <1>3, <1>4, <1>a

LEMMA CheckTagType ==
  ASSUME NEW held \in Buffers, NEW rest \in Text, NEW d \in Text, ReaderType,
         CheckTag(held, rest, d), action' = action
  PROVE  /\ ReaderType' /\ pc' \in {pc, "type", "threw"}
<1>1. /\ input \in Text /\ data \in Text /\ at \in {0, Len(EndTag), Len(EndTag) + 1}
      /\ action \in ActionType /\ queue \in Seq(Pushed)
  BY DEF ReaderType
<1>2. input' \in Text
  <2>1. 1 \in Nat /\ 2 = 1 + 1
    OBVIOUS
  <2>2. input' = SubSeq(rest, 1 + 1, Len(rest))
    BY CheckTagCases, <2>1
  <2> QED
    BY <2>1, <2>2, SuffixFacts
<1>3. buf' \in Buffers /\ Compared(held, rest)[0] \in Int
  BY CheckTagCases, ComparedFacts
<1>4. Append(d, Compared(held, rest)[0]) \in Text
  BY <1>3, AppendType, Zenon DEF Text
<1>5. CASE ActionPush(Append(d, Compared(held, rest)[0])) /\ data' = data /\ at' = at
  <2>1. queue' \in Seq(Pushed) /\ pc' \in {"type", "threw"}
    BY <1>1, <1>4, <1>5, PushFacts
  <2> QED
    BY <1>1, <1>2, <1>3, <1>5, <2>1 DEF ReaderType
<1>6. CASE ActionPush(d) /\ data' = data /\ at' = at
  <2>1. queue' \in Seq(Pushed) /\ pc' \in {"type", "threw"}
    BY <1>1, <1>6, PushFacts
  <2> QED
    BY <1>1, <1>2, <1>3, <1>6, <2>1 DEF ReaderType
<1>7. CASE data' = d /\ at' = Len(EndTag) + 1 /\ pc' = pc /\ queue' = queue
  BY <1>1, <1>2, <1>3, <1>7 DEF ReaderType
<1> QED
  BY <1>5, <1>6, <1>7, CheckTagCases

LEMMA InitType == ASSUME Init PROVE TypeInv
<1>1. <<>> \in Text /\ <<>> \in Seq(Pushed)
  BY TextFacts, EmptySeq
<1>2. Len(EndTag) \in Nat
  BY EndTagFacts
<1>3. buf \in Buffers
  BY DEF Init, Buffers
<1>4. action \in ActionType
  BY DEF Init, ActionType
<1>5. ReaderType
  BY <1>1, <1>2, <1>3, <1>4 DEF Init, ReaderType
<1>6. ConvType
  BY ConversationsAssumption, Zenon DEF Init, ConvType
<1> QED
  BY <1>1, <1>5, <1>6 DEF Init, TypeInv

LEMMA FilledType ==
  ASSUME NEW s \in Seq(Action), NEW d \in Data
  PROVE  Filled(s, d) \in Seq(Action)
<1>1. Len(s) \in Nat /\ DOMAIN s = 1 .. Len(s)
  BY LenProperties
<1>2. ASSUME NEW i \in 1 .. Len(s)
      PROVE  (IF s[i].data = <<>> THEN [s[i] EXCEPT !.data = d] ELSE s[i]) \in Action
  <2>1. s[i] \in Action
    BY ElementOfSeq
  <2> QED
    BY <2>1 DEF Action
<1>a. PICK n : n = Len(s)
  OBVIOUS
<1>3. Filled(s, d) \in [1 .. n -> Action]
  BY <1>1, <1>2, <1>a DEF Filled
<1> QED
  BY <1>1, <1>3, <1>a, FunctionIsSeq, Zenon

IsStart(x, s) == x \in Text /\ \E lost \in Text : s = x \o lost

LEMMA PrefixIsCut ==
  \A s \in Text : \A n \in 0 .. Len(s) : \A x : x = SubSeq(s, 1, n) => IsStart(x, s)
<1> SUFFICES ASSUME NEW s \in Text, NEW n \in 0 .. Len(s), NEW x, x = SubSeq(s, 1, n)
             PROVE  IsStart(x, s)
  OBVIOUS
<1>1. Len(s) \in Nat /\ n \in Nat /\ n <= Len(s)
  BY TextFacts
<1>a. PICK y : y = SubSeq(s, n + 1, Len(s))
  OBVIOUS
<1>2. IsHalved(s, n, x, y)
  BY <1>1, <1>a, Halved, Zenon
<1> QED
  BY <1>2, Zenon DEF IsHalved, IsStart

LEMMA ActionsType == ASSUME ConvType PROVE conv.actions \in Seq(Action)
BY DEF ConvType

LEMMA EditType == ASSUME TypeInv, Edit PROVE TypeInv'
<1>1. /\ ConvType /\ ReaderType /\ queue = <<>>
      /\ pc' = "headers" /\ input' = file' /\ UNCHANGED <<action, data, buf, at, queue>>
  BY DEF TypeInv, Edit, reader
<1>2. PICK something \in {<<>>, <<45>>} :
        conv' = [conv EXCEPT !.actions = Filled(@, something)]
  BY DEF Edit
<1>3. Filled(conv.actions, something) \in Seq(Action)
  BY <1>1, ActionsType, DataFacts, FilledType
<1>4. conv' \in [protocol : {"TCP", "UDP"}, test_port : Word, actions : Seq(Action)]
  <2>a. PICK s : s = Filled(conv.actions, something)
    OBVIOUS
  <2>1. conv' = [conv EXCEPT !.actions = s]
    BY <1>2, <2>a, Zenon
  <2> QED
    BY <1>1, <1>3, <2>1, <2>a DEF ConvType
<1>5. Written(conv'.actions) \in Text
  BY <1>4, WrittenType
<1>6. PICK n \in 0 .. Len(Written(conv'.actions)) :
        file' = SubSeq(Written(conv'.actions), 1, n)
  BY DEF Edit
<1>7. file' \in Text /\ \E lost \in Text : Written(conv'.actions) = file' \o lost
  <2>a. PICK w, f : w = Written(conv'.actions) /\ f = file'
    OBVIOUS
  <2>1. w \in Text /\ n \in 0 .. Len(w) /\ f = SubSeq(w, 1, n)
    BY <1>5, <1>6, <2>a
  <2>2. IsStart(f, w)
    BY <2>1, PrefixIsCut, Zenon
  <2>3. f \in Text /\ \E lost \in Text : w = f \o lost
    BY <2>2, Zenon DEF IsStart
  <2> QED
    BY <2>3, <2>a
<1>8. ReaderType'
  BY <1>1, <1>7, Zenon DEF ReaderType
<1> QED
  BY <1>1, <1>4, <1>7, <1>8 DEF TypeInv, ConvType, FileIsCut

\* The steps of the reader that leave what was written alone.
LEMMA ReaderStepType ==
  ASSUME TypeInv, UNCHANGED <<conv, file>>, ReaderType', pc \notin {"write", "edit"},
         pc' \notin {"write", "edit", "headers"}
  PROVE  TypeInv'
<1>1. ConvType' /\ FileIsCut' /\ file' \in Text
  BY DEF TypeInv, ConvType, FileIsCut
<1> QED
  BY <1>1 DEF TypeInv

LEMMA ReadTypeType == ASSUME TypeInv, ReadType PROVE TypeInv'
<1>1. ReaderType /\ UNCHANGED <<conv, file, data, buf, at, queue>> /\ pc = "type"
  BY DEF TypeInv, ReadType
<1>2. input' \in Text /\ action' \in ActionType /\ pc' \in {"type", "done", "properties", "threw"}
  <2>1. CASE input = <<>> /\ pc' = "done" /\ UNCHANGED <<input, action>>
    BY <1>1, <2>1 DEF ReaderType
  <2>2. CASE TakeLine /\ Skipped(Line) /\ UNCHANGED <<pc, action>>
    BY <1>1, <2>2, TakeLineType DEF ReaderType
  <2>3. CASE /\ TakeLine
             /\ \E t \in DOMAIN ActionTypes :
                  /\ Line = <<TypeLine(ActionTypes[t])>>
                  /\ action' = [type |-> ActionTypes[t], encoded |-> FALSE]
             /\ pc' = "properties"
    <3>1. PICK t \in DOMAIN ActionTypes : action' = [type |-> ActionTypes[t], encoded |-> FALSE]
      BY <2>3
    <3>2. ActionTypes[t] \in Types
      BY TypeLineFacts
    <3>3. action' \in ActionType
      BY <3>1, <3>2 DEF ActionType
    <3> QED
      BY <1>1, <2>3, <3>3, TakeLineType DEF ReaderType
  <2>4. CASE TakeLine /\ pc' = "threw" /\ UNCHANGED action
    BY <1>1, <2>4, TakeLineType DEF ReaderType
  <2> QED
    BY <2>1, <2>2, <2>3, <2>4 DEF ReadType
<1>3. ReaderType'
  BY <1>1, <1>2 DEF ReaderType
<1> QED
  BY <1>1, <1>2, <1>3, ReaderStepType

LEMMA ReadPropertyType == ASSUME TypeInv, ReadProperty PROVE TypeInv'
<1>1. ReaderType /\ UNCHANGED <<conv, file>> /\ pc = "properties" /\ Len(EndTag) \in Nat
  BY EndTagFacts DEF TypeInv, ReadProperty
<1>2. ReaderType' /\ pc' \in {"type", "threw", "properties", "data"}
  <2>1. CASE ActionPush(<<>>) /\ UNCHANGED <<input, reader>>
    <3>1. queue' \in Seq(Pushed) /\ pc' \in {"type", "threw"}
      BY <1>1, <2>1, PushFacts, TextFacts DEF ReaderType
    <3> QED
      BY <1>1, <2>1, <3>1 DEF ReaderType, reader
  <2>2. CASE /\ TakeLine /\ pc' = "data" /\ data' = <<>> /\ at' = 0
             /\ buf' \in {buf, [i \in 0 .. Len(EndTag) |-> -99]}
             /\ UNCHANGED <<action, queue>>
    <3>1. buf' \in Buffers
      BY <1>1, <2>2 DEF ReaderType, Buffers
    <3>2. input' \in Text
      BY <1>1, <2>2, TakeLineType DEF ReaderType
    <3> QED
      BY <1>1, <2>2, <3>1, <3>2, TextFacts DEF ReaderType
  <2>3. CASE /\ TakeLine
             /\ action' = [action EXCEPT !.encoded = @ \/ Line = <<EncodingLine>>]
             /\ UNCHANGED <<pc, data, buf, at, queue>>
    <3>1. action' \in ActionType
      <4>a. PICK b : b = (action.encoded \/ Line = <<EncodingLine>>)
        OBVIOUS
      <4>1. action' = [action EXCEPT !.encoded = b] /\ b \in BOOLEAN
        BY <2>3, <4>a
      <4> QED
        BY <1>1, <4>1 DEF ReaderType, ActionType
    <3>2. input' \in Text
      BY <1>1, <2>3, TakeLineType DEF ReaderType
    <3> QED
      BY <1>1, <2>3, <3>1, <3>2 DEF ReaderType
  <2> QED
    BY <2>1, <2>2, <2>3 DEF ReadProperty
<1> QED
  BY <1>1, <1>2, ReaderStepType

LEMMA ReadDataType == ASSUME TypeInv, ReadData PROVE TypeInv'
<1>1. ReaderType /\ UNCHANGED <<conv, file, action>> /\ pc = "data"
  BY DEF TypeInv, ReadData
<1>2. input \in Text /\ data \in Text /\ buf \in Buffers
  BY <1>1 DEF ReaderType
<1>3. ReaderType' /\ pc' \in {"data", "type", "threw"}
  <2>1. CASE CheckTag(buf, input, data)
    BY <1>1, <1>2, <2>1, CheckTagType
  <2>2. CASE pc' = "threw" /\ UNCHANGED <<input, data, buf, at, queue>>
    BY <1>1, <2>2 DEF ReaderType
  <2>3. CASE ~ReadFails /\ CheckTag(HeldBack, Rest, More)
    <3>1. HeldBack \in Buffers /\ Rest \in Text /\ More \in Text
      BY <1>1, <2>3, HeldBackFacts, GatheredType DEF GatheredFacts
    <3> QED
      BY <1>1, <2>3, <3>1, CheckTagType
  <2>4. CASE ~ReadFails /\ ReadOn
    <3>1. HeldBack \in Buffers /\ Rest \in Text /\ More \in Text
      BY <1>1, <2>4, HeldBackFacts, GatheredType DEF GatheredFacts
    <3> QED
      BY <1>1, <2>4, <3>1 DEF ReaderType, ReadOn
  <2> QED
    BY <2>1, <2>2, <2>3, <2>4, ReadDataCases
<1> QED
  BY <1>1, <1>3, ReaderStepType

LEMMA TypeStep == ASSUME TypeInv, [Next]_vars PROVE TypeInv'
<1>1. CASE Write
  <2>1. /\ ConvType /\ ReaderType /\ queue = <<>> /\ conv.actions \in Seq(Action)
    BY <1>1, ActionsType DEF TypeInv, Write
  <2>2. file' \in Text
    BY <1>1, <2>1, WrittenType DEF Write
  <2>3. pc' = "edit" /\ UNCHANGED <<conv, input, action, data, buf, at, queue>>
    BY <1>1 DEF Write, reader
  <2>4. ReaderType' /\ ConvType'
    BY <2>1, <2>3 DEF ReaderType, ConvType
  <2> QED
    BY <2>1, <2>2, <2>3, <2>4 DEF TypeInv
<1>2. CASE Edit
  BY <1>2, EditType
<1>3. CASE ReadHeaders
  <2>1. /\ UNCHANGED <<conv, file, input, action, data, buf, at, queue>>
        /\ pc = "headers" /\ pc' \in {"type", "threw"}
    BY <1>3 DEF ReadHeaders, reader
  <2>2. ReaderType'
    BY <2>1 DEF TypeInv, ReaderType
  <2> QED
    BY <2>1, <2>2, ReaderStepType
<1>4. CASE ReadType
  BY <1>4, ReadTypeType
<1>5. CASE ReadProperty
  BY <1>5, ReadPropertyType
<1>6. CASE ReadData
  BY <1>6, ReadDataType
<1>7. CASE UNCHANGED vars
  BY <1>7, Zenon DEF vars, reader, TypeInv, ReaderType, ConvType, FileIsCut
<1> QED
  BY <1>1, <1>2, <1>3, <1>4, <1>5, <1>6, <1>7 DEF Next

LEMMA TypeAlways == Spec => []TypeInv
<1>1. Init => TypeInv
  BY InitType
<1>2. TypeInv /\ [Next]_vars => TypeInv'
  BY TypeStep
<1> QED
  BY <1>1, <1>2, PTL DEF Spec

LEMMA TypedTokens == ASSUME TypeInv PROVE TokensArePlaceholders
<1>1. queue \in Seq(Pushed)
  BY DEF TypeInv, ReaderType
<1>2. ASSUME NEW q \in 1 .. Len(queue)
      PROVE  LET d == queue[q].data   t == queue[q].tokens
             IN  /\ \A i \in DOMAIN t : IsPlaceholder(d, t[i].begin, t[i].end)
                 /\ \A i \in 1 .. Len(t) - 1 : t[i].end <= t[i + 1].begin
                 /\ \A b \in DOMAIN d, e \in 1 .. Len(d) + 1 :
                      IsPlaceholder(d, b, e) =>
                        \E i \in DOMAIN t : t[i].begin <= b /\ b < t[i].end
  <2>1. queue[q] \in Pushed
    BY <1>1, ElementOfSeq
  <2>2. PICK y \in Types \cup {"NONE"}, d \in Text : queue[q] = Record(y, d)
    BY <2>1 DEF Pushed
  <2>a. PICK t : t = SubTokens(d)
    OBVIOUS
  <2>3. queue[q].data = d /\ queue[q].tokens = t
    BY <2>2, <2>a DEF Record
  <2>4. TokensFrom(d, 1, t)
    BY <2>a, SubTokensFacts
  <2>5. DOMAIN t = 1 .. Len(t) /\ DOMAIN d = 1 .. Len(d)
    BY <2>4, LenProperties DEF TokensFrom, Text
  <2>6. /\ \A i \in DOMAIN t : IsPlaceholder(d, t[i].begin, t[i].end)
        /\ \A i \in 1 .. Len(t) - 1 : t[i].end <= t[i + 1].begin
    BY <2>4, <2>5 DEF TokensFrom
  <2>7. \A b \in DOMAIN d, e \in 1 .. Len(d) + 1 :
          IsPlaceholder(d, b, e) => \E i \in DOMAIN t : t[i].begin <= b /\ b < t[i].end
    BY <2>4, <2>5 DEF TokensFrom
  <2> QED
    BY <2>3, <2>6, <2>7
<1> QED
  BY <1>2 DEF TokensArePlaceholders

\* create_action: whatever is in the file, the sub-tokens of each action that is
\* read are placeholders in its data, one after the other, and there is none
\* outside them.
THEOREM TokensAlwaysPlaceholders == Spec => []TokensArePlaceholders
<1>1. TypeInv => TokensArePlaceholders
  BY TypedTokens
<1> QED
  BY <1>1, TypeAlways, PTL

-----------------------------------------------------------------------------
(* Lines.                                                                  *)

LEMMA LineEndIs ==
  ASSUME input \in Text, NEW n \in 1 .. Len(input), input[n] = NL,
         \A i \in 1 .. n - 1 : input[i] # NL
  PROVE  LineEnd = n
<1>1. /\ Len(input) \in Nat /\ LineEnd \in 1 .. Len(input) + 1
      /\ LineEnd = Len(input) + 1 \/ input[LineEnd] = NL
      /\ LineEnd <= n
  BY LineEndFacts
<1>2. LineEnd \in 1 .. Len(input) /\ input[LineEnd] = NL
  BY <1>1
<1>3. LineEnd \notin 1 .. n - 1
  BY <1>2
<1> QED
  BY <1>1, <1>3

LEMMA RestOfLines ==
  ASSUME NEW p \in Text, NEW r \in Text, input = p \o r, LineEnd = Len(p), TakeLine
  PROVE  input' = r
<1>1. IsCut(p, r, input)
  BY Cut, Zenon
<1> QED
  BY <1>1, Zenon DEF IsCut, TakeLine

LEMMA BlankLine ==
  ASSUME NEW r \in Text, input = <<NL>> \o r
  PROVE  input \in Text /\ input # <<>> /\ Line = <<>> /\ (TakeLine => input' = r)
<1>1. <<NL>> \in Text /\ Len(<<NL>>) = 1 /\ <<NL>>[1] = NL
  BY ShortTexts DEF NL
<1>a. PICK p : p = <<NL>>
  OBVIOUS
<1>2. input \in Text /\ Len(input) = 1 + Len(r) /\ IsSlice(input, 0, 1, p)
  <2>1. p \in Text /\ Len(p) = 1 /\ input = p \o r
    BY <1>1, <1>a, Zenon
  <2>2. input \in Text /\ Len(input) = Len(p) + Len(r) /\ IsSlice(input, 0, Len(p), p)
    BY <2>1, TextCat, Zenon
  <2> QED
    BY <2>1, <2>2, Zenon
<1>3. Len(r) \in Nat /\ 1 \in 1 .. Len(input)
  BY <1>2, TextFacts
<1>4. input[1] = NL
  <2>1. p[1] = input[0 + 1] /\ 0 + 1 = 1
    BY <1>2 DEF IsSlice
  <2> QED
    BY <2>1, <1>1, <1>a
<1>5. LineEnd = 1
  BY <1>2, <1>3, <1>4, LineEndIs
<1>6. Line = <<>>
  <2>1. {i \in 1 .. LineEnd - 1 : input[i] \notin Space} = {}
    BY <1>5
  <2> QED
    BY <2>1 DEF Line
<1>7. input # <<>>
  BY <1>2, <1>3, EmptySeq
<1>8. TakeLine => input' = r
  BY <1>1, <1>5, <1>a, RestOfLines
<1> QED
  BY <1>2, <1>6, <1>7, <1>8

LEMMA SymbolLine ==
  ASSUME NEW r \in Text, NEW s \in Int, s < 0, input = <<s, NL>> \o r
  PROVE  input \in Text /\ input # <<>> /\ Line = <<s>> /\ (TakeLine => input' = r)
<1>a. PICK p : p = <<s, NL>>
  OBVIOUS
<1>1. p \in Text /\ Len(p) = 2 /\ p[1] = s /\ p[2] = NL /\ input = p \o r
  BY <1>a, ShortTexts DEF NL
<1>2. input \in Text /\ Len(input) = 2 + Len(r) /\ IsSlice(input, 0, 2, p)
  <2>1. input \in Text /\ Len(input) = Len(p) + Len(r) /\ IsSlice(input, 0, Len(p), p)
    BY <1>1, TextCat, Zenon
  <2> QED
    BY <1>1, <2>1, Zenon
<1>3. Len(r) \in Nat /\ 2 \in 1 .. Len(input) /\ 1 \in 1 .. Len(input)
  BY <1>2, TextFacts
<1>4. input[1] = s /\ input[2] = NL
  <2>1. p[1] = input[0 + 1] /\ 0 + 1 = 1 /\ p[2] = input[0 + 2] /\ 0 + 2 = 2
    BY <1>2 DEF IsSlice
  <2> QED
    BY <2>1, <1>1
<1>5. LineEnd = 2
  <2>1. \A i \in 1 .. 2 - 1 : input[i] # NL
    BY <1>4 DEF NL
  <2> QED
    BY <1>2, <1>3, <1>4, <2>1, LineEndIs
<1>6. Line = <<s>>
  <2>a. PICK S : S = {i \in 1 .. LineEnd - 1 : input[i] \notin Space}
    OBVIOUS
  <2>1. S = {1}
    BY <1>4, <1>5, <2>a DEF Space
  <2>2. Min(S) = 1 /\ Max(S) = 1
    BY <2>1 DEF Min, Max
  <2>3. Line = SubSeq(input, Min(S), Max(S))
    BY <2>a, <2>1 DEF Line
  <2>4. Line = SubSeq(input, 1, 1)
    BY <2>2, <2>3
  <2>5. SubSeq(input, 1, 1) \in Seq(Int) /\ Len(SubSeq(input, 1, 1)) = 1 /\ SubSeq(input, 1, 1)[1] = s
    <3>1. \A i \in 1 .. 1 : input[i] \in Int
      BY <1>4
    <3>2. /\ SubSeq(input, 1, 1) \in Seq(Int)
          /\ Len(SubSeq(input, 1, 1)) = IF 1 <= 1 THEN 1 - 1 + 1 ELSE 0
          /\ \A i \in 1 .. 1 - 1 + 1 : SubSeq(input, 1, 1)[i] = input[1 + i - 1]
      BY <3>1, SubSeqProperties
    <3> QED
      BY <1>4, <3>2
  <2>6. <<s>> \in Seq(Int) /\ Len(<<s>>) = 1 /\ <<s>>[1] = s
    OBVIOUS
  <2>7. SubSeq(input, 1, 1) = <<s>>
    <3>a. PICK x, y : x = SubSeq(input, 1, 1) /\ y = <<s>>
      OBVIOUS
    <3>1. x \in Seq(Int) /\ y \in Seq(Int) /\ Len(x) = Len(y) /\ Len(x) = 1 /\ x[1] = y[1]
      BY <2>5, <2>6, <3>a
    <3>2. \A i \in 1 .. Len(x) : x[i] = y[i]
      BY <3>1
    <3>3. x = y
      BY <3>1, <3>2, SeqEqual
    <3> QED
      BY <3>3, <3>a
  <2> QED
    BY <2>4, <2>7
<1>7. input # <<>>
  BY <1>2, <1>3, EmptySeq
<1>8. TakeLine => input' = r
  BY <1>1, <1>5, RestOfLines
<1> QED
  BY <1>2, <1>6, <1>7, <1>8

\* What may stand between the end of one action and the type of the next.
Waiting == {<<NL, NL, SeparatorLine, NL, NL>>, <<NL, SeparatorLine, NL, NL>>,
            <<SeparatorLine, NL, NL>>, <<NL>>, <<>>}

LEMMA WaitingFacts ==
  \A p \in Waiting :
    /\ p \in Text
    /\ p = <<>> \/ \E q \in Waiting : p = <<NL>> \o q \/ p = <<SeparatorLine, NL>> \o q
<1>1. ASSUME NEW p \in Waiting PROVE p \in Text
  <2>1. NL \in Int /\ SeparatorLine \in Int
    BY DEF NL, SeparatorLine
  <2>2. /\ <<NL, NL, SeparatorLine, NL, NL>> \in Text /\ <<NL, SeparatorLine, NL, NL>> \in Text
        /\ <<SeparatorLine, NL, NL>> \in Text /\ <<NL>> \in Text /\ <<>> \in Text
    BY <2>1 DEF Text
  <2> QED
    BY <1>1, <2>2, Zenon DEF Waiting
<1>2. <<NL, NL, SeparatorLine, NL, NL>> = <<NL>> \o <<NL, SeparatorLine, NL, NL>>
  OBVIOUS
<1>3. <<NL, SeparatorLine, NL, NL>> = <<NL>> \o <<SeparatorLine, NL, NL>>
  OBVIOUS
<1>4. <<SeparatorLine, NL, NL>> = <<SeparatorLine, NL>> \o <<NL>>
  OBVIOUS
<1>5. <<NL>> = <<NL>> \o <<>>
  OBVIOUS
<1>6. ASSUME NEW p \in Waiting, p # <<>>
      PROVE  \E q \in Waiting : p = <<NL>> \o q \/ p = <<SeparatorLine, NL>> \o q
  BY <1>2, <1>3, <1>4, <1>5, <1>6, Zenon DEF Waiting
<1> QED
  BY <1>1, <1>6

-----------------------------------------------------------------------------
(* What the file holds behind the end tag of an action.                    *)

\* An action up to its end tag, with what stands in front of it.
Tagline(a) == <<TypeLine(a.type), NL>> \o Properties(a)
Opened(a)  == Opening \o Tagline(a)

FileBehind(i) ==
  IF i = 0 THEN file
  ELSE SubSeq(file, Len(Written(Leading(conv.actions, i))), Len(file))

LEMMA TaglineFacts ==
  \A a \in Action : /\ Tagline(a) \in Text /\ Opened(a) \in Text
                    /\ Opening \o WriteAction(a) = Opened(a) \o <<NL>>
<1> SUFFICES ASSUME NEW a \in Action
             PROVE  /\ Tagline(a) \in Text /\ Opened(a) \in Text
                    /\ Opening \o WriteAction(a) = Opened(a) \o <<NL>>
  OBVIOUS
<1>1. /\ <<TypeLine(a.type), NL>> \in Text /\ Properties(a) \in Text
      /\ <<NL>> \in Text /\ Opening \in Text
  BY PartTypes, OpeningType, Zenon
<1>2. Tagline(a) \in Text
  BY <1>1, TextCatType, Zenon DEF Tagline
<1>3. Opened(a) \in Text
  BY <1>1, <1>2, TextCatType, Zenon DEF Opened
<1>4. WriteAction(a) = Tagline(a) \o <<NL>>
  BY WriteActionFacts, Zenon DEF Tagline
<1>5. Associates(Opening, Tagline(a), <<NL>>)
  BY <1>1, <1>2, TextAssociates, Zenon
<1> QED
  BY <1>2, <1>3, <1>4, <1>5, Zenon DEF Associates, Opened

\* d is what the file holds up to the end tag of the i-th action.
Around(i, d) ==
  /\ d \in Text /\ FileBehind(i) \in Text /\ file = d \o FileBehind(i)
  /\ Written(Leading(conv.actions, i)) = d \o <<NL>>
  /\ d = Written(Leading(conv.actions, i - 1)) \o Opened(conv.actions[i])
  /\ \E lost \in Text :
       <<NL>> \o Written(Trailing(conv.actions, i)) = FileBehind(i) \o lost

LEMMA KeptAround ==
  ASSUME ConvType, file \in Text, FileIsCut, NEW i \in 1 .. Len(conv.actions), Kept(i)
  PROVE  \E d : Around(i, d)
<1>a. PICK s, a, w, u, v : /\ s = conv.actions /\ a = s[i] /\ w = Written(s)
                           /\ u = Written(Leading(s, i)) /\ v = Written(Trailing(s, i))
  OBVIOUS
<1>b. PICK u0, o, nl : u0 = Written(Leading(s, i - 1)) /\ o = Opened(a) /\ nl = <<NL>>
  OBVIOUS
<1>1. s \in Seq(Action) /\ a \in Action /\ Len(s) \in Nat /\ i \in 1 .. Len(s)
  BY <1>a, ActionsType, ElementOfSeq, LenProperties
<1>2. i \in 0 .. Len(s) /\ i - 1 \in 0 .. Len(s) /\ i \in Nat /\ i # 0
  BY <1>1
<1>3. /\ u \in Text /\ v \in Text /\ u0 \in Text /\ o \in Text /\ nl \in Text /\ Len(nl) = 1
      /\ w = u \o v
  <2>1. /\ Leading(s, i) \in Seq(Action) /\ Trailing(s, i) \in Seq(Action)
        /\ Leading(s, i - 1) \in Seq(Action) /\ w = u \o v
    BY <1>1, <1>2, <1>a, WrittenInTwo, Zenon
  <2>2. u \in Text /\ v \in Text /\ u0 \in Text
    BY <2>1, <1>a, <1>b, WrittenType, Zenon
  <2>3. o \in Text
    BY <1>1, <1>b, TaglineFacts, Zenon
  <2>4. nl \in Text /\ Len(nl) = 1
    BY <1>b, ShortTexts DEF NL
  <2> QED
    BY <2>1, <2>2, <2>3, <2>4
<1>c. PICK d, e : d = u0 \o o /\ e = nl \o v
  OBVIOUS
<1>4. d \in Text /\ e \in Text
  BY <1>3, <1>c, TextCatType, Zenon
<1>5. u = d \o nl
  <2>1. u = u0 \o (Opening \o WriteAction(a))
    BY <1>1, <1>a, <1>b, WrittenNext, Zenon
  <2>2. Opening \o WriteAction(a) = o \o nl
    BY <1>1, <1>b, TaglineFacts, Zenon
  <2>3. Associates(u0, o, nl)
    BY <1>3, TextAssociates, Zenon
  <2> QED
    BY <2>1, <2>2, <2>3, <1>c, Zenon DEF Associates
<1>6. w = d \o e
  <2>1. Associates(d, nl, v)
    BY <1>3, <1>4, TextAssociates, Zenon
  <2> QED
    BY <1>3, <1>5, <1>c, <2>1, Zenon DEF Associates
<1>7. PICK lost \in Text : w = file \o lost
  BY <1>a, Zenon DEF FileIsCut
<1>d. PICK k : k = Len(d)
  OBVIOUS
<1>8. k \in Nat /\ Len(u) = k + 1
  <2>1. k \in Nat
    BY <1>4, <1>d, TextFacts
  <2>2. u \in Text /\ Len(u) = Len(d) + Len(nl)
    BY <1>3, <1>4, <1>5, TextCat, Zenon
  <2> QED
    BY <1>3, <1>d, <2>1, <2>2
<1>9. k <= Len(file)
  <2>1. Len(file) >= Len(u) - 1
    BY <1>a, Zenon DEF Kept, Leading
  <2>2. Len(file) \in Nat
    BY TextFacts
  <2> QED
    BY <1>8, <2>1, <2>2
<1>10. PICK c \in Text : file = d \o c /\ e = c \o lost
  <2>1. IsBetween(d, file, e, lost)
    BY <1>4, <1>6, <1>7, <1>8, <1>9, <1>d, CutTwice, Zenon
  <2> QED
    BY <2>1, Zenon DEF IsBetween
<1>11. c = FileBehind(i)
  <2>1. IsCut(d, c, file)
    BY <1>4, <1>10, Cut, Zenon
  <2>2. SubSeq(file, k + 1, Len(file)) = c
    BY <2>1, <1>d, Zenon DEF IsCut
  <2>3. FileBehind(i) = SubSeq(file, Len(u), Len(file))
    BY <1>2, <1>a, Zenon DEF FileBehind
  <2> QED
    BY <1>8, <2>2, <2>3, Zenon
<1>12. \E l \in Text : nl \o v = FileBehind(i) \o l
  BY <1>7, <1>10, <1>11, <1>c, Zenon
<1>13. Around(i, d)
  BY <1>4, <1>5, <1>10, <1>11, <1>12, <1>a, <1>b, <1>c, Zenon DEF Around
<1> QED
  BY <1>13

LEMMA IntactFacts ==
  ASSUME NEW n \in Nat, Intact(n)
  PROVE  /\ \A m \in 0 .. n : Intact(m)
         /\ \A i \in 1 .. n : Kept(i) /\ Legible(conv.actions[i].data)
BY DEF Intact

LEMMA BlankOpening ==
  <<NL, NL, SeparatorLine, NL, NL>> = <<NL>> \o <<NL, SeparatorLine, NL, NL>>
OBVIOUS

\* In front of an action that the file keeps there is the end of the one before.
LEMMA BehindNext ==
  ASSUME ConvType, file \in Text, FileIsCut, NEW n \in Nat, n < Len(conv.actions), Intact(n + 1)
  PROVE  \E p \in Waiting :
           /\ FileBehind(n) = p \o (Tagline(conv.actions[n + 1]) \o FileBehind(n + 1))
           /\ FileBehind(n + 1) \in Text /\ Tagline(conv.actions[n + 1]) \in Text
<1>a. PICK s, m, a, t, b : /\ s = conv.actions /\ m = n + 1 /\ a = s[m] /\ t = Tagline(a)
                           /\ b = FileBehind(m)
  OBVIOUS
<1>1. /\ s \in Seq(Action) /\ Len(s) \in Nat /\ m \in 1 .. Len(s) /\ a \in Action
      /\ m - 1 = n
  <2>1. s \in Seq(Action) /\ Len(s) \in Nat
    BY <1>a, ActionsType, LenProperties
  <2>2. m \in 1 .. Len(s) /\ m - 1 = n
    BY <1>a, <2>1
  <2> QED
    BY <1>a, <2>1, <2>2, ElementOfSeq
<1>2. Kept(m)
  <2>1. m \in Nat /\ Intact(m) /\ m \in 1 .. m
    BY <1>1, <1>a
  <2> QED
    BY <2>1, IntactFacts
<1>3. PICK d : Around(m, d)
  <2>1. m \in 1 .. Len(conv.actions)
    BY <1>1, <1>a
  <2> QED
    BY <1>2, <2>1, KeptAround
<1>b. PICK u0, o : u0 = Written(Leading(s, n)) /\ o = Opened(a)
  OBVIOUS
<1>4. /\ b \in Text /\ file = d \o b /\ d = u0 \o o /\ d \in Text
  BY <1>1, <1>3, <1>a, <1>b, Zenon DEF Around
<1>5. /\ u0 \in Text /\ o \in Text /\ t \in Text /\ Opening \in Text /\ o = Opening \o t
  <2>1. n \in 0 .. Len(s)
    BY <1>1, <1>a
  <2>2. u0 \in Text
    BY <1>1, <1>b, <2>1, WrittenInTwo, WrittenType, Zenon
  <2> QED
    BY <1>1, <1>a, <1>b, <2>2, TaglineFacts, OpeningType, Zenon DEF Opened
<1>c. PICK r, z : r = t \o b /\ z = o \o b
  OBVIOUS
<1>6. r \in Text /\ z \in Text /\ z = Opening \o r
  <2>1. Associates(Opening, t, b)
    BY <1>4, <1>5, TextAssociates, Zenon
  <2> QED
    BY <1>4, <1>5, <1>c, <2>1, TextCatType, Zenon DEF Associates
<1>7. file = u0 \o z
  <2>1. Associates(u0, o, b)
    BY <1>4, <1>5, TextAssociates, Zenon
  <2> QED
    BY <1>4, <1>c, <2>1, Zenon DEF Associates
<1>8. \E p \in Waiting : FileBehind(n) = p \o r
  <2>1. CASE n = 0
    <3>1. u0 = <<>>
      <4>1. Leading(s, 0) = <<>>
        BY SubSeqEmpty DEF Leading
      <4>2. <<>> \in Seq(Action)
        BY EmptySeq
      <4>3. Written(<<>>) = FlatMap(Block, <<>>)
        BY <4>2, WrittenIsFlatMap, Zenon
      <4>4. FlatMap(Block, <<>>) = <<>>
        BY FlatMapEmpty
      <4> QED
        BY <1>b, <2>1, <4>1, <4>3, <4>4, Zenon
    <3>2. file = z
      BY <1>6, <1>7, <3>1, TextFacts, Zenon
    <3>3. FileBehind(n) = z
      BY <2>1, <3>2, Zenon DEF FileBehind
    <3>4. Opening \in Waiting
      BY DEF Opening, Waiting
    <3> QED
      BY <1>6, <3>3, <3>4, Zenon
  <2>2. CASE n # 0
    <3>1. n \in 1 .. Len(conv.actions) /\ Kept(n)
      <4>1. n \in 1 .. n + 1 /\ n + 1 \in Nat
        BY <2>2
      <4> QED
        BY <1>1, <1>a, <2>2, <4>1, IntactFacts
    <3>2. PICK d0 : Around(n, d0)
      BY <3>1, KeptAround
    <3>b. PICK nl, c, y : nl = <<NL>> /\ c = FileBehind(n) /\ y = nl \o z
      OBVIOUS
    <3>3. d0 \in Text /\ c \in Text /\ file = d0 \o c /\ u0 = d0 \o nl /\ nl \in Text
      <4>1. nl \in Text
        BY <3>b, ShortTexts DEF NL
      <4> QED
        BY <3>2, <3>b, <1>a, <1>b, <4>1, Zenon DEF Around
    <3>4. file = d0 \o y /\ y \in Text
      <4>1. Associates(d0, nl, z)
        BY <1>6, <3>3, TextAssociates, Zenon
      <4>2. y \in Text
        BY <1>6, <3>3, <3>b, TextCatType, Zenon
      <4> QED
        BY <1>7, <3>3, <3>b, <4>1, <4>2, Zenon DEF Associates
    <3>5. c = y
      <4>1. IsCut(d0, c, file) /\ IsCut(d0, y, file)
        BY <3>3, <3>4, Cut, Zenon
      <4> QED
        BY <4>1, Zenon DEF IsCut
    <3>6. y = (nl \o Opening) \o r
      <4>1. Associates(nl, Opening, r)
        BY <1>5, <1>6, <3>3, TextAssociates, Zenon
      <4> QED
        BY <1>6, <3>b, <4>1, Zenon DEF Associates
    <3>7. nl \o Opening \in Waiting
      BY <3>b, BlankOpening, Zenon DEF Opening, Waiting
    <3> QED
      BY <3>5, <3>6, <3>7, <3>b, Zenon
  <2> QED
    BY <2>1, <2>2
<1> QED
  BY <1>4, <1>5, <1>8, <1>a, <1>c, Zenon

\* Behind the last action there is at most the end of its line.
LEMMA BehindLast ==
  ASSUME ConvType, file \in Text, FileIsCut, Intact(Len(conv.actions))
  PROVE  FileBehind(Len(conv.actions)) \in {<<>>, <<NL>>}
<1>a. PICK s, n : s = conv.actions /\ n = Len(s)
  OBVIOUS
<1>1. s \in Seq(Action) /\ n \in Nat
  BY <1>a, ActionsType, LenProperties
<1>0. Written(<<>>) = <<>>
  <2>2. <<>> \in Seq(Action)
    BY EmptySeq
  <2>3. Written(<<>>) = FlatMap(Block, <<>>)
    BY <2>2, WrittenIsFlatMap, Zenon
  <2> QED
    BY <2>3, FlatMapEmpty, Zenon
<1>2. CASE n = 0
  <2>1. s = <<>>
    BY <1>1, <1>2, <1>a, EmptySeq
  <2>2. PICK lost \in Text : <<>> = file \o lost
    BY <1>0, <1>a, <2>1, Zenon DEF FileIsCut
  <2>3. Len(file) + Len(lost) = 0
    <3>a. PICK e : e = <<>>
      OBVIOUS
    <3>1. e = file \o lost /\ Len(e) = 0
      BY <2>2, <3>a, TextFacts, Zenon
    <3>2. Len(e) = Len(file) + Len(lost)
      BY <3>1, TextCat, Zenon
    <3> QED
      BY <3>1, <3>2
  <2>4. Len(file) = 0
    BY <2>3, TextFacts
  <2>5. file = <<>>
    BY <2>4, EmptySeq DEF Text
  <2> QED
    BY <1>2, <1>a, <2>5, Zenon DEF FileBehind
<1>3. CASE n # 0
  <2>1. n \in 1 .. n /\ n \in 1 .. Len(conv.actions) /\ Intact(n)
    BY <1>1, <1>3, <1>a
  <2>2. Kept(n)
    BY <1>1, <2>1, IntactFacts
  <2>3. PICK d : Around(n, d)
    BY <2>1, <2>2, KeptAround
  <2>4. Trailing(s, n) = <<>>
    <3>1. n < n + 1 /\ n + 1 \in Int /\ n \in Int
      BY <1>1
    <3> QED
      BY <1>a, <3>1, SubSeqEmpty DEF Trailing
  <2>b. PICK nl, c, z : nl = <<NL>> /\ c = FileBehind(n) /\ z = nl \o <<>>
    OBVIOUS
  <2>5. nl \in Text /\ Len(nl) = 1 /\ c \in Text /\ z = nl
    <3>1. nl \in Text /\ Len(nl) = 1
      BY <2>b, ShortTexts DEF NL
    <3> QED
      BY <2>3, <2>b, <3>1, TextFacts, Zenon DEF Around
  <2>6. PICK lost \in Text : z = c \o lost
    BY <1>0, <1>a, <2>3, <2>4, <2>b, Zenon DEF Around
  <2>7. Len(z) = Len(c) + Len(lost) /\ IsSlice(z, 0, Len(c), c)
    BY <2>5, <2>6, TextCat, Zenon
  <2>8. Len(c) \in Nat /\ Len(lost) \in Nat /\ Len(c) + Len(lost) = 1
    BY <2>5, <2>7, TextFacts
  <2>c. PICK p, q : p = Len(c) /\ q = Len(lost)
    OBVIOUS
  <2>9. CASE Len(c) = 0
    <3>1. c = <<>>
      BY <2>5, <2>9, EmptySeq DEF Text
    <3> QED
      BY <3>1, <2>b, <1>a
  <2>10. CASE Len(c) = 1
    <3>1. c[1] = z[0 + 1] /\ 0 + 1 = 1
      BY <2>7, <2>10 DEF IsSlice
    <3>2. \A i \in 1 .. Len(c) : c[i] = nl[i]
      BY <2>5, <2>10, <3>1
    <3>3. c = nl
      BY <2>5, <2>10, <3>2, SeqEqual DEF Text
    <3> QED
      BY <3>3, <2>b, <1>a
  <2>11. Len(c) = 0 \/ Len(c) = 1
    <3>1. p \in Nat /\ q \in Nat /\ p + q = 1
      BY <2>8, <2>c, Zenon
    <3>2. p = 0 \/ p = 1
      BY <3>1
    <3> QED
      BY <3>2, <2>c, Zenon
  <2> QED
    BY <2>9, <2>10, <2>11
<1> QED
  BY <1>2, <1>3

-----------------------------------------------------------------------------
(* Where the reader is while it reads action k + 1: what input has to be,  *)
(* if the file keeps that action.                                          *)

Due(k) == conv.actions[k + 1]

AtType(k, unread) ==
  /\ k <= Len(conv.actions)
  /\ k < Len(conv.actions) /\ Intact(k + 1) =>
       \E p \in Waiting : unread = p \o (Tagline(Due(k)) \o FileBehind(k + 1))
  /\ k = Len(conv.actions) => unread \in {<<>>, <<NL>>}

StartPart(a) == <<StartLine, NL>> \o Tagged(a)

AtProperties(k, unread, act) ==
  /\ act.type = Due(k).type
  /\ \/ ~act.encoded /\ unread = Properties(Due(k)) \o FileBehind(k + 1)
     \/ /\ act.encoded = IsBinary(Due(k).data)
        /\ unread = StartPart(Due(k)) \o FileBehind(k + 1)

AtData(k, unread, act, d, b, n) ==
  /\ act.type = Due(k).type /\ act.encoded = IsBinary(Due(k).data)
  /\ (d \o Held(b, n)) \o unread = Tagged(Due(k)) \o FileBehind(k + 1)
  /\ Len(d \o Held(b, n)) < Len(Tagged(Due(k)))
  /\ n = 0 => d = <<>>
  /\ n = Len(EndTag) + 1 => b[Len(EndTag)] = Delim

Place ==
  LET k == Len(queue)
  IN  Intact(k) =>
        /\ pc = "type" => AtType(k, input)
        /\ pc = "properties" =>
             k < Len(conv.actions) /\ (Intact(k + 1) => AtProperties(k, input, action))
        /\ pc = "data" =>
             k < Len(conv.actions) /\ (Intact(k + 1) => AtData(k, input, action, data, buf, at))

Faithful == ReadsAsWritten /\ Place

LEMMA IntactStays ==
  ASSUME UNCHANGED <<conv, file>>
  PROVE  \A n : Intact(n)' <=> Intact(n)
<1>1. ASSUME NEW n PROVE Intact(n)' <=> Intact(n)
  BY DEF Intact, Kept
<1> QED
  BY <1>1

LEMMA PlaceStays ==
  ASSUME UNCHANGED <<conv, file>>
  PROVE  Place' <=>
    (Intact(Len(queue')) =>
        /\ pc' = "type" => AtType(Len(queue'), input')
        /\ pc' = "properties" =>
             /\ Len(queue') < Len(conv.actions)
             /\ Intact(Len(queue') + 1) => AtProperties(Len(queue'), input', action')
        /\ pc' = "data" =>
             /\ Len(queue') < Len(conv.actions)
             /\ Intact(Len(queue') + 1) => AtData(Len(queue'), input', action', data', buf', at'))
<1>a. PICK k : k = Len(queue')
  OBVIOUS
<1>1. (Intact(k)' <=> Intact(k)) /\ (Intact(k + 1)' <=> Intact(k + 1))
  BY IntactStays
<1>2. conv' = conv /\ file' = file
  OBVIOUS
<1>3. FileBehind(k + 1)' = FileBehind(k + 1)
  BY <1>2 DEF FileBehind
<1> QED
  BY <1>1, <1>2, <1>3, <1>a DEF Place, AtType, AtProperties, AtData, Due

LEMMA StaysFaithful ==
  ASSUME Faithful, UNCHANGED <<conv, file, queue>>
  PROVE  ReadsAsWritten'
<1>1. \A n : Intact(n)' <=> Intact(n)
  BY IntactStays
<1> QED
  BY <1>1 DEF Faithful, ReadsAsWritten, Same

\* Where the reader looks for the next action.
LEMMA AtTypeNow ==
  ASSUME ConvType, file \in Text, FileIsCut, NEW k \in Nat, k <= Len(conv.actions), Intact(k)
  PROVE  AtType(k, FileBehind(k))
<1>1. CASE k < Len(conv.actions)
  <2>1. ASSUME Intact(k + 1)
        PROVE  \E p \in Waiting : FileBehind(k) = p \o (Tagline(Due(k)) \o FileBehind(k + 1))
    BY <1>1, <2>1, BehindNext, Zenon DEF Due
  <2>2. k # Len(conv.actions)
    BY <1>1
  <2> QED
    BY <2>1, <2>2, Zenon DEF AtType
<1>2. CASE k = Len(conv.actions)
  <2>1. FileBehind(k) \in {<<>>, <<NL>>}
    BY <1>2, BehindLast, Zenon
  <2>2. ~(k < Len(conv.actions))
    BY <1>2
  <2> QED
    BY <2>1, <2>2, Zenon DEF AtType
<1>3. Len(conv.actions) \in Nat
  BY ActionsType, LenProperties
<1> QED
  BY <1>1, <1>2, <1>3

IsAppended(S, q, e, r) ==
  /\ r \in Seq(S) /\ Len(r) = Len(q) + 1
  /\ \A i \in 1 .. Len(q) : r[i] = q[i]
  /\ r[Len(q) + 1] = e

LEMMA AppendFacts == \A S, q, e : q \in Seq(S) /\ e \in S => IsAppended(S, q, e, Append(q, e))
BY AppendProperties DEF IsAppended

\* The data of the next action, if the file keeps it, and where input is then.
IsRead(d) ==
  LET k == Len(queue)
  IN  /\ k < Len(conv.actions) /\ d = Stored(Due(k).data)
      /\ action.type = Due(k).type /\ action.encoded = IsBinary(Due(k).data)
      /\ input' = FileBehind(k + 1)

LEMMA DecodedData ==
  ASSUME NEW d \in Data, NEW encoded, encoded = IsBinary(d)
  PROVE  /\ ~(encoded /\ InvalidBase64(Stored(d)))
         /\ (IF encoded THEN FromBase64(Stored(d)) ELSE Stored(d)) = d
<1>1. CASE IsBinary(d)
  <2>1. d \in Seq(Byte) /\ Stored(d) = ToBase64(d)
    BY <1>1, DataFacts DEF Stored
  <2>2. ~InvalidBase64(ToBase64(d)) /\ FromBase64(ToBase64(d)) = d
    BY <2>1, EncodedIsValid, FromToBase64
  <2> QED
    BY <1>1, <2>1, <2>2
<1>2. CASE ~IsBinary(d)
  BY <1>2 DEF Stored
<1> QED
  BY <1>1, <1>2

LEMMA PushFaithful ==
  ASSUME TypeInv, FileIsCut, Faithful, UNCHANGED <<conv, file, action>>, NEW d \in Text,
         ActionPush(d), Intact(Len(queue) + 1) => IsRead(d)
  PROVE  Faithful'
<1>a. PICK k, q, e : k = Len(queue) /\ q = queue' /\ e = Entry(d)
  OBVIOUS
<1>1. /\ ConvType /\ file \in Text /\ action \in ActionType /\ queue \in Seq(Pushed)
      /\ k \in Nat
  BY <1>a, LenProperties DEF TypeInv, ReaderType
<1>2. \A n : Intact(n)' <=> Intact(n)
  BY IntactStays
<1>3. CASE pc' = "threw" /\ queue' = queue
  <2>1. ReadsAsWritten'
    BY <1>3, StaysFaithful
  <2>2. Place'
    BY <1>3, PlaceStays
  <2> QED
    BY <2>1, <2>2 DEF Faithful
<1>4. CASE pc' = "type" /\ q = Append(queue, e) /\ e \in Pushed
  <2>1. Len(q) = k + 1 /\ DOMAIN q = 1 .. k + 1 /\ q[k + 1] = e /\ \A i \in 1 .. k : q[i] = queue[i]
    <3>1. /\ q \in Seq(Pushed) /\ Len(q) = Len(queue) + 1
          /\ \A i \in 1 .. Len(queue) : q[i] = queue[i]
          /\ q[Len(queue) + 1] = e
      <4>1. queue \in Seq(Pushed) /\ e \in Pushed
        BY <1>1, <1>4
      <4>2. IsAppended(Pushed, queue, e, Append(queue, e))
        BY <4>1, AppendFacts, Zenon
      <4>3. q = Append(queue, e)
        BY <1>4
      <4> QED
        BY <4>2, <4>3, Zenon DEF IsAppended
    <3>2. DOMAIN q = 1 .. Len(q)
      BY <3>1, LenProperties
    <3> QED
      BY <1>a, <3>1, <3>2
  <2>2. ASSUME Intact(k + 1)
        PROVE  /\ k < Len(conv.actions) /\ AtType(k + 1, input')
               /\ e.type = conv.actions[k + 1].type /\ e.data = conv.actions[k + 1].data
    <3>1. IsRead(d)
      BY <2>2, <1>a
    <3>2. /\ k < Len(conv.actions) /\ d = Stored(Due(k).data)
          /\ action.type = Due(k).type /\ action.encoded = IsBinary(Due(k).data)
          /\ input' = FileBehind(k + 1)
      BY <3>1, <1>a, Zenon DEF IsRead
    <3>3. Len(conv.actions) \in Nat /\ k + 1 \in 1 .. Len(conv.actions) /\ k + 1 \in Nat
      BY <1>1, <3>2, ActionsType, LenProperties
    <3>4. Due(k).data \in Data
      <4>1. conv.actions[k + 1] \in Action
        BY <1>1, <3>3, ActionsType, ElementOfSeq
      <4> QED
        BY <4>1 DEF Action, Due
    <3>5. Content(d) = Due(k).data
      BY <3>2, <3>4, DecodedData DEF Content
    <3>6. e.type = conv.actions[k + 1].type /\ e.data = conv.actions[k + 1].data
      BY <3>2, <3>5, <1>a DEF Entry, Record, Due
    <3>7. AtType(k + 1, FileBehind(k + 1))
      <4>1. k + 1 <= Len(conv.actions)
        BY <3>3
      <4> QED
        BY <1>1, <2>2, <3>3, <4>1, AtTypeNow
    <3> QED
      BY <3>2, <3>6, <3>7
  <2>3. ReadsAsWritten'
    <3> SUFFICES ASSUME NEW i \in DOMAIN q, Intact(i) PROVE Same(i)'
      BY <1>2, <1>a DEF ReadsAsWritten
    <3>1. CASE i \in 1 .. k
      <4>1. i \in DOMAIN queue
        BY <1>1, <1>a, <3>1, LenProperties
      <4>2. Same(i)
        BY <4>1 DEF Faithful, ReadsAsWritten
      <4>3. q[i] = queue[i]
        BY <2>1, <3>1
      <4> QED
        BY <4>2, <4>3, <1>a DEF Same
    <3>2. CASE i = k + 1
      <4>1. /\ k < Len(conv.actions)
            /\ e.type = conv.actions[k + 1].type /\ e.data = conv.actions[k + 1].data
        BY <2>2, <3>2
      <4>2. k + 1 \in DOMAIN conv.actions
        BY <1>1, <4>1, ActionsType, LenProperties
      <4>3. q[k + 1] = e /\ conv' = conv
        BY <2>1
      <4> QED
        BY <3>2, <4>1, <4>2, <4>3, <1>a DEF Same
    <3> QED
      BY <1>1, <2>1, <3>1, <3>2
  <2>4. Place'
    <3>1. Intact(Len(queue')) => AtType(Len(queue'), input')
      BY <2>1, <2>2, <1>a
    <3> QED
      BY <1>4, <3>1, PlaceStays
  <2> QED
    BY <2>3, <2>4 DEF Faithful
<1> QED
  BY <1>1, <1>3, <1>4, <1>a, PushFacts

\* Is the reader where it should be once this step is done?
LEMMA PlaceAfter ==
  ASSUME Faithful, UNCHANGED <<conv, file, queue>>,
         Intact(Len(queue)) =>
           /\ pc' = "type" => AtType(Len(queue), input')
           /\ pc' = "properties" =>
                /\ Len(queue) < Len(conv.actions)
                /\ Intact(Len(queue) + 1) => AtProperties(Len(queue), input', action')
           /\ pc' = "data" =>
                /\ Len(queue) < Len(conv.actions)
                /\ Intact(Len(queue) + 1) => AtData(Len(queue), input', action', data', buf', at')
  PROVE  Faithful'
<1>1. ReadsAsWritten'
  BY StaysFaithful
<1>2. queue' = queue
  OBVIOUS
<1>3. Place'
  BY <1>2, PlaceStays, Zenon
<1> QED
  BY <1>1, <1>3 DEF Faithful

\* The first line of what waits in front of an action.
LEMMA WaitingLine ==
  ASSUME NEW a \in Action, NEW r \in Text, NEW p \in Waiting,
         input = p \o (Tagline(a) \o r), TakeLine
  PROVE  \/ /\ Line \in {<<>>, <<SeparatorLine>>}
            /\ \E q \in Waiting : input' = q \o (Tagline(a) \o r)
         \/ Line = <<TypeLine(a.type)>> /\ input' = Properties(a) \o r
<1>a. PICK t, z, nl, sl : /\ t = Tagline(a) /\ z = t \o r /\ nl = <<NL>>
                          /\ sl = <<SeparatorLine, NL>>
  OBVIOUS
<1>1. t \in Text /\ z \in Text /\ nl \in Text /\ sl \in Text /\ p \in Text
  <2>1. t \in Text
    BY <1>a, TaglineFacts, Zenon
  <2>2. nl \in Text /\ sl \in Text
    BY <1>a, ShortTexts DEF NL, SeparatorLine
  <2>3. z \in Text
    BY <1>a, <2>1, TextCatType, Zenon
  <2> QED
    BY <2>1, <2>2, <2>3, WaitingFacts, Zenon
<1>2. CASE p = <<>>
  <2>1. input = z
    BY <1>1, <1>2, <1>a, TextFacts, Zenon
  <2>b. PICK tl, ps, y : tl = <<TypeLine(a.type), NL>> /\ ps = Properties(a) /\ y = ps \o r
    OBVIOUS
  <2>2. tl \in Text /\ ps \in Text
    BY <2>b, PartTypes, Zenon
  <2>3. y \in Text /\ input = tl \o y
    <3>1. Associates(tl, ps, r)
      BY <2>2, TextAssociates, Zenon
    <3>2. t = tl \o ps
      BY <1>a, <2>b, Zenon DEF Tagline
    <3>3. y \in Text
      BY <2>2, <2>b, TextCatType, Zenon
    <3> QED
      BY <1>a, <2>1, <2>b, <3>1, <3>2, <3>3, Zenon DEF Associates
  <2>4. TypeLine(a.type) \in Int /\ TypeLine(a.type) < 0
    <3>1. a.type \in Types
      BY DEF Action, Types
    <3>2. TypeLine(a.type) \in -4 .. -1
      BY <3>1, TypeLineFacts
    <3> QED
      BY <3>2
  <2>5. input = <<TypeLine(a.type), NL>> \o y
    BY <2>3, <2>b, Zenon
  <2>6. Line = <<TypeLine(a.type)>> /\ input' = y
    BY <2>3, <2>4, <2>5, SymbolLine
  <2> QED
    BY <2>6, <2>b, Zenon
<1>3. ASSUME p # <<>>
      PROVE  /\ Line \in {<<>>, <<SeparatorLine>>}
             /\ \E q \in Waiting : input' = q \o z
  <2>1. PICK q \in Waiting : p = <<NL>> \o q \/ p = <<SeparatorLine, NL>> \o q
    BY <1>3, WaitingFacts, Zenon
  <2>2. q \in Text
    BY WaitingFacts, Zenon
  <2>b. PICK y : y = q \o z
    OBVIOUS
  <2>3. y \in Text
    BY <1>1, <2>2, <2>b, TextCatType, Zenon
  <2>4. CASE p = <<NL>> \o q
    <3>1. Associates(nl, q, z)
      BY <1>1, <2>2, TextAssociates, Zenon
    <3>2. input = <<NL>> \o y
      BY <1>a, <2>4, <2>b, <3>1, Zenon DEF Associates
    <3>3. Line = <<>> /\ input' = y
      BY <2>3, <3>2, BlankLine
    <3> QED
      BY <2>b, <3>3, Zenon
  <2>5. CASE p = <<SeparatorLine, NL>> \o q
    <3>1. Associates(sl, q, z)
      BY <1>1, <2>2, TextAssociates, Zenon
    <3>2. input = <<SeparatorLine, NL>> \o y
      BY <1>a, <2>5, <2>b, <3>1, Zenon DEF Associates
    <3>3. SeparatorLine \in Int /\ SeparatorLine < 0
      BY DEF SeparatorLine
    <3>4. Line = <<SeparatorLine>> /\ input' = y
      BY <2>3, <3>2, <3>3, SymbolLine
    <3> QED
      BY <2>b, <3>4, Zenon
  <2> QED
    BY <2>1, <2>4, <2>5
<1> QED
  BY <1>2, <1>3, <1>a, Zenon

LEMMA LastLine ==
  ASSUME input \in {<<>>, <<NL>>}, TakeLine
  PROVE  Line = <<>> /\ input' = <<>>
<1>1. input = <<NL>>
  BY DEF TakeLine
<1>2. <<>> \in Text /\ <<NL>> \in Text
  BY TextFacts, ShortTexts DEF NL
<1>3. input = <<NL>> \o <<>>
  BY <1>1, <1>2, TextFacts, Zenon
<1> QED
  BY <1>2, <1>3, BlankLine

LEMMA DueFacts ==
  ASSUME TypeInv, Len(queue) < Len(conv.actions)
  PROVE  /\ Due(Len(queue)) \in Action /\ Due(Len(queue)).data \in Data
         /\ Due(Len(queue)).type \in Types
<1>a. PICK k, m : k = Len(queue) /\ m = k + 1
  OBVIOUS
<1>1. conv.actions \in Seq(Action) /\ Len(conv.actions) \in Nat /\ k \in Nat
  BY <1>a, ActionsType, LenProperties DEF TypeInv, ReaderType
<1>2. m \in 1 .. Len(conv.actions)
  BY <1>1, <1>a
<1>3. conv.actions[m] \in Action
  BY <1>1, <1>2, ElementOfSeq
<1> QED
  BY <1>3, <1>a DEF Due, Action, Types

LEMMA BehindType ==
  ASSUME TypeInv, FileIsCut, Len(queue) < Len(conv.actions), Intact(Len(queue) + 1)
  PROVE  FileBehind(Len(queue) + 1) \in Text
<1>1. Len(queue) \in Nat
  BY LenProperties DEF TypeInv, ReaderType
<1> QED
  BY <1>1, BehindNext DEF TypeInv

LEMMA ReadTypeFaithful ==
  ASSUME TypeInv, FileIsCut, Faithful, ReadType
  PROVE  Faithful'
<1>a. PICK k, n, r : k = Len(queue) /\ n = Len(conv.actions) /\ r = FileBehind(k + 1)
  OBVIOUS
<1>1. pc = "type" /\ UNCHANGED <<conv, file, queue>>
  BY DEF ReadType
<1>2. SUFFICES ASSUME Intact(k)
               PROVE  /\ pc' = "type" => AtType(k, input')
                      /\ pc' = "properties" =>
                           k < n /\ (Intact(k + 1) => AtProperties(k, input', action'))
                      /\ pc' # "data"
  BY <1>1, <1>a, PlaceAfter
<1>3. AtType(k, input)
  BY <1>1, <1>2, <1>a DEF Faithful, Place
<1>4. k \in Nat /\ n \in Nat /\ k <= n
  BY <1>3, <1>a, ActionsType, LenProperties DEF AtType, TypeInv, ReaderType
<1>5. ASSUME k < n, Intact(k + 1), TakeLine
      PROVE  \/ /\ Line \in {<<>>, <<SeparatorLine>>}
                /\ \E q \in Waiting : input' = q \o (Tagline(Due(k)) \o r)
             \/ Line = <<TypeLine(Due(k).type)>> /\ input' = Properties(Due(k)) \o r
  <2>1. PICK p \in Waiting : input = p \o (Tagline(Due(k)) \o r)
    BY <1>3, <1>5, <1>a DEF AtType
  <2>2. Due(k) \in Action /\ r \in Text
    BY <1>5, <1>a, DueFacts, BehindType
  <2> QED
    BY <1>5, <2>1, <2>2, WaitingLine
<1>6. ASSUME k = n, TakeLine
      PROVE  Line = <<>> /\ input' = <<>>
  BY <1>3, <1>6, <1>a, LastLine DEF AtType
<1>7. CASE pc' \in {"done", "threw"}
  BY <1>7
<1>8. CASE TakeLine /\ Skipped(Line) /\ UNCHANGED <<pc, action>>
  <2>1. AtType(k, input')
    <3>1. ASSUME k < n, Intact(k + 1)
          PROVE  \E q \in Waiting : input' = q \o (Tagline(Due(k)) \o r)
      <4>1. Line # <<TypeLine(Due(k).type)>>
        <5>1. TypeLine(Due(k).type) \in -4 .. -1
          BY <3>1, <1>a, DueFacts, TypeLineFacts
        <5>a. PICK x, l : x = TypeLine(Due(k).type) /\ l = <<x>>
          OBVIOUS
        <5>2. l # <<>> /\ l[1] = x /\ x \in -4 .. -1
          BY <5>1, <5>a
        <5>3. ~Skipped(l)
          BY <5>2 DEF Skipped, SeparatorLine
        <5> QED
          BY <1>8, <5>3, <5>a
      <4> QED
        BY <1>5, <1>8, <3>1, <4>1
    <3>2. k = n => input' \in {<<>>, <<NL>>}
      BY <1>6, <1>8
    <3> QED
      BY <1>4, <3>1, <3>2, <1>a, Zenon DEF AtType
  <2> QED
    BY <1>1, <1>8, <2>1
<1>9. CASE /\ TakeLine
           /\ \E t \in DOMAIN ActionTypes :
                /\ Line = <<TypeLine(ActionTypes[t])>>
                /\ action' = [type |-> ActionTypes[t], encoded |-> FALSE]
           /\ pc' = "properties"
  <2>1. PICK t \in Types : /\ Line = <<TypeLine(t)>>
                           /\ action' = [type |-> t, encoded |-> FALSE]
    BY <1>9, TypeLineFacts
  <2>2. TypeLine(t) \in -4 .. -1
    BY TypeLineFacts
  <2>a. PICK x : x = TypeLine(t)
    OBVIOUS
  <2>3. Line # <<>> /\ Line # <<SeparatorLine>>
    <3>1. <<x>> # <<>> /\ (<<x>> = <<SeparatorLine>> => x = SeparatorLine)
      OBVIOUS
    <3>2. x # SeparatorLine
      BY <2>2, <2>a DEF SeparatorLine
    <3> QED
      BY <2>1, <2>a, <3>1, <3>2
  <2>4. k < n
    <3>1. k # n
      BY <1>6, <1>9, <2>3
    <3> QED
      BY <1>4, <3>1
  <2>5. ASSUME Intact(k + 1)
        PROVE  AtProperties(k, input', action')
    <3>1. Line = <<TypeLine(Due(k).type)>> /\ input' = Properties(Due(k)) \o r
      BY <1>5, <1>9, <2>3, <2>4, <2>5
    <3>2. Due(k).type \in Types
      BY <2>4, <1>a, DueFacts
    <3>3. t = Due(k).type
      <4>a. PICK y : y = TypeLine(Due(k).type)
        OBVIOUS
      <4>1. <<x>> = <<y>> => x = y
        OBVIOUS
      <4>2. x = y
        BY <2>1, <3>1, <4>1, <2>a, <4>a
      <4> QED
        BY <3>2, <4>2, <2>a, <4>a, TypeLineFacts
    <3>4. action'.type = t /\ action'.encoded = FALSE
      BY <2>1
    <3> QED
      BY <3>1, <3>3, <3>4, <1>a DEF AtProperties
  <2> QED
    BY <1>9, <2>4, <2>5
<1> QED
  BY <1>7, <1>8, <1>9 DEF ReadType

\* The first line of what stands between the type of an action and its data.
LEMMA PropertyLine ==
  ASSUME NEW a \in Action, NEW r \in Text, NEW encoded \in BOOLEAN,
         \/ ~encoded /\ input = Properties(a) \o r
         \/ encoded = IsBinary(a.data) /\ input = StartPart(a) \o r
  PROVE  /\ input # <<>>
         /\ TakeLine =>
              \/ /\ Line = <<EncodingLine>> /\ IsBinary(a.data)
                 /\ input' = StartPart(a) \o r
              \/ /\ Line = <<StartLine>> /\ encoded = IsBinary(a.data)
                 /\ input' = Tagged(a) \o r
<1>a. PICK e, s, sl, t, z, y : /\ e = EncodingPart(a) /\ s = StartPart(a) /\ sl = <<StartLine, NL>>
                               /\ t = Tagged(a) /\ z = s \o r /\ y = t \o r
  OBVIOUS
<1>1. e \in Text /\ t \in Text /\ sl \in Text
  BY <1>a, PartTypes, Zenon
<1>2. s \in Text /\ s = sl \o t
  BY <1>1, <1>a, TextCatType, Zenon DEF StartPart
<1>3. z \in Text /\ y \in Text
  BY <1>1, <1>2, <1>a, TextCatType, Zenon
<1>4. z = sl \o y
  <2>1. Associates(sl, t, r)
    BY <1>1, TextAssociates, Zenon
  <2> QED
    BY <1>2, <1>a, <2>1, Zenon DEF Associates
<1>5. StartLine \in Int /\ StartLine < 0 /\ EncodingLine \in Int /\ EncodingLine < 0
  BY DEF StartLine, EncodingLine
<1>6. Properties(a) = e \o s
  BY <1>a, Zenon DEF Properties, StartPart
<1>7. CASE ~encoded /\ input = Properties(a) \o r /\ IsBinary(a.data)
  <2>1. e = <<EncodingLine, NL>>
    BY <1>7, <1>a, Zenon DEF EncodingPart
  <2>2. Associates(e, s, r)
    BY <1>1, <1>2, TextAssociates, Zenon
  <2>3. input = <<EncodingLine, NL>> \o z
    BY <1>6, <1>7, <1>a, <2>1, <2>2, Zenon DEF Associates
  <2>4. input # <<>> /\ Line = <<EncodingLine>> /\ (TakeLine => input' = z)
    BY <1>3, <1>5, <2>3, SymbolLine
  <2> QED
    BY <1>7, <1>a, <2>4, Zenon
<1>8. CASE encoded = IsBinary(a.data) /\ input = z
  <2>1. input = <<StartLine, NL>> \o y
    BY <1>4, <1>8, <1>a, Zenon
  <2>2. input # <<>> /\ Line = <<StartLine>> /\ (TakeLine => input' = y)
    BY <1>3, <1>5, <2>1, SymbolLine
  <2> QED
    BY <1>8, <1>a, <2>2, Zenon
<1>9. CASE ~encoded /\ input = Properties(a) \o r /\ ~IsBinary(a.data)
  <2>1. e = <<>>
    BY <1>9, <1>a, Zenon DEF EncodingPart
  <2>2. Properties(a) = s
    BY <1>2, <1>6, <2>1, TextFacts, Zenon
  <2>3. input = z /\ encoded = FALSE
    BY <1>9, <1>a, <2>2, Zenon
  <2>4. IsBinary(a.data) \in BOOLEAN
    BY DEF IsBinary
  <2>5. encoded = IsBinary(a.data)
    BY <1>9, <2>3, <2>4
  <2> QED
    BY <1>8, <2>3, <2>5
<1> QED
  BY <1>7, <1>8, <1>9, <1>a

LEMMA LinesDiffer == <<EncodingLine>> # <<StartLine>>
<1>1. \A x, y : <<x>> = <<y>> => x = y
  OBVIOUS
<1> QED
  BY <1>1 DEF EncodingLine, StartLine

LEMMA HeldNothing ==
  ASSUME NEW b \in Buffers
  PROVE  <<>> \o Held(b, 0) = <<>>
<1>1. 0 \in 0 .. Len(EndTag) + 1
  BY EndTagFacts
<1>2. Held(b, 0) \in Text /\ Len(Held(b, 0)) = 0
  BY <1>1, HeldFacts
<1>3. Held(b, 0) = <<>>
  BY <1>2, EmptySeq DEF Text
<1> QED
  BY <1>3, TextFacts, Zenon

LEMMA TaggedFacts ==
  \A a \in Action : /\ Tagged(a) \in Text /\ Stored(a.data) \in Text
                    /\ Len(Stored(a.data)) \in Nat
                    /\ Len(Tagged(a)) = Len(Stored(a.data)) + Len(EndTag)
                    /\ IsSlice(Tagged(a), Len(Stored(a.data)), Len(EndTag), EndTag)
                    /\ IsSlice(Tagged(a), 0, Len(Stored(a.data)), Stored(a.data))
<1> SUFFICES ASSUME NEW a \in Action
             PROVE  /\ Tagged(a) \in Text /\ Stored(a.data) \in Text
                    /\ Len(Stored(a.data)) \in Nat
                    /\ Len(Tagged(a)) = Len(Stored(a.data)) + Len(EndTag)
                    /\ IsSlice(Tagged(a), Len(Stored(a.data)), Len(EndTag), EndTag)
                    /\ IsSlice(Tagged(a), 0, Len(Stored(a.data)), Stored(a.data))
  OBVIOUS
<1>a. PICK s, z : s = Stored(a.data) /\ z = Tagged(a)
  OBVIOUS
<1>1. s \in Text /\ z = s \o EndTag /\ Len(s) \in Nat
  BY <1>a, PartTypes, TextFacts, Zenon DEF Tagged
<1>2. /\ z \in Text /\ Len(z) = Len(s) + Len(EndTag)
      /\ IsSlice(z, 0, Len(s), s) /\ IsSlice(z, Len(s), Len(EndTag), EndTag)
  BY <1>1, EndTagFacts, TextCat, Zenon
<1> QED
  BY <1>1, <1>2, <1>a, Zenon

LEMMA ReadPropertyFaithful ==
  ASSUME TypeInv, FileIsCut, Faithful, ReadProperty
  PROVE  Faithful'
<1>a. PICK k, n, r : k = Len(queue) /\ n = Len(conv.actions) /\ r = FileBehind(k + 1)
  OBVIOUS
<1>1. pc = "properties" /\ UNCHANGED <<conv, file>> /\ buf \in Buffers /\ action.encoded \in BOOLEAN
  BY DEF ReadProperty, TypeInv, ReaderType, ActionType
<1>2. Intact(k) => k < n /\ (Intact(k + 1) => AtProperties(k, input, action))
  BY <1>1, <1>a DEF Faithful, Place
<1>3. k \in Nat /\ n \in Nat
  BY <1>a, ActionsType, LenProperties DEF TypeInv, ReaderType
<1>4. Intact(k + 1) => Intact(k)
  <2>1. k + 1 \in Nat /\ k \in 0 .. k + 1
    BY <1>3
  <2> QED
    BY <2>1, IntactFacts
<1>5. ASSUME Intact(k + 1)
      PROVE  /\ k < n /\ Due(k) \in Action /\ r \in Text /\ action.type = Due(k).type
             /\ input # <<>>
             /\ TakeLine =>
                  \/ /\ Line = <<EncodingLine>> /\ IsBinary(Due(k).data)
                     /\ input' = StartPart(Due(k)) \o r
                  \/ /\ Line = <<StartLine>> /\ action.encoded = IsBinary(Due(k).data)
                     /\ input' = Tagged(Due(k)) \o r
  <2>1. k < n /\ AtProperties(k, input, action)
    BY <1>2, <1>4, <1>5
  <2>2. Due(k) \in Action /\ r \in Text
    BY <1>5, <1>a, <2>1, DueFacts, BehindType
  <2>3. \/ ~action.encoded /\ input = Properties(Due(k)) \o r
        \/ action.encoded = IsBinary(Due(k).data) /\ input = StartPart(Due(k)) \o r
    BY <2>1, <1>a, Zenon DEF AtProperties
  <2>4. /\ input # <<>>
        /\ TakeLine =>
             \/ /\ Line = <<EncodingLine>> /\ IsBinary(Due(k).data)
                /\ input' = StartPart(Due(k)) \o r
             \/ /\ Line = <<StartLine>> /\ action.encoded = IsBinary(Due(k).data)
                /\ input' = Tagged(Due(k)) \o r
    BY <1>1, <2>2, <2>3, PropertyLine
  <2> QED
    BY <2>1, <2>2, <2>4, Zenon DEF AtProperties
<1>6. CASE input = <<>> /\ ActionPush(<<>>) /\ UNCHANGED <<input, reader>>
  <2>1. Intact(Len(queue) + 1) => IsRead(<<>>)
    BY <1>5, <1>6, <1>a
  <2>2. <<>> \in Text /\ UNCHANGED action
    BY <1>6, TextFacts DEF reader
  <2> QED
    BY <1>1, <1>6, <2>1, <2>2, PushFaithful
<1>7. CASE /\ TakeLine /\ Line = <<StartLine>> /\ pc' = "data" /\ data' = <<>> /\ at' = 0
           /\ buf' \in {buf, [i \in 0 .. Len(EndTag) |-> -99]}
           /\ UNCHANGED <<action, queue>>
  <2>1. ASSUME Intact(k + 1)
        PROVE  AtData(k, input', action', data', buf', at')
    <3>1. action.encoded = IsBinary(Due(k).data) /\ input' = Tagged(Due(k)) \o r
      BY <1>5, <1>7, <2>1, LinesDiffer
    <3>2. buf' \in Buffers
      BY <1>1, <1>7 DEF Buffers
    <3>3. data' \o Held(buf', at') = <<>>
      BY <1>7, <3>2, HeldNothing
    <3>4. /\ <<>> \o (Tagged(Due(k)) \o r) = Tagged(Due(k)) \o r
          /\ Len(<<>>) = 0
      <4>1. Tagged(Due(k)) \o r \in Text
        BY <1>5, <2>1, TaggedFacts, TextCatType, Zenon
      <4> QED
        BY <4>1, TextFacts, Zenon
    <3>5. 0 < Len(Tagged(Due(k)))
      BY <1>5, <2>1, TaggedFacts, EndTagFacts
    <3>6. at' = 0 /\ data' = <<>> /\ 0 # Len(EndTag) + 1
      BY <1>7, EndTagFacts
    <3>7. action'.type = Due(k).type /\ action'.encoded = IsBinary(Due(k).data)
      BY <1>5, <1>7, <2>1, <3>1
    <3>8. (data' \o Held(buf', at')) \o input' = Tagged(Due(k)) \o FileBehind(k + 1)
      BY <3>1, <3>3, <3>4, <1>a, Zenon
    <3>9. Len(data' \o Held(buf', at')) < Len(Tagged(Due(k)))
      BY <3>3, <3>4, <3>5
    <3> QED
      BY <3>6, <3>7, <3>8, <3>9, Zenon DEF AtData
  <2>2. Intact(k) => k < n /\ (Intact(k + 1) => AtData(k, input', action', data', buf', at'))
    BY <1>2, <2>1
  <2> QED
    BY <1>1, <1>7, <1>a, <2>2, PlaceAfter
<1>8. CASE /\ TakeLine /\ Line # <<StartLine>>
           /\ action' = [action EXCEPT !.encoded = @ \/ Line = <<EncodingLine>>]
           /\ UNCHANGED <<pc, data, buf, at, queue>>
  <2>1. ASSUME Intact(k + 1)
        PROVE  AtProperties(k, input', action')
    <3>1. /\ Line = <<EncodingLine>> /\ IsBinary(Due(k).data) /\ input' = StartPart(Due(k)) \o r
          /\ action.type = Due(k).type
      BY <1>5, <1>8, <2>1
    <3>2. action'.type = Due(k).type /\ action'.encoded = TRUE
      <4>1. action \in [type : Types \cup {"NONE"}, encoded : BOOLEAN]
        BY DEF TypeInv, ReaderType, ActionType
      <4> QED
        BY <1>8, <3>1, <4>1
    <3>3. IsBinary(Due(k).data) = TRUE
      <4>1. IsBinary(Due(k).data) \in BOOLEAN
        BY DEF IsBinary
      <4> QED
        BY <3>1, <4>1
    <3> QED
      BY <3>1, <3>2, <3>3, <1>a, Zenon DEF AtProperties
  <2>2. Intact(k) => k < n /\ (Intact(k + 1) => AtProperties(k, input', action'))
    BY <1>2, <2>1
  <2> QED
    BY <1>1, <1>8, <1>a, <2>2, PlaceAfter
<1> QED
  BY <1>6, <1>7, <1>8 DEF ReadProperty

-----------------------------------------------------------------------------
(* Finding the end of the data.                                            *)

LEMMA LegibleFacts ==
  ASSUME NEW a \in Action, Legible(a.data)
  PROVE  /\ \A i \in 1 .. Len(Tagged(a)) : Tagged(a)[i] = Delim => i > Len(EndTag)
         /\ \A i \in 1 .. Len(Tagged(a)) - 1 :
              ~(Tagged(a)[i] = Delim /\ Tagged(a)[i + 1] = Delim)
         /\ \A j \in 1 .. Len(Stored(a.data)) : ~Stands(Tagged(a), EndTag, j)
         /\ Tagged(a)[Len(Tagged(a))] = Delim
<1>a. PICK t, stops, l, T, m : /\ t = Tagged(a) /\ stops = {i \in DOMAIN t : t[i] = Delim}
                         /\ l = Len(t) /\ T = Len(EndTag) /\ m = Len(Stored(a.data))
  OBVIOUS
<1>1. /\ t \in Text /\ l = m + T /\ m \in Nat /\ T \in Nat /\ T > 1 /\ l \in Nat
      /\ IsSlice(t, m, T, EndTag) /\ DOMAIN t = 1 .. l
  <2>1. /\ t \in Text /\ m \in Nat /\ Len(t) = m + T /\ IsSlice(t, m, T, EndTag)
    BY <1>a, TaggedFacts, Zenon
  <2>2. T \in Nat /\ T > 1
    BY <1>a, EndTagFacts
  <2> QED
    BY <1>a, <2>1, <2>2, LenProperties DEF Text
<1>2. /\ Min(stops) > T
      /\ \A i \in stops : i + 1 \notin stops
      /\ FindFrom(t, EndTag, 1) = m + 1
  <2>1. Legible(a.data)
    OBVIOUS
  <2> QED
    BY <2>1, <1>a, Zenon DEF Legible, Tagged
<1>3. ASSUME NEW i \in 1 .. l, t[i] = Delim
      PROVE  i > T
  <2>1. i \in stops /\ stops \subseteq Nat
    BY <1>1, <1>3, <1>a
  <2>2. Min(stops) \in stops /\ Min(stops) <= i
    BY <2>1, MinFacts
  <2>3. Min(stops) \in Nat
    BY <2>1, <2>2
  <2> QED
    BY <1>1, <1>2, <2>2, <2>3
<1>4. ASSUME NEW i \in 1 .. l - 1
      PROVE  ~(t[i] = Delim /\ t[i + 1] = Delim)
  <2>1. i \in 1 .. l /\ i + 1 \in 1 .. l
    BY <1>1
  <2> QED
    BY <1>1, <1>2, <1>a, <2>1
<1>5. ASSUME NEW j \in 1 .. m
      PROVE  ~Stands(t, EndTag, j)
  <2>1. FirstAt(t, EndTag, 1, m + 1)
    <3>1. 1 \in Nat
      OBVIOUS
    <3>2. FirstAt(t, EndTag, 1, FindFrom(t, EndTag, 1))
      BY <1>1, <3>1, EndTagFacts, FindFromFacts, Zenon
    <3> QED
      BY <1>2, <3>2, Zenon
  <2>2. j \in 1 .. l - T + 1 /\ m + 1 # 0 /\ ~(m + 1 <= j)
    BY <1>1
  <2>3. l = Len(t) /\ T = Len(EndTag)
    BY <1>a
  <2> QED
    BY <2>1, <2>2, <2>3 DEF FirstAt
<1>6. t[l] = Delim
  <2>1. T \in 1 .. T /\ m + T = l
    BY <1>1
  <2>2. EndTag[T] = t[m + T]
    BY <1>1, <2>1 DEF IsSlice
  <2> QED
    BY <2>1, <2>2, <1>a, EndTagFacts
<1> QED
  BY <1>3, <1>4, <1>5, <1>6, <1>a

\* Where one text stands in another.
LEMMA StandsFacts ==
  \A d, w \in Text : \A n \in Nat :
    n + Len(w) <= Len(d) => (Stands(d, w, n + 1) <=> \A i \in 1 .. Len(w) : d[n + i] = w[i])
<1> SUFFICES ASSUME NEW d \in Text, NEW w \in Text, NEW n \in Nat, n + Len(w) <= Len(d)
             PROVE  Stands(d, w, n + 1) <=> \A i \in 1 .. Len(w) : d[n + i] = w[i]
  OBVIOUS
<1>a. PICK x, m, low, high : /\ m = Len(w) /\ low = n + 1 /\ high = low + m - 1
                             /\ x = SubSeq(d, low, high)
  OBVIOUS
<1>1. m \in Nat /\ Len(d) \in Nat /\ low \in Nat /\ high = n + m /\ high <= Len(d)
  BY <1>a, TextFacts
<1>2. IsSlice(d, n, m, x)
  BY <1>1, <1>a, SliceFacts, Zenon
<1>3. x \in Text /\ Len(x) = m /\ \A i \in 1 .. m : x[i] = d[n + i]
  BY <1>2 DEF IsSlice
<1>4. Stands(d, w, n + 1) <=> x = w
  BY <1>a, Zenon DEF Stands
<1>5. ASSUME \A i \in 1 .. m : d[n + i] = w[i]
      PROVE  x = w
  BY <1>3, <1>5, <1>a, SeqEqual DEF Text
<1> QED
  BY <1>3, <1>4, <1>5, <1>a

\* The buffer with the next symbol in the place behind what is held back.
LEMMA HeldNext ==
  ASSUME NEW held \in Buffers, NEW rest \in Text, NEW c \in Int, rest # <<>>, rest[1] = c
  PROVE  LET b == Compared(held, rest)   T == Len(EndTag)
         IN  b \in Buffers /\ b[T] = c /\ Held(b, T + 1) = Held(held, T) \o <<c>>
<1>a. PICK b, T, x, y, o : /\ b = Compared(held, rest) /\ T = Len(EndTag) /\ x = Held(b, T + 1)
                           /\ o = <<c>> /\ y = Held(held, T) \o o
  OBVIOUS
<1>1. T \in Nat /\ T > 1 /\ T \in 0 .. T + 1 /\ T + 1 \in 0 .. T + 1
  BY <1>a, EndTagFacts
<1>2. b \in Buffers /\ b[T] = c /\ \A i \in 0 .. T - 1 : b[i] = held[i]
  BY <1>a, ComparedFacts DEF NextOf
<1>3. /\ Held(held, T) \in Text /\ Len(Held(held, T)) = T
      /\ \A i \in 1 .. T : Held(held, T)[i] = held[i - 1]
  BY <1>1, <1>a, HeldFacts
<1>4. x \in Text /\ Len(x) = T + 1 /\ \A i \in 1 .. T + 1 : x[i] = b[i - 1]
  BY <1>1, <1>2, <1>a, HeldFacts
<1>5. o \in Text /\ Len(o) = 1 /\ o[1] = c
  BY <1>a, ShortTexts
<1>b. PICK h : h = Held(held, T)
  OBVIOUS
<1>6. y \in Text /\ Len(y) = T + 1 /\ IsSlice(y, 0, T, h) /\ IsSlice(y, T, 1, o)
  <2>1. h \in Text /\ y = h \o o
    BY <1>3, <1>a, <1>b, Zenon
  <2>2. y \in Text /\ Len(y) = Len(h) + Len(o) /\ IsSlice(y, 0, Len(h), h) /\ IsSlice(y, Len(h), Len(o), o)
    BY <1>5, <2>1, TextCat, Zenon
  <2> QED
    BY <1>3, <1>5, <1>b, <2>2, Zenon
<1>7. ASSUME NEW i \in 1 .. T + 1
      PROVE  x[i] = y[i]
  <2>1. CASE i <= T
    <3>1. i \in 1 .. T /\ 0 + i = i /\ i - 1 \in 0 .. T - 1
      BY <1>1, <2>1
    <3>2. y[i] = h[i]
      BY <1>6, <3>1 DEF IsSlice
    <3> QED
      BY <1>2, <1>3, <1>4, <1>b, <3>1, <3>2
  <2>2. CASE i = T + 1
    <3>1. 1 \in 1 .. 1 /\ T + 1 - 1 = T
      BY <1>1
    <3>2. y[T + 1] = o[1]
      BY <1>6, <3>1 DEF IsSlice
    <3> QED
      BY <1>1, <1>2, <1>4, <1>5, <2>2, <3>1, <3>2
  <2> QED
    BY <1>1, <2>1, <2>2
<1>8. x = y
  BY <1>4, <1>6, <1>7, SeqEqual DEF Text
<1> QED
  BY <1>2, <1>8, <1>a

\* All that is known when the symbol behind what is held back is looked at.
BeforeDelim(a, r, held, rest, d) ==
  /\ a \in Action /\ Legible(a.data) /\ r \in Text
  /\ held \in Buffers /\ rest \in Text /\ d \in Text
  /\ (d \o Held(held, Len(EndTag))) \o rest = Tagged(a) \o r
  /\ Len(d \o Held(held, Len(EndTag))) < Len(Tagged(a))
  /\ rest # <<>> /\ rest[1] = Delim

\* With it.
WithDelim(a, r, b, rest, d, p) ==
  /\ b \in Buffers /\ b[Len(EndTag)] = Delim
  /\ rest \in Text /\ d \in Text /\ d \o Held(b, Len(EndTag) + 1) \in Text
  /\ (d \o Held(b, Len(EndTag) + 1)) \o rest = Tagged(a) \o r
  /\ Len(d \o Held(b, Len(EndTag) + 1)) = p + 1 /\ Len(d) + Len(EndTag) = p
  /\ p \in Nat /\ p < Len(Tagged(a)) /\ Len(d) \in Nat

LEMMA DelimTaken ==
  ASSUME NEW a, NEW r, NEW held, NEW rest, NEW d, BeforeDelim(a, r, held, rest, d)
  PROVE  \E p : WithDelim(a, r, Compared(held, rest), SubSeq(rest, 2, Len(rest)), d, p)
<1>a. PICK T, h, x, b, o, r2, y, f :
        /\ T = Len(EndTag) /\ h = Held(held, T) /\ x = d \o h /\ b = Compared(held, rest)
        /\ o = <<Delim>> /\ r2 = SubSeq(rest, 1 + 1, Len(rest)) /\ y = d \o Held(b, T + 1)
        /\ f = Tagged(a) \o r
  BY Zenon
<1>1. /\ a \in Action /\ r \in Text /\ held \in Buffers /\ rest \in Text /\ d \in Text
      /\ rest # <<>> /\ rest[1] = Delim /\ x \o rest = f /\ Len(x) < Len(Tagged(a))
  BY <1>a, Zenon DEF BeforeDelim
<1>2. T \in Nat /\ T > 1 /\ Delim \in Int /\ T \in 0 .. T + 1
  BY <1>a, EndTagFacts
<1>3. h \in Text /\ Len(h) = T
  BY <1>1, <1>2, <1>a, HeldFacts
<1>4. x \in Text /\ Len(x) = Len(d) + T /\ Len(d) \in Nat
  <2>1. x \in Text /\ Len(x) = Len(d) + Len(h)
    BY <1>1, <1>3, <1>a, TextCat, Zenon
  <2> QED
    BY <1>1, <1>3, <2>1, TextFacts, Zenon
<1>5. b \in Buffers /\ b[T] = Delim /\ Held(b, T + 1) = h \o o
  BY <1>1, <1>2, <1>a, HeldNext
<1>6. o \in Text /\ Len(o) = 1 /\ o[1] = Delim
  BY <1>2, <1>a, ShortTexts
<1>7. y = x \o o /\ y \in Text /\ Len(y) = Len(x) + 1
  <2>1. Associates(d, h, o)
    BY <1>1, <1>3, <1>6, TextAssociates, Zenon
  <2>2. y = x \o o
    BY <1>5, <1>a, <2>1, Zenon DEF Associates
  <2>3. y \in Text /\ Len(y) = Len(x) + Len(o)
    BY <1>4, <1>6, <2>2, TextCat, Zenon
  <2> QED
    BY <1>6, <2>2, <2>3
<1>8. r2 \in Text /\ rest = o \o r2
  <2>a. PICK z : z = SubSeq(rest, 1, 1)
    OBVIOUS
  <2>0. Len(rest) \in Nat /\ Len(rest) # 0
    BY <1>1, EmptySeq DEF Text
  <2>1. 1 \in Nat /\ 1 <= Len(rest) /\ 0 \in Nat /\ 1 = 0 + 1
    BY <2>0
  <2>2. IsHalved(rest, 1, z, r2)
    BY <1>1, <1>a, <2>1, <2>a, Halved, Zenon
  <2>3. IsSlice(rest, 0, 1, z)
    BY <1>1, <2>1, <2>a, SliceFacts, Zenon
  <2>4. z \in Text /\ Len(z) = 1 /\ z[1] = Delim
    <3>1. z[1] = rest[0 + 1] /\ 0 + 1 = 1
      BY <2>3 DEF IsSlice
    <3> QED
      BY <1>1, <2>3, <3>1 DEF IsSlice
  <2>5. z = o
    <3>1. \A i \in 1 .. Len(z) : z[i] = o[i]
      BY <1>6, <2>4
    <3> QED
      BY <1>6, <2>4, <3>1, SeqEqual DEF Text
  <2> QED
    BY <2>2, <2>5, Zenon DEF IsHalved
<1>9. y \o r2 = f
  <2>1. Associates(x, o, r2)
    BY <1>4, <1>6, <1>8, TextAssociates, Zenon
  <2> QED
    BY <1>1, <1>7, <1>8, <2>1, Zenon DEF Associates
<1>10. r2 = SubSeq(rest, 2, Len(rest))
  BY <1>a
<1>b. PICK p : p = Len(x)
  OBVIOUS
<1>11. p \in Nat /\ p = Len(d) + T /\ Len(y) = p + 1 /\ p < Len(Tagged(a))
  BY <1>1, <1>2, <1>4, <1>7, <1>b
<1>12. WithDelim(a, r, b, r2, d, p)
  BY <1>1, <1>4, <1>5, <1>7, <1>8, <1>9, <1>11, <1>a, Zenon DEF WithDelim
<1> QED
  BY <1>10, <1>12, <1>a, Zenon

SameStart(x, u, y, v) ==
  /\ \A i \in 1 .. Len(x) : i \in 1 .. Len(y) => x[i] = y[i]
  /\ Len(x) = Len(y) => x = y /\ u = v

LEMMA SameStarts ==
  \A x, u, y, v \in Text : \A z : z = x \o u /\ z = y \o v => SameStart(x, u, y, v)
<1> SUFFICES ASSUME NEW x \in Text, NEW u \in Text, NEW y \in Text, NEW v \in Text,
                    NEW z, z = x \o u, z = y \o v
             PROVE  SameStart(x, u, y, v)
  OBVIOUS
<1>a. PICK m, n, k, l : m = Len(x) /\ n = Len(y) /\ k = Len(u) /\ l = Len(v)
  OBVIOUS
<1>1. /\ IsSlice(z, 0, m, x) /\ IsSlice(z, 0, n, y) /\ IsSlice(z, m, k, u) /\ IsSlice(z, n, l, v)
      /\ Len(z) = m + k /\ Len(z) = n + l
  <2>1. Len(z) = Len(x) + Len(u) /\ IsSlice(z, 0, Len(x), x) /\ IsSlice(z, Len(x), Len(u), u)
    BY TextCat, Zenon
  <2>2. Len(z) = Len(y) + Len(v) /\ IsSlice(z, 0, Len(y), y) /\ IsSlice(z, Len(y), Len(v), v)
    BY TextCat, Zenon
  <2> QED
    BY <2>1, <2>2, <1>a, Zenon
<1>2. m \in Nat /\ n \in Nat /\ k \in Nat /\ l \in Nat
  <2>1. Len(x) \in Nat /\ Len(y) \in Nat /\ Len(u) \in Nat /\ Len(v) \in Nat
    BY TextFacts, Zenon
  <2> QED
    BY <2>1, <1>a, Zenon
<1>3. ASSUME NEW i \in 1 .. m, i \in 1 .. n
      PROVE  x[i] = y[i]
  BY <1>1, <1>3 DEF IsSlice
<1>4. ASSUME m = n
      PROVE  x = y /\ u = v
  <2>1. k = l
    <3>1. m + k = n + l
      BY <1>1, Zenon
    <3> QED
      BY <1>2, <1>4, <3>1
  <2>2. 0 \in Nat
    OBVIOUS
  <2>3. x = y
    BY <1>1, <1>2, <1>4, <2>2, SlicesEqual, Zenon
  <2>4. u = v
    BY <1>1, <1>2, <1>4, <2>1, SlicesEqual, Zenon
  <2> QED
    BY <2>3, <2>4
<1> QED
  BY <1>3, <1>4, <1>a DEF SameStart

LEMMA TagFound ==
  ASSUME NEW a \in Action, Legible(a.data), NEW r \in Text, NEW b, NEW rest, NEW d, NEW p,
         WithDelim(a, r, b, rest, d, p)
  PROVE  IF IsTag(b) THEN Append(d, b[0]) = Stored(a.data) /\ rest = r
                     ELSE p + 1 < Len(Tagged(a))
<1>a. PICK T, t, s, m, n, y, h, f :
        /\ T = Len(EndTag) /\ t = Tagged(a) /\ s = Stored(a.data) /\ m = Len(s) /\ n = Len(d)
        /\ h = Held(b, T + 1) /\ y = d \o h /\ f = Tagged(a) \o r
  BY Zenon
<1>1. /\ b \in Buffers /\ rest \in Text /\ d \in Text /\ y \in Text /\ y \o rest = f
      /\ Len(y) = p + 1 /\ n + T = p /\ p \in Nat /\ p < Len(t) /\ n \in Nat
  BY <1>a, Zenon DEF WithDelim
<1>2. T \in Nat /\ T > 1 /\ T + 1 \in 0 .. T + 1 /\ EndTag \in Text
  BY <1>a, EndTagFacts
<1>3. /\ t \in Text /\ s \in Text /\ m \in Nat /\ Len(t) = m + T
      /\ IsSlice(t, m, T, EndTag) /\ IsSlice(t, 0, m, s)
  BY <1>a, TaggedFacts, Zenon
<1>4. h \in Text /\ Len(h) = T + 1 /\ \A i \in 1 .. T + 1 : h[i] = b[i - 1]
  BY <1>1, <1>2, <1>a, HeldFacts
<1>5. IsSlice(y, 0, n, d) /\ IsSlice(y, n, T + 1, h)
  <2>1. IsSlice(y, 0, Len(d), d) /\ IsSlice(y, Len(d), Len(h), h)
    BY <1>1, <1>4, <1>a, TextCat, Zenon
  <2>2. Len(d) = n /\ Len(h) = T + 1
    BY <1>4, <1>a
  <2> QED
    BY <2>1, <2>2, Zenon
<1>6. SameStart(y, rest, t, r)
  BY <1>1, <1>3, <1>a, SameStarts, Zenon
<1>7. p + 1 <= Len(t)
  BY <1>1, <1>3, <1>2
<1>8. \A i \in 1 .. p + 1 : y[i] = t[i]
  BY <1>1, <1>7, <1>2, <1>3, <1>6 DEF SameStart
<1>9. ASSUME NEW i \in 0 .. T
      PROVE  b[i] = t[n + 1 + i]
  <2>1. i + 1 \in 1 .. T + 1 /\ (i + 1) - 1 = i /\ n + (i + 1) = n + 1 + i
        /\ n + 1 + i \in 1 .. p + 1
    BY <1>1, <1>2
  <2>2. h[i + 1] = y[n + (i + 1)]
    BY <1>5, <2>1 DEF IsSlice
  <2>3. h[i + 1] = b[(i + 1) - 1]
    BY <1>4, <2>1
  <2> QED
    BY <1>8, <2>1, <2>2, <2>3
<1>b. PICK q : q = n + 1
  OBVIOUS
<1>10. IsTag(b) <=> Stands(t, EndTag, q + 1)
  <2>1. q + T <= Len(t) /\ q \in Nat
    BY <1>1, <1>7, <1>b, <1>2
  <2>2. Stands(t, EndTag, q + 1) <=> \A i \in 1 .. T : t[q + i] = EndTag[i]
    <3>1. Len(EndTag) = T /\ q + Len(EndTag) <= Len(t)
      BY <1>a, <2>1
    <3>2. Stands(t, EndTag, q + 1) <=> \A i \in 1 .. Len(EndTag) : t[q + i] = EndTag[i]
      BY <1>2, <1>3, <2>1, <3>1, StandsFacts, Zenon
    <3> QED
      BY <3>1, <3>2
  <2>3. \A i \in 1 .. T : b[i] = t[q + i]
    BY <1>9, <1>b, <1>2
  <2>4. IsTag(b) <=> \A i \in 1 .. T : b[i] = EndTag[i]
    BY <1>a, Zenon DEF IsTag
  <2> QED
    BY <2>2, <2>3, <2>4
<1>11. q = m => IsTag(b)
  <2> SUFFICES ASSUME q = m PROVE IsTag(b)
    OBVIOUS
  <2>1. \A i \in 1 .. T : EndTag[i] = t[q + i]
    BY <1>3 DEF IsSlice
  <2>2. \A i \in 1 .. T : b[i] = t[q + i]
    BY <1>9, <1>b, <1>2
  <2> QED
    BY <2>1, <2>2, <1>a DEF IsTag
<1>12. q <= m
  BY <1>1, <1>3, <1>7, <1>b, <1>2
<1>13. CASE IsTag(b)
  <2>1. q = m
    <3> SUFFICES ASSUME q # m PROVE FALSE
      OBVIOUS
    <3>1. q + 1 \in 1 .. m
      BY <1>1, <1>3, <1>12, <1>b
    <3>2. ~Stands(t, EndTag, q + 1)
      BY <3>1, <1>a, LegibleFacts
    <3> QED
      BY <1>10, <1>13, <3>2
  <2>2. Len(y) = Len(t)
    BY <1>1, <1>2, <1>3, <1>b, <2>1
  <2>3. rest = r
    BY <1>6, <2>2 DEF SameStart
  <2>4. Append(d, b[0]) = s
    <3>a. PICK c, e : c = b[0] /\ e = Append(d, c)
      OBVIOUS
    <3>0. 0 \in 0 .. T
      BY <1>2
    <3>1. c \in Int /\ c = t[m]
      <4>1. c \in Int
        BY <1>1, <1>a, <3>0, <3>a DEF Buffers
      <4>2. n + 1 + 0 = m
        BY <1>1, <1>b, <2>1
      <4> QED
        BY <1>9, <3>0, <3>a, <4>1, <4>2
    <3>2. /\ e \in Text /\ Len(e) = n + 1 /\ e[n + 1] = c
          /\ \A i \in 1 .. n : e[i] = d[i]
      <4>1. IsAppended(Int, d, c, e)
        BY <1>1, <3>1, <3>a, AppendFacts, Zenon DEF Text
      <4> QED
        BY <4>1, <1>a DEF IsAppended, Text
    <3>3. ASSUME NEW i \in 1 .. m
          PROVE  e[i] = s[i]
      <4>1. s[i] = t[i]
        BY <1>3 DEF IsSlice
      <4>2. CASE i = m
        BY <1>b, <2>1, <3>1, <3>2, <4>1, <4>2
      <4>3. CASE i # m
        <5>1. i \in 1 .. n /\ i \in 1 .. p + 1 /\ 0 + i = i
          BY <1>1, <1>2, <1>3, <1>b, <2>1, <4>3
        <5>2. d[i] = y[i]
          BY <1>5, <5>1 DEF IsSlice
        <5> QED
          BY <1>8, <3>2, <4>1, <5>1, <5>2
      <4> QED
        BY <4>2, <4>3
    <3>4. e = s
      BY <1>3, <1>b, <1>a, <2>1, <3>2, <3>3, SeqEqual DEF Text
    <3> QED
      BY <3>4, <3>a
  <2> QED
    BY <1>13, <2>3, <2>4, <1>a
<1>14. CASE ~IsTag(b)
  <2>1. q < m
    BY <1>1, <1>3, <1>11, <1>12, <1>14, <1>b
  <2>2. p + 1 < Len(t)
    BY <1>1, <1>2, <1>3, <1>b, <2>1
  <2> QED
    BY <1>14, <2>2, <1>a
<1> QED
  BY <1>13, <1>14

-----------------------------------------------------------------------------
(* The same for data that the file keeps.                                  *)

\* A text that is divided in two ways: what is ahead of the first cut.
Ahead(x, u, y, v) ==
  /\ Len(x) + Len(u) = Len(y) + Len(v)
  /\ \A i \in 1 .. Len(u) : Len(x) + i <= Len(y) => u[i] = y[Len(x) + i]

LEMMA AheadFacts ==
  \A x, u, y, v \in Text : \A z : z = x \o u /\ z = y \o v => Ahead(x, u, y, v)
<1> SUFFICES ASSUME NEW x \in Text, NEW u \in Text, NEW y \in Text, NEW v \in Text,
                    NEW z, z = x \o u, z = y \o v
             PROVE  Ahead(x, u, y, v)
  OBVIOUS
<1>a. PICK m, n, k, l : m = Len(x) /\ n = Len(y) /\ k = Len(u) /\ l = Len(v)
  OBVIOUS
<1>1. IsSlice(z, m, k, u) /\ IsSlice(z, 0, n, y) /\ Len(z) = m + k /\ Len(z) = n + l
  <2>1. Len(z) = Len(x) + Len(u) /\ IsSlice(z, Len(x), Len(u), u)
    BY TextCat, Zenon
  <2>2. Len(z) = Len(y) + Len(v) /\ IsSlice(z, 0, Len(y), y)
    BY TextCat, Zenon
  <2> QED
    BY <2>1, <2>2, <1>a, Zenon
<1>2. m \in Nat /\ n \in Nat
  BY <1>a, TextFacts, Zenon
<1>3. ASSUME NEW i \in 1 .. k, m + i <= n
      PROVE  u[i] = y[m + i]
  <2>1. m + i \in 1 .. n /\ 0 + (m + i) = m + i
    BY <1>2, <1>3
  <2>2. u[i] = z[m + i]
    BY <1>1 DEF IsSlice
  <2>3. y[m + i] = z[0 + (m + i)]
    BY <1>1, <2>1 DEF IsSlice
  <2> QED
    BY <2>1, <2>2, <2>3
<1> QED
  BY <1>1, <1>3, <1>a DEF Ahead

\* The reader in the data of an action that the file keeps.
InData(a, r) ==
  /\ a \in Action /\ Legible(a.data) /\ r \in Text
  /\ input \in Text /\ data \in Text /\ buf \in Buffers
  /\ at \in {0, Len(EndTag), Len(EndTag) + 1}
  /\ (data \o Held(buf, at)) \o input = Tagged(a) \o r
  /\ Len(data \o Held(buf, at)) < Len(Tagged(a))
  /\ at = 0 => data = <<>>
  /\ at = Len(EndTag) + 1 => buf[Len(EndTag)] = Delim

LEMMA InDataNow ==
  ASSUME TypeInv, FileIsCut, Faithful, pc = "data", Intact(Len(queue) + 1)
  PROVE  /\ InData(Due(Len(queue)), FileBehind(Len(queue) + 1))
         /\ Len(queue) < Len(conv.actions)
         /\ action.type = Due(Len(queue)).type
         /\ action.encoded = IsBinary(Due(Len(queue)).data)
<1>a. PICK k : k = Len(queue)
  OBVIOUS
<1>1. k \in Nat
  BY <1>a, LenProperties DEF TypeInv, ReaderType
<1>2. Intact(k) /\ Legible(Due(k).data)
  <2>1. k + 1 \in Nat /\ k \in 0 .. k + 1 /\ k + 1 \in 1 .. k + 1 /\ Intact(k + 1)
    BY <1>1, <1>a
  <2> QED
    BY <2>1, IntactFacts DEF Due
<1>3. k < Len(conv.actions) /\ AtData(k, input, action, data, buf, at)
  BY <1>2, <1>a DEF Faithful, Place
<1>4. Due(k) \in Action /\ FileBehind(k + 1) \in Text
  BY <1>3, <1>a, DueFacts, BehindType
<1>5. /\ input \in Text /\ data \in Text /\ buf \in Buffers
      /\ at \in {0, Len(EndTag), Len(EndTag) + 1}
  BY DEF TypeInv, ReaderType
<1> QED
  BY <1>2, <1>3, <1>4, <1>5, <1>a, Zenon DEF InData, AtData

\* The symbols that have been read: x, and of them h is in the buffer.
SoFar(a, r, x, h) ==
  /\ x = data \o h /\ h = Held(buf, at) /\ x \in Text /\ h \in Text
  /\ Len(h) = at /\ Len(x) = Len(data) + at /\ Len(data) \in Nat
  /\ IsSlice(x, Len(data), at, h)
  /\ x \o input = Tagged(a) \o r /\ Len(x) < Len(Tagged(a))
  /\ at = 0 => Len(x) = 0

LEMMA ReadSoFar ==
  ASSUME NEW a, NEW r, InData(a, r)
  PROVE  \E x, h : SoFar(a, r, x, h)
<1>a. PICK h, x, n : h = Held(buf, at) /\ x = data \o h /\ n = Len(data)
  OBVIOUS
<1>1. /\ data \in Text /\ buf \in Buffers /\ at \in {0, Len(EndTag), Len(EndTag) + 1}
      /\ x \o input = Tagged(a) \o r /\ Len(x) < Len(Tagged(a)) /\ (at = 0 => data = <<>>)
  BY <1>a, Zenon DEF InData
<1>2. at \in 0 .. Len(EndTag) + 1
  BY <1>1, EndTagFacts
<1>3. h \in Text /\ Len(h) = at
  BY <1>1, <1>2, <1>a, HeldFacts
<1>4. x \in Text /\ Len(x) = n + at /\ IsSlice(x, n, at, h)
  <2>1. x \in Text /\ Len(x) = Len(data) + Len(h) /\ IsSlice(x, Len(data), Len(h), h)
    BY <1>1, <1>3, <1>a, TextCat, Zenon
  <2> QED
    BY <1>3, <1>a, <2>1, Zenon
<1>5. n \in Nat /\ (at = 0 => n = 0)
  BY <1>1, <1>a, TextFacts
<1>6. at = 0 => Len(x) = 0
  BY <1>4, <1>5
<1>7. SoFar(a, r, x, h)
  BY <1>1, <1>3, <1>4, <1>5, <1>6, <1>a, Zenon DEF SoFar
<1> QED
  BY <1>7

\* The next symbol is the one that may end the tag.
LEMMA DelimNext ==
  ASSUME NEW a, NEW r, InData(a, r), AtDelim
  PROVE  BeforeDelim(a, r, buf, input, data)
<1>a. PICK T, t, l : T = Len(EndTag) /\ t = Tagged(a) /\ l = Len(t)
  OBVIOUS
<1>1. /\ a \in Action /\ Legible(a.data) /\ r \in Text /\ input \in Text /\ data \in Text
      /\ buf \in Buffers /\ at \in {0, T, T + 1} /\ (at = T + 1 => buf[T] = Delim)
      /\ T \in Nat /\ T > 1
  BY <1>a, EndTagFacts, Zenon DEF InData
<1>c. PICK x, h : SoFar(a, r, x, h)
  BY ReadSoFar
<1>2. /\ x = data \o h /\ h = Held(buf, at) /\ x \in Text /\ h \in Text
      /\ Len(h) = at /\ Len(x) = Len(data) + at /\ Len(data) \in Nat
      /\ IsSlice(x, Len(data), at, h)
      /\ x \o input = t \o r /\ Len(x) < l
      /\ at = 0 => Len(x) = 0
  BY <1>a, <1>c, Zenon DEF SoFar
<1>3. t \in Text /\ l \in Nat
  BY <1>1, <1>a, TaggedFacts, TextFacts, Zenon
<1>4. /\ \A i \in 1 .. l : t[i] = Delim => i > T
      /\ \A i \in 1 .. l - 1 : ~(t[i] = Delim /\ t[i + 1] = Delim)
  BY <1>1, <1>a, LegibleFacts
<1>b. PICK n, d : n = Len(x) /\ d = Len(data)
  OBVIOUS
<1>5. n \in Nat /\ n < l /\ d \in Nat /\ n = d + at
  BY <1>1, <1>2, <1>b
<1>6. input # <<>> /\ input[1] = Delim /\ Len(input) \in Nat /\ Len(input) # 0
  BY <1>1, EmptySeq DEF AtDelim, Text
<1>7. t[n + 1] = Delim
  <2>1. Ahead(x, input, t, r)
    BY <1>1, <1>2, <1>3, AheadFacts, Zenon
  <2>2. 1 \in 1 .. Len(input) /\ n + 1 <= l
    BY <1>3, <1>5, <1>6
  <2>3. input[1] = t[n + 1]
    BY <2>1, <2>2, <1>a, <1>b DEF Ahead
  <2> QED
    BY <1>6, <2>3
<1>8. at # 0
  <2>1. n + 1 \in 1 .. l
    BY <1>3, <1>5
  <2>2. n + 1 > T
    BY <1>4, <1>7, <2>1
  <2> QED
    BY <1>1, <1>2, <1>b, <2>2
<1>9. at # T + 1
  <2> SUFFICES ASSUME at = T + 1 PROVE FALSE
    OBVIOUS
  <2>1. n \in 1 .. l - 1 /\ n \in 1 .. n /\ n \in 1 .. l /\ T + 1 \in 1 .. at /\ n = d + (T + 1)
    BY <1>1, <1>3, <1>5
  <2>2. SameStart(x, input, t, r)
    BY <1>1, <1>2, <1>3, SameStarts, Zenon
  <2>3. x[n] = t[n]
    BY <2>1, <2>2, <1>a, <1>b DEF SameStart
  <2>4. IsSlice(x, d, at, h)
    BY <1>2, <1>b, Zenon
  <2>5. h[T + 1] = x[n]
    BY <2>1, <2>4 DEF IsSlice
  <2>6. h[T + 1] = buf[T]
    <3>1. at \in 0 .. Len(EndTag) + 1
      BY <1>1, <1>a
    <3>2. h[T + 1] = buf[(T + 1) - 1]
      BY <1>1, <1>2, <2>1, <3>1, HeldFacts
    <3>3. (T + 1) - 1 = T
      BY <1>1
    <3> QED
      BY <3>2, <3>3
  <2> QED
    BY <1>1, <1>4, <1>7, <2>1, <2>3, <2>5, <2>6
<1>10. at = T
  BY <1>1, <1>8, <1>9
<1> QED
  BY <1>1, <1>2, <1>6, <1>10, <1>a, Zenon DEF BeforeDelim

\* The buffer is filled up, and what may be the start of the tag held back.
LEMMA Refilled ==
  ASSUME ReaderType, NEW a, NEW r, InData(a, r), ~AtDelim
  PROVE  /\ ~ReadFails
         /\ HeldBack \in Buffers /\ Rest \in Text /\ More \in Text
         /\ (More \o Held(HeldBack, Len(EndTag))) \o Rest = Tagged(a) \o r
         /\ Len(More \o Held(HeldBack, Len(EndTag))) < Len(Tagged(a))
         /\ Len(Chunk(Room)) # Room => Rest # <<>> /\ Rest[1] = Delim
<1>a. PICK T, t, l, c, w, v : /\ T = Len(EndTag) /\ t = Tagged(a) /\ l = Len(t)
                              /\ c = Chunk(Room) /\ w = Rest /\ v = Len(input)
  OBVIOUS
<1>1. /\ a \in Action /\ Legible(a.data) /\ r \in Text /\ input \in Text /\ data \in Text
      /\ buf \in Buffers /\ at \in {0, T, T + 1} /\ T \in Nat /\ T > 1
  BY <1>a, EndTagFacts, Zenon DEF InData
<1>c. PICK x, h : SoFar(a, r, x, h)
  BY ReadSoFar
<1>2. /\ x = data \o h /\ h = Held(buf, at) /\ x \in Text /\ h \in Text
      /\ Len(h) = at /\ Len(x) = Len(data) + at /\ Len(data) \in Nat
      /\ IsSlice(x, Len(data), at, h)
      /\ x \o input = t \o r /\ Len(x) < l
      /\ at = 0 => Len(x) = 0
  BY <1>a, <1>c, Zenon DEF SoFar
<1>3. PICK m : GatheredFacts(m)
  BY GatheredType
<1>b. PICK n : n = Len(x)
  OBVIOUS
<1>4. /\ c \in Text /\ Len(c) = m /\ w \in Text /\ Len(w) = v - m /\ input = c \o w
      /\ Hold = (at + m) - T /\ Room \in Nat /\ Room > 0
      /\ m \in Nat /\ m <= v
      /\ \A i \in 1 .. m : input[i] # Delim
      /\ m = Room \/ m = v \/ input[m + 1] = Delim
  BY <1>3, <1>a DEF GatheredFacts, ChunkEnds
<1>5. t \in Text /\ l \in Nat /\ n \in Nat /\ n < l /\ v \in Nat /\ Len(r) \in Nat
  <2>1. t \in Text /\ l \in Nat
    BY <1>1, <1>a, TaggedFacts, TextFacts, Zenon
  <2>2. n \in Nat /\ v \in Nat /\ Len(r) \in Nat
    BY <1>1, <1>2, <1>a, <1>b, TextFacts, Zenon
  <2> QED
    BY <1>2, <1>b, <2>1, <2>2, Zenon
<1>6. (\A i \in 1 .. l : t[i] = Delim => i > T) /\ t[l] = Delim
  BY <1>1, <1>a, LegibleFacts
<1>7. /\ n + v = l + Len(r)
      /\ \A i \in 1 .. v : n + i <= l => input[i] = t[n + i]
  <2>1. Ahead(x, input, t, r)
    BY <1>1, <1>2, <1>5, AheadFacts, Zenon
  <2> QED
    BY <2>1, <1>a, <1>b DEF Ahead
<1>8. n + m < l
  <2> SUFFICES ASSUME ~(n + m < l) PROVE FALSE
    OBVIOUS
  <2>1. /\ l - n \in 1 .. m /\ l - n \in 1 .. v /\ n + (l - n) = l /\ l <= l
    BY <1>4, <1>5, <1>7
  <2>2. input[l - n] = t[l]
    BY <1>7, <2>1
  <2> QED
    BY <1>4, <1>6, <2>1, <2>2
<1>9. m # v
  BY <1>5, <1>7, <1>8
<1>10. m # Room => /\ m + 1 \in 1 .. v /\ input[m + 1] = Delim
                   /\ n + (m + 1) \in 1 .. l /\ t[n + (m + 1)] = Delim
  <2> SUFFICES ASSUME m # Room
               PROVE  /\ m + 1 \in 1 .. v /\ input[m + 1] = Delim
                      /\ n + (m + 1) \in 1 .. l /\ t[n + (m + 1)] = Delim
    OBVIOUS
  <2>1. /\ m + 1 \in 1 .. v /\ input[m + 1] = Delim /\ n + (m + 1) \in 1 .. l
        /\ n + (m + 1) <= l
    BY <1>4, <1>5, <1>8, <1>9
  <2> QED
    BY <1>7, <2>1
<1>11. m # 0
  <2> SUFFICES ASSUME m = 0 PROVE FALSE
    OBVIOUS
  <2>0. m + 1 = 1 /\ m # Room
    BY <1>4
  <2>1. input[1] = Delim /\ v # 0
    BY <1>9, <1>10, <2>0
  <2>2. input # <<>>
    BY <2>1, <1>1, <1>a, EmptySeq DEF Text
  <2> QED
    BY <2>1, <2>2 DEF AtDelim
<1>12. Hold >= 0
  <2>1. CASE at \in {T, T + 1}
    BY <1>1, <1>4, <2>1
  <2>2. CASE at = 0
    <3>1. n = 0
      BY <1>2, <1>b, <2>2
    <3>2. m >= T
      <4>1. CASE m = Room
        BY <1>1, <1>a, <2>2, <4>1, SizeAssumption DEF Room
      <4>2. CASE m # Room
        <5>1. n + (m + 1) > T
          BY <1>6, <1>10, <4>2
        <5> QED
          BY <1>1, <1>4, <3>1, <5>1
      <4> QED
        BY <4>1, <4>2
    <3> QED
      BY <1>1, <1>4, <2>2, <3>2
  <2> QED
    BY <1>1, <2>1, <2>2
<1>13. ~ReadFails
  <2>1. c # <<>>
    BY <1>4, <1>11, EmptySeq DEF Text
  <2>2. ~(Hold < 0)
    BY <1>1, <1>4, <1>12
  <2> QED
    BY <2>1, <2>2, <1>a DEF ReadFails
<1>14. /\ HeldBack \in Buffers /\ More \in Text
       /\ More \o Held(HeldBack, Len(EndTag)) = data \o Gathered
  BY <1>13, HeldBackFacts
<1>15. data \o Gathered = x \o c
  <2>1. Associates(data, h, c)
    BY <1>1, <1>2, <1>4, TextAssociates, Zenon
  <2>2. Gathered = h \o c
    BY <1>2, <1>a, Zenon DEF Gathered
  <2> QED
    BY <1>2, <2>1, <2>2, Zenon DEF Associates
<1>16. (x \o c) \o w = t \o r
  <2>1. Associates(x, c, w)
    BY <1>2, <1>4, TextAssociates, Zenon
  <2> QED
    BY <1>2, <1>4, <2>1, Zenon DEF Associates
<1>17. Len(x \o c) < l
  <2>1. Len(x \o c) = Len(x) + Len(c)
    BY <1>2, <1>4, TextFacts, Zenon
  <2> QED
    BY <1>4, <1>8, <1>b, <2>1
<1>18. Len(c) # Room => w # <<>> /\ w[1] = Delim
  <2> SUFFICES ASSUME m # Room PROVE w # <<>> /\ w[1] = Delim
    BY <1>4
  <2>1. IsSlice(input, Len(c), Len(w), w)
    BY <1>4, TextCat, Zenon
  <2>2. Len(w) # 0 /\ 1 \in 1 .. Len(w)
    BY <1>4, <1>5, <1>9
  <2>3. w[1] = input[m + 1]
    BY <1>4, <2>1, <2>2 DEF IsSlice
  <2>4. w # <<>>
    BY <1>4, <2>2, EmptySeq DEF Text
  <2> QED
    BY <1>10, <2>3, <2>4
<1> QED
  BY <1>4, <1>13, <1>14, <1>15, <1>16, <1>17, <1>18, <1>a, Zenon

-----------------------------------------------------------------------------
(* Every step leaves the reader where it should be.                        *)

\* The symbol behind what is held back, when the file keeps the action.
LEMMA CheckedReads ==
  ASSUME TypeInv, FileIsCut, Faithful, pc = "data", action' = action,
         NEW held \in Buffers, NEW rest \in Text, NEW d \in Text, CheckTag(held, rest, d),
         Intact(Len(queue) + 1),
         BeforeDelim(Due(Len(queue)), FileBehind(Len(queue) + 1), held, rest, d)
  PROVE  \/ \E e \in Text : ActionPush(e) /\ IsRead(e)
         \/ /\ pc' = pc /\ queue' = queue
            /\ AtData(Len(queue), input', action', data', buf', at')
<1>a. PICK k, a, r, b, r2, e, T :
        /\ k = Len(queue) /\ a = Due(k) /\ r = FileBehind(k + 1) /\ T = Len(EndTag)
        /\ b = Compared(held, rest) /\ r2 = SubSeq(rest, 2, Len(rest)) /\ e = Append(d, b[0])
  BY Zenon
<1>1. /\ input' = r2 /\ buf' = b
      /\ \/ IsTag(b) /\ ActionPush(e)
         \/ ~IsTag(b) /\ rest = <<>> /\ ActionPush(d)
         \/ ~IsTag(b) /\ rest # <<>> /\ data' = d /\ at' = T + 1 /\ pc' = pc /\ queue' = queue
  BY <1>a, CheckTagCases
<1>2. /\ k < Len(conv.actions) /\ a \in Action /\ Legible(a.data) /\ r \in Text
      /\ action.type = a.type /\ action.encoded = IsBinary(a.data)
  <2>1. /\ InData(a, r) /\ k < Len(conv.actions)
        /\ action.type = a.type /\ action.encoded = IsBinary(a.data)
    BY <1>a, InDataNow
  <2> QED
    BY <2>1, Zenon DEF InData
<1>3. BeforeDelim(a, r, held, rest, d)
  BY <1>a, Zenon
<1>4. rest # <<>>
  BY <1>3 DEF BeforeDelim
<1>5. PICK p : WithDelim(a, r, b, r2, d, p)
  BY <1>3, <1>a, DelimTaken, Zenon
<1>6. IF IsTag(b) THEN Append(d, b[0]) = Stored(a.data) /\ r2 = r
                  ELSE p + 1 < Len(Tagged(a))
  BY <1>2, <1>5, TagFound, Zenon
<1>7. CASE IsTag(b) /\ ActionPush(e)
  <2>1. e = Append(d, b[0])
    BY <1>a
  <2>2. e \in Text
    <3>1. b[0] \in Int
      BY <1>a, ComparedFacts
    <3> QED
      BY <2>1, <3>1, AppendType, Zenon DEF Text
  <2>3. IsRead(e)
    BY <1>1, <1>2, <1>6, <1>7, <1>a, <2>1, Zenon DEF IsRead
  <2> QED
    BY <1>7, <2>2, <2>3
<1>8. CASE ~IsTag(b) /\ data' = d /\ at' = T + 1 /\ pc' = pc /\ queue' = queue
  <2>1. p + 1 < Len(Tagged(a))
    BY <1>6, <1>8
  <2>2. /\ (d \o Held(b, T + 1)) \o r2 = Tagged(a) \o r
        /\ Len(d \o Held(b, T + 1)) = p + 1 /\ b[T] = Delim
    BY <1>5, <1>a, Zenon DEF WithDelim
  <2>3. T + 1 # 0
    BY <1>a, EndTagFacts
  <2>4. /\ action' = action /\ data' = d /\ at' = T + 1 /\ input' = r2 /\ buf' = b
    BY <1>1, <1>8
  <2>5. AtData(k, input', action', data', buf', at')
    BY <1>2, <2>1, <2>2, <2>3, <2>4, <1>a, Zenon DEF AtData
  <2> QED
    BY <1>8, <2>5, <1>a
<1> QED
  BY <1>1, <1>4, <1>7, <1>8

LEMMA CheckedFaithful ==
  ASSUME TypeInv, FileIsCut, Faithful, pc = "data", UNCHANGED <<conv, file, action>>,
         NEW held \in Buffers, NEW rest \in Text, NEW d \in Text, CheckTag(held, rest, d),
         Intact(Len(queue) + 1) =>
           BeforeDelim(Due(Len(queue)), FileBehind(Len(queue) + 1), held, rest, d)
  PROVE  Faithful'
<1>a. PICK k, b, e : k = Len(queue) /\ b = Compared(held, rest) /\ e = Append(d, b[0])
  BY Zenon
<1>1. CASE Intact(k + 1)
  <2>1. \/ \E f \in Text : ActionPush(f) /\ IsRead(f)
        \/ /\ pc' = pc /\ queue' = queue
           /\ AtData(k, input', action', data', buf', at')
    BY <1>1, <1>a, CheckedReads
  <2>2. CASE \E f \in Text : ActionPush(f) /\ IsRead(f)
    BY <2>2, PushFaithful
  <2>3. CASE /\ pc' = pc /\ queue' = queue
             /\ AtData(k, input', action', data', buf', at')
    <3>1. Intact(k) => k < Len(conv.actions)
      BY <1>a DEF Faithful, Place
    <3> QED
      BY <2>3, <3>1, <1>a, PlaceAfter
  <2> QED
    BY <2>1, <2>2, <2>3
<1>2. CASE ~Intact(k + 1)
  <2>1. ~Intact(Len(queue) + 1)
    BY <1>2, <1>a
  <2>2. CASE ActionPush(e)
    <3>1. b[0] \in Int
      BY <1>a, ComparedFacts
    <3>2. e \in Text
      BY <3>1, <1>a, AppendType, Zenon DEF Text
    <3> QED
      BY <2>1, <2>2, <3>2, PushFaithful
  <2>3. CASE ActionPush(d)
    BY <2>1, <2>3, PushFaithful
  <2>4. CASE pc' = pc /\ queue' = queue
    <3>1. Intact(k) => k < Len(conv.actions)
      BY <1>a DEF Faithful, Place
    <3> QED
      BY <2>1, <2>4, <3>1, <1>a, PlaceAfter
  <2> QED
    BY <2>2, <2>3, <2>4, <1>a, CheckTagCases
<1> QED
  BY <1>1, <1>2

LEMMA ReadDataFaithful ==
  ASSUME TypeInv, FileIsCut, Faithful, ReadData
  PROVE  Faithful'
<1>a. PICK k, a, r : k = Len(queue) /\ a = Due(k) /\ r = FileBehind(k + 1)
  OBVIOUS
<1>1. pc = "data" /\ UNCHANGED <<conv, file, action>> /\ ReaderType
  BY DEF ReadData, TypeInv
<1>2. input \in Text /\ data \in Text /\ buf \in Buffers
  BY <1>1 DEF ReaderType
<1>3. ASSUME Intact(k + 1)
      PROVE  /\ InData(a, r) /\ k < Len(conv.actions)
             /\ action.type = a.type /\ action.encoded = IsBinary(a.data)
  BY <1>1, <1>3, <1>a, InDataNow
<1>4. ASSUME Intact(k + 1), ~AtDelim
      PROVE  /\ ~ReadFails
             /\ HeldBack \in Buffers /\ Rest \in Text /\ More \in Text
             /\ (More \o Held(HeldBack, Len(EndTag))) \o Rest = Tagged(a) \o r
             /\ Len(More \o Held(HeldBack, Len(EndTag))) < Len(Tagged(a))
             /\ Len(Chunk(Room)) # Room => Rest # <<>> /\ Rest[1] = Delim
  BY <1>1, <1>3, <1>4, Refilled, Zenon
<1>5. CASE AtDelim /\ CheckTag(buf, input, data)
  <2>1. Intact(Len(queue) + 1) =>
          BeforeDelim(Due(Len(queue)), FileBehind(Len(queue) + 1), buf, input, data)
    BY <1>3, <1>5, <1>a, DelimNext, Zenon
  <2> QED
    BY <1>1, <1>2, <1>5, <2>1, CheckedFaithful
<1>6. CASE pc' = "threw" /\ UNCHANGED queue
  BY <1>1, <1>6, PlaceAfter
<1>7. CASE ~AtDelim /\ ~ReadFails /\ Len(Chunk(Room)) # Room /\ CheckTag(HeldBack, Rest, More)
  <2>1. HeldBack \in Buffers /\ Rest \in Text /\ More \in Text
    BY <1>1, <1>7, HeldBackFacts, GatheredType DEF GatheredFacts
  <2>2. Intact(Len(queue) + 1) =>
          BeforeDelim(Due(Len(queue)), FileBehind(Len(queue) + 1), HeldBack, Rest, More)
    BY <1>3, <1>4, <1>7, <1>a, Zenon DEF BeforeDelim, InData
  <2> QED
    BY <1>1, <1>7, <2>1, <2>2, CheckedFaithful
<1>8. CASE ~AtDelim /\ ReadOn
  <2>1. /\ input' = Rest /\ data' = More /\ buf' = HeldBack /\ at' = Len(EndTag)
        /\ pc' = pc /\ queue' = queue
    BY <1>8 DEF ReadOn
  <2>2. ASSUME Intact(k + 1)
        PROVE  AtData(k, input', action', data', buf', at')
    <3>1. Len(EndTag) # 0 /\ Len(EndTag) # Len(EndTag) + 1
      BY EndTagFacts
    <3>2. action' = action
      BY <1>1
    <3> QED
      BY <1>3, <1>4, <1>8, <1>a, <2>1, <2>2, <3>1, <3>2, Zenon DEF AtData
  <2>3. Intact(k) => k < Len(conv.actions)
    BY <1>1, <1>a DEF Faithful, Place
  <2> QED
    BY <1>1, <2>1, <2>2, <2>3, <1>a, PlaceAfter
<1> QED
  BY <1>5, <1>6, <1>7, <1>8, ReadDataCases

LEMMA ReadHeadersFaithful ==
  ASSUME TypeInv, Faithful, ReadHeaders
  PROVE  Faithful'
<1>1. /\ pc = "headers" /\ pc' \in {"type", "threw"} /\ UNCHANGED <<conv, file, input, queue>>
  BY DEF ReadHeaders
<1>2. queue = <<>> /\ input = file /\ FileIsCut /\ ConvType /\ file \in Text
  BY <1>1 DEF TypeInv
<1>3. Len(queue) = 0
  BY <1>2
<1>4. Intact(0) /\ 0 \in Nat /\ 0 <= Len(conv.actions)
  BY <1>2, ActionsType, LenProperties DEF Intact
<1>5. AtType(0, FileBehind(0))
  BY <1>2, <1>4, AtTypeNow
<1>6. FileBehind(0) = file
  BY DEF FileBehind
<1> QED
  BY <1>1, <1>2, <1>3, <1>5, <1>6, PlaceAfter

LEMMA NothingRead ==
  ASSUME queue = <<>>, pc \notin {"type", "properties", "data"}
  PROVE  Faithful
BY DEF Faithful, ReadsAsWritten, Place

LEMMA FaithfulStep ==
  ASSUME TypeInv, Faithful, [Next]_vars
  PROVE  Faithful'
<1>1. CASE Write \/ Edit
  <2>1. queue' = <<>> /\ pc' \in {"edit", "headers"}
    BY <1>1 DEF TypeInv, Write, Edit
  <2> QED
    BY <2>1 DEF Faithful, ReadsAsWritten, Place
<1>2. CASE ReadHeaders
  BY <1>2, ReadHeadersFaithful
<1>3. CASE ReadType \/ ReadProperty \/ ReadData
  <2>1. pc \in {"type", "properties", "data"}
    BY <1>3 DEF ReadType, ReadProperty, ReadData
  <2>2. FileIsCut
    BY <2>1 DEF TypeInv
  <2> QED
    BY <1>3, <2>2, ReadTypeFaithful, ReadPropertyFaithful, ReadDataFaithful
<1>4. CASE UNCHANGED vars
  <2>1. /\ UNCHANGED <<pc, conv, file, input, queue>>
        /\ UNCHANGED <<action, data, buf, at>>
    BY <1>4 DEF vars, reader
  <2> QED
    BY <2>1, Zenon DEF Faithful, ReadsAsWritten, Same, Place, Intact, Kept, AtType, AtProperties,
                       AtData, Due, FileBehind
<1> QED
  BY <1>1, <1>2, <1>3, <1>4 DEF Next

\* read_action_data: whatever bytes the data of an action has, and wherever the
\* end of the buffer falls among them, what is read is what was written, up to
\* the first action that the file does not hold or whose data cannot be told
\* from its end tag.
THEOREM AlwaysReadsAsWritten == Spec => []ReadsAsWritten
<1>1. Init => TypeInv /\ Faithful
  BY InitType, NothingRead DEF Init
<1>2. (TypeInv /\ Faithful) /\ [Next]_vars => (TypeInv /\ Faithful)'
  BY TypeStep, FaithfulStep
<1>3. Faithful => ReadsAsWritten
  BY DEF Faithful
<1> QED
  BY <1>1, <1>2, <1>3, PTL DEF Spec

-----------------------------------------------------------------------------
(* A file that holds every action is read to its end.                      *)

Reading == {"type", "properties", "data", "done"}

Accepted == conv.protocol = "TCP" /\ address = "v4"

\* The headers were accepted, or an exception thrown for them; nothing is read
\* that was not written, and the reader ends behind the last action.
Advance ==
  /\ pc \in Reading => Accepted /\ test_port = conv.test_port
  /\ Accepted /\ Intact(Len(conv.actions)) =>
       /\ pc # "threw" /\ Len(queue) <= Len(conv.actions)
       /\ pc = "done" => Len(queue) = Len(conv.actions)

\* Swapping the two bytes of a word twice.
LEMMA HtonsTwice ==
  ASSUME NEW n \in Word
  PROVE  Htons(Htons(n)) = n
<1>a. PICK low, high, m : low = n % 256 /\ high = n \div 256 /\ m = low * 256 + high
  OBVIOUS
<1>0. MaxWord = 65535
  BY DEF MaxWord
<1>1. n \in Int /\ n >= 0 /\ n <= 65535
  <2>0. MaxWord \in Int
    BY <1>0
  <2>1. n \in Int /\ n >= 0 /\ n <= MaxWord
    BY <2>0 DEF Word
  <2> QED
    BY <1>0, <2>1
<1>2. /\ low \in Int /\ low >= 0 /\ low < 256 /\ high \in Int /\ high >= 0 /\ high < 256
      /\ n = high * 256 + low
  BY <1>1, <1>a
<1>3. m \in Int /\ m >= 0 /\ m <= 65535 /\ m % 256 = high /\ m \div 256 = low
  BY <1>2, <1>a
<1>4. n % 65536 = n /\ m % 65536 = m
  BY <1>1, <1>3
<1>5. Htons(n) = m
  BY <1>4, <1>a DEF Htons
<1>6. Htons(m) = high * 256 + low
  BY <1>3, <1>4 DEF Htons
<1> QED
  BY <1>2, <1>5, <1>6

\* A step of the reader in a file that holds every action.
LEMMA AdvanceAfter ==
  ASSUME Advance, UNCHANGED <<conv, address, file, test_port>>,
         pc \in Reading, pc' \in Reading \cup {"threw"},
         Intact(Len(conv.actions)) =>
           /\ pc' # "threw" /\ Len(queue') <= Len(conv.actions)
           /\ pc' = "done" => Len(queue') = Len(conv.actions)
  PROVE  Advance'
<1>1. \A n : Intact(n)' <=> Intact(n)
  BY IntactStays
<1> QED
  BY <1>1 DEF Advance, Accepted, Reading

\* Where the reader is then.
LEMMA NextIntact ==
  ASSUME TypeInv, Advance, pc \in Reading, Intact(Len(conv.actions))
  PROVE  /\ Len(queue) \in Nat /\ Len(conv.actions) \in Nat
         /\ Len(queue) <= Len(conv.actions) /\ Intact(Len(queue))
         /\ Len(queue) < Len(conv.actions) => Intact(Len(queue) + 1)
<1>a. PICK k, n : k = Len(queue) /\ n = Len(conv.actions)
  OBVIOUS
<1>1. k \in Nat /\ n \in Nat
  BY <1>a, ActionsType, LenProperties DEF TypeInv, ReaderType
<1>2. k <= n
  BY <1>a DEF Advance
<1>3. \A m \in 0 .. n : Intact(m)
  BY <1>1, <1>a, IntactFacts
<1> QED
  BY <1>1, <1>2, <1>3, <1>a

\* The file does not end in front of an action.
LEMMA MoreToRead ==
  ASSUME NEW a \in Action, NEW r \in Text, NEW p \in Waiting
  PROVE  p \o (Tagline(a) \o r) # <<>>
<1>a. PICK t, z, y, o, s : /\ t = Tagline(a) /\ z = t \o r /\ y = p \o z
                           /\ o = <<TypeLine(a.type), NL>> /\ s = Properties(a)
  OBVIOUS
<1>1. /\ t \in Text /\ p \in Text /\ o \in Text /\ s \in Text /\ t = o \o s
  BY <1>a, TaglineFacts, WaitingFacts, PartTypes, Zenon DEF Tagline
<1>2. z \in Text /\ y \in Text /\ Len(y) = Len(p) + Len(z) /\ Len(z) = Len(t) + Len(r)
      /\ Len(t) = Len(o) + Len(s)
  BY <1>1, <1>a, TextFacts, Zenon
<1>3. Len(o) = 2
  BY <1>a
<1>4. Len(p) \in Nat /\ Len(r) \in Nat /\ Len(s) \in Nat
  BY <1>1, TextFacts, Zenon
<1>5. Len(y) # 0
  BY <1>2, <1>3, <1>4
<1>6. y # <<>>
  BY <1>5, TextFacts
<1> QED
  BY <1>6, <1>a

LEMMA ReadTypeAdvances ==
  ASSUME TypeInv, FileIsCut, Faithful, Advance, ReadType
  PROVE  Advance'
<1>a. PICK k, n : k = Len(queue) /\ n = Len(conv.actions)
  OBVIOUS
<1>1. /\ pc = "type" /\ UNCHANGED <<conv, address, file, test_port, queue>>
      /\ pc' \in {"type", "properties", "done", "threw"}
  BY DEF ReadType
<1>2. SUFFICES ASSUME Intact(n)
               PROVE  pc' # "threw" /\ k <= n /\ (pc' = "done" => k = n)
  BY <1>1, <1>a, AdvanceAfter DEF Reading
<1>3. /\ k \in Nat /\ n \in Nat /\ k <= n /\ Intact(k) /\ (k < n => Intact(k + 1))
  BY <1>1, <1>2, <1>a, NextIntact DEF Reading
<1>4. AtType(k, input)
  BY <1>1, <1>3, <1>a DEF Faithful, Place
<1>5. ASSUME k < n
      PROVE  /\ input # <<>>
             /\ TakeLine => \/ Line \in {<<>>, <<SeparatorLine>>}
                            \/ \E t \in DOMAIN ActionTypes : Line = <<TypeLine(ActionTypes[t])>>
  <2>1. PICK p \in Waiting : input = p \o (Tagline(Due(k)) \o FileBehind(k + 1))
    BY <1>3, <1>4, <1>5, <1>a DEF AtType
  <2>2. Due(k) \in Action /\ FileBehind(k + 1) \in Text
    BY <1>3, <1>5, <1>a, DueFacts, BehindType
  <2>3. PICK t \in DOMAIN ActionTypes : ActionTypes[t] = Due(k).type
    BY <1>5, <1>a, DueFacts, TypeLineFacts
  <2>4. input # <<>>
    BY <2>1, <2>2, MoreToRead
  <2>5. TakeLine => \/ Line \in {<<>>, <<SeparatorLine>>}
                    \/ Line = <<TypeLine(Due(k).type)>>
    BY <2>1, <2>2, WaitingLine
  <2> QED
    BY <2>3, <2>4, <2>5
<1>6. ASSUME k = n, TakeLine
      PROVE  Line = <<>>
  BY <1>4, <1>6, <1>a, LastLine DEF AtType
<1>7. Skipped(<<>>) /\ Skipped(<<SeparatorLine>>)
  BY DEF Skipped
<1>8. ASSUME TakeLine, ~Skipped(Line),
             \A t \in DOMAIN ActionTypes : Line # <<TypeLine(ActionTypes[t])>>
      PROVE  FALSE
  <2>1. k < n \/ k = n
    BY <1>3
  <2> QED
    BY <1>5, <1>6, <1>7, <1>8, <2>1
<1>9. input = <<>> => k = n
  BY <1>3, <1>5
<1>10. pc' # "threw"
  BY <1>1, <1>8 DEF ReadType
<1>11. pc' = "done" => input = <<>>
  BY <1>1 DEF ReadType
<1> QED
  BY <1>3, <1>9, <1>10, <1>11

LEMMA ReadPropertyAdvances ==
  ASSUME TypeInv, FileIsCut, Faithful, Advance, ReadProperty
  PROVE  Advance'
<1>a. PICK k, n : k = Len(queue) /\ n = Len(conv.actions)
  OBVIOUS
<1>1. /\ pc = "properties" /\ UNCHANGED <<conv, address, file, test_port>>
      /\ action.encoded \in BOOLEAN
  BY DEF ReadProperty, TypeInv, ReaderType, ActionType
<1>2. pc' \in {"type", "threw", "data", "properties"}
  BY <1>1 DEF ReadProperty, ActionPush
<1>3. SUFFICES ASSUME Intact(n)
               PROVE  pc' \notin {"threw", "done"} /\ Len(queue') <= n
  BY <1>1, <1>2, <1>a, AdvanceAfter DEF Reading
<1>4. /\ k \in Nat /\ n \in Nat /\ k <= n /\ Intact(k) /\ (k < n => Intact(k + 1))
  BY <1>1, <1>3, <1>a, NextIntact DEF Reading
<1>5. k < n /\ AtProperties(k, input, action)
  BY <1>1, <1>4, <1>a DEF Faithful, Place
<1>6. Due(k) \in Action /\ FileBehind(k + 1) \in Text
  BY <1>4, <1>5, <1>a, DueFacts, BehindType
<1>7. input # <<>>
  <2>1. \/ ~action.encoded /\ input = Properties(Due(k)) \o FileBehind(k + 1)
        \/ /\ action.encoded = IsBinary(Due(k).data)
           /\ input = StartPart(Due(k)) \o FileBehind(k + 1)
    BY <1>5, Zenon DEF AtProperties
  <2> QED
    BY <1>1, <1>6, <2>1, PropertyLine
<1>8. UNCHANGED queue /\ pc' \in {"data", "properties"}
  BY <1>1, <1>7 DEF ReadProperty
<1> QED
  BY <1>4, <1>8, <1>a

\* What is pushed for an action of the file is neither refused nor twice there.
LEMMA ReadIsPushed ==
  ASSUME TypeInv, NEW d \in Text, ActionPush(d), IsRead(d)
  PROVE  pc' = "type" /\ Len(queue') = Len(queue) + 1
<1>1. action \in ActionType /\ queue \in Seq(Pushed)
  BY DEF TypeInv, ReaderType
<1>2. Len(queue) < Len(conv.actions)
  BY DEF IsRead
<1>3. Due(Len(queue)).data \in Data
  BY <1>2, DueFacts
<1>4. ~(action.encoded /\ InvalidBase64(d))
  BY <1>3, DecodedData DEF IsRead
<1>5. pc' = "type" /\ queue' = Append(queue, Entry(d)) /\ Entry(d) \in Pushed
  BY <1>1, <1>4, PushFacts
<1> QED
  BY <1>1, <1>5, AppendType, Zenon

LEMMA CheckedAdvances ==
  ASSUME TypeInv, FileIsCut, Faithful, pc = "data", action' = action,
         NEW held \in Buffers, NEW rest \in Text, NEW d \in Text, CheckTag(held, rest, d),
         Intact(Len(queue) + 1),
         BeforeDelim(Due(Len(queue)), FileBehind(Len(queue) + 1), held, rest, d)
  PROVE  pc' \in {"type", "data"} /\ Len(queue') \in {Len(queue), Len(queue) + 1}
<1>1. CASE \E e \in Text : ActionPush(e) /\ IsRead(e)
  BY <1>1, ReadIsPushed
<1>2. CASE pc' = pc /\ queue' = queue
  BY <1>2
<1> QED
  BY <1>1, <1>2, CheckedReads

LEMMA ReadDataAdvances ==
  ASSUME TypeInv, FileIsCut, Faithful, Advance, ReadData
  PROVE  Advance'
<1>a. PICK k, n, a, r : /\ k = Len(queue) /\ n = Len(conv.actions)
                        /\ a = Due(k) /\ r = FileBehind(k + 1)
  OBVIOUS
<1>1. /\ pc = "data" /\ UNCHANGED <<conv, address, file, action, test_port>> /\ ReaderType
      /\ input \in Text /\ data \in Text /\ buf \in Buffers
  BY DEF ReadData, TypeInv, ReaderType
<1>2. pc' \in {"type", "threw", "data"}
  <2>1. ASSUME NEW held, NEW rest, NEW d, CheckTag(held, rest, d)
        PROVE  pc' \in {"type", "threw", "data"}
    BY <1>1, <2>1, CheckTagCases DEF ActionPush
  <2> QED
    BY <1>1, <2>1, ReadDataCases DEF ReadOn
<1>3. SUFFICES ASSUME Intact(n)
               PROVE  pc' \in {"type", "data"} /\ Len(queue') <= n
  BY <1>1, <1>2, <1>a, AdvanceAfter DEF Reading
<1>4. /\ k \in Nat /\ n \in Nat /\ k <= n /\ Intact(k) /\ (k < n => Intact(k + 1))
  BY <1>1, <1>3, <1>a, NextIntact DEF Reading
<1>5. k < n
  BY <1>1, <1>4, <1>a DEF Faithful, Place
<1>6. Intact(Len(queue) + 1) /\ InData(a, r)
  BY <1>1, <1>4, <1>5, <1>a, InDataNow
<1>7. ~AtDelim =>
        /\ ~ReadFails
        /\ HeldBack \in Buffers /\ Rest \in Text /\ More \in Text
        /\ (More \o Held(HeldBack, Len(EndTag))) \o Rest = Tagged(a) \o r
        /\ Len(More \o Held(HeldBack, Len(EndTag))) < Len(Tagged(a))
        /\ Len(Chunk(Room)) # Room => Rest # <<>> /\ Rest[1] = Delim
  BY <1>1, <1>6, Refilled, Zenon
<1>8. pc' \in {"type", "data"} /\ Len(queue') \in {k, k + 1}
  <2>1. CASE AtDelim /\ CheckTag(buf, input, data)
    <3>1. BeforeDelim(a, r, buf, input, data)
      BY <1>6, <2>1, DelimNext, Zenon
    <3> QED
      BY <1>1, <1>6, <1>a, <2>1, <3>1, CheckedAdvances
  <2>2. CASE ~AtDelim /\ Len(Chunk(Room)) # Room /\ CheckTag(HeldBack, Rest, More)
    <3>1. BeforeDelim(a, r, HeldBack, Rest, More)
      BY <1>6, <1>7, <2>2, Zenon DEF BeforeDelim, InData
    <3> QED
      BY <1>1, <1>6, <1>7, <1>a, <2>2, <3>1, CheckedAdvances
  <2>3. CASE ReadOn
    BY <1>1, <1>a, <2>3 DEF ReadOn
  <2> QED
    BY <1>7, <2>1, <2>2, <2>3, ReadDataCases
<1> QED
  BY <1>4, <1>5, <1>8

LEMMA ReadHeadersAdvances ==
  ASSUME TypeInv, ReadHeaders
  PROVE  Advance'
<1>1. /\ pc = "headers" /\ UNCHANGED <<conv, address, file, queue>> /\ queue = <<>>
      /\ conv.test_port \in Word /\ Len(conv.actions) \in Nat
  BY ActionsType, LenProperties DEF ReadHeaders, TypeInv, ConvType
<1>2. CASE Accepted
  <2>1. pc' = "type" /\ test_port' = conv.test_port
    BY <1>1, <1>2, HtonsTwice DEF ReadHeaders, Accepted, TestPortHeader
  <2> QED
    BY <1>1, <1>2, <2>1 DEF Advance, Accepted
<1>3. CASE ~Accepted
  <2>1. pc' = "threw"
    BY <1>3 DEF ReadHeaders, Accepted
  <2> QED
    BY <1>1, <1>3, <2>1 DEF Advance, Accepted, Reading
<1> QED
  BY <1>2, <1>3

LEMMA AdvanceStep ==
  ASSUME TypeInv, Faithful, Advance, [Next]_vars
  PROVE  Advance'
<1>1. CASE Write \/ Edit
  <2>1. queue' = <<>> /\ pc' \in {"edit", "headers"}
    BY <1>1 DEF TypeInv, Write, Edit
  <2>2. Len(conv'.actions) \in Nat
    <3>1. ConvType'
      BY TypeStep DEF TypeInv
    <3>2. conv'.actions \in Seq(Action)
      BY <3>1 DEF ConvType
    <3> QED
      BY <3>2, LenProperties
  <2> QED
    BY <2>1, <2>2 DEF Advance, Reading
<1>2. CASE ReadHeaders
  BY <1>2, ReadHeadersAdvances
<1>3. CASE ReadType \/ ReadProperty \/ ReadData
  <2>1. FileIsCut
    BY <1>3 DEF TypeInv, ReadType, ReadProperty, ReadData
  <2> QED
    BY <1>3, <2>1, ReadTypeAdvances, ReadPropertyAdvances, ReadDataAdvances
<1>4. CASE UNCHANGED vars
  BY <1>4, Zenon DEF vars, Advance, Accepted, Intact, Kept
<1> QED
  BY <1>1, <1>2, <1>3, <1>4 DEF Next

LEMMA InitAdvance == ASSUME Init PROVE Advance
<1>1. queue = <<>> /\ pc = "write" /\ Len(conv.actions) \in Nat
  BY InitType, ActionsType, LenProperties DEF Init, TypeInv
<1> QED
  BY <1>1 DEF Advance, Reading

LEMMA AdvancedComesBack ==
  ASSUME TypeInv, Faithful, Advance
  PROVE  ComesBack
<1> SUFFICES ASSUME pc \in {"done", "threw"}, Accepted, Intact(Len(conv.actions))
             PROVE  IsBack
  BY DEF ComesBack, Accepted
<1>1. pc = "done" /\ test_port = conv.test_port /\ Len(queue) = Len(conv.actions)
  BY DEF Advance, Reading
<1>2. ASSUME NEW i \in DOMAIN queue
      PROVE  Same(i)
  <2>1. Len(queue) \in Nat /\ i \in 0 .. Len(queue)
    BY <1>2, LenProperties DEF TypeInv, ReaderType
  <2>2. Intact(i)
    BY <1>1, <2>1, IntactFacts
  <2> QED
    BY <1>2, <2>2 DEF Faithful, ReadsAsWritten
<1> QED
  BY <1>1, <1>2 DEF IsBack

\* read: a file that holds every action of a TCP conversation, each with data
\* that can be told from its end tag, and an IPv4 test address, is read to its
\* end without an exception, and what comes of it is the conversation that was
\* written: its port, as many actions, of the same type and with the same data.
THEOREM AlwaysComesBack == Spec => []ComesBack
<1>1. Init => TypeInv /\ Faithful /\ Advance
  BY InitType, NothingRead, InitAdvance DEF Init
<1>2. (TypeInv /\ Faithful /\ Advance) /\ [Next]_vars => (TypeInv /\ Faithful /\ Advance)'
  BY TypeStep, FaithfulStep, AdvanceStep
<1>3. TypeInv /\ Faithful /\ Advance => ComesBack
  BY AdvancedComesBack
<1> QED
  BY <1>1, <1>2, <1>3, PTL DEF Spec

================================================================================
