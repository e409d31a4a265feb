----------------------------- MODULE SequenceLemmas -----------------------------
(***************************************************************************)
(* Lemmas about sequences and recursion that more than one proof needs:    *)
(* induction over numbers and sequences, stated for sets; what FlattenSeq  *)
(* computes; and that a loop which uses something up computes a function.  *)
(***************************************************************************)
EXTENDS Integers, SequencesExt, SequenceTheorems, WellFoundedInduction, TLAPS

-----------------------------------------------------------------------------
(* Induction over numbers and sequences, for sets.                         *)

LEMMA NatSet ==
  ASSUME NEW T, T \subseteq Nat, 0 \in T, \A n \in T : n + 1 \in T
  PROVE  T = Nat
<1> SUFFICES ASSUME Nat \ T # {} PROVE FALSE
  OBVIOUS
<1>a. PICK R, U : R = OpToRel(<, Nat) /\ U = Nat \ T
  OBVIOUS
<1>1. PICK n \in U : \A m \in U : <<m, n>> \notin R
  BY <1>a, NatLessThanWellFounded, WFMin
<1>2. \A m \in U : ~(m < n)
  BY <1>1, <1>a DEF OpToRel
<1>3. n \in Nat /\ n # 0 /\ n \notin T
  BY <1>1, <1>a
<1>4. n - 1 \in Nat /\ n - 1 \notin U
  BY <1>2, <1>3
<1>5. (n - 1) + 1 \in T
  BY <1>4, <1>a
<1> QED
  BY <1>3, <1>5

LEMMA SeqSet ==
  ASSUME NEW A, NEW T, T \subseteq Seq(A), <<>> \in T,
         \A s \in T, a \in A : Append(s, a) \in T
  PROVE  T = Seq(A)
<1>a. PICK N : N = {n \in Nat : \A s \in Seq(A) : Len(s) = n => s \in T}
  OBVIOUS
<1>1. 0 \in N
  BY <1>a
<1>2. ASSUME NEW n \in N
      PROVE  n + 1 \in N
  <2> SUFFICES ASSUME NEW s \in Seq(A), Len(s) = n + 1 PROVE s \in T
    BY <1>a
  <2>1. n \in Nat
    BY <1>a
  <2>2. PICK t \in Seq(A), a \in A : s = Append(t, a)
    <3>1. s # <<>>
      BY <2>1
    <3> QED
      BY <3>1, SequenceEmptyOrAppend
  <2>4. Len(t) = n
    BY <2>1, <2>2, AppendProperties
  <2>3. t \in T
    BY <1>a, <2>4
  <2> QED
    BY <2>2, <2>3
<1>3. N = Nat
  BY <1>1, <1>2, <1>a, NatSet
<1>4. \A s \in Seq(A) : Len(s) \in N
  BY <1>3
<1>5. Seq(A) \subseteq T
  BY <1>4, <1>a
<1> QED
  BY <1>5

-----------------------------------------------------------------------------
(* FlattenSeq.                                                             *)

Flattening(s, n, f) ==
  f = [i \in 1 .. n |-> IF i = 1 THEN s[i] ELSE f[i - 1] \o s[i]]

LEMMA FlatteningExists ==
  ASSUME NEW s, NEW n \in Nat
  PROVE  \E f : Flattening(s, n, f)
<1>a. PICK T : T = {k \in Nat : \E f : Flattening(s, k, f)}
  OBVIOUS
<1>1. 0 \in T
  <2>1. \A f : Flattening(s, 0, f) <=> f = [i \in {} |-> <<>>]
    BY DEF Flattening
  <2> QED
    BY <1>a, <2>1
<1>2. ASSUME NEW k \in T
      PROVE  k + 1 \in T
  <2>0. k \in Nat
    BY <1>a
  <2>1. PICK g : Flattening(s, k, g)
    BY <1>a
  <2>b. PICK f : f = [i \in 1 .. k + 1 |->
                        IF i = k + 1 THEN (IF i = 1 THEN s[i] ELSE g[k] \o s[i]) ELSE g[i]]
    OBVIOUS
  <2>2. \A i \in 1 .. k : g[i] = IF i = 1 THEN s[i] ELSE g[i - 1] \o s[i]
    BY <2>1 DEF Flattening
  <2>3. \A i \in 1 .. k + 1 : f[i] = IF i = 1 THEN s[i] ELSE f[i - 1] \o s[i]
    <3> SUFFICES ASSUME NEW i \in 1 .. k + 1
                 PROVE  f[i] = IF i = 1 THEN s[i] ELSE f[i - 1] \o s[i]
      OBVIOUS
    <3>1. i # 1 => i - 1 \in 1 .. k /\ i - 1 \in 1 .. k + 1 /\ i - 1 # k + 1
      BY <2>0
    <3>2. i # 1 => f[i - 1] = g[i - 1]
      BY <2>b, <3>1
    <3>3. CASE i = k + 1
      <4>1. i # 1 => i - 1 = k
        BY <2>0, <3>3
      <4> QED
        BY <2>b, <3>2, <3>3, <4>1
    <3>4. CASE i # k + 1
      <4>1. i \in 1 .. k
        BY <2>0, <3>4
      <4>2. f[i] = g[i]
        BY <2>b, <3>4
      <4> QED
        BY <2>2, <3>2, <4>1, <4>2
    <3> QED
      BY <3>3, <3>4
  <2>4. Flattening(s, k + 1, f)
    BY <2>b, <2>3 DEF Flattening
  <2> QED
    BY <1>a, <2>0, <2>4
<1>3. T = Nat
  BY <1>1, <1>2, <1>a, NatSet
<1> QED
  BY <1>3, <1>a

LEMMA FlattenUnfolds ==
  ASSUME NEW s, NEW n \in Nat, n = Len(s), n # 0
  PROVE  \E f : Flattening(s, n, f) /\ FlattenSeq(s) = f[n]
<1>a. PICK f : f = CHOOSE g : Flattening(s, n, g)
  OBVIOUS
<1>1. Flattening(s, n, f)
  BY <1>a, FlatteningExists, Zenon
<1>2. FlattenSeq(s) = f[n]
  BY <1>a, Zenon DEF FlattenSeq, Flattening
<1> QED
  BY <1>1, <1>2

Agree(s, t, n) == \A i \in 1 .. n : s[i] = t[i]

\* Two flattenings of what is the same up to n are the same up to n.
LEMMA FlatteningsAgree ==
  ASSUME NEW s, NEW t, NEW m \in Nat, NEW n \in Nat, n <= m,
         Agree(s, t, n),
         NEW f, Flattening(s, n, f), NEW g, Flattening(t, m, g)
  PROVE  Agree(f, g, n)
<1>a. PICK T : T = {k \in Nat : k \in 1 .. n => f[k] = g[k]}
  OBVIOUS
<1>1. /\ \A i \in 1 .. n : f[i] = IF i = 1 THEN s[i] ELSE f[i - 1] \o s[i]
      /\ \A i \in 1 .. m : g[i] = IF i = 1 THEN t[i] ELSE g[i - 1] \o t[i]
  BY DEF Flattening
<1>2. 0 \in T
  BY <1>a
<1>3. ASSUME NEW k \in T
      PROVE  k + 1 \in T
  <2> SUFFICES ASSUME k + 1 \in 1 .. n PROVE f[k + 1] = g[k + 1]
    BY <1>a
  <2>1. k \in Nat /\ k + 1 \in 1 .. m /\ s[k + 1] = t[k + 1]
    BY <1>a DEF Agree
  <2>2. CASE k = 0
    BY <1>1, <2>1, <2>2
  <2>3. CASE k # 0
    <3>1. k \in 1 .. n /\ k + 1 # 1 /\ (k + 1) - 1 = k
      BY <2>1, <2>3
    <3>2. f[k] = g[k]
      BY <1>a, <3>1
    <3>3. f[k + 1] = f[k] \o s[k + 1] /\ g[k + 1] = g[k] \o t[k + 1]
      BY <1>1, <2>1, <3>1
    <3> QED
      BY <2>1, <3>2, <3>3
  <2> QED
    BY <2>2, <2>3
<1>4. T = Nat
  BY <1>2, <1>3, <1>a, NatSet
<1> QED
  BY <1>4, <1>a DEF Agree

LEMMA FlattenEmpty == FlattenSeq(<<>>) = <<>>
BY DEF FlattenSeq

LEMMA FlattenAppend ==
  ASSUME NEW S, NEW s \in Seq(Seq(S)), NEW e \in Seq(S)
  PROVE  FlattenSeq(Append(s, e)) = FlattenSeq(s) \o e
<1>a. PICK n, t : n = Len(s) /\ t = Append(s, e)
  OBVIOUS
<1>1. /\ n \in Nat /\ Len(t) = n + 1 /\ t[n + 1] = e
      /\ \A i \in 1 .. n : s[i] = t[i]
  BY <1>a, AppendProperties
<1>2. PICK g : Flattening(t, n + 1, g) /\ FlattenSeq(t) = g[n + 1]
  BY <1>1, FlattenUnfolds
<1>3. g[n + 1] = IF n + 1 = 1 THEN t[n + 1] ELSE g[(n + 1) - 1] \o t[n + 1]
  <2>1. \A i \in 1 .. n + 1 : g[i] = IF i = 1 THEN t[i] ELSE g[i - 1] \o t[i]
    BY <1>2 DEF Flattening
  <2>2. n + 1 \in 1 .. n + 1
    BY <1>1
  <2> QED
    BY <2>1, <2>2, Zenon
<1>4. CASE n = 0
  <2>1. s = <<>>
    BY <1>a, <1>4, EmptySeq
  <2>2. FlattenSeq(t) = e
    BY <1>1, <1>2, <1>3, <1>4
  <2>3. <<>> \o e = e
    BY ConcatEmptySeq
  <2> QED
    BY <1>a, <2>1, <2>2, <2>3, FlattenEmpty
<1>5. CASE n # 0
  <2>1. PICK f : Flattening(s, n, f) /\ FlattenSeq(s) = f[n]
    BY <1>1, <1>5, <1>a, FlattenUnfolds
  <2>2. n + 1 \in Nat /\ n <= n + 1 /\ n \in 1 .. n
    BY <1>1, <1>5
  <2>3. f[n] = g[n]
    <3>a. PICK m : m = n + 1
      OBVIOUS
    <3>1. /\ m \in Nat /\ n <= m /\ Flattening(t, m, g)
          /\ Agree(s, t, n)
      BY <1>1, <1>2, <2>2, <3>a DEF Agree
    <3>2. Agree(f, g, n)
      BY <1>1, <2>1, <3>1, FlatteningsAgree
    <3> QED
      BY <2>2, <3>2 DEF Agree
  <2>4. g[n + 1] = g[n] \o e
    <3>1. (n + 1) - 1 = n /\ n + 1 # 1
      BY <1>1, <1>5
    <3> QED
      BY <1>1, <1>3, <3>1
  <2> QED
    BY <1>2, <1>a, <2>1, <2>3, <2>4
<1> QED
  BY <1>4, <1>5

LEMMA FlattenType ==
  ASSUME NEW S, NEW s \in Seq(Seq(S))
  PROVE  FlattenSeq(s) \in Seq(S)
<1>a. PICK T : T = {u \in Seq(Seq(S)) : FlattenSeq(u) \in Seq(S)}
  OBVIOUS
<1>1. <<>> \in T
  BY <1>a, FlattenEmpty, EmptySeq
<1>2. ASSUME NEW u \in T, NEW e \in Seq(S)
      PROVE  Append(u, e) \in T
  BY <1>a, FlattenAppend, AppendProperties, ConcatProperties
<1>3. T = Seq(Seq(S))
  BY <1>1, <1>2, <1>a, SeqSet
<1> QED
  BY <1>3, <1>a

AssociatesIn(S) == \A s, t, u \in Seq(S) : (s \o t) \o u = s \o (t \o u)

LEMMA AllAssociate == \A S : AssociatesIn(S)
BY ConcatAssociative DEF AssociatesIn

LEMMA FlattenConcat ==
  ASSUME NEW S, NEW s \in Seq(Seq(S)), NEW t \in Seq(Seq(S))
  PROVE  FlattenSeq(s \o t) = FlattenSeq(s) \o FlattenSeq(t)
<1>a. PICK T : T = {u \in Seq(Seq(S)) : FlattenSeq(s \o u) = FlattenSeq(s) \o FlattenSeq(u)}
  OBVIOUS
<1>1. <<>> \in T
  BY <1>a, FlattenEmpty, FlattenType, ConcatEmptySeq
<1>2. ASSUME NEW u \in T, NEW e \in Seq(S)
      PROVE  Append(u, e) \in T
  <2>1. u \in Seq(Seq(S)) /\ FlattenSeq(s \o u) = FlattenSeq(s) \o FlattenSeq(u)
    BY <1>a
  <2>2. s \o Append(u, e) = Append(s \o u, e) /\ s \o u \in Seq(Seq(S))
    <3>a. PICK B, w : B = Seq(S) /\ w = <<e>>
      OBVIOUS
    <3>1. s \in Seq(B) /\ u \in Seq(B) /\ e \in B /\ w \in Seq(B)
      BY <2>1, <3>a
    <3>2. s \o u \in Seq(B)
      BY <3>1, ConcatProperties
    <3>3. Append(u, e) = u \o w /\ Append(s \o u, e) = (s \o u) \o w
      BY <3>1, <3>2, <3>a, AppendIsConcat
    <3>4. (s \o u) \o w = s \o (u \o w)
      BY <3>1, ConcatAssociative
    <3> QED
      BY <3>2, <3>3, <3>4, <3>a
  <2>3. FlattenSeq(s \o Append(u, e)) = (FlattenSeq(s) \o FlattenSeq(u)) \o e
    BY <2>1, <2>2, FlattenAppend
  <2>4. FlattenSeq(Append(u, e)) = FlattenSeq(u) \o e
    BY <2>1, FlattenAppend
  <2>5. FlattenSeq(s) \in Seq(S) /\ FlattenSeq(u) \in Seq(S)
    BY <2>1, FlattenType
  <2>6. (FlattenSeq(s) \o FlattenSeq(u)) \o e = FlattenSeq(s) \o (FlattenSeq(u) \o e)
    <3>1. PICK x, y : x = FlattenSeq(s) /\ y = FlattenSeq(u)
      OBVIOUS
    <3>2. x \in Seq(S) /\ y \in Seq(S)
      BY <2>5, <3>1
    <3>3. AssociatesIn(S)
      BY AllAssociate, Zenon
    <3>4. (x \o y) \o e = x \o (y \o e)
      BY <3>2, <3>3, Zenon DEF AssociatesIn
    <3> QED
      BY <3>1, <3>4
  <2> QED
    BY <1>a, <2>1, <2>3, <2>4, <2>6, AppendProperties
<1>3. T = Seq(Seq(S))
  BY <1>1, <1>2, <1>a, SeqSet
<1> QED
  BY <1>3, <1>a

-----------------------------------------------------------------------------
(* What is made of a sequence element by element.                          *)

Mapped(f, s) == [i \in DOMAIN s |-> f[s[i]]]

FlatMap(f, s) == FlattenSeq(Mapped(f, s))

LEMMA FunctionIsSeq ==
  \A B, n, g : n \in Nat /\ g \in [1 .. n -> B] => g \in Seq(B) /\ Len(g) = n
BY IsASeq

IsMapped(B, f, s, x) ==
  x \in Seq(B) /\ Len(x) = Len(s) /\ \A i \in 1 .. Len(s) : x[i] = f[s[i]]

Maps(f, A, B) == f \in [A -> B]

LEMMA IsMappedFacts ==
  \A A, B, f, s : Maps(f, A, B) /\ s \in Seq(A) => IsMapped(B, f, s, Mapped(f, s))
<1> SUFFICES ASSUME NEW A, NEW B, NEW f \in [A -> B], NEW s \in Seq(A)
             PROVE  IsMapped(B, f, s, Mapped(f, s))
  BY DEF Maps
<1>a. PICK x : x = Mapped(f, s)
  OBVIOUS
<1>1. DOMAIN s = 1 .. Len(s) /\ Len(s) \in Nat /\ \A i \in 1 .. Len(s) : s[i] \in A
  BY ElementOfSeq
<1>2. x = [i \in 1 .. Len(s) |-> f[s[i]]]
  BY <1>1, <1>a DEF Mapped
<1>3. x \in [1 .. Len(s) -> B]
  BY <1>1, <1>2
<1>4. x \in Seq(B) /\ Len(x) = Len(s)
  BY <1>1, <1>3, FunctionIsSeq, Zenon
<1> QED
  BY <1>2, <1>4, <1>a DEF IsMapped

IsConcat(B, x, y, w) ==
  /\ w \in Seq(B) /\ Len(w) = Len(x) + Len(y)
  /\ \A i \in 1 .. Len(x) + Len(y) : w[i] = IF i <= Len(x) THEN x[i] ELSE y[i - Len(x)]

LEMMA IsConcatFacts ==
  \A B, x, y : x \in Seq(B) /\ y \in Seq(B) => IsConcat(B, x, y, x \o y)
BY ConcatProperties DEF IsConcat

\* The first element, and the others.
LEMMA FirstAndRest ==
  ASSUME NEW S, NEW s \in Seq(S), s # <<>>
  PROVE  s[1] \in S /\ Tail(s) \in Seq(S) /\ Len(Tail(s)) = Len(s) - 1 /\ s = <<s[1]>> \o Tail(s)
<1>1. PICK h, t, e : h = s[1] /\ t = Tail(s) /\ e = <<h>>
  OBVIOUS
<1>2. Len(s) \in Nat /\ Len(s) # 0
  BY EmptySeq
<1>3. h \in S
  BY <1>1, <1>2, ElementOfSeq
<1>4. t \in Seq(S) /\ Len(t) = Len(s) - 1 /\ \A i \in 1 .. Len(t) : t[i] = s[i + 1]
  BY <1>1, HeadTailProperties
<1>5. e \in Seq(S) /\ Len(e) = 1 /\ e[1] = h
  BY <1>1, <1>3
<1>6. PICK w : w = e \o t
  OBVIOUS
<1>7. /\ w \in Seq(S) /\ Len(w) = Len(s)
      /\ \A i \in 1 .. Len(s) : w[i] = IF i <= 1 THEN e[i] ELSE t[i - 1]
  <2>1. IsConcat(S, e, t, w)
    BY <1>4, <1>5, <1>6, IsConcatFacts
  <2>2. 1 + (Len(s) - 1) = Len(s)
    BY <1>2
  <2> QED
    BY <2>1, <2>2, <1>4, <1>5 DEF IsConcat
<1>8. ASSUME NEW i \in 1 .. Len(s)
      PROVE  w[i] = s[i]
  <2>1. CASE i = 1
    BY <1>1, <1>2, <1>5, <1>7, <2>1
  <2>2. CASE i # 1
    <3>1. i - 1 \in 1 .. Len(t) /\ ~(i <= 1) /\ (i - 1) + 1 = i
      BY <1>2, <1>4, <2>2
    <3> QED
      BY <1>4, <1>7, <3>1
  <2> QED
    BY <2>1, <2>2
<1>9. w = s
  BY <1>7, <1>8, SeqEqual
<1> QED
  BY <1>1, <1>3, <1>4, <1>6, <1>9

LEMMA MappedConcat ==
  \A A, B, f, s, t : Maps(f, A, B) /\ s \in Seq(A) /\ t \in Seq(A)
     => Mapped(f, s \o t) = Mapped(f, s) \o Mapped(f, t)
<1> SUFFICES ASSUME NEW A, NEW B, NEW f, NEW s, NEW t,
                    Maps(f, A, B) /\ s \in Seq(A) /\ t \in Seq(A)
             PROVE  Mapped(f, s \o t) = Mapped(f, s) \o Mapped(f, t)
  OBVIOUS
<1>u. PICK u, x, y, z : u = s \o t /\ x = Mapped(f, s) /\ y = Mapped(f, t) /\ z = Mapped(f, u)
  OBVIOUS
<1>1. IsConcat(A, s, t, u)
  BY <1>u, IsConcatFacts, Zenon
<1>2. u \in Seq(A)
  BY <1>1 DEF IsConcat
<1>3. IsMapped(B, f, s, x) /\ IsMapped(B, f, t, y) /\ IsMapped(B, f, u, z)
  BY <1>2, <1>u, IsMappedFacts, Zenon
<1>w. PICK w : w = x \o y
  OBVIOUS
<1>4. IsConcat(B, x, y, w)
  <2>1. x \in Seq(B) /\ y \in Seq(B)
    BY <1>3 DEF IsMapped
  <2> QED
    BY <2>1, <1>w, IsConcatFacts, Zenon
<1>5. Len(s) \in Nat /\ Len(t) \in Nat
  OBVIOUS
<1>6. PICK m, n : m = Len(s) /\ n = Len(t)
  OBVIOUS
<1>7. /\ m \in Nat /\ n \in Nat
      /\ z \in Seq(B) /\ w \in Seq(B) /\ Len(z) = m + n /\ Len(w) = m + n
      /\ \A i \in 1 .. m + n : u[i] = IF i <= m THEN s[i] ELSE t[i - m]
      /\ \A i \in 1 .. m + n : w[i] = IF i <= m THEN x[i] ELSE y[i - m]
      /\ \A i \in 1 .. m + n : z[i] = f[u[i]]
      /\ \A i \in 1 .. m : x[i] = f[s[i]]
      /\ \A i \in 1 .. n : y[i] = f[t[i]]
  BY <1>1, <1>3, <1>4, <1>5, <1>6 DEF IsMapped, IsConcat
<1>8. ASSUME NEW i \in 1 .. m + n
      PROVE  z[i] = w[i]
  <2>1. z[i] = f[u[i]]
    BY <1>7
  <2>2. CASE i <= m
    <3>1. i \in 1 .. m
      BY <1>7, <2>2
    <3> QED
      BY <1>7, <2>1, <2>2, <3>1
  <2>3. CASE ~(i <= m)
    <3>1. i - m \in 1 .. n
      BY <1>7, <2>3
    <3> QED
      BY <1>7, <2>1, <2>3, <3>1
  <2> QED
    BY <2>2, <2>3
<1>9. z = w
  BY <1>7, <1>8, SeqEqual
<1> QED
  BY <1>9, <1>u, <1>w, Zenon

LEMMA FlatMapConcat ==
  \A A, S, f, s, t : Maps(f, A, Seq(S)) /\ s \in Seq(A) /\ t \in Seq(A)
     => FlatMap(f, s \o t) = FlatMap(f, s) \o FlatMap(f, t)
<1> SUFFICES ASSUME NEW A, NEW S, NEW f, NEW s, NEW t,
                    Maps(f, A, Seq(S)) /\ s \in Seq(A) /\ t \in Seq(A)
             PROVE  FlatMap(f, s \o t) = FlatMap(f, s) \o FlatMap(f, t)
  OBVIOUS
<1>b. PICK x, y : x = Mapped(f, s) /\ y = Mapped(f, t)
  OBVIOUS
<1>1. Mapped(f, s \o t) = x \o y
  <2>1. Mapped(f, s \o t) = Mapped(f, s) \o Mapped(f, t)
    BY MappedConcat
  <2> QED
    BY <2>1, <1>b
<1>2. IsMapped(Seq(S), f, s, x) /\ IsMapped(Seq(S), f, t, y)
  BY <1>b, IsMappedFacts, Zenon
<1>3. x \in Seq(Seq(S)) /\ y \in Seq(Seq(S))
  BY <1>2 DEF IsMapped
<1>4. FlattenSeq(x \o y) = FlattenSeq(x) \o FlattenSeq(y)
  BY <1>3, FlattenConcat
<1> QED
  BY <1>1, <1>4, <1>b, Zenon DEF FlatMap

LEMMA FlatMapEmpty ==
  ASSUME NEW f
  PROVE  FlatMap(f, <<>>) = <<>>
<1>1. [i \in DOMAIN <<>> |-> f[<<>>[i]]] = <<>>
  OBVIOUS
<1> QED
  BY <1>1, FlattenEmpty DEF FlatMap, Mapped

LEMMA FlattenOne ==
  ASSUME NEW S, NEW e \in Seq(S)
  PROVE  FlattenSeq(<<e>>) = e
<1>a. PICK o : o = <<>>
  OBVIOUS
<1>1. o \in Seq(Seq(S)) /\ <<e>> = Append(o, e)
  BY <1>a
<1>2. FlattenSeq(Append(o, e)) = FlattenSeq(o) \o e
  BY <1>1, FlattenAppend
<1> QED
  BY <1>1, <1>2, <1>a, FlattenEmpty, ConcatEmptySeq

LEMMA FlatMapOne ==
  ASSUME NEW A, NEW S, NEW f \in [A -> Seq(S)], NEW a \in A
  PROVE  FlatMap(f, <<a>>) = f[a]
<1>1. [i \in DOMAIN <<a>> |-> f[<<a>>[i]]] = <<f[a]>>
  OBVIOUS
<1>2. FlattenSeq(<<f[a]>>) = f[a]
  BY FlattenOne
<1> QED
  BY <1>1, <1>2 DEF FlatMap, Mapped

LEMMA FlatMapType ==
  ASSUME NEW A, NEW S, NEW f \in [A -> Seq(S)], NEW s \in Seq(A)
  PROVE  FlatMap(f, s) \in Seq(S)
<1>1. IsMapped(Seq(S), f, s, Mapped(f, s))
  <2>1. Maps(f, A, Seq(S)) /\ s \in Seq(A)
    BY DEF Maps
  <2> QED
    BY <2>1, IsMappedFacts, Zenon
<1>2. Mapped(f, s) \in Seq(Seq(S))
  BY <1>1 DEF IsMapped
<1> QED
  BY <1>2, FlattenType DEF FlatMap

-----------------------------------------------------------------------------
(* A loop over the states of P: from p, if goes[p], it goes on at next[p], *)
(* and otherwise ends with out[p].  When each step that goes on makes size *)
(* smaller, the recursive definition of its result has a solution.         *)

Loop(P, goes, next, out, f) ==
  f = [p \in P |-> IF goes[p] THEN f[next[p]] ELSE out[p]]

UsesUp(P, goes, next, size) ==
  /\ size \in [P -> Nat]
  /\ \A p \in P : goes[p] => next[p] \in P /\ size[next[p]] < size[p]

\* f is right for all that is smaller than n.
Right(P, goes, next, out, size, f, n) ==
  \A p \in P : size[p] < n => f[p] = IF goes[p] THEN f[next[p]] ELSE out[p]

LEMMA RightExists ==
  ASSUME NEW P, NEW goes, NEW next, NEW out, NEW size, UsesUp(P, goes, next, size),
         NEW n \in Nat
  PROVE  \E f : Right(P, goes, next, out, size, f, n)
<1>a. PICK T : T = {k \in Nat : \E f : Right(P, goes, next, out, size, f, k)}
  OBVIOUS
<1>0. /\ size \in [P -> Nat]
      /\ \A p \in P : goes[p] => next[p] \in P /\ size[next[p]] < size[p]
  BY DEF UsesUp
<1>1. 0 \in T
  <2>1. \A p \in P : ~(size[p] < 0)
    BY <1>0
  <2> QED
    BY <1>a, <2>1 DEF Right
<1>2. ASSUME NEW k \in T
      PROVE  k + 1 \in T
  <2>1. k \in Nat
    BY <1>a
  <2>2. PICK f : Right(P, goes, next, out, size, f, k)
    BY <1>a
  <2>b. PICK g : g = [p \in P |-> IF size[p] < k THEN f[p]
                                  ELSE IF goes[p] THEN f[next[p]] ELSE out[p]]
    OBVIOUS
  <2>3. ASSUME NEW p \in P, size[p] < k + 1
        PROVE  g[p] = IF goes[p] THEN g[next[p]] ELSE out[p]
    <3>1. g[p] = IF goes[p] THEN f[next[p]] ELSE out[p]
      <4>1. CASE size[p] < k
        BY <2>2, <2>b, <4>1 DEF Right
      <4>2. CASE ~(size[p] < k)
        BY <2>b, <4>2
      <4> QED
        BY <4>1, <4>2
    <3>2. ASSUME goes[p] PROVE g[next[p]] = f[next[p]]
      <4>1. next[p] \in P /\ size[next[p]] \in Nat /\ size[p] \in Nat /\ size[next[p]] < size[p]
        BY <1>0, <3>2
      <4>2. size[next[p]] < k
        BY <2>1, <2>3, <4>1
      <4> QED
        BY <2>b, <4>1, <4>2
    <3> QED
      BY <3>1, <3>2
  <2> QED
    BY <1>a, <2>1, <2>3 DEF Right
<1>3. T = Nat
  BY <1>1, <1>2, <1>a, NatSet
<1> QED
  BY <1>3, <1>a

AgreeBelow(P, size, f, m, g, n) ==
  \A p \in P : size[p] < m /\ size[p] < n => f[p] = g[p]

LEMMA RightAgrees ==
  ASSUME NEW P, NEW goes, NEW next, NEW out, NEW size, UsesUp(P, goes, next, size)
  PROVE  \A f, g : \A m, n \in Nat :
           /\ Right(P, goes, next, out, size, f, m)
           /\ Right(P, goes, next, out, size, g, n)
           => AgreeBelow(P, size, f, m, g, n)
<1> SUFFICES ASSUME NEW f, NEW m \in Nat, Right(P, goes, next, out, size, f, m),
                    NEW g, NEW n \in Nat, Right(P, goes, next, out, size, g, n)
             PROVE  \A p \in P : size[p] < m /\ size[p] < n => f[p] = g[p]
  BY DEF AgreeBelow
<1>a. PICK T : T = {k \in Nat : \A p \in P : size[p] < m /\ size[p] < n /\ size[p] < k
                                             => f[p] = g[p]}
  OBVIOUS
<1>0. /\ size \in [P -> Nat]
      /\ \A p \in P : goes[p] => next[p] \in P /\ size[next[p]] < size[p]
  BY DEF UsesUp
<1>1. 0 \in T
  <2>1. \A p \in P : ~(size[p] < 0)
    BY <1>0
  <2> QED
    BY <1>a, <2>1
<1>2. ASSUME NEW k \in T
      PROVE  k + 1 \in T
  <2>1. k \in Nat
    BY <1>a
  <2>2. ASSUME NEW p \in P, size[p] < m, size[p] < n, size[p] < k + 1
        PROVE  f[p] = g[p]
    <3>1. /\ f[p] = IF goes[p] THEN f[next[p]] ELSE out[p]
          /\ g[p] = IF goes[p] THEN g[next[p]] ELSE out[p]
      BY <2>2 DEF Right
    <3>2. ASSUME goes[p] PROVE f[next[p]] = g[next[p]]
      <4>1. next[p] \in P /\ size[next[p]] \in Nat /\ size[p] \in Nat /\ size[next[p]] < size[p]
        BY <1>0, <3>2
      <4>2. size[next[p]] < k /\ size[next[p]] < m /\ size[next[p]] < n
        BY <2>1, <2>2, <4>1
      <4> QED
        BY <1>a, <4>1, <4>2
    <3> QED
      BY <3>1, <3>2
  <2> QED
    BY <1>a, <2>1, <2>2
<1>3. T = Nat
  BY <1>1, <1>2, <1>a, NatSet
<1>4. ASSUME NEW p \in P, size[p] < m, size[p] < n
      PROVE  f[p] = g[p]
  <2>1. size[p] \in Nat
    BY <1>0
  <2>2. size[p] + 1 \in T /\ size[p] < size[p] + 1
    BY <1>3, <2>1
  <2> QED
    BY <1>a, <1>4, <2>2
<1> QED
  BY <1>4

LEMMA LoopExists ==
  ASSUME NEW P, NEW goes, NEW next, NEW out, NEW size, UsesUp(P, goes, next, size)
  PROVE  \E f : Loop(P, goes, next, out, f)
<1>0. /\ size \in [P -> Nat]
      /\ \A p \in P : goes[p] => next[p] \in P /\ size[next[p]] < size[p]
  BY DEF UsesUp
<1>a. PICK h : h = [n \in Nat |-> CHOOSE f : Right(P, goes, next, out, size, f, n)]
  OBVIOUS
<1>1. \A n \in Nat : Right(P, goes, next, out, size, h[n], n)
  <2> SUFFICES ASSUME NEW n \in Nat PROVE Right(P, goes, next, out, size, h[n], n)
    OBVIOUS
  <2>1. h[n] = CHOOSE f : Right(P, goes, next, out, size, f, n)
    BY <1>a
  <2>2. \E f : Right(P, goes, next, out, size, f, n)
    BY RightExists
  <2> QED
    BY <2>1, <2>2, Zenon
<1>b. PICK f : f = [p \in P |-> h[size[p] + 1][p]]
  OBVIOUS
<1>2. ASSUME NEW p \in P
      PROVE  f[p] = IF goes[p] THEN f[next[p]] ELSE out[p]
  <2>1. size[p] \in Nat /\ size[p] + 1 \in Nat /\ size[p] < size[p] + 1
    BY <1>0
  <2>2. f[p] = IF goes[p] THEN h[size[p] + 1][next[p]] ELSE out[p]
    <3>1. Right(P, goes, next, out, size, h[size[p] + 1], size[p] + 1)
      BY <1>1, <2>1
    <3> QED
      BY <1>b, <2>1, <3>1 DEF Right
  <2>3. ASSUME goes[p] PROVE h[size[p] + 1][next[p]] = f[next[p]]
    <3>a. PICK q : q = next[p]
      OBVIOUS
    <3>1. q \in P /\ size[q] \in Nat /\ size[q] < size[p]
      BY <1>0, <2>3, <3>a
    <3>2. size[q] + 1 \in Nat /\ size[q] < size[q] + 1 /\ size[q] < size[p] + 1
      BY <2>1, <3>1
    <3>b. PICK x, y, m, n : /\ m = size[p] + 1 /\ x = h[m]
                            /\ n = size[q] + 1 /\ y = h[n]
      OBVIOUS
    <3>3. /\ Right(P, goes, next, out, size, x, m) /\ m \in Nat
          /\ Right(P, goes, next, out, size, y, n) /\ n \in Nat
      BY <1>1, <2>1, <3>2, <3>b
    <3>4. x[q] = y[q]
      <4>1. AgreeBelow(P, size, x, m, y, n)
        BY <3>3, RightAgrees
      <4> QED
        BY <3>1, <3>2, <3>b, <4>1 DEF AgreeBelow
    <3> QED
      BY <1>b, <3>1, <3>4, <3>a, <3>b
  <2> QED
    BY <2>2, <2>3
<1>3. f = [p \in P |-> IF goes[p] THEN f[next[p]] ELSE out[p]]
  BY <1>b, <1>2
<1> QED
  BY <1>3 DEF Loop

\* What each step of a loop keeps is still so where it ends.
LEMMA LoopEnds ==
  ASSUME NEW P, NEW goes, NEW next, NEW out, NEW size, UsesUp(P, goes, next, size),
         NEW f, Loop(P, goes, next, out, f),
         NEW G \in SUBSET P, \A p \in G : goes[p] => next[p] \in G,
         NEW start \in G
  PROVE  \E p \in G : ~goes[p] /\ f[start] = out[p]
<1>a. PICK T : T = {n \in Nat : \A q \in G : size[q] < n =>
                                  \E p \in G : ~goes[p] /\ f[q] = out[p]}
  OBVIOUS
<1>0. /\ size \in [P -> Nat]
      /\ \A p \in P : goes[p] => next[p] \in P /\ size[next[p]] < size[p]
      /\ \A p \in P : f[p] = IF goes[p] THEN f[next[p]] ELSE out[p]
  BY DEF UsesUp, Loop
<1>1. 0 \in T
  <2>1. \A q \in G : ~(size[q] < 0)
    BY <1>0
  <2> QED
    BY <1>a, <2>1
<1>2. ASSUME NEW n \in T
      PROVE  n + 1 \in T
  <2>1. n \in Nat
    BY <1>a
  <2>2. ASSUME NEW q \in G, size[q] < n + 1
        PROVE  \E p \in G : ~goes[p] /\ f[q] = out[p]
    <3>1. CASE goes[q]
      <4>1. /\ next[q] \in G /\ f[q] = f[next[q]]
            /\ size[next[q]] \in Nat /\ size[q] \in Nat /\ size[next[q]] < size[q]
        BY <1>0, <3>1
      <4>2. size[next[q]] < n
        BY <2>1, <2>2, <4>1
      <4> QED
        BY <1>a, <4>1, <4>2
    <3>2. CASE ~goes[q]
      BY <1>0, <3>2
    <3> QED
      BY <3>1, <3>2
  <2> QED
    BY <1>a, <2>1, <2>2
<1>3. T = Nat
  BY <1>1, <1>2, <1>a, NatSet
<1>4. size[start] \in Nat
  BY <1>0
<1>5. size[start] + 1 \in T /\ size[start] < size[start] + 1
  BY <1>3, <1>4
<1> QED
  BY <1>5, <1>a

=============================================================================
