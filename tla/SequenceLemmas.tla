--------------------------- MODULE SequenceLemmas ---------------------------
(***************************************************************************)
(* Lemmas about the natural numbers, about choosing from a sequence        *)
(* (Selection) and about sequences as functions.                           *)
(*                                                                         *)
(* Induction is stated about a set P, the numbers or the sequences of      *)
(* which something is claimed, and follows from the well-foundedness of <  *)
(* on the natural numbers: whatever is not in P has a least element.       *)
(***************************************************************************)
EXTENDS Selection, Integers, SequenceTheorems, FiniteSetTheorems, TLAPS

\* < is a well-founded relation on the natural numbers.
LEMMA NatWellFounded ==
    \E R : IsWellFoundedOn(R, Nat) /\ \A m, n \in Nat : m < n => <<m, n>> \in R
<1> DEFINE R == OpToRel(<, Nat)
<1>1. IsWellFoundedOn(R, Nat) BY NatLessThanWellFounded
<1>2. \A m, n \in Nat : m < n => <<m, n>> \in R BY DEF OpToRel
<1> HIDE DEF R
<1>3. QED BY <1>1, <1>2

\* A set of natural numbers has a least one.
LEMMA LeastNatural ==
    ASSUME NEW S, S \subseteq Nat, S # {}
    PROVE  \E n \in S : \A m \in S : n <= m
<1>1. PICK R : IsWellFoundedOn(R, Nat) /\ \A m, n \in Nat : m < n => <<m, n>> \in R
  BY NatWellFounded
<1>2. IsWellFoundedOn(R, Nat)
  BY <1>1
<1>3. PICK n \in S : \A m \in S : <<m, n>> \notin R BY <1>2, WFMin
<1>4. ASSUME NEW m \in S PROVE n <= m
  <2>1. m \in Nat /\ n \in Nat /\ ~ (m < n)
    BY <1>1, <1>3
  <2>2. QED BY <2>1
<1>5. QED BY <1>4

\* What holds of 0, and of n + 1 when it holds of n, holds of every number.
LEMMA Induction ==
    ASSUME NEW P, 0 \in P, \A n \in Nat : n \in P => n + 1 \in P
    PROVE  Nat \subseteq P
<1>1. SUFFICES ASSUME Nat \ P # {} PROVE FALSE
  OBVIOUS
<1>2. PICK n \in Nat \ P : \A m \in Nat \ P : n <= m
  BY <1>1, LeastNatural
<1>3. n # 0 /\ n - 1 \in Nat /\ ~ (n <= n - 1) /\ (n - 1) + 1 = n
  BY <1>2
<1>4. n - 1 \in P
  BY <1>2, <1>3
<1>5. n \in P
  BY <1>3, <1>4
<1>6. QED BY <1>2, <1>5

\* What holds of <<>>, and of Append(s, x) when it holds of s, holds of every sequence.
LEMMA SequenceInduction ==
    ASSUME NEW A, NEW P, <<>> \in P,
           \A s \in Seq(A), x \in A : s \in P => Append(s, x) \in P
    PROVE  Seq(A) \subseteq P
<1> DEFINE Q == {n \in Nat : \A s \in Seq(A) : Len(s) = n => s \in P}
<1>1. 0 \in Q
  <2>1. ASSUME NEW s \in Seq(A), Len(s) = 0 PROVE s \in P
    BY <2>1, s = <<>>
  <2>2. QED BY <2>1
<1>2. ASSUME NEW n \in Nat, n \in Q PROVE n + 1 \in Q
  <2>1. ASSUME NEW t \in Seq(A), Len(t) = n + 1 PROVE t \in P
    <3>1. t # <<>> BY <2>1
    <3>2. PICK s \in Seq(A), x \in A : t = Append(s, x)
      BY <3>1, SequenceEmptyOrAppend
    <3>3. Len(s) = n BY <2>1, <3>2, AppendProperties
    <3>4. QED BY <1>2, <3>2, <3>3
  <2>2. QED BY <2>1
<1> HIDE DEF Q
<1>3. Nat \subseteq Q BY <1>1, <1>2, Induction
<1>4. QED BY <1>3, LenProperties DEF Q

\* f[k] is what is chosen from the first k elements of s.
KeptOf(f, s, S, n) ==
    f = [k \in 0..n |-> IF k = 0 THEN <<>>
                        ELSE IF s[k] \in S THEN Append(f[k - 1], s[k]) ELSE f[k - 1]]

\* Each value of such a function.
KeptAt(f, s, S, k) ==
    f[k] = IF k = 0 THEN <<>>
           ELSE IF s[k] \in S THEN Append(f[k - 1], s[k]) ELSE f[k - 1]

\* The value at k is as the definition says.
LEMMA KeptValue ==
    ASSUME NEW s, NEW S, NEW n, NEW f, KeptOf(f, s, S, n), NEW k \in 0..n
    PROVE  KeptAt(f, s, S, k)
<1> DEFINE g == [j \in 0..n |-> IF j = 0 THEN <<>>
                                ELSE IF s[j] \in S THEN Append(f[j - 1], s[j]) ELSE f[j - 1]]
<1>1. f = g BY DEF KeptOf
<1>2. g[k] = IF k = 0 THEN <<>>
             ELSE IF s[k] \in S THEN Append(f[k - 1], s[k]) ELSE f[k - 1]
  OBVIOUS
<1> HIDE DEF g
<1>3. QED BY <1>1, <1>2 DEF KeptAt

\* There is such a function, to any number.
LEMMA KeptExists ==
    ASSUME NEW s, NEW S, NEW n \in Nat
    PROVE  \E f : KeptOf(f, s, S, n)
<1> DEFINE Q == {m \in Nat : \E f : KeptOf(f, s, S, m)}
<1>1. 0 \in Q
  <2>1. KeptOf([k \in 0..0 |-> <<>>], s, S, 0)
    BY DEF KeptOf
  <2>2. QED BY <2>1
<1>2. ASSUME NEW m \in Nat, m \in Q PROVE m + 1 \in Q
  <2>1. PICK f : KeptOf(f, s, S, m) BY <1>2
  <2> DEFINE g == [k \in 0..m + 1 |->
                    IF k <= m THEN f[k]
                    ELSE IF s[k] \in S THEN Append(f[m], s[k]) ELSE f[m]]
  <2>2. ASSUME NEW k \in 0..m + 1
        PROVE  g[k] = IF k = 0 THEN <<>>
                      ELSE IF s[k] \in S THEN Append(g[k - 1], s[k]) ELSE g[k - 1]
    <3>1. CASE k <= m
      <4>1. k \in 0..m /\ (k # 0 => k - 1 \in 0..m + 1 /\ k - 1 <= m) BY <3>1
      <4>2. KeptAt(f, s, S, k) BY <2>1, <4>1, KeptValue
      <4>3. g[k] = f[k] /\ (k # 0 => g[k - 1] = f[k - 1]) BY <3>1, <4>1
      <4>4. QED BY <4>2, <4>3 DEF KeptAt
    <3>2. CASE k = m + 1 BY <3>2
    <3>3. QED BY <3>1, <3>2
  <2>3. KeptOf(g, s, S, m + 1) BY <2>2 DEF KeptOf
  <2>4. QED BY <2>3
<1> HIDE DEF Q
<1>3. Nat \subseteq Q BY <1>1, <1>2, Induction
<1>4. QED BY <1>3 DEF Q

\* Only is its last value.
LEMMA OnlyIsKept ==
    ASSUME NEW A, NEW s \in Seq(A), NEW S
    PROVE  \E f : KeptOf(f, s, S, Len(s)) /\ Only(s, S) = f[Len(s)]
<1> DEFINE f == CHOOSE g : KeptOf(g, s, S, Len(s))
<1>1. KeptOf(f, s, S, Len(s))
  BY KeptExists, LenProperties
<1>2. Only(s, S) = f[Len(s)]
  BY DEF Only, KeptOf
<1>3. QED BY <1>1, <1>2

\* An element more changes no value before it.
LEMMA KeptUnique ==
    ASSUME NEW A, NEW s \in Seq(A), NEW x \in A, NEW S, NEW f, NEW g,
           KeptOf(f, s, S, Len(s)), KeptOf(g, Append(s, x), S, Len(s) + 1)
    PROVE  \A k \in 0..Len(s) : g[k] = f[k]
<1> DEFINE Q == {n \in Nat : n <= Len(s) => g[n] = f[n]}
<1>0. Len(s) \in Nat OBVIOUS
<1>1. 0 \in Q BY <1>0 DEF KeptOf
<1>2. ASSUME NEW n \in Nat, n \in Q PROVE n + 1 \in Q
  <2>1. SUFFICES ASSUME n + 1 <= Len(s) PROVE g[n + 1] = f[n + 1]
    OBVIOUS
  <2>2. Append(s, x)[n + 1] = s[n + 1] BY <2>1, AppendProperties
  <2>3. g[n] = f[n] BY <1>2, <2>1, <1>0
  <2>4. n + 1 \in 0..Len(s) /\ n + 1 \in 0..Len(s) + 1 /\ (n + 1) - 1 = n /\ n + 1 # 0
    BY <2>1, <1>0
  <2>5. KeptAt(g, Append(s, x), S, n + 1) BY <2>4, KeptValue
  <2>6. KeptAt(f, s, S, n + 1) BY <2>4, KeptValue
  <2>7. QED BY <2>2, <2>3, <2>4, <2>5, <2>6 DEF KeptAt
<1> HIDE DEF Q
<1>3. Nat \subseteq Q BY <1>1, <1>2, Induction
<1>4. QED BY <1>0, <1>3 DEF Q

\* Nothing is chosen from nothing.
LEMMA OnlyEmpty == ASSUME NEW S PROVE Only(<<>>, S) = <<>>
<1>1. PICK f : KeptOf(f, <<>>, S, 0) /\ Only(<<>>, S) = f[0]
  BY OnlyIsKept, EmptySeq
<1>2. QED BY <1>1 DEF KeptOf

\* One more element is chosen, or it is not.
LEMMA OnlyAppend ==
    ASSUME NEW A, NEW s \in Seq(A), NEW x \in A, NEW S
    PROVE  Only(Append(s, x), S) = IF x \in S THEN Append(Only(s, S), x) ELSE Only(s, S)
<1> DEFINE t == Append(s, x)
<1>1. t \in Seq(A) /\ Len(t) = Len(s) + 1 /\ t[Len(s) + 1] = x /\ Len(s) \in Nat
  BY AppendProperties
<1>2. PICK f : KeptOf(f, s, S, Len(s)) /\ Only(s, S) = f[Len(s)]
  BY OnlyIsKept
<1>3. PICK g : KeptOf(g, t, S, Len(s) + 1) /\ Only(t, S) = g[Len(s) + 1]
  BY OnlyIsKept, <1>1
<1>4. g[Len(s)] = f[Len(s)]
  BY <1>1, <1>2, <1>3, KeptUnique
<1>5. g[Len(s) + 1] = IF x \in S THEN Append(g[Len(s)], x) ELSE g[Len(s)]
  <2>1. Len(s) + 1 \in 0..Len(s) + 1 /\ Len(s) + 1 # 0 /\ (Len(s) + 1) - 1 = Len(s)
    BY <1>1
  <2>2. KeptAt(g, t, S, Len(s) + 1) BY <1>3, <2>1, KeptValue
  <2> HIDE DEF t
  <2>3. QED BY <1>1, <2>1, <2>2 DEF KeptAt
<1>6. QED BY <1>2, <1>3, <1>4, <1>5

\* What is chosen from s is a sequence of elements of s and S.
ChosenFrom(s, S, c) ==
    /\ \A i \in DOMAIN c : c[i] \in S /\ \E j \in DOMAIN s : s[j] = c[i]
    /\ \A j \in DOMAIN s : s[j] \in S => \E i \in DOMAIN c : c[i] = s[j]

\* What is chosen are the elements of S, in sequence.
LEMMA OnlyChooses ==
    ASSUME NEW A, NEW S, NEW s \in Seq(A)
    PROVE  /\ Only(s, S) \in Seq(A \cap S)
           /\ Only(s, S) \in Seq(A)
           /\ ChosenFrom(s, S, Only(s, S))
<1> DEFINE P == {r \in Seq(A) : Only(r, S) \in Seq(A \cap S) /\ ChosenFrom(r, S, Only(r, S))}
<1>1. <<>> \in P
  <2>1. DOMAIN <<>> = {} OBVIOUS
  <2>2. ChosenFrom(<<>>, S, <<>>) BY <2>1 DEF ChosenFrom
  <2>3. <<>> \in Seq(A) /\ <<>> \in Seq(A \cap S) BY EmptySeq
  <2>4. Only(<<>>, S) = <<>> BY OnlyEmpty
  <2>5. QED BY <2>2, <2>3, <2>4
<1>2. ASSUME NEW r \in Seq(A), NEW x \in A, r \in P PROVE Append(r, x) \in P
  <2> DEFINE c == Only(r, S)
             t == Append(r, x)
  <2>1. c \in Seq(A \cap S) /\ ChosenFrom(r, S, c) BY <1>2
  <2>2. t \in Seq(A) /\ DOMAIN t = 1..Len(r) + 1 /\ t[Len(r) + 1] = x
        /\ \A i \in 1..Len(r) : t[i] = r[i]
    BY AppendProperties, LenProperties
  <2>3. DOMAIN r = 1..Len(r) /\ Len(r) \in Nat BY LenProperties
  <2>4. CASE x \notin S
    <3>1. Only(t, S) = c BY <2>4, OnlyAppend
    <3> HIDE DEF c, t
    <3>2. \A j \in DOMAIN t : t[j] \in S => j \in DOMAIN r
      BY <2>2, <2>3, <2>4
    <3>3. \A j \in DOMAIN r : j \in DOMAIN t /\ t[j] = r[j]
      BY <2>2, <2>3
    <3>4. ChosenFrom(t, S, c) BY <2>1, <3>2, <3>3 DEF ChosenFrom
    <3>5. QED BY <2>1, <2>2, <3>1, <3>4 DEF t
  <2>5. CASE x \in S
    <3> DEFINE d == Append(c, x)
    <3>1. Only(t, S) = d BY <2>5, OnlyAppend
    <3>2. d \in Seq(A \cap S) /\ DOMAIN d = 1..Len(c) + 1 /\ d[Len(c) + 1] = x
          /\ (\A i \in 1..Len(c) : d[i] = c[i])
      BY <2>1, <2>5, AppendProperties, LenProperties
    <3>3. DOMAIN c = 1..Len(c) /\ Len(c) \in Nat BY <2>1, LenProperties
    <3> HIDE DEF c, t, d
    <3>4. ASSUME NEW i \in DOMAIN d PROVE d[i] \in S /\ \E j \in DOMAIN t : t[j] = d[i]
      <4>1. CASE i \in 1..Len(c) BY <2>1, <2>2, <2>3, <3>2, <3>3, <4>1 DEF ChosenFrom
      <4>2. CASE i = Len(c) + 1 BY <2>2, <2>3, <2>5, <3>2, <4>2
      <4>3. QED BY <3>2, <3>3, <4>1, <4>2
    <3>5. ASSUME NEW j \in DOMAIN t, t[j] \in S PROVE \E i \in DOMAIN d : d[i] = t[j]
      <4>1. CASE j \in 1..Len(r) BY <2>1, <2>2, <2>3, <3>2, <3>3, <3>5, <4>1 DEF ChosenFrom
      <4>2. CASE j = Len(r) + 1 BY <2>2, <3>2, <3>3, <4>2
      <4>3. QED BY <2>2, <2>3, <4>1, <4>2
    <3>6. ChosenFrom(t, S, d) BY <3>4, <3>5 DEF ChosenFrom
    <3>7. QED BY <2>2, <3>1, <3>2, <3>6 DEF t
  <2>6. QED BY <2>4, <2>5
<1> HIDE DEF P
<1>3. Seq(A) \subseteq P BY <1>1, <1>2, SequenceInduction
<1>4. s \in P BY <1>3
<1>5. Only(s, S) \in Seq(A \cap S) /\ ChosenFrom(s, S, Only(s, S)) BY <1>4 DEF P
<1>6. QED BY <1>5, SeqMonotonic

\* A first element that is chosen stays the first.
LEMMA OnlyHead ==
    ASSUME NEW A, NEW S, NEW s \in Seq(A), s # <<>>, Head(s) \in S
    PROVE  Only(s, S) # <<>> /\ Head(Only(s, S)) = Head(s)
<1> DEFINE P == {r \in Seq(A) : r # <<>> /\ Head(r) \in S =>
                                Only(r, S) # <<>> /\ Head(Only(r, S)) = Head(r)}
<1>1. <<>> \in P OBVIOUS
<1>2. ASSUME NEW r \in Seq(A), NEW x \in A, r \in P PROVE Append(r, x) \in P
  <2>1. SUFFICES ASSUME Head(Append(r, x)) \in S
                 PROVE  Only(Append(r, x), S) # <<>>
                        /\ Head(Only(Append(r, x), S)) = Head(Append(r, x))
    OBVIOUS
  <2> DEFINE c == Only(r, S)
  <2>2. Only(Append(r, x), S) = IF x \in S THEN Append(c, x) ELSE c BY OnlyAppend
  <2>3. c \in Seq(A) BY OnlyChooses
  <2>4. CASE r = <<>>
    <3>1. c = <<>> BY <2>4, OnlyEmpty
    <3>2. Head(Append(r, x)) = x BY <2>4
    <3>3. QED BY <2>1, <2>2, <3>1, <3>2
  <2>5. CASE r # <<>>
    <3>1. Head(Append(r, x)) = Head(r) BY <2>5
    <3>2. c # <<>> /\ Head(c) = Head(r) BY <1>2, <2>1, <2>5, <3>1
    <3> HIDE DEF c
    <3>3. Append(c, x) # <<>> /\ Head(Append(c, x)) = Head(c) BY <2>3, <3>2
    <3>4. QED BY <2>2, <3>1, <3>2, <3>3
  <2>6. QED BY <2>4, <2>5
<1> HIDE DEF P
<1>3. Seq(A) \subseteq P BY <1>1, <1>2, SequenceInduction
<1>4. QED BY <1>3 DEF P

-----------------------------------------------------------------------------
(* Sequences as functions.                                                  *)

\* A function on 1..n is a sequence.
LEMMA TupleIsSeq ==
    ASSUME NEW S, NEW n \in Nat, NEW f \in [1..n -> S]
    PROVE  f \in Seq(S) /\ Len(f) = n
<1>1. f \in Seq(S)
    BY SeqDef
<1> QED BY <1>1, LenProperties

\* g applied to every element of s.
Applied(g, s) == [i \in DOMAIN s |-> g[s[i]]]

Images(g, A) == {g[x] : x \in A}

\* It is a sequence of the same length.
LEMMA AppliedTyped ==
    ASSUME NEW A, NEW g, NEW s \in Seq(A)
    PROVE  /\ Applied(g, s) \in Seq(Images(g, A))
           /\ Len(Applied(g, s)) = Len(s) /\ DOMAIN Applied(g, s) = DOMAIN s
<1>1. s \in [1..Len(s) -> A] /\ Len(s) \in Nat /\ DOMAIN s = 1..Len(s)
    BY LenProperties
<1>2. Applied(g, s) \in [1..Len(s) -> Images(g, A)]
    BY <1>1 DEF Applied, Images
<1> QED BY <1>1, <1>2, TupleIsSeq

\* One element more.
LEMMA AppliedAppend ==
    ASSUME NEW A, NEW g, NEW s \in Seq(A), NEW x \in A
    PROVE  Applied(g, Append(s, x)) = Append(Applied(g, s), g[x])
<1>0. g[x] \in Images(g, A)
    BY DEF Images
<1> DEFINE t == Append(s, x)
           B == Images(g, A)
           a == Applied(g, s)
           u == Append(a, g[x])
<1>1. /\ t \in Seq(A) /\ Len(s) \in Nat /\ Len(t) = Len(s) + 1 /\ t[Len(s) + 1] = x
      /\ \A i \in 1..Len(s) : t[i] = s[i]
      /\ DOMAIN t = 1..Len(s) + 1 /\ DOMAIN s = 1..Len(s)
    BY AppendProperties, LenProperties
<1>2. a \in Seq(B) /\ Len(a) = Len(s)
    BY AppliedTyped
<1>3. Applied(g, t) \in Seq(B) /\ Len(Applied(g, t)) = Len(s) + 1
    <2> HIDE DEF t
    <2> QED BY <1>1, AppliedTyped
<1>4. u \in Seq(B) /\ Len(u) = Len(s) + 1 /\ u[Len(s) + 1] = g[x] /\ \A i \in 1..Len(s) : u[i] = a[i]
    <2> HIDE DEF a, B
    <2> QED BY <1>0, <1>2, AppendProperties DEF B
<1>5. ASSUME NEW i \in 1..Len(s) + 1 PROVE Applied(g, t)[i] = u[i]
    <2>1. Applied(g, t)[i] = g[t[i]]
        BY <1>1 DEF Applied
    <2>2. i \in 1..Len(s) => a[i] = g[s[i]]
        BY <1>1 DEF Applied
    <2> HIDE DEF t, u, a
    <2>3. i = Len(s) + 1 \/ i \in 1..Len(s)
        BY <1>1
    <2> QED BY <1>1, <1>4, <2>1, <2>2, <2>3
<1> HIDE DEF t, u, B
<1>6. Applied(g, t) = u
    BY <1>3, <1>4, <1>5, SeqEqual
<1> QED BY <1>6 DEF t, u

\* g takes the elements of S, and no others, into T.
MapsChosen(A, g, S, T) == \A x \in A : x \in S <=> g[x] \in T

\* Choosing the images in T is taking the images of those chosen.
LEMMA OnlyApplied ==
    ASSUME NEW A, NEW g, NEW S, NEW T, NEW s \in Seq(A), MapsChosen(A, g, S, T)
    PROVE  Only(Applied(g, s), T) = Applied(g, Only(s, S))
<1> DEFINE P == {r \in Seq(A) : Only(Applied(g, r), T) = Applied(g, Only(r, S))}
<1>1. <<>> \in P
    <2>1. Applied(g, <<>>) = <<>>
        BY DEF Applied
    <2>2. <<>> \in Seq(A)
        OBVIOUS
    <2> QED BY <2>1, <2>2, OnlyEmpty
<1>2. ASSUME NEW r \in Seq(A), NEW x \in A, r \in P PROVE Append(r, x) \in P
    <2>1. Append(r, x) \in Seq(A)
        BY AppendProperties
    <2>2. Applied(g, r) \in Seq(Images(g, A)) /\ g[x] \in Images(g, A)
        BY AppliedTyped DEF Images
    <2>3. Only(Applied(g, Append(r, x)), T)
            = IF x \in S THEN Append(Only(Applied(g, r), T), g[x]) ELSE Only(Applied(g, r), T)
        <3>1. Applied(g, Append(r, x)) = Append(Applied(g, r), g[x])
            BY AppliedAppend
        <3>2. Only(Append(Applied(g, r), g[x]), T)
                = IF g[x] \in T THEN Append(Only(Applied(g, r), T), g[x]) ELSE Only(Applied(g, r), T)
            BY <2>2, OnlyAppend
        <3> QED BY <3>1, <3>2 DEF MapsChosen
    <2>4. Only(r, S) \in Seq(A)
        BY OnlyChooses
    <2>5. Applied(g, Append(Only(r, S), x)) = Append(Applied(g, Only(r, S)), g[x])
        BY <2>4, AppliedAppend
    <2>6. Only(Append(r, x), S) = IF x \in S THEN Append(Only(r, S), x) ELSE Only(r, S)
        BY OnlyAppend
    <2> QED BY <1>2, <2>1, <2>3, <2>5, <2>6
<1> HIDE DEF P
<1>3. Seq(A) \subseteq P
    BY <1>1, <1>2, SequenceInduction
<1> QED BY <1>3 DEF P
=============================================================================
