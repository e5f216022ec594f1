-------------------------- MODULE SecretStringsProofs --------------------------
(***************************************************************************)
(* For texts and jobs of any length: every order of the HashMap leads      *)
(* vt-yubi inject to the same texts, those in which each reference stands  *)
(* for its own value, unless the value of one contains another one that is *)
(* asked for.                                                              *)
(*                                                                         *)
(* What a text becomes is always a mapping of its tokens to texts.  That   *)
(* replacing reference after reference is such a mapping, too, is shown by *)
(* induction over the order, and that two mappings are one by induction    *)
(* over the text.                                                          *)
(***************************************************************************)
EXTENDS SecretStrings, SequenceTheorems, FiniteSetTheorems, WellFoundedInduction, TLAPS

-----------------------------------------------------------------------------
(* Induction.                                                               *)

\* What holds of 0, and of n + 1 if it holds of n, holds of every number.
LEMMA Induction ==
    ASSUME NEW S, 0 \in S, \A n \in Nat : n \in S => n + 1 \in S
    PROVE  \A n \in Nat : n \in S
<1>. DEFINE R == {ss \in Nat \X Nat : ss[1] < ss[2]}
            T == {n \in Nat : n \notin S}
<1>1. IsWellFoundedOn(R, Nat)
  <2>1. IsWellFoundedOn(OpToRel(<, Nat), Nat)
    BY NatLessThanWellFounded
  <2>2. OpToRel(<, Nat) = R
    BY DEF OpToRel
  <2>. QED BY <2>1, <2>2
<1>. SUFFICES ASSUME T # {} PROVE FALSE
  OBVIOUS
<1>2. PICK x \in T : \A y \in T : ~(<<y, x>> \in R)
  <2>1. T \subseteq Nat
    OBVIOUS
  <2>. HIDE DEF R, T
  <2>. QED BY <1>1, <2>1, WFMin
<1>3. x # 0 /\ x - 1 \in Nat /\ (x - 1) + 1 = x
  OBVIOUS
<1>4. x - 1 \in T /\ <<x - 1, x>> \in R
  BY <1>3
<1>. QED BY <1>2, <1>4

\* What holds of no token, and survives one more, holds of every text.
LEMMA SeqInduction ==
    ASSUME NEW T, NEW S, <<>> \in S,
           \A s \in Seq(T), x \in T : s \in S => Append(s, x) \in S
    PROVE  \A s \in Seq(T) : s \in S
<1>. DEFINE N == {n \in Nat : \A s \in Seq(T) : Len(s) = n => s \in S}
<1>1. 0 \in N
  BY EmptySeq
<1>2. ASSUME NEW n \in N PROVE n + 1 \in N
  <2>. SUFFICES ASSUME NEW s \in Seq(T), Len(s) = n + 1 PROVE s \in S
    OBVIOUS
  <2>1. s # <<>>
    BY EmptySeq
  <2>2. PICK t \in Seq(T), x \in T : s = Append(t, x)
    BY <2>1, SequenceEmptyOrAppend
  <2>3. Len(t) = n
    BY <2>2, AppendProperties, LenProperties
  <2>. QED BY <2>2, <2>3
<1>3. \A n \in Nat : n \in N
  <2>. HIDE DEF N
  <2>. QED BY <1>1, <1>2, Induction
<1>. QED BY <1>3, LenProperties

\* g is where n steps of F lead from a.
Iterates(g, n, a, F) == g[0] = a /\ \A k \in 1..n : g[k] = F[k][g[k - 1]]

\* A step that is taken n times over leads somewhere.
LEMMA Recursion ==
    ASSUME NEW V, NEW a \in V, NEW F \in [Nat -> [V -> V]]
    PROVE  \A n \in Nat : \E g \in [0..n -> V] : Iterates(g, n, a, F)
<1>. DEFINE N == {n \in Nat : \E g \in [0..n -> V] : Iterates(g, n, a, F)}
<1>1. 0 \in N
  <2>. DEFINE g == [i \in 0..0 |-> a]
  <2>1. g \in [0..0 -> V] /\ Iterates(g, 0, a, F)
    BY DEF Iterates
  <2>. QED BY <2>1
<1>2. ASSUME NEW n \in N PROVE n + 1 \in N
  <2>1. PICK g \in [0..n -> V] : Iterates(g, n, a, F)
    OBVIOUS
  <2>. DEFINE h == [i \in 0..(n + 1) |-> IF i = n + 1 THEN F[n + 1][g[n]] ELSE g[i]]
  <2>2. h \in [0..(n + 1) -> V]
    OBVIOUS
  <2>3. Iterates(h, n + 1, a, F)
    BY <2>1 DEF Iterates
  <2>. HIDE DEF h
  <2>4. n + 1 \in Nat
    OBVIOUS
  <2>. QED BY <2>2, <2>3, <2>4
<1>. HIDE DEF N
<1>3. \A n \in Nat : n \in N
  BY <1>1, <1>2, Induction
<1>. QED BY <1>3 DEF N

\* g is what has been added up, part after part.
Adds(ss, g) == g[0] = <<>> /\ \A k \in 1..Len(ss) : g[k] = g[k - 1] \o ss[k]

\* FlattenSeq adds its parts one after the other,
LEMMA FlattenIs ==
    ASSUME NEW X, NEW ss \in Seq(Seq(X)), NEW g \in [0..Len(ss) -> Seq(X)], Adds(ss, g)
    PROVE  FlattenSeq(ss) = g[Len(ss)]
<1>. DEFINE h == CHOOSE f : f = [i \in 1..Len(ss) |->
                                   IF i = 1 THEN ss[i] ELSE f[i - 1] \o ss[i]]
<1>1. FlattenSeq(ss) = IF Len(ss) = 0 THEN ss ELSE h[Len(ss)]
  BY DEF FlattenSeq
<1>2. Len(ss) \in Nat /\ \A i \in 1..Len(ss) : ss[i] \in Seq(X)
  BY LenProperties
<1>3. CASE Len(ss) = 0
  BY <1>1, <1>3, EmptySeq DEF Adds
<1>4. CASE Len(ss) # 0
  <2>1. \E f : f = [i \in 1..Len(ss) |-> IF i = 1 THEN ss[i] ELSE f[i - 1] \o ss[i]]
    <3>. DEFINE f == [i \in 1..Len(ss) |-> g[i]]
    <3>1. \A i \in 1..Len(ss) : g[i] = IF i = 1 THEN ss[i] ELSE f[i - 1] \o ss[i]
      <4>. SUFFICES ASSUME NEW i \in 1..Len(ss)
                    PROVE  g[i] = IF i = 1 THEN ss[i] ELSE f[i - 1] \o ss[i]
        OBVIOUS
      <4>1. CASE i = 1
        <5>1. <<>> \o ss[i] = ss[i]
          BY <1>2, ConcatEmptySeq
        <5>2. i - 1 = 0
          BY <4>1
        <5>3. g[i] = g[0] \o ss[i]
          BY <5>2, Zenon DEF Adds
        <5>. QED BY <4>1, <5>1, <5>3 DEF Adds
      <4>2. CASE i # 1
        <5>1. i - 1 \in 1..Len(ss)
          BY <1>2, <4>2
        <5>2. f[i - 1] = g[i - 1]
          BY <5>1
        <5>. QED BY <4>2, <5>2, Zenon DEF Adds
      <4>. QED BY <4>1, <4>2
    <3>2. f = [i \in 1..Len(ss) |-> IF i = 1 THEN ss[i] ELSE f[i - 1] \o ss[i]]
      BY <3>1
    <3>. QED BY <3>2
  <2>2. h = [i \in 1..Len(ss) |-> IF i = 1 THEN ss[i] ELSE h[i - 1] \o ss[i]]
    BY <2>1
  <2>. HIDE DEF h
  <2>. DEFINE N == {n \in Nat : n \in 1..Len(ss) => h[n] = g[n]}
  <2>3. 0 \in N
    OBVIOUS
  <2>4. ASSUME NEW n \in N PROVE n + 1 \in N
    <3>. SUFFICES ASSUME n + 1 \in 1..Len(ss) PROVE h[n + 1] = g[n + 1]
      OBVIOUS
    <3>0. (n + 1) - 1 = n /\ n \in Nat
      OBVIOUS
    <3>1. h[n + 1] = IF n + 1 = 1 THEN ss[n + 1] ELSE h[(n + 1) - 1] \o ss[n + 1]
      BY <2>2, Zenon
    <3>2. g[n + 1] = g[n] \o ss[n + 1]
      BY <3>0, Zenon DEF Adds
    <3>3. CASE n = 0
      <4>1. <<>> \o ss[n + 1] = ss[n + 1]
        BY <1>2, ConcatEmptySeq
      <4>2. g[n] = <<>> /\ n + 1 = 1
        BY <3>3 DEF Adds
      <4>3. h[n + 1] = ss[n + 1]
        BY <3>1, <4>2, Zenon
      <4>. QED BY <3>2, <4>1, <4>2, <4>3, Zenon
    <3>4. CASE n # 0
      <4>1. n \in 1..Len(ss) /\ n + 1 # 1
        BY <1>2, <3>0, <3>4
      <4>2. h[n] = g[n]
        BY <4>1
      <4>. QED BY <3>0, <3>1, <3>2, <4>1, <4>2, Zenon
    <3>. QED BY <3>3, <3>4
  <2>5. \A n \in Nat : n \in N
    <3>. HIDE DEF N
    <3>. QED BY <2>3, <2>4, Induction
  <2>6. h[Len(ss)] = g[Len(ss)]
    <3>1. Len(ss) \in Nat /\ Len(ss) \in 1..Len(ss)
      BY <1>2, <1>4
    <3>2. \A n \in Nat : n \in 1..Len(ss) => h[n] = g[n]
      BY <2>5
    <3>. QED BY <3>1, <3>2, Zenon
  <2>. QED BY <1>1, <1>4, <2>6
<1>. QED BY <1>3, <1>4

\* which can always be done.
LEMMA AddsExists ==
    ASSUME NEW X, NEW ss \in Seq(Seq(X))
    PROVE  \E g \in [0..Len(ss) -> Seq(X)] : Adds(ss, g)
<1>1. Len(ss) \in Nat /\ <<>> \in Seq(X) /\ \A k \in 1..Len(ss) : ss[k] \in Seq(X)
  BY LenProperties, EmptySeq
<1>2. PICK F \in [Nat -> [Seq(X) -> Seq(X)]] :
         \A k \in 1..Len(ss), v \in Seq(X) : F[k][v] = v \o ss[k]
  <2>. DEFINE V == Seq(X)
              Add(k, v) == IF k \in 1..Len(ss) THEN v \o ss[k] ELSE v
              F == [k \in Nat |-> [v \in V |-> Add(k, v)]]
  <2>1. \A k \in Nat, v \in V : Add(k, v) \in V
    BY <1>1, ConcatProperties
  <2>2. \A k \in 1..Len(ss), v \in V : k \in Nat /\ Add(k, v) = v \o ss[k]
    BY <1>1
  <2>. HIDE DEF V, Add
  <2>3. F \in [Nat -> [V -> V]]
    BY <2>1
  <2>4. \A k \in 1..Len(ss), v \in V : F[k][v] = v \o ss[k]
    BY <2>2
  <2>. HIDE DEF F
  <2>. QED BY <2>3, <2>4 DEF V
<1>4. PICK g \in [0..Len(ss) -> Seq(X)] : Iterates(g, Len(ss), <<>>, F)
  BY <1>1, <1>2, Recursion
<1>5. Adds(ss, g)
  <2>1. \A k \in 1..Len(ss) : k - 1 \in 0..Len(ss)
    BY <1>1
  <2>. QED BY <1>2, <1>4, <2>1 DEF Adds, Iterates
<1>. QED BY <1>5

\* A text is made of texts,
LEMMA FlattenType == ASSUME NEW X, NEW ss \in Seq(Seq(X)) PROVE FlattenSeq(ss) \in Seq(X)
<1>1. PICK g \in [0..Len(ss) -> Seq(X)] : Adds(ss, g)
  BY AddsExists
<1>2. Len(ss) \in 0..Len(ss)
  BY LenProperties
<1>. QED BY <1>1, <1>2, FlattenIs

\* of none the empty one,
LEMMA FlattenEmpty == FlattenSeq(<<>>) = <<>>
  BY DEF FlattenSeq

\* and of one text more the one that goes on with it.
LEMMA FlattenAppend ==
    ASSUME NEW X, NEW ss \in Seq(Seq(X)), NEW x \in Seq(X)
    PROVE  FlattenSeq(Append(ss, x)) = FlattenSeq(ss) \o x
<1>. DEFINE tt == Append(ss, x)
<1>1. /\ Len(ss) \in Nat /\ tt \in Seq(Seq(X)) /\ Len(tt) = Len(ss) + 1
      /\ \A k \in 1..Len(ss) : tt[k] = ss[k]
      /\ tt[Len(ss) + 1] = x
  BY AppendProperties, LenProperties
<1>. HIDE DEF tt
<1>2. PICK g \in [0..Len(tt) -> Seq(X)] : Adds(tt, g)
  BY <1>1, AddsExists
<1>3. FlattenSeq(tt) = g[Len(ss)] \o x
  <2>1. FlattenSeq(tt) = g[Len(tt)]
    BY <1>1, <1>2, FlattenIs
  <2>2. Len(tt) \in 1..Len(tt) /\ Len(tt) - 1 = Len(ss)
    BY <1>1
  <2>3. g[Len(tt)] = g[Len(tt) - 1] \o tt[Len(tt)]
    BY <1>2, <2>2, Zenon DEF Adds
  <2>. QED BY <1>1, <2>1, <2>2, <2>3
<1>. DEFINE f == [k \in 0..Len(ss) |-> g[k]]
<1>4. f \in [0..Len(ss) -> Seq(X)] /\ Adds(ss, f) /\ f[Len(ss)] = g[Len(ss)]
  <2>1. \A k \in 0..Len(ss) : k \in 0..Len(tt) /\ f[k] = g[k]
    BY <1>1
  <2>2. \A k \in 1..Len(ss) : k \in 1..Len(tt) /\ k - 1 \in 0..Len(ss) /\ k \in 0..Len(ss)
    BY <1>1
  <2>3. 0 \in 0..Len(ss) /\ Len(ss) \in 0..Len(ss)
    BY <1>1
  <2>4. f \in [0..Len(ss) -> Seq(X)]
    BY <2>1
  <2>. HIDE DEF f
  <2>5. f[0] = <<>>
    BY <1>2, <2>1, <2>3 DEF Adds
  <2>6. \A k \in 1..Len(ss) : f[k] = f[k - 1] \o ss[k]
    BY <1>1, <1>2, <2>1, <2>2, Zenon DEF Adds
  <2>. QED BY <2>1, <2>3, <2>4, <2>5, <2>6 DEF Adds
<1>. HIDE DEF f
<1>5. FlattenSeq(ss) = g[Len(ss)]
  BY <1>4, FlattenIs
<1>. QED BY <1>3, <1>5 DEF tt

-----------------------------------------------------------------------------
(* A text in which every token is replaced by the text that stands for it. *)

Mapped(text, G) == FlattenSeq([i \in DOMAIN text |-> G[text[i]]])

\* The parts that stand for the tokens of a text.
LEMMA ImageType ==
    ASSUME NEW T, NEW X, NEW G \in [T -> Seq(X)], NEW text \in Seq(T)
    PROVE  [i \in DOMAIN text |-> G[text[i]]] \in Seq(Seq(X))
<1>1. DOMAIN text = 1..Len(text) /\ Len(text) \in Nat /\ text \in [1..Len(text) -> T]
  BY LenProperties
<1>2. [i \in 1..Len(text) |-> G[text[i]]] \in [1..Len(text) -> Seq(X)]
  BY <1>1
<1>. QED BY <1>1, <1>2, SeqDef

\* What stands for a text is a text.
LEMMA MappedType ==
    ASSUME NEW T, NEW X, NEW G \in [T -> Seq(X)], NEW text \in Seq(T)
    PROVE  Mapped(text, G) \in Seq(X)
<1>. DEFINE ss == [i \in DOMAIN text |-> G[text[i]]]
<1>1. ss \in Seq(Seq(X))
  BY ImageType
<1>. HIDE DEF ss
<1>2. FlattenSeq(ss) \in Seq(X)
  BY <1>1, FlattenType
<1>. QED BY <1>2 DEF Mapped, ss

\* Nothing stands for nothing,
LEMMA MappedEmpty == \A G : Mapped(<<>>, G) = <<>>
<1>. SUFFICES ASSUME NEW G PROVE Mapped(<<>>, G) = <<>>
  OBVIOUS
<1>1. [i \in DOMAIN <<>> |-> G[<<>>[i]]] = <<>>
  OBVIOUS
<1>. QED BY <1>1, FlattenEmpty DEF Mapped

\* and for a text with one token more what stands for both.
LEMMA MappedAppend ==
    ASSUME NEW T, NEW X, NEW G \in [T -> Seq(X)], NEW text \in Seq(T), NEW x \in T
    PROVE  Mapped(Append(text, x), G) = Mapped(text, G) \o G[x]
<1>. DEFINE ss == [i \in DOMAIN text |-> G[text[i]]]
            tt == [i \in DOMAIN Append(text, x) |-> G[Append(text, x)[i]]]
<1>1. /\ ss \in Seq(Seq(X)) /\ tt \in Seq(Seq(X)) /\ G[x] \in Seq(X)
      /\ Append(text, x) \in Seq(T)
  <2>1. Append(text, x) \in Seq(T)
    BY AppendProperties
  <2>. QED BY <2>1, ImageType
<1>2. /\ DOMAIN text = 1..Len(text) /\ Len(text) \in Nat
      /\ DOMAIN Append(text, x) = 1..(Len(text) + 1)
      /\ \A i \in 1..Len(text) : Append(text, x)[i] = text[i]
      /\ Append(text, x)[Len(text) + 1] = x
  BY <1>1, AppendProperties, LenProperties
<1>3. Len(ss) = Len(text) /\ Len(tt) = Len(text) + 1
  BY <1>1, <1>2, LenProperties
<1>4. \A i \in 1..Len(tt) : tt[i] = Append(ss, G[x])[i]
  BY <1>1, <1>2, <1>3, AppendProperties
<1>5. Append(ss, G[x]) \in Seq(Seq(X)) /\ Len(Append(ss, G[x])) = Len(tt)
  BY <1>1, <1>3, AppendProperties
<1>6. FlattenSeq(Append(ss, G[x])) = FlattenSeq(ss) \o G[x]
  BY <1>1, FlattenAppend
<1>7. tt = Append(ss, G[x])
  <2>. HIDE DEF ss, tt
  <2>. QED BY <1>1, <1>4, <1>5, SeqEqual
<1>. QED BY <1>6, <1>7, Zenon DEF Mapped

\* What stands for a token alone is what that token stands for.
LEMMA MappedOne ==
    ASSUME NEW T, NEW X, NEW G \in [T -> Seq(X)], NEW x \in T
    PROVE  Mapped(<<x>>, G) = G[x]
<1>1. <<>> \in Seq(T) /\ Append(<<>>, x) = <<x>>
  BY EmptySeq
<1>2. Mapped(Append(<<>>, x), G) = Mapped(<<>>, G) \o G[x]
  BY <1>1, MappedAppend
<1>3. G[x] \in Seq(X)
  OBVIOUS
<1>4. <<>> \o G[x] = G[x]
  BY <1>3, ConcatEmptySeq
<1>. QED BY <1>1, <1>2, <1>4, MappedEmpty, Zenon

\* A part of a text is mapped as it would be alone.
LEMMA MappedConcat ==
    ASSUME NEW T, NEW X, NEW G \in [T -> Seq(X)], NEW s \in Seq(T), NEW t \in Seq(T)
    PROVE  Mapped(s \o t, G) = Mapped(s, G) \o Mapped(t, G)
<1>. DEFINE S == {u \in Seq(T) : Mapped(s \o u, G) = Mapped(s, G) \o Mapped(u, G)}
<1>1. <<>> \in S
  <2>1. s \o <<>> = s /\ <<>> \in Seq(T)
    BY ConcatEmptySeq, EmptySeq
  <2>2. Mapped(s, G) \o <<>> = Mapped(s, G)
    BY MappedType, ConcatEmptySeq
  <2>. QED BY <2>1, <2>2, MappedEmpty
<1>2. ASSUME NEW u \in Seq(T), NEW x \in T, u \in S PROVE Append(u, x) \in S
  <2>1. /\ s \o u \in Seq(T) /\ Append(u, x) \in Seq(T) /\ <<x>> \in Seq(T)
        /\ Append(u, x) = u \o <<x>> /\ Append(s \o u, x) = (s \o u) \o <<x>>
    <3>1. s \o u \in Seq(T)
      BY ConcatProperties
    <3>2. Append(u, x) \in Seq(T) /\ Append(u, x) = u \o <<x>>
      BY AppendProperties, AppendIsConcat
    <3>3. Append(s \o u, x) = (s \o u) \o <<x>>
      BY <3>1, AppendIsConcat
    <3>4. <<x>> \in Seq(T)
      BY IsASeq
    <3>. QED BY <3>1, <3>2, <3>3, <3>4
  <2>2. s \o Append(u, x) = Append(s \o u, x)
    BY <2>1, ConcatAssociative
  <2>3. Mapped(Append(s \o u, x), G) = Mapped(s \o u, G) \o G[x]
    BY <2>1, MappedAppend
  <2>4. Mapped(Append(u, x), G) = Mapped(u, G) \o G[x]
    BY MappedAppend
  <2>5. (Mapped(s, G) \o Mapped(u, G)) \o G[x] = Mapped(s, G) \o (Mapped(u, G) \o G[x])
    <3>1. Mapped(s, G) \in Seq(X) /\ Mapped(u, G) \in Seq(X) /\ G[x] \in Seq(X)
      BY MappedType
    <3>2. ASSUME NEW a \in Seq(X), NEW b \in Seq(X), NEW c \in Seq(X)
          PROVE  (a \o b) \o c = a \o (b \o c)
      BY ConcatAssociative, SMTT(30)
    <3>. QED BY <3>1, <3>2, Zenon
  <2>6. Mapped(s \o u, G) = Mapped(s, G) \o Mapped(u, G)
    BY <1>2
  <2>. QED BY <2>1, <2>2, <2>3, <2>4, <2>5, <2>6, Zenon
<1>3. \A u \in Seq(T) : u \in S
  <2>. HIDE DEF S
  <2>. QED BY <1>1, <1>2, SeqInduction
<1>. QED BY <1>3

\* What a token becomes that F maps, and then G.
Both(T, F, G) == [x \in T |-> Mapped(F[x], G)]

\* To map twice is to map once, to what the second makes of the first.
LEMMA MappedTwice ==
    ASSUME NEW T, NEW F \in [T -> Seq(T)], NEW G \in [T -> Seq(T)], NEW text \in Seq(T)
    PROVE  Mapped(Mapped(text, F), G) = Mapped(text, Both(T, F, G))
<1>. DEFINE H == Both(T, F, G)
            S == {u \in Seq(T) : Mapped(Mapped(u, F), G) = Mapped(u, H)}
<1>0. H \in [T -> Seq(T)]
  BY MappedType DEF Both
<1>1. <<>> \in S
  BY MappedEmpty, EmptySeq, Zenon
<1>2. ASSUME NEW u \in Seq(T), NEW x \in T, u \in S PROVE Append(u, x) \in S
  <2>1. Append(u, x) \in Seq(T) /\ Mapped(u, F) \in Seq(T) /\ F[x] \in Seq(T)
    BY AppendProperties, MappedType
  <2>2. Mapped(Append(u, x), F) = Mapped(u, F) \o F[x]
    BY MappedAppend
  <2>3. Mapped(Mapped(u, F) \o F[x], G) = Mapped(Mapped(u, F), G) \o Mapped(F[x], G)
    <3>. DEFINE a == Mapped(u, F)
                b == F[x]
    <3>1. Mapped(a \o b, G) = Mapped(a, G) \o Mapped(b, G)
      <4>1. a \in Seq(T) /\ b \in Seq(T)
        BY <2>1
      <4>. HIDE DEF a, b
      <4>. QED BY <4>1, MappedConcat
    <3>. QED BY <3>1
  <2>4. Mapped(Append(u, x), H) = Mapped(u, H) \o H[x] /\ H[x] = Mapped(F[x], G)
    <3>1. H[x] = Mapped(F[x], G)
      BY DEF Both
    <3>. HIDE DEF H
    <3>. QED BY <1>0, <3>1, MappedAppend
  <2>5. Mapped(Mapped(u, F), G) = Mapped(u, H)
    BY <1>2
  <2>. HIDE DEF H
  <2>. QED BY <2>1, <2>2, <2>3, <2>4, <2>5, Zenon
<1>3. \A u \in Seq(T) : u \in S
  <2>. HIDE DEF S
  <2>. QED BY <1>1, <1>2, SeqInduction
<1>. QED BY <1>3

\* A text whose tokens stand for themselves stays what it is.
LEMMA MappedSame ==
    ASSUME NEW T, NEW G \in [T -> Seq(T)], NEW text \in Seq(T),
           \A x \in ToSet(text) : G[x] = <<x>>
    PROVE  Mapped(text, G) = text
<1>. DEFINE S == {u \in Seq(T) : (\A i \in DOMAIN u : G[u[i]] = <<u[i]>>) => Mapped(u, G) = u}
<1>1. <<>> \in S
  BY MappedEmpty, EmptySeq, Zenon
<1>2. ASSUME NEW u \in Seq(T), NEW x \in T, u \in S PROVE Append(u, x) \in S
  <2>. DEFINE v == Append(u, x)
  <2>1. /\ v \in Seq(T) /\ v = u \o <<x>> /\ DOMAIN u = 1..Len(u) /\ Len(u) \in Nat
        /\ DOMAIN v = 1..(Len(u) + 1)
        /\ \A i \in 1..Len(u) : v[i] = u[i]
        /\ v[Len(u) + 1] = x
    BY AppendProperties, AppendIsConcat, LenProperties
  <2>2. Mapped(v, G) = Mapped(u, G) \o G[x]
    BY MappedAppend
  <2>. HIDE DEF v
  <2>3. ASSUME \A i \in DOMAIN v : G[v[i]] = <<v[i]>> PROVE Mapped(v, G) = v
    <3>1. \A i \in DOMAIN u : G[u[i]] = <<u[i]>>
      <4>1. \A i \in DOMAIN u : i \in DOMAIN v /\ v[i] = u[i]
        BY <2>1
      <4>. QED BY <2>3, <4>1, Zenon
    <3>2. G[x] = <<x>>
      <4>1. Len(u) + 1 \in DOMAIN v
        BY <2>1
      <4>. QED BY <2>1, <2>3, <4>1, Zenon
    <3>3. Mapped(u, G) = u
      BY <1>2, <3>1
    <3>. QED BY <2>1, <2>2, <3>2, <3>3, Zenon
  <2>. QED BY <2>1, <2>3 DEF v
<1>3. \A u \in Seq(T) : u \in S
  <2>. HIDE DEF S
  <2>. QED BY <1>1, <1>2, SeqInduction
<1>. QED BY <1>3 DEF ToSet

\* Nothing is lost when two texts are put together,
LEMMA ConcatContents ==
    ASSUME NEW X, NEW s \in Seq(X), NEW t \in Seq(X)
    PROVE  ToSet(s) \subseteq ToSet(s \o t) /\ ToSet(t) \subseteq ToSet(s \o t)
<1>1. /\ s \o t \in Seq(X) /\ Len(s) \in Nat /\ Len(t) \in Nat
      /\ DOMAIN s = 1..Len(s) /\ DOMAIN t = 1..Len(t)
      /\ DOMAIN (s \o t) = 1..(Len(s) + Len(t))
      /\ \A i \in 1..(Len(s) + Len(t)) :
            (s \o t)[i] = IF i <= Len(s) THEN s[i] ELSE t[i - Len(s)]
  BY ConcatProperties, LenProperties
<1>2. \A i \in DOMAIN s : i \in DOMAIN (s \o t) /\ (s \o t)[i] = s[i]
  BY <1>1
<1>3. \A i \in DOMAIN t : Len(s) + i \in DOMAIN (s \o t) /\ (s \o t)[Len(s) + i] = t[i]
  BY <1>1
<1>. QED BY <1>2, <1>3, Zenon DEF ToSet

\* nor when many are.
LEMMA FlattenContents ==
    ASSUME NEW X, NEW ss \in Seq(Seq(X)), NEW i \in DOMAIN ss
    PROVE  ToSet(ss[i]) \subseteq ToSet(FlattenSeq(ss))
<1>. DEFINE S == {rr \in Seq(Seq(X)) :
                     \A j \in DOMAIN rr : ToSet(rr[j]) \subseteq ToSet(FlattenSeq(rr))}
<1>1. <<>> \in S
  BY EmptySeq
<1>2. ASSUME NEW rr \in Seq(Seq(X)), NEW x \in Seq(X), rr \in S PROVE Append(rr, x) \in S
  <2>. DEFINE tt == Append(rr, x)
  <2>1. /\ tt \in Seq(Seq(X)) /\ DOMAIN rr = 1..Len(rr) /\ Len(rr) \in Nat
        /\ DOMAIN tt = 1..(Len(rr) + 1)
        /\ \A j \in 1..Len(rr) : tt[j] = rr[j]
        /\ tt[Len(rr) + 1] = x
    BY AppendProperties, LenProperties
  <2>2. FlattenSeq(tt) = FlattenSeq(rr) \o x /\ FlattenSeq(rr) \in Seq(X)
    BY FlattenAppend, FlattenType
  <2>3. ToSet(FlattenSeq(rr)) \subseteq ToSet(FlattenSeq(tt))
        /\ ToSet(x) \subseteq ToSet(FlattenSeq(tt))
    BY <2>2, ConcatContents, Zenon
  <2>. HIDE DEF tt
  <2>4. \A j \in DOMAIN tt : ToSet(tt[j]) \subseteq ToSet(FlattenSeq(tt))
    <3>. SUFFICES ASSUME NEW j \in DOMAIN tt PROVE ToSet(tt[j]) \subseteq ToSet(FlattenSeq(tt))
      OBVIOUS
    <3>0. j = Len(rr) + 1 \/ j \in DOMAIN rr
      BY <2>1
    <3>1. CASE j = Len(rr) + 1
      BY <2>1, <2>3, <3>1
    <3>2. CASE j \in DOMAIN rr
      <4>1. ToSet(rr[j]) \subseteq ToSet(FlattenSeq(rr))
        <5>1. \A k \in DOMAIN rr : ToSet(rr[k]) \subseteq ToSet(FlattenSeq(rr))
          BY <1>2
        <5>. QED BY <3>2, <5>1, Zenon
      <4>2. tt[j] = rr[j]
        BY <2>1, <3>2
      <4>. QED BY <2>3, <4>1, <4>2
    <3>. QED BY <3>0, <3>1, <3>2, Zenon
  <2>. QED BY <2>1, <2>4 DEF tt
<1>3. \A rr \in Seq(Seq(X)) : rr \in S
  <2>. HIDE DEF S
  <2>. QED BY <1>1, <1>2, SeqInduction
<1>. QED BY <1>3

-----------------------------------------------------------------------------
(* The operators of SecretStrings as mappings.                              *)

USE TextAssumption

\* The references of D stand for their values, the other tokens for themselves.
Values(D) == [x \in Token |-> IF x \in D THEN Value(Opened(x)) ELSE <<x>>]

\* The value of a reference is a text, be it the secret or an error.
LEMMA ValueType == \A r \in Reference : Value(Opened(r)) \in Text
<1>. SUFFICES ASSUME NEW r \in Reference PROVE Value(Opened(r)) \in Text
  OBVIOUS
<1>1. <<Code>> \in Text /\ <<ErrorText>> \in Text
  BY IsASeq DEF Text, Token
<1>2. r.sealed # Spoilt => r.sealed \in Text
  OBVIOUS
<1>. HIDE DEF Text
<1>. QED BY <1>1, <1>2 DEF Opened, Value, Result, Error

\* So Values is a mapping of tokens to texts.
LEMMA ValuesType == ASSUME NEW D \in SUBSET Reference PROVE Values(D) \in [Token -> Seq(Token)]
<1>1. \A x \in Token : <<x>> \in Seq(Token)
  BY IsASeq
<1>. QED BY <1>1, ValueType DEF Values, Text

\* str::replace maps the reference to its value.
LEMMA ReplacedIs ==
    ASSUME NEW text \in Text, NEW r, NEW value
    PROVE  Replaced(text, r, value) =
              Mapped(text, [x \in Token |-> IF x = r THEN value ELSE <<x>>])
<1>. DEFINE G == [x \in Token |-> IF x = r THEN value ELSE <<x>>]
<1>1. \A i \in DOMAIN text : text[i] \in Token
  BY LenProperties DEF Text
<1>2. \A i \in DOMAIN text :
         (IF text[i] = r THEN value ELSE <<text[i]>>) = G[text[i]]
  BY <1>1
<1>. HIDE DEF G
<1>3. [i \in DOMAIN text |-> IF text[i] = r THEN value ELSE <<text[i]>>]
         = [i \in DOMAIN text |-> G[text[i]]]
  BY <1>2
<1>. QED BY <1>3 DEF Replaced, Mapped, G

\* What is meant by a text has all its references replaced.
LEMMA MeaningIs == ASSUME NEW text \in Text PROVE Meaning(text) = Mapped(text, Values(Reference))
<1>1. \A i \in DOMAIN text : text[i] \in Token
  BY LenProperties DEF Text
<1>2. \A i \in DOMAIN text :
         (IF IsReference(text[i]) THEN Value(Opened(text[i])) ELSE <<text[i]>>)
            = Values(Reference)[text[i]]
  BY <1>1 DEF Values, IsReference
<1>3. [i \in DOMAIN text |->
          IF IsReference(text[i]) THEN Value(Opened(text[i])) ELSE <<text[i]>>]
         = [i \in DOMAIN text |-> Values(Reference)[text[i]]]
  BY <1>2
<1>. QED BY <1>3, Zenon DEF Meaning, Mapped

\* It is enough to replace those that occur.
LEMMA MeaningOfAsked ==
    ASSUME NEW text \in Text, NEW D \in SUBSET Reference,
           \A i \in DOMAIN text : text[i] \in Reference => text[i] \in D
    PROVE  Mapped(text, Values(D)) = Meaning(text)
<1>1. \A i \in DOMAIN text : text[i] \in Token
  BY LenProperties DEF Text
<1>2. \A i \in DOMAIN text : Values(D)[text[i]] = Values(Reference)[text[i]]
  BY <1>1 DEF Values
<1>3. [i \in DOMAIN text |-> Values(D)[text[i]]]
         = [i \in DOMAIN text |-> Values(Reference)[text[i]]]
  BY <1>2
<1>. QED BY <1>3, MeaningIs, Zenon DEF Mapped

\* vt_pattern finds references, and every one there is.
LEMMA ReferencesFound ==
    ASSUME NEW text \in Text
    PROVE  /\ References(text) \in Seq(Reference)
           /\ \A i \in DOMAIN text :
                 text[i] \in Reference => text[i] \in ToSet(References(text))
<1>. DEFINE ss == [i \in DOMAIN text |->
                      IF IsReference(text[i]) THEN <<text[i]>> ELSE <<>>]
<1>1. DOMAIN text = 1..Len(text) /\ Len(text) \in Nat
  BY LenProperties DEF Text
<1>2. \A i \in DOMAIN text :
         (IF IsReference(text[i]) THEN <<text[i]>> ELSE <<>>) \in Seq(Reference)
  BY IsASeq, EmptySeq DEF IsReference
<1>3. ss \in Seq(Seq(Reference)) /\ DOMAIN ss = DOMAIN text
  <2>1. ss \in [1..Len(text) -> Seq(Reference)]
    BY <1>1, <1>2
  <2>. HIDE DEF ss
  <2>. QED BY <1>1, <2>1, SeqDef
<1>4. References(text) = FlattenSeq(ss)
  BY DEF References
<1>5. ASSUME NEW i \in DOMAIN text, text[i] \in Reference PROVE text[i] \in ToSet(ss[i])
  <2>1. ss[i] = <<text[i]>>
    BY <1>5 DEF IsReference
  <2>2. 1 \in DOMAIN <<text[i]>> /\ <<text[i]>>[1] = text[i]
    OBVIOUS
  <2>. QED BY <2>1, <2>2, Zenon DEF ToSet
<1>. HIDE DEF ss
<1>6. \A i \in DOMAIN text : ToSet(ss[i]) \subseteq ToSet(FlattenSeq(ss))
  BY <1>3, FlattenContents
<1>. QED BY <1>3, <1>4, <1>5, <1>6, FlattenType

\* So does the list of what is asked for.
LEMMA ItemsFound ==
    ASSUME NEW texts \in Seq(Text)
    PROVE  /\ Items(texts) \in Seq(Reference)
           /\ \A k \in DOMAIN texts : \A i \in DOMAIN texts[k] :
                 texts[k][i] \in Reference => texts[k][i] \in ToSet(Items(texts))
<1>. DEFINE ss == [k \in DOMAIN texts |-> References(texts[k])]
<1>1. /\ DOMAIN texts = 1..Len(texts) /\ Len(texts) \in Nat
      /\ \A k \in DOMAIN texts : texts[k] \in Text
  BY LenProperties
<1>2. ss \in Seq(Seq(Reference)) /\ DOMAIN ss = DOMAIN texts
  <2>1. ss \in [1..Len(texts) -> Seq(Reference)]
    BY <1>1, ReferencesFound
  <2>. HIDE DEF ss
  <2>. QED BY <1>1, <2>1, SeqDef
<1>3. Items(texts) = FlattenSeq(ss) /\ \A k \in DOMAIN texts : ss[k] = References(texts[k])
  BY DEF Items
<1>. HIDE DEF ss
<1>4. \A k \in DOMAIN texts : ToSet(ss[k]) \subseteq ToSet(FlattenSeq(ss))
  BY <1>2, FlattenContents
<1>5. \A k \in DOMAIN texts : \A i \in DOMAIN texts[k] :
         texts[k][i] \in Reference => texts[k][i] \in ToSet(ss[k])
  BY <1>1, <1>3, ReferencesFound
<1>. QED BY <1>2, <1>3, <1>4, <1>5, FlattenType

-----------------------------------------------------------------------------
(* The substitution.                                                        *)

\* secret_map holds for every reference the value of that reference.
LEMMA SecretMapIs ==
    ASSUME NEW items \in Seq(Reference)
    PROVE  SecretMap(items, DoDecrypt(items))
              = [r \in ToSet(items) |-> Value(Opened(r))]
<1>1. ASSUME NEW r \in ToSet(items)
      PROVE  DoDecrypt(items)[CHOOSE i \in DOMAIN items : items[i] = r] = Opened(r)
  <2>1. \E i \in DOMAIN items : items[i] = r
    BY DEF ToSet
  <2>. DEFINE i == CHOOSE i \in DOMAIN items : items[i] = r
  <2>2. i \in DOMAIN items /\ items[i] = r
    BY <2>1
  <2>. HIDE DEF i
  <2>3. DoDecrypt(items)[i] = Opened(items[i])
    BY <2>2 DEF DoDecrypt
  <2>. QED BY <2>2, <2>3 DEF i
<1>2. SecretMap(items, DoDecrypt(items))
         = [r \in ToSet(items) |->
               Value(DoDecrypt(items)[CHOOSE i \in DOMAIN items : items[i] = r])]
  BY Zenon DEF SecretMap
<1>3. [r \in ToSet(items) |->
          Value(DoDecrypt(items)[CHOOSE i \in DOMAIN items : items[i] = r])]
         = [r \in ToSet(items) |-> Value(Opened(r))]
  <2>1. ASSUME NEW r \in ToSet(items)
        PROVE  Value(DoDecrypt(items)[CHOOSE i \in DOMAIN items : items[i] = r])
                  = Value(Opened(r))
    BY <1>1, Zenon
  <2>. QED BY <2>1, Zenon
<1>. QED BY <1>2, <1>3

\* What is asked for, and no value holds another of the references asked for.
Apart(asked) ==
    asked \subseteq Reference
    /\ \A r \in asked : ToSet(Value(Opened(r))) \cap asked = {}

\* One more reference is replaced, in the text and not in the values before it.
LEMMA OneMore ==
    ASSUME NEW asked, Apart(asked), NEW D \in SUBSET asked, NEW r \in asked,
           NEW text \in Text
    PROVE  Replaced(Mapped(text, Values(D)), r, Value(Opened(r)))
              = Mapped(text, Values(D \cup {r}))
<1>. DEFINE v == Value(Opened(r))
            G == [x \in Token |-> IF x = r THEN v ELSE <<x>>]
            H == [x \in Token |-> Mapped(Values(D)[x], G)]
<1>1. asked \subseteq Reference /\ v \in Text /\ r \in Token
      /\ Values(D) \in [Token -> Seq(Token)]
  BY ValueType, ValuesType DEF Apart, Token
<1>2. G \in [Token -> Seq(Token)]
  <2>1. \A x \in Token : <<x>> \in Seq(Token)
    BY IsASeq
  <2>. HIDE DEF v
  <2>. QED BY <1>1, <2>1 DEF Text
<1>3. \A x \in Token : G[x] = IF x = r THEN v ELSE <<x>>
  OBVIOUS
<1>4. ASSUME NEW x \in Token PROVE H[x] = Values(D \cup {r})[x]
  <2>1. H[x] = Mapped(Values(D)[x], G)
    OBVIOUS
  <2>2. Values(D \cup {r})[x] = IF x \in D \cup {r} THEN Value(Opened(x)) ELSE <<x>>
    BY DEF Values
  <2>3. Values(D)[x] = IF x \in D THEN Value(Opened(x)) ELSE <<x>>
    BY DEF Values
  <2>. HIDE DEF G, H
  <2>4. CASE x \in D
    <3>. DEFINE u == Value(Opened(x))
    <3>1. u \in Text /\ \A y \in ToSet(u) : y # r
      BY <1>1, <2>4, ValueType DEF Apart
    <3>. HIDE DEF u
    <3>2. \A y \in ToSet(u) : y \in Token
      BY <3>1, LenProperties DEF Text, ToSet
    <3>3. \A y \in ToSet(u) : G[y] = <<y>>
      BY <1>3, <3>1, <3>2
    <3>4. Mapped(u, G) = u
      BY <1>2, <3>1, <3>3, MappedSame DEF Text
    <3>. QED BY <2>1, <2>2, <2>3, <2>4, <3>4 DEF u
  <2>5. CASE x \notin D
    <3>1. Mapped(<<x>>, G) = G[x]
      BY <1>2, MappedOne
    <3>2. G[x] = IF x = r THEN Value(Opened(x)) ELSE <<x>>
      BY <1>3
    <3>. QED BY <2>1, <2>2, <2>3, <2>5, <3>1, <3>2
  <2>. QED BY <2>4, <2>5
<1>5. H = Values(D \cup {r})
  <2>1. H = [x \in Token |-> H[x]]
    OBVIOUS
  <2>2. Values(D \cup {r}) = [x \in Token |-> Values(D \cup {r})[x]]
    BY DEF Values
  <2>. HIDE DEF H
  <2>. QED BY <1>4, <2>1, <2>2, Zenon
<1>6. Mapped(text, Values(D)) \in Text /\ text \in Seq(Token)
  BY <1>1, MappedType DEF Text
<1>7. Replaced(Mapped(text, Values(D)), r, v) = Mapped(Mapped(text, Values(D)), G)
  BY <1>6, ReplacedIs
<1>8. Mapped(Mapped(text, Values(D)), G) = Mapped(text, H)
  <2>. DEFINE F == Values(D)
  <2>1. F \in [Token -> Seq(Token)] /\ H = Both(Token, F, G)
    BY <1>1 DEF Both
  <2>. HIDE DEF F, G, H
  <2>2. Mapped(Mapped(text, F), G) = Mapped(text, Both(Token, F, G))
    BY <1>2, <1>6, <2>1, MappedTwice, Zenon
  <2>. QED BY <2>1, <2>2, Zenon DEF F
<1>. QED BY <1>5, <1>7, <1>8

\* The references that the first k of an order replace.
Before(order, k) == {order[j] : j \in 1..k}

\* Reference after reference, in any order, all that come up are replaced.
LEMMA SubstitutedIs ==
    ASSUME NEW asked, Apart(asked), NEW n \in Nat, NEW order \in [1..n -> asked],
           NEW text \in Text
    PROVE  Substituted(text, [r \in asked |-> Value(Opened(r))], order)
              = Mapped(text, Values(Before(order, n)))
<1>. DEFINE map == [r \in asked |-> Value(Opened(r))]
            done == CHOOSE f : f = [k \in 0..Len(order) |->
                       IF k = 0 THEN text ELSE Replaced(f[k - 1], order[k], map[order[k]])]
<1>1. Len(order) = n /\ \A k \in 1..n : order[k] \in asked
  BY LenProperties
<1>2. Substituted(text, map, order) = done[n]
  BY <1>1 DEF Substituted
<1>3. \A k \in 1..n : map[order[k]] = Value(Opened(order[k]))
                     /\ Value(Opened(order[k])) \in Text
  BY <1>1, ValueType DEF Apart
<1>4. \E f : f = [k \in 0..Len(order) |->
                 IF k = 0 THEN text ELSE Replaced(f[k - 1], order[k], map[order[k]])]
  <2>1. ASSUME NEW u \in Text, NEW r \in Reference PROVE Replaced(u, r, Value(Opened(r))) \in Text
    <3>. DEFINE v == Value(Opened(r))
    <3>0. v \in Text
      BY ValueType
    <3>. HIDE DEF v
    <3>. DEFINE G == [x \in Token |-> IF x = r THEN v ELSE <<x>>]
    <3>1. G \in [Token -> Seq(Token)]
      <4>1. \A x \in Token : <<x>> \in Seq(Token)
        BY IsASeq
      <4>. QED BY <3>0, <4>1 DEF Text
    <3>2. Replaced(u, r, v) \in Seq(Token)
      <4>1. Replaced(u, r, v) = Mapped(u, G)
        BY ReplacedIs
      <4>2. u \in Seq(Token)
        BY DEF Text
      <4>. HIDE DEF G
      <4>3. Mapped(u, G) \in Seq(Token)
        BY <3>1, <4>2, MappedType, Zenon
      <4>. QED BY <4>1, <4>3
    <3>. QED BY <3>2 DEF Text, v
  <2>2. PICK F \in [Nat -> [Text -> Text]] :
           \A k \in 1..n, u \in Text : F[k][u] = Replaced(u, order[k], map[order[k]])
    <3>. DEFINE F == [k \in Nat |-> [u \in Text |->
                         IF k \in 1..n THEN Replaced(u, order[k], map[order[k]]) ELSE u]]
    <3>1. \A k \in 1..n, u \in Text : Replaced(u, order[k], map[order[k]]) \in Text
      BY <1>1, <1>3, <2>1 DEF Apart
    <3>. HIDE DEF map
    <3>2. F \in [Nat -> [Text -> Text]]
      BY <3>1
    <3>3. \A k \in 1..n, u \in Text : F[k][u] = Replaced(u, order[k], map[order[k]])
      OBVIOUS
    <3>. HIDE DEF F
    <3>. QED BY <3>2, <3>3
  <2>. HIDE DEF map
  <2>3. PICK g \in [0..n -> Text] : Iterates(g, n, text, F)
    BY Recursion
  <2>4. \A k \in 0..n :
           g[k] = IF k = 0 THEN text ELSE Replaced(g[k - 1], order[k], map[order[k]])
    <3>1. \A k \in 0..n : k # 0 => k \in 1..n /\ k - 1 \in 0..n
      OBVIOUS
    <3>2. \A k \in 1..n : k - 1 \in 0..n => g[k] = Replaced(g[k - 1], order[k], map[order[k]])
      BY <2>2, <2>3 DEF Iterates
    <3>3. g[0] = text
      BY <2>3 DEF Iterates
    <3>. QED BY <3>1, <3>2, <3>3
  <2>5. g = [k \in 0..Len(order) |->
               IF k = 0 THEN text ELSE Replaced(g[k - 1], order[k], map[order[k]])]
    BY <1>1, <2>4
  <2>. QED BY <2>5
<1>5. done = [k \in 0..Len(order) |->
               IF k = 0 THEN text ELSE Replaced(done[k - 1], order[k], map[order[k]])]
  BY <1>4
<1>. HIDE DEF done, map
<1>. DEFINE N == {k \in Nat : k \in 0..n => done[k] = Mapped(text, Values(Before(order, k)))}
<1>6. 0 \in N
  <2>1. done[0] = text
    BY <1>1, <1>5
  <2>2. Before(order, 0) = {}
    BY DEF Before
  <2>3. Values({}) \in [Token -> Seq(Token)] /\ text \in Seq(Token)
    BY ValuesType DEF Text
  <2>4. \A x \in ToSet(text) : Values({})[x] = <<x>>
    BY <2>3, LenProperties DEF Values, ToSet
  <2>5. Mapped(text, Values({})) = text
    BY <2>3, <2>4, MappedSame
  <2>. QED BY <2>1, <2>2, <2>5
<1>7. ASSUME NEW k \in N PROVE k + 1 \in N
  <2>. SUFFICES ASSUME k + 1 \in 0..n
                PROVE  done[k + 1] = Mapped(text, Values(Before(order, k + 1)))
    OBVIOUS
  <2>1. /\ k \in Nat /\ k \in 0..n /\ k + 1 \in 1..n
        /\ (k + 1) - 1 = k /\ k + 1 # 0 /\ k + 1 \in 0..Len(order)
    BY <1>1
  <2>2. done[k] = Mapped(text, Values(Before(order, k)))
    BY <2>1
  <2>. HIDE DEF N
  <2>3. done[k + 1] = Replaced(done[(k + 1) - 1], order[k + 1], map[order[k + 1]])
    BY <1>5, <2>1, Zenon
  <2>4. Before(order, k + 1) = Before(order, k) \cup {order[k + 1]}
        /\ Before(order, k) \in SUBSET asked
    BY <2>1, <1>1 DEF Before
  <2>5. map[order[k + 1]] = Value(Opened(order[k + 1])) /\ order[k + 1] \in asked
    BY <1>1, <1>3, <2>1
  <2>6. Replaced(Mapped(text, Values(Before(order, k))), order[k + 1], Value(Opened(order[k + 1])))
           = Mapped(text, Values(Before(order, k) \cup {order[k + 1]}))
    BY <2>4, <2>5, OneMore
  <2>. QED BY <2>1, <2>2, <2>3, <2>4, <2>5, <2>6, Zenon
<1>8. \A k \in Nat : k \in N
  <2>. HIDE DEF N
  <2>. QED BY <1>6, <1>7, Induction
<1>9. done[n] = Mapped(text, Values(Before(order, n)))
  BY <1>8
<1>. QED BY <1>2, <1>9 DEF map

\* Every order goes through all that are asked for.
LEMMA OrderCovers ==
    ASSUME NEW items \in Seq(Reference), NEW order \in SetToSeqs(ToSet(items))
    PROVE  \E n \in Nat : /\ order \in [1..n -> ToSet(items)]
                          /\ Before(order, n) = ToSet(items)
<1>. DEFINE asked == ToSet(items)
            n == Cardinality(asked)
<1>1. IsFiniteSet(asked)
  <2>1. /\ Len(items) \in Nat /\ DOMAIN items = 1..Len(items)
        /\ items \in [1..Len(items) -> Reference]
    BY LenProperties
  <2>2. items \in Surjection(1..Len(items), asked)
    BY <2>1 DEF Surjection, ToSet
  <2>3. IsFiniteSet(1..Len(items))
    BY <2>1, FS_Interval
  <2>. HIDE DEF asked
  <2>. QED BY <2>2, <2>3, FS_Surjection
<1>2. /\ order \in [1..n -> asked]
      /\ \A i, j \in 1..n : i # j => order[i] # order[j]
  BY DEF SetToSeqs
<1>. HIDE DEF asked
<1>3. n \in Nat /\ Cardinality(1..n) = n
  <2>1. n \in Nat
    BY <1>1, FS_CardinalityType
  <2>. HIDE DEF n
  <2>2. Cardinality(1..n) = IF 1 > n THEN 0 ELSE n - 1 + 1
    BY <2>1, FS_Interval
  <2>. QED BY <2>1, <2>2
<1>. HIDE DEF n
<1>4. order \in Injection(1..n, asked)
  BY <1>2 DEF Injection, IsInjective
<1>5. order \in Surjection(1..n, asked)
  <2>1. Cardinality(1..n) = Cardinality(asked)
    BY <1>3 DEF n
  <2>. QED BY <1>1, <1>4, <2>1, FS_Injection
<1>6. Before(order, n) = asked
  BY <1>2, <1>5 DEF Surjection, Before
<1>. QED BY <1>2, <1>3, <1>6 DEF asked

\* In the end every text is what is meant by it.
LEMMA AllSubstituted ==
    ASSUME NEW texts \in Seq(Text), NEW i \in DOMAIN texts,
           Apart(ToSet(Items(texts))),
           NEW order \in Orders(SecretMap(Items(texts), DoDecrypt(Items(texts))))
    PROVE  Substituted(texts[i], SecretMap(Items(texts), DoDecrypt(Items(texts))), order)
              = Meaning(texts[i])
<1>. DEFINE items == Items(texts)
            asked == ToSet(items)
            map == [r \in asked |-> Value(Opened(r))]
<1>1. items \in Seq(Reference) /\ texts[i] \in Text /\ asked \in SUBSET Reference
  BY ItemsFound, LenProperties DEF Apart
<1>2. SecretMap(items, DoDecrypt(items)) = map
  BY <1>1, SecretMapIs
<1>3. order \in SetToSeqs(asked)
  BY <1>2 DEF Orders
<1>4. \A k \in DOMAIN texts[i] : texts[i][k] \in Reference => texts[i][k] \in asked
  BY ItemsFound
<1>5. Apart(asked)
  OBVIOUS
<1>. HIDE DEF items
<1>6. PICK n \in Nat : order \in [1..n -> asked] /\ Before(order, n) = asked
  BY <1>1, <1>3, OrderCovers
<1>. HIDE DEF asked
<1>7. Substituted(texts[i], map, order) = Mapped(texts[i], Values(asked))
  BY <1>1, <1>5, <1>6, SubstitutedIs
<1>8. Mapped(texts[i], Values(asked)) = Meaning(texts[i])
  BY <1>1, <1>4, MeaningOfAsked
<1>. HIDE DEF map
<1>. QED BY <1>2, <1>7, <1>8 DEF items

\* env_vt_vars has every variable with a reference, and no other positions.
LEMMA VarsFound ==
    ASSUME NEW env \in Seq(Text)
    PROVE  /\ VtVars(env) \in Seq(DOMAIN env)
           /\ \A i \in DOMAIN env : HoldsReference(env[i]) =>
                 \E k \in DOMAIN VtVars(env) : VtVars(env)[k] = i
<1>. DEFINE ss == [i \in DOMAIN env |-> IF HoldsReference(env[i]) THEN <<i>> ELSE <<>>]
            P == DOMAIN env
<1>1. P = 1..Len(env) /\ Len(env) \in Nat
  BY LenProperties
<1>2. ss \in Seq(Seq(P)) /\ DOMAIN ss = P
  <2>1. \A i \in P : (IF HoldsReference(env[i]) THEN <<i>> ELSE <<>>) \in Seq(P)
    <3>. HIDE DEF P
    <3>1. <<>> \in Seq(P) /\ \A i \in P : <<i>> \in Seq(P)
      BY IsASeq, EmptySeq
    <3>. QED BY <3>1
  <2>2. ss \in [P -> Seq(P)] /\ DOMAIN ss = P
    BY <2>1
  <2>. HIDE DEF ss, P
  <2>. QED BY <1>1, <2>2, SeqDef
<1>3. VtVars(env) = FlattenSeq(ss)
  BY DEF VtVars
<1>4. ASSUME NEW i \in P, HoldsReference(env[i]) PROVE i \in ToSet(ss[i])
  <2>1. ss[i] = <<i>>
    BY <1>4
  <2>2. 1 \in DOMAIN <<i>> /\ <<i>>[1] = i
    OBVIOUS
  <2>. QED BY <2>1, <2>2, Zenon DEF ToSet
<1>. HIDE DEF ss
<1>5. \A i \in P : ToSet(ss[i]) \subseteq ToSet(FlattenSeq(ss))
  BY <1>2, FlattenContents
<1>6. FlattenSeq(ss) \in Seq(P)
  BY <1>2, FlattenType
<1>7. \A i \in P : HoldsReference(env[i]) => i \in ToSet(VtVars(env))
  BY <1>3, <1>4, <1>5
<1>. QED BY <1>3, <1>6, <1>7 DEF ToSet

\* Where an argument, the file and a variable are in the list.
LEMMA Places ==
    ASSUME NEW j, j.args \in Seq(Text), j.file \in Text, j.env \in Seq(Text)
    PROVE  /\ InjectTexts(j) \in Seq(Text)
           /\ Len(VtVars(j.env)) \in Nat
           /\ Len(InjectTexts(j)) = Len(j.args) + 1 + Len(VtVars(j.env))
           /\ \A i \in 1..Len(j.args) : InjectTexts(j)[i] = j.args[i]
           /\ InjectTexts(j)[Len(j.args) + 1] = j.file
           /\ \A k \in DOMAIN VtVars(j.env) :
                 InjectTexts(j)[Len(j.args) + 1 + k] = j.env[VtVars(j.env)[k]]
<1>. DEFINE vars == VtVars(j.env)
            tail == [k \in DOMAIN vars |-> j.env[vars[k]]]
            front == j.args \o <<j.file>>
<1>1. vars \in Seq(DOMAIN j.env) /\ DOMAIN vars = 1..Len(vars) /\ Len(vars) \in Nat
  BY VarsFound, LenProperties
<1>2. tail \in Seq(Text) /\ Len(tail) = Len(vars)
      /\ \A k \in 1..Len(vars) : tail[k] = j.env[vars[k]]
  <2>1. tail \in [1..Len(vars) -> Text]
    <3>1. \A k \in 1..Len(vars) : vars[k] \in DOMAIN j.env
      BY <1>1, LenProperties
    <3>2. \A i \in DOMAIN j.env : j.env[i] \in Text
      BY LenProperties
    <3>. HIDE DEF vars
    <3>. QED BY <1>1, <3>1, <3>2
  <2>2. \A k \in 1..Len(vars) : tail[k] = j.env[vars[k]]
    BY <1>1
  <2>. HIDE DEF tail, vars
  <2>3. tail \in Seq(Text)
    BY <1>1, <2>1, SeqDef
  <2>. QED BY <1>1, <2>1, <2>2, <2>3, LenProperties
<1>3. front \in Seq(Text) /\ Len(front) = Len(j.args) + 1 /\ Len(j.args) \in Nat
      /\ \A i \in 1..(Len(j.args) + 1) : front[i] = IF i <= Len(j.args) THEN j.args[i] ELSE j.file
  <2>1. <<j.file>> \in Seq(Text) /\ Len(<<j.file>>) = 1 /\ <<j.file>>[1] = j.file
    BY IsASeq
  <2>2. Len(j.args) \in Nat
    BY LenProperties
  <2>. QED BY <2>1, <2>2, ConcatProperties
<1>4. InjectTexts(j) = front \o tail
  BY DEF InjectTexts
<1>. HIDE DEF front, tail, vars
<1>5. /\ front \o tail \in Seq(Text)
      /\ Len(front \o tail) = Len(front) + Len(tail)
      /\ \A i \in 1..(Len(front) + Len(tail)) :
            (front \o tail)[i] = IF i <= Len(front) THEN front[i] ELSE tail[i - Len(front)]
  BY <1>2, <1>3, ConcatProperties
<1>6. \A i \in 1..Len(j.args) : (front \o tail)[i] = j.args[i]
  BY <1>1, <1>2, <1>3, <1>5
<1>7. (front \o tail)[Len(j.args) + 1] = j.file
  BY <1>1, <1>2, <1>3, <1>5
<1>8. \A k \in 1..Len(vars) : (front \o tail)[Len(j.args) + 1 + k] = j.env[vars[k]]
  <2>. SUFFICES ASSUME NEW k \in 1..Len(vars)
                PROVE  (front \o tail)[Len(j.args) + 1 + k] = j.env[vars[k]]
    OBVIOUS
  <2>1. /\ Len(j.args) + 1 + k \in 1..(Len(front) + Len(tail))
        /\ ~(Len(j.args) + 1 + k <= Len(front))
        /\ Len(j.args) + 1 + k - Len(front) = k
    <3>1. ASSUME NEW a \in Nat, NEW v \in Nat, NEW m \in 1..v
          PROVE  /\ a + 1 + m \in 1..(a + 1 + v)
                 /\ ~(a + 1 + m <= a + 1)
                 /\ a + 1 + m - (a + 1) = m
      OBVIOUS
    <3>2. Len(j.args) \in Nat /\ Len(vars) \in Nat
      BY <1>1, <1>3
    <3>3. Len(front) = Len(j.args) + 1 /\ Len(tail) = Len(vars)
      BY <1>2, <1>3
    <3>4. /\ Len(j.args) + 1 + k \in 1..(Len(j.args) + 1 + Len(vars))
          /\ ~(Len(j.args) + 1 + k <= Len(j.args) + 1)
          /\ Len(j.args) + 1 + k - (Len(j.args) + 1) = k
      BY <3>1, <3>2, Zenon
    <3>. QED BY <3>3, <3>4, Zenon
  <2>. QED BY <1>2, <1>5, <2>1
<1>. QED BY <1>1, <1>2, <1>3, <1>4, <1>5, <1>6, <1>7, <1>8 DEF vars

\* What is meant by a text is a text.
LEMMA MeaningType == ASSUME NEW text \in Text PROVE Meaning(text) \in Text
<1>1. text \in Seq(Token) /\ Values(Reference) \in [Token -> Seq(Token)]
  BY ValuesType DEF Text
<1>2. Mapped(text, Values(Reference)) \in Seq(Token)
  BY <1>1, MappedType, Zenon
<1>. QED BY <1>2, MeaningIs DEF Text

\* A variable without a reference means what it holds.
LEMMA PlainMeaning ==
    ASSUME NEW text \in Text, ~HoldsReference(text) PROVE Meaning(text) = text
<1>1. text \in Seq(Token) /\ Values(Reference) \in [Token -> Seq(Token)]
  BY ValuesType DEF Text
<1>2. \A x \in ToSet(text) : Values(Reference)[x] = <<x>>
  BY <1>1, LenProperties DEF Values, ToSet, HoldsReference, IsReference
<1>3. Mapped(text, Values(Reference)) = text
  BY <1>1, <1>2, MappedSame
<1>. QED BY <1>3, MeaningIs

\* inject takes from the decrypted list for each place what was put there.
LEMMA TakenIsMeant ==
    ASSUME NEW j, j.args \in Seq(Text), j.file \in Text, j.env \in Seq(Text)
    PROVE  Taken(j, [i \in DOMAIN InjectTexts(j) |-> Meaning(InjectTexts(j)[i])]) = Meant(j)
<1>. DEFINE texts == InjectTexts(j)
            done == [i \in DOMAIN texts |-> Meaning(texts[i])]
            found == VtVars(j.env)
            n == Len(j.args)
            m == Len(found)
<1>1. /\ texts \in Seq(Text) /\ n \in Nat /\ m \in Nat /\ Len(texts) = n + 1 + m
      /\ DOMAIN texts = 1..Len(texts)
      /\ \A i \in 1..Len(texts) : texts[i] \in Text
  BY Places, LenProperties
<1>2. /\ \A i \in 1..n : texts[i] = j.args[i]
      /\ texts[n + 1] = j.file
      /\ \A k \in DOMAIN found : texts[n + 1 + k] = j.env[found[k]]
  BY Places
<1>3. /\ found \in Seq(DOMAIN j.env) /\ DOMAIN found = 1..m
      /\ \A i \in DOMAIN j.env : HoldsReference(j.env[i]) => \E k \in DOMAIN found : found[k] = i
  BY VarsFound, LenProperties
<1>. HIDE DEF texts, found
<1>4. \A i \in 1..Len(texts) : done[i] = Meaning(texts[i]) /\ done[i] \in Text
  BY <1>1, MeaningType
<1>5. Len(done) = Len(texts)
  BY <1>1, LenProperties
<1>. HIDE DEF done
<1>6. SubSeq(done, 1, n) = [i \in DOMAIN j.args |-> Meaning(j.args[i])]
  <2>1. \A i \in 1..n : i \in 1..Len(texts)
    BY <1>1
  <2>2. /\ SubSeq(done, 1, n) \in Seq(Text)
        /\ Len(SubSeq(done, 1, n)) = IF 1 <= n THEN n - 1 + 1 ELSE 0
        /\ \A i \in 1..(n - 1 + 1) : SubSeq(done, 1, n)[i] = done[1 + i - 1]
    BY <1>1, <1>4, <2>1, SubSeqProperties
  <2>3. Len(SubSeq(done, 1, n)) = n /\ \A i \in 1..n : SubSeq(done, 1, n)[i] = done[i]
    BY <1>1, <2>2
  <2>4. DOMAIN j.args = 1..n
    BY LenProperties
  <2>5. SubSeq(done, 1, n) = [i \in 1..n |-> SubSeq(done, 1, n)[i]]
    BY <2>2, <2>3, LenProperties
  <2>6. \A i \in 1..n : SubSeq(done, 1, n)[i] = Meaning(j.args[i])
    BY <1>2, <1>4, <2>1, <2>3
  <2>. HIDE DEF n
  <2>. QED BY <2>4, <2>5, <2>6, Zenon
<1>7. done[Len(done) - m] = Meaning(j.file)
  <2>1. Len(done) - m = n + 1 /\ n + 1 \in 1..Len(texts)
    BY <1>1, <1>5
  <2>. QED BY <1>2, <1>4, <2>1
<1>8. ASSUME NEW i \in DOMAIN j.env
      PROVE  (IF HoldsReference(j.env[i])
                THEN PoppedFor(done, CHOOSE k \in DOMAIN found : found[k] = i, m)
                ELSE j.env[i]) = Meaning(j.env[i])
  <2>0. j.env[i] \in Text
    BY LenProperties
  <2>1. CASE ~HoldsReference(j.env[i])
    BY <2>0, <2>1, PlainMeaning
  <2>2. CASE HoldsReference(j.env[i])
    <3>. DEFINE k == CHOOSE k \in DOMAIN found : found[k] = i
    <3>1. k \in DOMAIN found /\ found[k] = i
      BY <1>3, <2>2
    <3>. HIDE DEF k
    <3>2. Len(done) - (m - k) = n + 1 + k /\ n + 1 + k \in 1..Len(texts)
      <4>1. k \in 1..m
        BY <1>3, <3>1
      <4>2. Len(done) = n + 1 + m /\ n \in Nat /\ m \in Nat /\ Len(texts) = n + 1 + m
        BY <1>1, <1>5
      <4>. HIDE DEF n, m
      <4>. QED BY <4>1, <4>2
    <3>3. PoppedFor(done, k, m) = done[n + 1 + k]
      BY <3>2 DEF PoppedFor
    <3>4. done[n + 1 + k] = Meaning(texts[n + 1 + k])
      BY <1>4, <3>2
    <3>5. texts[n + 1 + k] = j.env[i]
      BY <1>2, <3>1
    <3>. QED BY <2>2, <3>3, <3>4, <3>5 DEF k
  <2>. QED BY <2>1, <2>2
<1>9. [i \in DOMAIN j.env |->
          IF HoldsReference(j.env[i])
            THEN PoppedFor(done, CHOOSE k \in DOMAIN found : found[k] = i, m)
            ELSE j.env[i]] = [i \in DOMAIN j.env |-> Meaning(j.env[i])]
  BY <1>8, Zenon
<1>10. Taken(j, done) =
         [args |-> SubSeq(done, 1, n), file |-> done[Len(done) - m],
          env |-> [i \in DOMAIN j.env |->
                     IF HoldsReference(j.env[i])
                       THEN PoppedFor(done, CHOOSE k \in DOMAIN found : found[k] = i, m)
                       ELSE j.env[i]]]
  BY Zenon DEF Taken, found
<1>. QED BY <1>6, <1>7, <1>9, <1>10, Zenon DEF Meant, done, texts

(* Whatever order the HashMap has, vt-yubi inject runs its program with     *)
(* what is meant by its arguments, its file and its environment:            *)
(* decrypt_from_multi_str and inject, cli.rs:504-559, 596-632.              *)
THEOREM InjectedIsMeant ==
    ASSUME NEW j, j.args \in Seq(Text), j.file \in Text, j.env \in Seq(Text), Flat(j),
           NEW x \in InjectOutcomes(j, DoDecrypt(Items(InjectTexts(j))))
    PROVE  x = Meant(j)
<1>. DEFINE texts == InjectTexts(j)
            map == SecretMap(Items(texts), DoDecrypt(Items(texts)))
<1>1. texts \in Seq(Text)
  BY Places
<1>2. Apart(ToSet(Items(texts)))
  <2>1. Items(texts) \in Seq(Reference)
    BY <1>1, ItemsFound
  <2>2. ToSet(Items(texts)) \subseteq Reference
    <3>. HIDE DEF texts
    <3>. QED BY <2>1, LenProperties DEF ToSet
  <2>. QED BY <2>2 DEF Apart, Flat
<1>3. PICK order \in Orders(map) :
         x = Taken(j, [i \in DOMAIN texts |-> Substituted(texts[i], map, order)])
  BY DEF InjectOutcomes
<1>4. \A i \in DOMAIN texts : Substituted(texts[i], map, order) = Meaning(texts[i])
  <2>. HIDE DEF texts
  <2>. QED BY <1>1, <1>2, <1>3, AllSubstituted
<1>5. [i \in DOMAIN texts |-> Substituted(texts[i], map, order)]
         = [i \in DOMAIN texts |-> Meaning(texts[i])]
  BY <1>4, Zenon
<1>. QED BY <1>3, <1>5, TakenIsMeant
=============================================================================
