---------------------------- MODULE SequenceLaws ----------------------------
(***************************************************************************)
(* Laws about finite sequences that the proofs of several components use:  *)
(* FlattenSeq, which reads the bytes out of a queue of buffers, follows    *)
(* what is appended to the queue and what is taken off its front.          *)
(*                                                                         *)
(* FlattenSeq is defined by a recursive function.  What it computes is     *)
(* proved from the least natural number at which a claim would fail:       *)
(* that argument needs no induction rule with an operator parameter.       *)
(***************************************************************************)
EXTENDS Integers, Sequences, SequencesExt, SequenceTheorems, WellFoundedInduction, TLAPS

\* The order that is well-founded.
Below == {p \in Nat \X Nat : p[1] < p[2]}

\* Every non-empty set of natural numbers has a least element.
LEMMA LeastNat ==
    ASSUME NEW T \in SUBSET Nat, T # {}
    PROVE  \E x \in T : \A y \in T : x <= y
<1>1. IsWellFoundedOn(Below, Nat)  BY NatLessThanWellFounded DEF OpToRel, Below
<1>2. PICK x \in T : \A y \in T : ~(<<y, x>> \in Below)  BY <1>1, WFMin
<1>3. \A y \in T : ~(y < x)  BY <1>2 DEF Below
<1> QED  BY <1>3

\* f[i] is the concatenation of the first i members of ss.
IsFlat(f, ss) ==
    /\ f[0] = << >>
    /\ \A i \in 1..Len(ss) : f[i] = f[i - 1] \o ss[i]

\* Such a function exists: a shortest ss without one would have a shorter
\* one without one.
LEMMA FlatExists ==
    ASSUME NEW S, NEW ss \in Seq(Seq(S))
    PROVE  \E f \in [0..Len(ss) -> Seq(S)] : IsFlat(f, ss)
<1> DEFINE Bad == {n \in Nat : \E uu \in Seq(Seq(S)) :
                      Len(uu) = n /\ ~ \E f \in [0..n -> Seq(S)] : IsFlat(f, uu)}
<1>1. SUFFICES Bad = {}
  OBVIOUS
<1>2. SUFFICES ASSUME Bad # {}  PROVE FALSE
  OBVIOUS
<1>3. PICK n \in Bad : \A m \in Bad : n <= m  BY <1>2, LeastNat
<1>4. PICK uu \in Seq(Seq(S)) :
         Len(uu) = n /\ ~ \E f \in [0..n -> Seq(S)] : IsFlat(f, uu)
  OBVIOUS
<1>5. CASE n = 0
  <2>1. [i \in 0..0 |-> << >>] \in [0..0 -> Seq(S)]  OBVIOUS
  <2>2. IsFlat([i \in 0..0 |-> << >>], uu)  BY <1>4, <1>5 DEF IsFlat
  <2> QED  BY <1>4, <1>5, <2>1, <2>2
<1>6. CASE n > 0
  <2> DEFINE vv == SubSeq(uu, 1, n - 1)
  <2>1. n \in Nat OBVIOUS
  <2>2. /\ vv \in Seq(Seq(S)) /\ Len(vv) = n - 1
        /\ \A i \in 1..(n - 1) : vv[i] = uu[i]
    BY <1>4, <1>6, <2>1
  <2>3. n - 1 \notin Bad  BY <1>3, <1>6, <2>1
  <2> HIDE DEF vv
  <2>4. PICK f \in [0..(n - 1) -> Seq(S)] : IsFlat(f, vv)
    <3>1. n - 1 \in Nat  BY <1>6, <2>1
    <3>2. ~ \E ww \in Seq(Seq(S)) :
             Len(ww) = n - 1 /\ ~ \E f \in [0..(n - 1) -> Seq(S)] : IsFlat(f, ww)
      BY SMTT(30), <2>3, <3>1
    <3> HIDE DEF Bad
    <3> QED  BY <2>2, <3>2
  <2> HIDE DEF Bad
  <2> DEFINE g == [i \in 0..n |-> IF i = n THEN f[n - 1] \o uu[n] ELSE f[i]]
  <2>5. uu[n] \in Seq(S)  BY <1>4, <1>6, <2>1
  <2>5a. f[n-1] \o uu[n] \in Seq(S) BY <2>5, <1>6, <2>1
  <2>6. g \in [0..n -> Seq(S)]  BY <1>6, <2>1, <2>5a
  <2>7. IsFlat(g, uu)
    <3>1. g[0] = << >>  BY <1>6, <2>1, <2>4 DEF IsFlat
    <3>2. ASSUME NEW i \in 1..n  PROVE g[i] = g[i - 1] \o uu[i]
      <4>1. i \in 0..n /\ i - 1 \in 0..n /\ i - 1 # n  BY <2>1
      <4>2. g[i - 1] = f[i - 1]  BY <4>1
      <4>3. CASE i = n  BY <4>1, <4>2, <4>3
      <4>4. CASE i # n
        <5>1. i \in 1..(n - 1)  BY <2>1, <4>4
        <5>2. g[i] = f[i]  BY <4>1, <4>4
        <5>3. f[i] = f[i - 1] \o vv[i]  BY <2>2, <2>4, <5>1 DEF IsFlat
        <5> QED  BY <2>2, <4>2, <5>1, <5>2, <5>3
      <4> QED  BY <4>3, <4>4
    <3> QED  BY <1>4, <3>1, <3>2 DEF IsFlat
  <2> QED  BY <1>4, <2>6, <2>7
<1> QED  BY <1>5, <1>6

\* A function that satisfies FlattenSeq's recursion agrees with it.
LEMMA FlatUnique ==
    ASSUME NEW S, NEW ss \in Seq(Seq(S)), ss # << >>,
           NEW f \in [0..Len(ss) -> Seq(S)], IsFlat(f, ss),
           NEW h, h = [i \in 1..Len(ss) |-> IF i = 1 THEN ss[i] ELSE h[i - 1] \o ss[i]]
    PROVE  h[Len(ss)] = f[Len(ss)]
<1> DEFINE Bad == {n \in Nat : n \in 1..Len(ss) /\ h[n] # f[n]}
<1>0. Len(ss) \in Nat /\ Len(ss) \in 1..Len(ss)  OBVIOUS
<1>1. SUFFICES ASSUME Bad # {}  PROVE FALSE
  BY <1>0
<1>2. PICK n \in Bad : \A m \in Bad : n <= m  BY <1>1, LeastNat
<1>3. n \in 1..Len(ss) /\ h[n] # f[n] /\ n \in Nat  OBVIOUS
<1>4. CASE n = 1
  <2>1. h[1] = ss[1]  BY <1>3, <1>4
  <2>2. f[1] = << >> \o ss[1]
    <3>1. f[1] = f[1 - 1] \o ss[1]  BY <1>3, <1>4 DEF IsFlat
    <3>2. 1 - 1 = 0  OBVIOUS
    <3> QED  BY <3>1, <3>2 DEF IsFlat
  <2>3. ss[1] \in Seq(S) BY <1>3, <1>4
  <2> QED  BY <1>3, <1>4, <2>1, <2>2, <2>3
<1>5. CASE n # 1
  <2>1. n - 1 \in 1..Len(ss) /\ n - 1 \in Nat /\ n - 1 < n  BY <1>0, <1>3, <1>5
  <2>1a. n - 1 \notin Bad
    <3>1. ~ (n <= n - 1)  BY <1>3
    <3> HIDE DEF Bad
    <3> QED  BY <1>2, <3>1
  <2>2. h[n - 1] = f[n - 1]  BY <2>1, <2>1a
  <2>3. h[n] = h[n - 1] \o ss[n]  BY <1>3, <1>5
  <2>4. f[n] = f[n - 1] \o ss[n]  BY <1>3 DEF IsFlat
  <2> QED  BY <1>3, <2>2, <2>3, <2>4
<1> QED  BY <1>4, <1>5

\* FlattenSeq is that concatenation.
LEMMA FlattenIsFlat ==
    ASSUME NEW S, NEW ss \in Seq(Seq(S)),
           NEW f \in [0..Len(ss) -> Seq(S)], IsFlat(f, ss)
    PROVE  FlattenSeq(ss) = f[Len(ss)]
<1>1. CASE ss = << >>  BY <1>1 DEF FlattenSeq, IsFlat
<1>2. CASE ss # << >>
  <2> DEFINE P(h) == h = [i \in 1..Len(ss) |-> IF i = 1 THEN ss[i] ELSE h[i - 1] \o ss[i]]
             c == CHOOSE h : P(h)
             g == [i \in 1..Len(ss) |-> f[i]]
  <2>1. Len(ss) \in Nat /\ Len(ss) # 0  BY <1>2
  <2>2. P(g)
    <3>1. ASSUME NEW i \in 1..Len(ss)
          PROVE  g[i] = IF i = 1 THEN ss[i] ELSE g[i - 1] \o ss[i]
      <4>1. ss[i] \in Seq(S) /\ f[i] = f[i - 1] \o ss[i]  BY DEF IsFlat
      <4>2. CASE i = 1
        <5>1. i - 1 = 0  BY <4>2
        <5>2. f[i] = << >> \o ss[i]  BY <4>1, <5>1 DEF IsFlat
        <5> QED  BY <4>1, <4>2, <5>2
      <4>3. CASE i # 1
        <5>1. i - 1 \in 1..Len(ss)  BY <2>1, <4>3
        <5> QED  BY <4>1, <4>3, <5>1
      <4> QED  BY <4>2, <4>3
    <3> QED  BY <3>1
  <2>3. P(c)
    <3>1. \E h : P(h)  BY <2>2
    <3> HIDE DEF P
    <3> QED  BY <3>1
  <2>4. c[Len(ss)] = f[Len(ss)]
    <3> HIDE DEF c
    <3> QED  BY <1>2, <2>3, FlatUnique
  <2>5. FlattenSeq(ss) = c[Len(ss)]
    BY <2>1 DEF FlattenSeq
  <2> QED  BY <2>4, <2>5
<1> QED  BY <1>1, <1>2

\* Nothing flattens to nothing,
LEMMA FlattenEmpty == FlattenSeq(<< >>) = << >>
BY DEF FlattenSeq

\* sequences over S to a sequence over S,
LEMMA FlattenType ==
    ASSUME NEW S, NEW ss \in Seq(Seq(S))
    PROVE  FlattenSeq(ss) \in Seq(S)
<1>1. PICK f \in [0..Len(ss) -> Seq(S)] : IsFlat(f, ss)  BY FlatExists
<1>2. FlattenSeq(ss) = f[Len(ss)]  BY <1>1, FlattenIsFlat
<1> QED  BY <1>2

\* one more sequence at the end to its bytes at the end,
LEMMA FlattenAppend ==
    ASSUME NEW S, NEW ss \in Seq(Seq(S)), NEW s \in Seq(S)
    PROVE  FlattenSeq(Append(ss, s)) = FlattenSeq(ss) \o s
<1> DEFINE n == Len(ss)
           tt == Append(ss, s)
<1>1. PICK f \in [0..n -> Seq(S)] : IsFlat(f, ss)  BY FlatExists
<1>2. /\ n \in Nat /\ tt \in Seq(Seq(S)) /\ Len(tt) = n + 1 /\ tt[n + 1] = s
      /\ \A i \in 1..n : tt[i] = ss[i]
  OBVIOUS
<1> HIDE DEF tt, n
<1> DEFINE g == [i \in 0..(n + 1) |-> IF i = n + 1 THEN f[n] \o s ELSE f[i]]
<1>3. g \in [0..(n + 1) -> Seq(S)]
  <2>1. f[n] \o s \in Seq(S)  BY <1>2
  <2> QED  BY <1>2, <2>1
<1>4. IsFlat(g, tt)
  <2>1. g[0] = << >>  BY <1>1, <1>2 DEF IsFlat
  <2>2. ASSUME NEW i \in 1..(n + 1)  PROVE g[i] = g[i - 1] \o tt[i]
    <3>1. i \in 0..(n + 1) /\ i - 1 \in 0..(n + 1) /\ i - 1 # n + 1  BY <1>2
    <3>2. g[i - 1] = f[i - 1]  BY <3>1
    <3>3. CASE i = n + 1
      <4>1. i - 1 = n  BY <1>2, <3>3
      <4> QED  BY <1>2, <3>1, <3>2, <3>3, <4>1
    <3>4. CASE i # n + 1
      <4>1. i \in 1..n  BY <1>2, <3>4
      <4>2. g[i] = f[i]  BY <3>1, <3>4
      <4>3. f[i] = f[i - 1] \o ss[i]  BY <1>1, <4>1 DEF IsFlat, n
      <4> QED  BY <1>2, <3>2, <4>1, <4>2, <4>3
    <3> QED  BY <3>3, <3>4
  <2> HIDE DEF g
  <2> QED  BY <1>2, <2>1, <2>2 DEF IsFlat
<1>5. g[n + 1] = f[n] \o s  BY <1>2
<1> HIDE DEF g
<1>6. FlattenSeq(ss) = f[n]  BY <1>1, FlattenIsFlat DEF n
<1>7. FlattenSeq(tt) = g[n + 1]  BY <1>2, <1>3, <1>4, FlattenIsFlat
<1> QED  BY <1>5, <1>6, <1>7 DEF tt

\* and the first sequence comes first.
LEMMA FlattenHead ==
    ASSUME NEW S, NEW ss \in Seq(Seq(S)), ss # << >>
    PROVE  FlattenSeq(ss) = Head(ss) \o FlattenSeq(Tail(ss))
<1> DEFINE tt == Tail(ss)
           n == Len(tt)
           h == Head(ss)
<1>1. /\ tt \in Seq(Seq(S)) /\ n \in Nat /\ Len(ss) = n + 1 /\ h \in Seq(S) /\ h = ss[1]
      /\ \A i \in 1..n : tt[i] = ss[i + 1]
  OBVIOUS
<1> HIDE DEF tt, n, h
<1>2. PICK f \in [0..n -> Seq(S)] : IsFlat(f, tt)  BY <1>1, FlatExists DEF n
<1> DEFINE g == [i \in 0..(n + 1) |-> IF i = 0 THEN << >> ELSE h \o f[i - 1]]
<1>3. g \in [0..(n + 1) -> Seq(S)]
  <2>1. ASSUME NEW i \in 0..(n + 1)  PROVE g[i] \in Seq(S)
    <3>1. CASE i = 0  BY <3>1
    <3>2. CASE i # 0
      <4>1. i - 1 \in 0..n  BY <1>1, <3>2
      <4>2. h \o f[i - 1] \in Seq(S)  BY <1>1, <4>1
      <4> QED  BY <3>2, <4>2
    <3> QED  BY <3>1, <3>2
  <2> QED  BY <2>1
<1>4. IsFlat(g, ss)
  <2>1. g[0] = << >>  BY <1>1
  <2>2. ASSUME NEW i \in 1..(n + 1)  PROVE g[i] = g[i - 1] \o ss[i]
    <3>1. i \in 0..(n + 1) /\ i - 1 \in 0..(n + 1) /\ i # 0  BY <1>1
    <3>2. g[i] = h \o f[i - 1]  BY <3>1
    <3>3. CASE i = 1
      <4>1. i - 1 = 0  BY <3>3
      <4>2. f[i - 1] = << >>  BY <1>2, <4>1 DEF IsFlat
      <4>3. g[i - 1] = << >>  BY <2>1, <4>1
      <4>4. h \o << >> = << >> \o h  BY <1>1
      <4> QED  BY <1>1, <3>2, <3>3, <4>2, <4>3, <4>4
    <3>4. CASE i # 1
      <4>1. i - 1 \in 1..n /\ (i - 1) - 1 \in 0..n /\ i - 1 # 0 /\ (i - 1) + 1 = i  BY <1>1, <3>4
      <4>2. g[i - 1] = h \o f[(i - 1) - 1]  BY <3>1, <4>1
      <4>3. f[i - 1] = f[(i - 1) - 1] \o tt[i - 1]  BY <1>2, <4>1 DEF IsFlat, n
      <4>4. tt[i - 1] = ss[i]  BY <1>1, <4>1
      <4>5. /\ f[(i - 1) - 1] \in Seq(S) /\ ss[i] \in Seq(S)  BY <1>1, <4>1
      <4>6. h \o (f[(i - 1) - 1] \o ss[i]) = (h \o f[(i - 1) - 1]) \o ss[i]
        <5> HIDE DEF g
        <5> DEFINE b == f[(i - 1) - 1]
                   c == ss[i]
        <5>1. b \in Seq(S) /\ c \in Seq(S)  BY <4>5
        <5> HIDE DEF b, c
        <5>2. (h \o b) \o c = h \o (b \o c)
          <6>1. h \in Seq(S)  BY <1>1
          <6> QED  BY ONLY <5>1, <6>1, ConcatAssociative
        <5> QED  BY <5>2 DEF b, c
      <4> HIDE DEF g
      <4> QED  BY <3>2, <4>2, <4>3, <4>4, <4>6
    <3> QED  BY <3>3, <3>4
  <2> HIDE DEF g
  <2> QED  BY <1>1, <2>1, <2>2 DEF IsFlat
<1>5. g[n + 1] = h \o f[n]
  <2>1. n + 1 \in 0..(n + 1) /\ n + 1 # 0 /\ (n + 1) - 1 = n  BY <1>1
  <2> QED  BY <2>1
<1> HIDE DEF g
<1>6. FlattenSeq(tt) = f[n]  BY <1>1, <1>2, FlattenIsFlat DEF n
<1>7. FlattenSeq(ss) = g[n + 1]  BY <1>1, <1>3, <1>4, FlattenIsFlat
<1> QED  BY <1>5, <1>6, <1>7 DEF tt, h


-----------------------------------------------------------------------------
(* Slices: SubSeq(s, p + 1, e) is what lies between the offsets p and e.   *)

LEMMA Slice ==
    ASSUME NEW S, NEW s \in Seq(S), NEW p \in 0..Len(s), NEW e \in p..Len(s)
    PROVE  /\ SubSeq(s, p + 1, e) \in Seq(S) /\ Len(SubSeq(s, p + 1, e)) = e - p
           /\ \A i \in 1 .. e - p : SubSeq(s, p + 1, e)[i] = s[p + i]
<1>1. Len(s) \in Nat /\ p \in Nat /\ e \in Nat /\ p <= e /\ e <= Len(s)
  OBVIOUS
<1> DEFINE m == p + 1
<1>2. m \in Int /\ e \in Int /\ \A i \in m .. e : s[i] \in S
  BY <1>1
<1>4. e - m + 1 = e - p /\ (~(m <= e) => e - p = 0)
  BY <1>1
<1>5. \A i \in 1 .. e - p : m + i - 1 = p + i
  BY <1>1
<1> HIDE DEF m
<1>3. /\ SubSeq(s, m, e) \in Seq(S)
      /\ Len(SubSeq(s, m, e)) = IF m <= e THEN e - m + 1 ELSE 0
      /\ \A i \in 1 .. e - m + 1 : SubSeq(s, m, e)[i] = s[m + i - 1]
  BY <1>2, SubSeqProperties
<1>6. /\ SubSeq(s, m, e) \in Seq(S) /\ Len(SubSeq(s, m, e)) = e - p
      /\ \A i \in 1 .. e - p : SubSeq(s, m, e)[i] = s[p + i]
  BY <1>3, <1>4, <1>5
<1> QED
  BY <1>6 DEF m

LEMMA SliceOfSlice ==
    ASSUME NEW S, NEW s \in Seq(S), NEW p \in 0..Len(s), NEW e \in p..Len(s),
           NEW q \in 0 .. e - p, NEW f \in q .. e - p
    PROVE  SubSeq(SubSeq(s, p + 1, e), q + 1, f) = SubSeq(s, p + q + 1, p + f)
<1>1. Len(s) \in Nat /\ p \in Nat /\ e \in Nat /\ q \in Nat /\ f \in Nat
      /\ p <= e /\ e <= Len(s) /\ q <= f /\ f <= e - p
  OBVIOUS
<1> DEFINE t == SubSeq(s, p + 1, e)
           u == SubSeq(t, q + 1, f)
           g == p + q
           v == SubSeq(s, g + 1, p + f)
<1>2. t \in Seq(S) /\ Len(t) = e - p /\ \A i \in 1 .. e - p : t[i] = s[p + i]
  BY Slice
<1>4. g \in 0..Len(s) /\ p + f \in g..Len(s) /\ p + f - g = f - q
      /\ \A i \in 1 .. f - q : q + i \in 1 .. e - p /\ p + (q + i) = g + i
  BY <1>1
<1> HIDE DEF t, g
<1>3. u \in Seq(S) /\ Len(u) = f - q /\ \A i \in 1 .. f - q : u[i] = t[q + i]
  BY <1>2, Slice
<1>5. v \in Seq(S) /\ Len(v) = p + f - g /\ \A i \in 1 .. p + f - g : v[i] = s[g + i]
  BY <1>4, Slice
<1> HIDE DEF u, v
<1>6. \A i \in 1 .. f - q : u[i] = v[i]
  BY <1>2, <1>3, <1>4, <1>5
<1>7. u = v
  <2>1. Len(u) = Len(v) /\ \A i \in 1..Len(u) : u[i] = v[i]
    BY <1>3, <1>4, <1>5, <1>6
  <2> QED
    BY <1>3, <1>5, <2>1, SeqEqual
<1> QED
  BY <1>7 DEF u, v, t, g

LEMMA SliceOfPrefix ==
    ASSUME NEW S, NEW s \in Seq(S), NEW t \in Seq(S), NEW p \in 0..Len(s), NEW e \in p..Len(s)
    PROVE  SubSeq(s \o t, p + 1, e) = SubSeq(s, p + 1, e)
<1>1. Len(s) \in Nat /\ Len(t) \in Nat /\ p \in Nat /\ e \in Nat /\ p <= e /\ e <= Len(s)
  OBVIOUS
<1> DEFINE c == s \o t
           u == SubSeq(c, p + 1, e)
           v == SubSeq(s, p + 1, e)
<1>2. c \in Seq(S) /\ Len(c) = Len(s) + Len(t) /\ \A i \in 1..Len(s) : c[i] = s[i]
  BY <1>1, ConcatProperties
<1>3. p \in 0..Len(c) /\ e \in p..Len(c)
  BY <1>1, <1>2
<1> HIDE DEF c
<1>4. u \in Seq(S) /\ Len(u) = e - p /\ \A i \in 1 .. e - p : u[i] = c[p + i]
  BY <1>2, <1>3, Slice
<1>5. v \in Seq(S) /\ Len(v) = e - p /\ \A i \in 1 .. e - p : v[i] = s[p + i]
  BY Slice
<1>6. \A i \in 1 .. e - p : p + i \in 1..Len(s)
  BY <1>1
<1> HIDE DEF u, v
<1>7. u = v
  <2>1. Len(u) = Len(v) /\ \A i \in 1..Len(u) : u[i] = v[i]
    BY <1>2, <1>4, <1>5, <1>6
  <2> QED
    BY <1>4, <1>5, <2>1, SeqEqual
<1> QED
  BY <1>7 DEF u, v, c

LEMMA SliceBehind ==
    ASSUME NEW S, NEW s \in Seq(S), NEW t \in Seq(S), NEW p \in 0..Len(t), NEW e \in p..Len(t)
    PROVE  SubSeq(s \o t, Len(s) + p + 1, Len(s) + e) = SubSeq(t, p + 1, e)
<1>0. Len(s) \in Nat /\ Len(t) \in Nat /\ p \in Nat /\ e \in Nat /\ p <= e /\ e <= Len(t)
  OBVIOUS
<1> DEFINE c == s \o t
           n == Len(s)
           q == n + p
           f == n + e
           u == SubSeq(c, q + 1, f)
           v == SubSeq(t, p + 1, e)
<1>1. /\ c \in Seq(S) /\ Len(c) = n + Len(t)
      /\ \A i \in 1 .. n + Len(t) : c[i] = IF i <= n THEN s[i] ELSE t[i - n]
  BY ConcatProperties
<1>2. \A i \in 1..Len(t) : c[n + i] = t[i]
  <2>1. \A i \in 1..Len(t) : n + i \in 1 .. n + Len(t) /\ ~(n + i <= n) /\ (n + i) - n = i
    BY <1>0
  <2> HIDE DEF c, n
  <2> QED
    BY <1>1, <2>1
<1>3. q \in 0..Len(c) /\ f \in q..Len(c) /\ f - q = e - p
      /\ \A i \in 1 .. e - p : p + i \in 1..Len(t) /\ q + i = n + (p + i)
  BY <1>0, <1>1
<1> HIDE DEF c, n, q, f
<1>4. u \in Seq(S) /\ Len(u) = f - q /\ \A i \in 1 .. f - q : u[i] = c[q + i]
  BY <1>1, <1>3, Slice
<1>5. v \in Seq(S) /\ Len(v) = e - p /\ \A i \in 1 .. e - p : v[i] = t[p + i]
  BY Slice
<1> HIDE DEF u, v
<1>7. u = v
  <2>0. ASSUME NEW i \in 1 .. e - p PROVE u[i] = v[i]
    <3>1. u[i] = c[q + i] /\ q + i = n + (p + i) /\ p + i \in 1..Len(t)
      BY <1>3, <1>4
    <3>2. c[n + (p + i)] = t[p + i]
      BY <1>2, <3>1
    <3> QED
      BY <1>5, <3>1, <3>2
  <2>1. Len(u) = Len(v) /\ \A i \in 1..Len(u) : u[i] = v[i]
    BY <1>3, <1>4, <1>5, <2>0
  <2> QED
    BY <1>4, <1>5, <2>1, SeqEqual
<1> QED
  BY <1>7 DEF u, v, c, n, q, f

LEMMA JoinSlices ==
    ASSUME NEW S, NEW s \in Seq(S), NEW p \in 0..Len(s), NEW e \in p..Len(s), NEW n \in e..Len(s)
    PROVE  SubSeq(s, p + 1, e) \o SubSeq(s, e + 1, n) = SubSeq(s, p + 1, n)
<1>1. p + 1 \in 1 .. Len(s) + 1 /\ e \in (p + 1) - 1 .. Len(s)
  OBVIOUS
<1> QED
  BY <1>1, ConcatAdjacentSubSeq

LEMMA WholeSlice ==
    ASSUME NEW S, NEW s \in Seq(S)
    PROVE  SubSeq(s, 1, Len(s)) = s
  BY SubSeqFull

LEMMA Associative ==
    ASSUME NEW S
    PROVE  \A s, t, u \in Seq(S) : (s \o t) \o u = s \o (t \o u)
  BY ConcatAssociative

LEMMA PartsOfConcat ==
    ASSUME NEW S, NEW s \in Seq(S), NEW t \in Seq(S)
    PROVE  /\ SubSeq(s \o t, 1, Len(s)) = s
           /\ SubSeq(s \o t, Len(s) + 1, Len(s) + Len(t)) = t
<1>1. Len(s) \in Nat /\ Len(t) \in Nat /\ Len(s) \in 0..Len(s) /\ 0 \in 0..Len(s)
      /\ Len(t) \in 0..Len(t) /\ 0 \in 0..Len(t)
  OBVIOUS
<1>2. SubSeq(s \o t, 0 + 1, Len(s)) = SubSeq(s, 0 + 1, Len(s))
  BY <1>1, SliceOfPrefix, Zenon
<1>3. SubSeq(s \o t, Len(s) + 0 + 1, Len(s) + Len(t)) = SubSeq(t, 0 + 1, Len(t))
  BY <1>1, SliceBehind, Zenon
<1>4. 0 + 1 = 1 /\ Len(s) + 0 + 1 = Len(s) + 1
  BY <1>1
<1>5. SubSeq(s, 1, Len(s)) = s /\ SubSeq(t, 1, Len(t)) = t
  BY WholeSlice
<1> QED
  BY <1>2, <1>3, <1>4, <1>5, Zenon

\* Slices of what lies behind the offset p.
LEMMA SliceOfRest ==
    ASSUME NEW S, NEW s \in Seq(S), NEW p \in 0..Len(s), NEW f \in 0 .. Len(s) - p
    PROVE  /\ SubSeq(SubSeq(s, p + 1, Len(s)), 1, f) = SubSeq(s, p + 1, p + f)
           /\ SubSeq(SubSeq(s, p + 1, Len(s)), f + 1, Len(s) - p) = SubSeq(s, p + f + 1, Len(s))
<1> DEFINE e == Len(s)
           k == e - p
           z == 0
           t == SubSeq(s, p + 1, e)
<1>1. /\ e \in p..Len(s) /\ f \in z .. e - p /\ z \in 0 .. e - p /\ k \in f .. e - p
      /\ f \in 0 .. e - p
  OBVIOUS
<1>2. z + 1 = 1 /\ p + z + 1 = p + 1 /\ p + k = e
  OBVIOUS
<1> HIDE DEF e, k, z
<1>3. SubSeq(t, z + 1, f) = SubSeq(s, p + z + 1, p + f)
  BY <1>1, SliceOfSlice
<1>4. SubSeq(t, f + 1, k) = SubSeq(s, p + f + 1, p + k)
  BY <1>1, SliceOfSlice
<1> HIDE DEF t
<1>5. SubSeq(t, 1, f) = SubSeq(s, p + 1, p + f) /\ SubSeq(t, f + 1, k) = SubSeq(s, p + f + 1, e)
  BY <1>2, <1>3, <1>4
<1> QED
  BY <1>5 DEF e, k, t

=============================================================================
