----------------------------- MODULE SequenceFacts -----------------------------
(***************************************************************************)
(* What the proofs about several components need of numbers and sequences: *)
(* least and greatest elements, induction as a statement about sets, and   *)
(* what flattening a sequence of sequences gives.                          *)
(***************************************************************************)
EXTENDS Integers, SequencesExt, FiniteSetsExt, SequenceTheorems, WellFoundedInduction, TLAPS

-----------------------------------------------------------------------------
(* Numbers                                                                 *)

\* A set of natural numbers has a least element, which Min gives.
LEMMA LeastOfNaturals ==
    ASSUME NEW S, S \subseteq Nat, S # {}
    PROVE  Min(S) \in S /\ \A y \in S : Min(S) <= y
<1>1. PICK x \in S : \A y \in S : ~(<<y, x>> \in OpToRel(<, Nat))
  BY WFMin, NatLessThanWellFounded
<1>2. ASSUME NEW y \in S PROVE x <= y
  <2>1. OpToRel(<, Nat) = {p \in Nat \X Nat : p[1] < p[2]}
    BY Zenon DEF OpToRel
  <2>2. ~(<<y, x>> \in {p \in Nat \X Nat : p[1] < p[2]})
    BY <1>1, <2>1, Zenon
  <2> QED BY <2>2
<1> QED BY <1>2 DEF Min

\* A set of numbers up to n has a greatest element, which Max gives.
LEMMA GreatestUpTo ==
    ASSUME NEW n \in Nat, NEW S, S \subseteq 0..n, S # {}
    PROVE  Max(S) \in S /\ \A y \in S : y <= Max(S)
<1> DEFINE T == {n - x : x \in S}
<1>1. T \subseteq Nat /\ T # {}
  <2>1. \A x \in S : n - x \in Nat
    OBVIOUS
  <2> QED BY <2>1
<1> HIDE DEF T
<1>2. PICK m \in T : \A y \in T : m <= y
  BY <1>1, LeastOfNaturals
<1>3. PICK x \in S : m = n - x
  BY DEF T
<1>4. \A y \in S : n - y \in T
  BY DEF T
<1>5. \A y \in S : y <= x
  BY <1>2, <1>3, <1>4
<1> QED BY <1>5 DEF Max

\* What holds of 0 and, with a number, of the next one holds of all.
LEMMA Induct ==
    ASSUME NEW P, 0 \in P, \A n \in P \cap Nat : n + 1 \in P
    PROVE  Nat \subseteq P
<1> DEFINE Bad == Nat \ P
<1> SUFFICES ASSUME Bad # {} PROVE FALSE
  OBVIOUS
<1>1. PICK x \in Bad : \A y \in Bad : ~(<<y, x>> \in OpToRel(<, Nat))
  BY WFMin, NatLessThanWellFounded
<1>2. x \in Nat /\ x # 0 /\ x - 1 \in Nat /\ x - 1 < x
  OBVIOUS
<1>3. OpToRel(<, Nat) = {p \in Nat \X Nat : p[1] < p[2]}
  BY Zenon DEF OpToRel
<1>4. x - 1 \notin Bad
  BY <1>1, <1>2, <1>3
<1>5. x - 1 \in P \cap Nat
  BY <1>2, <1>4
<1>6. (x - 1) + 1 \in P
  BY <1>5
<1>7. (x - 1) + 1 = x
  BY <1>2
<1> QED BY <1>6, <1>7

-----------------------------------------------------------------------------
(* Sequences                                                               *)

\* What holds of the empty sequence and survives appending holds of all.
LEMMA InductOverSeq ==
    ASSUME NEW S, NEW P, <<>> \in P, \A s \in Seq(S) : \A x \in S : s \in P => Append(s, x) \in P
    PROVE  Seq(S) \subseteq P
<1> DEFINE Q == {n \in Nat : \A s \in Seq(S) : Len(s) = n => s \in P}
<1>1. 0 \in Q
  <2>1. \A s \in Seq(S) : Len(s) = 0 => s = <<>>
    OBVIOUS
  <2> QED BY <2>1
<1>2. ASSUME NEW n \in Q PROVE n + 1 \in Q
  <2>1. ASSUME NEW s \in Seq(S), Len(s) = n + 1 PROVE s \in P
    <3> DEFINE t == SubSeq(s, 1, n)
               x == s[n + 1]
    <3>1. t \in Seq(S) /\ Len(t) = n /\ x \in S /\ n \in Nat
      BY <2>1
    <3>2. Append(t, x) = s
      BY <2>1, <3>1
    <3> HIDE DEF t, x
    <3>3. t \in P
      BY <3>1
    <3> QED BY <3>1, <3>2, <3>3
  <2> QED BY <2>1
<1>3. Nat \subseteq Q
  <2> HIDE DEF Q
  <2> QED BY <1>1, <1>2, Induct
<1> QED
  <2>1. \A s \in Seq(S) : Len(s) \in Nat
    OBVIOUS
  <2> QED BY <1>3, <2>1

\* f gives the flattening of each prefix of s.
Sums(s, f, n) == f = [i \in 1..n |-> IF i = 1 THEN s[i] ELSE f[i - 1] \o s[i]]

LEMMA SumsExist ==
    ASSUME NEW s, NEW n \in Nat
    PROVE  \E f : Sums(s, f, n)
<1> DEFINE P == {m \in Nat : \E f : Sums(s, f, m)}
<1>1. 0 \in P
  <2>1. Sums(s, [i \in 1..0 |-> <<>>], 0)
    BY DEF Sums
  <2> QED BY <2>1
<1>2. ASSUME NEW m \in P PROVE m + 1 \in P
  <2>1. PICK g : Sums(s, g, m)
    OBVIOUS
  <2> DEFINE f == [i \in 1..(m + 1) |-> IF i <= m THEN g[i] ELSE IF i = 1 THEN s[i] ELSE g[i - 1] \o s[i]]
  <2>2. ASSUME NEW i \in 1..(m + 1) PROVE f[i] = IF i = 1 THEN s[i] ELSE f[i - 1] \o s[i]
    <3>1. CASE i <= m
      <4>1. g = [k \in 1..m |-> IF k = 1 THEN s[k] ELSE g[k - 1] \o s[k]]
        BY <2>1 DEF Sums
      <4>4. i \in 1..m
        BY <3>1
      <4>2. g[i] = IF i = 1 THEN s[i] ELSE g[i - 1] \o s[i]
        BY <4>1, <4>4
      <4>3. f[i] = g[i] /\ (i # 1 => f[i - 1] = g[i - 1])
        BY <3>1
      <4> HIDE DEF f
      <4> QED BY <4>2, <4>3
    <3>2. CASE i = m + 1
      BY <2>1, <3>2 DEF Sums
    <3> QED BY <3>1, <3>2
  <2> DEFINE h == [i \in 1..(m + 1) |-> IF i = 1 THEN s[i] ELSE f[i - 1] \o s[i]]
  <2>4. f = h
    <3>1. f = [i \in 1..(m + 1) |-> f[i]]
      OBVIOUS
    <3> HIDE DEF f
    <3> QED BY <2>2, <3>1
  <2>3. Sums(s, f, m + 1)
    <3> HIDE DEF f
    <3> QED BY <2>4 DEF Sums
  <2> QED BY <2>3
<1> QED BY <1>1, <1>2, Induct

LEMMA FlattenSums ==
    ASSUME NEW s, Len(s) \in Nat, Len(s) # 0
    PROVE  \E f : Sums(s, f, Len(s)) /\ FlattenSeq(s) = f[Len(s)]
<1> DEFINE f == CHOOSE f : f = [i \in 1..Len(s) |-> IF i = 1 THEN s[i] ELSE f[i - 1] \o s[i]]
<1>1. Sums(s, f, Len(s))
  BY SumsExist, Zenon DEF Sums
<1>2. FlattenSeq(s) = f[Len(s)]
  BY Zenon DEF FlattenSeq
<1> QED BY <1>1, <1>2

\* The partial flattenings of two sequences are the same where these are.
LEMMA SumsAgree ==
    ASSUME NEW s, NEW t, NEW f, NEW g, NEW n \in Nat, NEW m \in 0..n, Sums(s, f, n), Sums(t, g, m),
           \A i \in 1..m : s[i] = t[i]
    PROVE  \A i \in 1..m : f[i] = g[i]
<1> DEFINE P == {k \in Nat : k \in 1..m => f[k] = g[k]}
<1>1. 0 \in P
  OBVIOUS
<1>2. ASSUME NEW k \in P PROVE k + 1 \in P
  <2> SUFFICES ASSUME k + 1 \in 1..m PROVE f[k + 1] = g[k + 1]
    OBVIOUS
  <2>1. k + 1 \in 1..n /\ (k + 1) - 1 = k /\ (k + 1 # 1 => k \in 1..m) /\ k \in Nat
    OBVIOUS
  <2>2. f[k + 1] = IF k + 1 = 1 THEN s[k + 1] ELSE f[(k + 1) - 1] \o s[k + 1]
    <3>1. f = [i \in 1..n |-> IF i = 1 THEN s[i] ELSE f[i - 1] \o s[i]]
      BY DEF Sums
    <3> QED BY <2>1, <3>1
  <2>3. g[k + 1] = IF k + 1 = 1 THEN t[k + 1] ELSE g[(k + 1) - 1] \o t[k + 1]
    <3>1. g = [i \in 1..m |-> IF i = 1 THEN t[i] ELSE g[i - 1] \o t[i]]
      BY DEF Sums
    <3> QED BY <3>1
  <2>4. k + 1 # 1 => f[k] = g[k]
    BY <2>1
  <2>5. s[k + 1] = t[k + 1]
    OBVIOUS
  <2> QED BY <2>1, <2>2, <2>3, <2>4, <2>5
<1>3. Nat \subseteq P
  <2> HIDE DEF P
  <2> QED BY <1>1, <1>2, Induct
<1> QED BY <1>3

LEMMA FlattenEmpty == FlattenSeq(<<>>) = <<>>
<1>1. Len(<<>>) = 0
  OBVIOUS
<1> QED BY <1>1 DEF FlattenSeq

LEMMA FlattenAppend ==
    ASSUME NEW S, NEW s \in Seq(Seq(S)), NEW x \in Seq(S)
    PROVE  FlattenSeq(Append(s, x)) = FlattenSeq(s) \o x
<1> DEFINE t == Append(s, x)
           n == Len(s)
<1>1. n \in Nat /\ Len(t) = n + 1 /\ t[n + 1] = x /\ \A i \in 1..n : t[i] = s[i]
  OBVIOUS
<1> HIDE DEF t
<1>2. PICK f : Sums(t, f, n + 1) /\ FlattenSeq(t) = f[n + 1]
  <2>1. Len(t) \in Nat /\ Len(t) # 0
    BY <1>1
  <2> QED BY <1>1, <2>1, FlattenSums
<1>3. f[n + 1] = IF n + 1 = 1 THEN x ELSE f[(n + 1) - 1] \o x
  <2>1. f = [i \in 1..(n + 1) |-> IF i = 1 THEN t[i] ELSE f[i - 1] \o t[i]]
    BY <1>2 DEF Sums
  <2>2. n + 1 \in 1..(n + 1)
    BY <1>1
  <2> QED BY <1>1, <2>1, <2>2
<1>4. CASE n = 0
  <2>1. s = <<>>
    BY <1>4
  <2> QED BY <1>2, <1>3, <1>4, <2>1, FlattenEmpty DEF t
<1>5. CASE n # 0
  <2>1. PICK g : Sums(s, g, n) /\ FlattenSeq(s) = g[n]
    BY <1>1, <1>5, FlattenSums
  <2>2. \A i \in 1..n : f[i] = g[i]
    <3> HIDE DEF n
    <3>1. n + 1 \in Nat /\ n \in 0..(n + 1) /\ \A i \in 1..n : t[i] = s[i]
      BY <1>1
    <3>2. Sums(t, f, n + 1) /\ Sums(s, g, n)
      BY <1>2, <2>1
    <3> QED BY <3>1, <3>2, SumsAgree
  <2>3. f[n] = g[n] /\ n + 1 # 1 /\ (n + 1) - 1 = n
    <3> HIDE DEF n
    <3>1. n \in 1..n
      BY <1>1, <1>5
    <3> QED BY <1>1, <1>5, <2>2, <3>1
  <2> QED BY <1>2, <1>3, <2>1, <2>3 DEF t
<1> QED BY <1>4, <1>5

LEMMA FlattenIsSeq ==
    ASSUME NEW S
    PROVE  \A s \in Seq(Seq(S)) : FlattenSeq(s) \in Seq(S)
<1> DEFINE P == {s \in Seq(Seq(S)) : FlattenSeq(s) \in Seq(S)}
<1>1. <<>> \in P
  <2>1. <<>> \in Seq(Seq(S)) /\ <<>> \in Seq(S)
    OBVIOUS
  <2> QED BY <2>1, FlattenEmpty
<1>2. ASSUME NEW s \in Seq(Seq(S)), NEW x \in Seq(S), s \in P PROVE Append(s, x) \in P
  <2>1. FlattenSeq(Append(s, x)) = FlattenSeq(s) \o x /\ Append(s, x) \in Seq(Seq(S))
    BY FlattenAppend
  <2>2. FlattenSeq(s) \o x \in Seq(S)
    BY <1>2
  <2> QED BY <2>1, <2>2
<1> HIDE DEF P
<1>3. Seq(Seq(S)) \subseteq P
  BY <1>1, <1>2, InductOverSeq
<1> QED BY <1>3 DEF P

LEMMA FlattenConcat ==
    ASSUME NEW S, NEW s \in Seq(Seq(S)), NEW t \in Seq(Seq(S))
    PROVE  FlattenSeq(s \o t) = FlattenSeq(s) \o FlattenSeq(t)
<1> DEFINE P == {u \in Seq(Seq(S)) : FlattenSeq(s \o u) = FlattenSeq(s) \o FlattenSeq(u)}
<1>0. FlattenSeq(s) \in Seq(S)
  BY FlattenIsSeq
<1>1. <<>> \in P
  <2>1. s \o <<>> = s /\ FlattenSeq(s) \o <<>> = FlattenSeq(s) /\ <<>> \in Seq(Seq(S))
    BY <1>0
  <2> QED BY <2>1, FlattenEmpty
<1>2. ASSUME NEW u \in Seq(Seq(S)), NEW x \in Seq(S), u \in P PROVE Append(u, x) \in P
  <2>1. s \o Append(u, x) = Append(s \o u, x) /\ s \o u \in Seq(Seq(S)) /\ Append(u, x) \in Seq(Seq(S))
    OBVIOUS
  <2>2. FlattenSeq(Append(s \o u, x)) = FlattenSeq(s \o u) \o x
    BY <2>1, FlattenAppend
  <2>3. FlattenSeq(Append(u, x)) = FlattenSeq(u) \o x /\ FlattenSeq(u) \in Seq(S)
    BY FlattenAppend, FlattenIsSeq
  <2>4. (FlattenSeq(s) \o FlattenSeq(u)) \o x = FlattenSeq(s) \o (FlattenSeq(u) \o x)
    BY <1>0, <2>3, ConcatAssociative
  <2> QED BY <1>2, <2>1, <2>2, <2>3, <2>4
<1> HIDE DEF P
<1>3. Seq(Seq(S)) \subseteq P
  BY <1>1, <1>2, InductOverSeq
<1> QED BY <1>3 DEF P

\* Where the elements of flattened sequences stand.
PlacedBy(off, s, f) ==
    /\ \A i \in 1..Len(s) : off[i] \in Nat /\ off[i] + Len(s[i]) <= Len(f)
                            /\ \A k \in 1..Len(s[i]) : f[off[i] + k] = s[i][k]
    /\ \A j \in 1..Len(f) : \E i \in 1..Len(s) : \E k \in 1..Len(s[i]) : j = off[i] + k
    /\ \A i, j \in 1..Len(s) : i < j => off[i] + Len(s[i]) <= off[j]

LEMMA FlattenPlaces ==
    ASSUME NEW S, NEW s \in Seq(Seq(S))
    PROVE  \E off : PlacedBy(off, s, FlattenSeq(s))
<1> DEFINE P == {u \in Seq(Seq(S)) : \E off : PlacedBy(off, u, FlattenSeq(u))}
<1>1. <<>> \in P
  <2>1. PlacedBy(<<>>, <<>>, <<>>) /\ <<>> \in Seq(Seq(S))
    BY DEF PlacedBy
  <2> QED BY <2>1, FlattenEmpty
<1>2. ASSUME NEW u \in Seq(Seq(S)), NEW x \in Seq(S), u \in P PROVE Append(u, x) \in P
  <2> DEFINE v == Append(u, x)
             f == FlattenSeq(u)
             g == f \o x
             n == Len(u)
  <2>1. FlattenSeq(v) = g /\ f \in Seq(S) /\ v \in Seq(Seq(S))
    BY FlattenAppend, FlattenIsSeq
  <2>2. PICK off : PlacedBy(off, u, f)
    BY <1>2
  <2>3. /\ n \in Nat /\ Len(v) = n + 1 /\ v[n + 1] = x /\ \A i \in 1..n : v[i] = u[i]
        /\ Len(x) \in Nat /\ Len(f) \in Nat /\ \A i \in 1..n : Len(u[i]) \in Nat
    BY <2>1
  <2>4. /\ Len(g) = Len(f) + Len(x)
        /\ \A j \in 1..Len(f) : g[j] = f[j]
        /\ \A j \in 1..Len(x) : g[Len(f) + j] = x[j]
    BY <2>1
  <2> DEFINE new == [i \in 1..(n + 1) |-> IF i = n + 1 THEN Len(f) ELSE off[i]]
  <2>5. new[n + 1] = Len(f) /\ \A i \in 1..n : new[i] = off[i]
    BY <2>3
  <2> HIDE DEF v, f, g, n, new
  <2>6. ASSUME NEW i \in 1..(n + 1)
        PROVE  /\ new[i] \in Nat /\ new[i] + Len(v[i]) <= Len(g)
               /\ \A k \in 1..Len(v[i]) : g[new[i] + k] = v[i][k]
    <3>1. CASE i = n + 1
      <4>1. new[i] = Len(f) /\ v[i] = x
        BY <2>3, <2>5, <3>1
      <4>2. Len(f) + Len(x) <= Len(g) /\ Len(f) \in Nat
        BY <2>3, <2>4
      <4> QED BY <2>4, <4>1, <4>2
    <3>2. CASE i \in 1..n
      <4>1. /\ off[i] \in Nat /\ new[i] = off[i] /\ v[i] = u[i]
            /\ off[i] + Len(u[i]) <= Len(f) /\ Len(u[i]) \in Nat
            /\ \A k \in 1..Len(u[i]) : f[off[i] + k] = u[i][k]
        BY <2>2, <2>3, <2>5, <3>2 DEF PlacedBy, n
      <4>2. ASSUME NEW k \in 1..Len(u[i]) PROVE g[off[i] + k] = u[i][k]
        <5>1. off[i] + k \in 1..Len(f)
          BY <2>3, <4>1, <3>2
        <5> QED BY <2>3, <2>4, <4>1, <5>1
      <4> QED BY <2>3, <2>4, <4>1, <4>2
    <3> QED BY <2>3, <3>1, <3>2
  <2>7. ASSUME NEW j \in 1..Len(g)
        PROVE  \E i \in 1..(n + 1) : \E k \in 1..Len(v[i]) : j = new[i] + k
    <3>1. CASE j <= Len(f)
      <4>0. j \in 1..Len(f)
        BY <2>3, <2>4, <3>1
      <4>1. PICK i \in 1..n : \E k \in 1..Len(u[i]) : j = off[i] + k
        BY <2>2, <4>0, Zenon DEF PlacedBy, n
      <4>2. i \in 1..(n + 1) /\ v[i] = u[i] /\ new[i] = off[i]
        BY <2>3, <2>5
      <4> QED BY <4>1, <4>2
    <3>2. CASE ~(j <= Len(f))
      <4>1. j - Len(f) \in 1..Len(x) /\ j = Len(f) + (j - Len(f)) /\ n + 1 \in 1..(n + 1)
        BY <2>3, <2>4, <3>2
      <4> QED BY <2>3, <2>5, <4>1
    <3> QED BY <3>1, <3>2
  <2>8. ASSUME NEW i \in 1..(n + 1), NEW j \in 1..(n + 1), i < j
        PROVE  new[i] + Len(v[i]) <= new[j]
    <3>1. i \in 1..n /\ v[i] = u[i] /\ new[i] = off[i] /\ off[i] \in Nat /\ Len(u[i]) \in Nat
      <4>1. i \in 1..n
        BY <2>3, <2>8
      <4>2. off[i] \in Nat
        BY <2>2, <4>1 DEF PlacedBy, n
      <4> QED BY <2>3, <2>5, <4>1, <4>2
    <3>2. CASE j = n + 1
      BY <2>2, <2>3, <2>5, <3>1, <3>2 DEF PlacedBy, n
    <3>3. CASE j # n + 1
      <4>1. j \in 1..n /\ new[j] = off[j]
        BY <2>3, <2>5, <3>3
      <4>2. off[i] + Len(u[i]) <= off[j]
        BY <2>2, <2>8, <3>1, <4>1 DEF PlacedBy, n
      <4> QED BY <3>1, <4>1, <4>2
    <3> QED BY <3>2, <3>3
  <2>9. PlacedBy(new, v, g)
    BY <2>3, <2>6, <2>7, <2>8 DEF PlacedBy
  <2> QED BY <2>1, <2>9 DEF v
<1> HIDE DEF P
<1>3. Seq(Seq(S)) \subseteq P
  BY <1>1, <1>2, InductOverSeq
<1> QED BY <1>3 DEF P

\* A sequence is the flattening of its singletons.
LEMMA FlattenSingles ==
    ASSUME NEW S
    PROVE  \A s \in Seq(S) : FlattenSeq([i \in 1..Len(s) |-> <<s[i]>>]) = s
<1> DEFINE Singles(s) == [i \in 1..Len(s) |-> <<s[i]>>]
           P == {s \in Seq(S) : FlattenSeq(Singles(s)) = s}
<1>1. <<>> \in P
  <2>1. Singles(<<>>) = <<>> /\ <<>> \in Seq(S)
    OBVIOUS
  <2> HIDE DEF Singles
  <2> QED BY <2>1, FlattenEmpty
<1>2. ASSUME NEW s \in Seq(S), NEW x \in S, s \in P PROVE Append(s, x) \in P
  <2> DEFINE a == Singles(s)
             b == Singles(Append(s, x))
  <2>1. a \in Seq(Seq(S)) /\ <<x>> \in Seq(S)
    OBVIOUS
  <2>2. b = Append(a, <<x>>)
    OBVIOUS
  <2>3. Append(s, x) = s \o <<x>> /\ Append(s, x) \in Seq(S)
    OBVIOUS
  <2>4. FlattenSeq(a) = s
    BY <1>2
  <2> HIDE DEF a, b
  <2>5. FlattenSeq(b) = FlattenSeq(a) \o <<x>>
    BY <2>1, <2>2, FlattenAppend
  <2>6. FlattenSeq(b) = Append(s, x)
    BY <2>3, <2>4, <2>5
  <2> QED BY <2>3, <2>6 DEF b
<1> HIDE DEF P
<1>3. Seq(S) \subseteq P
  BY <1>1, <1>2, InductOverSeq
<1> QED BY <1>3 DEF P
=============================================================================
