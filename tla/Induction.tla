------------------------------ MODULE Induction ------------------------------
(***************************************************************************)
(* Induction over the natural numbers as a statement about sets, which the *)
(* first-order provers can use, and what it gives: functions defined by    *)
(* recursion exist.  The sets are comprehensions over Nat: to prove P(n)   *)
(* for every n, cite NatSetInduction for {n \in Nat : P(n)}.               *)
(***************************************************************************)
EXTENDS SequencesExt, SequenceTheorems, WellFoundedInduction, TLAPS

(* Every set of natural numbers that is not empty has a least one.         *)
LEMMA LeastNatural ==
  ASSUME NEW S, S \subseteq Nat, S # {}
  PROVE  \E n \in S : \A m \in S : n <= m
<1>1. IsWellFoundedOn(OpToRel(<, Nat), Nat)
  BY NatLessThanWellFounded, Zenon
<1>2. \E n \in S : \A m \in S : ~ (<<m, n>> \in OpToRel(<, Nat))
  BY <1>1, WFMin, Zenon
<1>3. ASSUME NEW n \in S, NEW m \in S, ~ (<<m, n>> \in OpToRel(<, Nat))
      PROVE  n <= m
  BY <1>3 DEF OpToRel
<1> QED
  BY <1>2, <1>3

(* A set with 0 and with the successor of each of its numbers is Nat.      *)
LEMMA NatSetInduction ==
  ASSUME NEW S, 0 \in S, \A n \in Nat : n \in S => n + 1 \in S
  PROVE  \A n \in Nat : n \in S
<1> SUFFICES ASSUME Nat \ S # {} PROVE FALSE
  OBVIOUS
<1>1. PICK n \in Nat \ S : \A m \in Nat \ S : n <= m
  BY LeastNatural
<1> QED
  BY <1>1

(* The values up to n of the function that recursion defines.              *)
Approximates(f, n, V, a, step) ==
  /\ f \in [0 .. n -> V]
  /\ f[0] = a
  /\ \A i \in 0 .. n - 1 : f[i + 1] = step[<<i, f[i]>>]

(* A value and a step define a function on the natural numbers.            *)
Iterates(f, V, a, step) ==
  /\ f \in [Nat -> V]
  /\ f[0] = a
  /\ \A n \in Nat : f[n + 1] = step[<<n, f[n]>>]

(* Recursion defines a function.                                           *)
LEMMA RecursionTheorem ==
  ASSUME NEW V, NEW a, a \in V, NEW step, step \in [Nat \X V -> V]
  PROVE  \E f : Iterates(f, V, a, step)
<1> DEFINE Approx(f, n) == Approximates(f, n, V, a, step)
<1>0. ASSUME NEW n \in Nat, NEW v \in V PROVE step[<<n, v>>] \in V
  OBVIOUS
<1>1. \A n \in Nat : \E f : Approx(f, n)
  <2> DEFINE S == {n \in Nat : \E f : Approx(f, n)}
  <2>1. 0 \in S
    <3>1. Approx([i \in 0 .. 0 |-> a], 0)
      BY DEF Approximates
    <3> QED
      BY <3>1, Zenon
  <2>2. ASSUME NEW n \in Nat, n \in S PROVE n + 1 \in S
    <3>1. PICK f : Approx(f, n)
      BY <2>2
    <3> DEFINE g == [i \in 0 .. n + 1 |-> IF i = n + 1 THEN step[<<n, f[n]>>] ELSE f[i]]
    <3>2. step[<<n, f[n]>>] \in V
      BY <3>1, <1>0 DEF Approximates
    <3>3. g \in [0 .. n + 1 -> V]
      BY <3>1, <3>2 DEF Approximates
    <3>4. g[0] = a
      BY <3>1 DEF Approximates
    <3>5. ASSUME NEW i \in 0 .. n PROVE g[i + 1] = step[<<i, g[i]>>]
      <4>1. CASE i = n
        <5>1. g[n + 1] = step[<<n, f[n]>>] /\ g[n] = f[n]
          OBVIOUS
        <5> QED
          BY <4>1, <5>1
      <4>2. CASE i # n
        <5>1. i \in 0 .. n - 1 /\ g[i + 1] = f[i + 1] /\ g[i] = f[i]
          BY <4>2
        <5> QED
          BY <3>1, <5>1 DEF Approximates
      <4> QED
        BY <4>1, <4>2
    <3> HIDE DEF g
    <3>6. Approx(g, n + 1)
      BY <3>3, <3>4, <3>5 DEF Approximates
    <3> QED
      BY <3>6
  <2> HIDE DEF S
  <2>3. \A n \in Nat : n \in S
    BY <2>1, <2>2, NatSetInduction
  <2> QED
    BY <2>3 DEF S
<1>2. ASSUME NEW m \in Nat, NEW n \in Nat, m <= n, NEW f, NEW g,
             Approx(f, m), Approx(g, n)
      PROVE  \A i \in Nat : i <= m => f[i] = g[i]
  <2> DEFINE S == {i \in Nat : i <= m => f[i] = g[i]}
  <2>1. 0 \in S
    BY <1>2 DEF Approximates
  <2>2. ASSUME NEW i \in Nat, i \in S PROVE i + 1 \in S
    <3> SUFFICES ASSUME i + 1 <= m PROVE f[i + 1] = g[i + 1]
      OBVIOUS
    <3>1. i \in 0 .. m - 1 /\ i \in 0 .. n - 1 /\ f[i] = g[i]
      BY <1>2, <2>2
    <3>2. f[i + 1] = step[<<i, f[i]>>] /\ g[i + 1] = step[<<i, g[i]>>]
      BY <1>2, <3>1 DEF Approximates
    <3> QED
      BY <3>1, <3>2
  <2> HIDE DEF S
  <2>3. \A i \in Nat : i \in S
    BY <2>1, <2>2, NatSetInduction
  <2> QED
    BY <2>3 DEF S
<1> DEFINE F == [n \in Nat |-> CHOOSE f : Approx(f, n)]
           fn == [n \in Nat |-> F[n][n]]
<1>3. ASSUME NEW n \in Nat PROVE Approx(F[n], n)
  <2>1. \E f : Approx(f, n)
    BY <1>1
  <2>2. Approx(CHOOSE f : Approx(f, n), n)
    BY <2>1, Zenon
  <2> QED
    BY <2>2
<1> HIDE DEF F
<1>4. fn \in [Nat -> V]
  BY <1>3 DEF Approximates
<1>5. fn[0] = a
  BY <1>3 DEF Approximates
<1>6. ASSUME NEW n \in Nat PROVE fn[n + 1] = step[<<n, fn[n]>>]
  <2>1. F[n + 1][n + 1] = step[<<n, F[n + 1][n]>>]
    BY <1>3 DEF Approximates
  <2>2. F[n + 1][n] = F[n][n]
    BY <1>2, <1>3
  <2> QED
    BY <2>1, <2>2
<1> QED
  BY <1>4, <1>5, <1>6, Zenon DEF Iterates

-----------------------------------------------------------------------------
(* What FlattenSeq has concatenated after each of the sequences.           *)
Concatenates(f, ss, S) ==
  /\ f \in [Nat -> Seq(S)]
  /\ f[0] = <<>>
  /\ \A i \in 1 .. Len(ss) : f[i] = f[i - 1] \o ss[i]

(* FlattenSeq is the last value of the function that concatenates.         *)
LEMMA FlattenByPrefixes ==
  ASSUME NEW S, NEW ss \in Seq(Seq(S)), NEW f, Concatenates(f, ss, S)
  PROVE  FlattenSeq(ss) = f[Len(ss)]
<1>1. CASE Len(ss) = 0
  <2>1. ss = <<>>
    BY <1>1
  <2>2. FlattenSeq(ss) = ss
    BY <1>1, Zenon DEF FlattenSeq
  <2> QED
    BY <1>1, <2>1, <2>2 DEF Concatenates
<1>2. CASE Len(ss) > 0
  <2> DEFINE Unfolds(g) ==
        g = [i \in 1 .. Len(ss) |-> IF i = 1 THEN ss[i] ELSE g[i - 1] \o ss[i]]
  <2>0. Len(ss) \in Nat /\ \A i \in 1 .. Len(ss) : ss[i] \in Seq(S)
    BY ElementOfSeq
  <2>1. Unfolds([i \in 1 .. Len(ss) |-> f[i]])
    <3> DEFINE h == [i \in 1 .. Len(ss) |-> f[i]]
    <3>1. ASSUME NEW i \in 1 .. Len(ss)
          PROVE  h[i] = IF i = 1 THEN ss[i] ELSE h[i - 1] \o ss[i]
      <4>1. CASE i = 1
        <5>0. 1 \in 1 .. Len(ss) /\ 1 - 1 = 0 /\ h[1] = f[1]
          BY <4>1, <2>0
        <5>1. h[1] = f[0] \o ss[1] /\ f[0] = <<>> /\ ss[1] \in Seq(S)
          BY <5>0, <2>0, Zenon DEF Concatenates
        <5> HIDE DEF h
        <5>2. f[0] \o ss[1] = ss[1]
          BY <5>1, ConcatEmptySeq, Zenon
        <5> QED
          BY <4>1, <5>1, <5>2
      <4>2. CASE i # 1
        <5>1. i - 1 \in 1 .. Len(ss) /\ h[i] = f[i] /\ h[i - 1] = f[i - 1]
          BY <4>2, <2>0
        <5>2. f[i] = f[i - 1] \o ss[i]
          BY DEF Concatenates
        <5> HIDE DEF h
        <5> QED
          BY <5>1, <5>2, <4>2
      <4> QED
        BY <4>1, <4>2
    <3>2. h = [i \in 1 .. Len(ss) |-> h[i]]
      OBVIOUS
    <3> HIDE DEF h
    <3>3. Unfolds(h)
      BY <3>1, <3>2
    <3> QED
      BY <3>3 DEF h
  <2>3. PICK g : Unfolds(g) /\ FlattenSeq(ss) = g[Len(ss)]
    <3>1. Unfolds(CHOOSE g : Unfolds(g))
      BY <2>1, Zenon
    <3>2. FlattenSeq(ss) = (CHOOSE g : Unfolds(g))[Len(ss)]
      <4>1. Len(ss) # 0
        BY <1>2
      <4> QED
        BY <4>1, Zenon DEF FlattenSeq
    <3> QED
      BY <3>1, <3>2, Zenon
  <2> DEFINE Same == {n \in Nat : n + 1 <= Len(ss) => g[n + 1] = f[n + 1]}
  <2>a. ASSUME NEW i \in 1 .. Len(ss) PROVE g[i] = IF i = 1 THEN ss[i] ELSE g[i - 1] \o ss[i]
    BY <2>3
  <2> HIDE DEF Unfolds
  <2>4. 0 \in Same
    <3>1. 1 \in 1 .. Len(ss) /\ 1 - 1 = 0
      BY <1>2, <2>0
    <3>2. g[1] = ss[1]
      BY <3>1, <2>a, Zenon
    <3>3. f[1] = f[0] \o ss[1] /\ f[0] = <<>> /\ ss[1] \in Seq(S)
      BY <3>1, <2>0, Zenon DEF Concatenates
    <3>4. f[0] \o ss[1] = ss[1]
      BY <3>3, ConcatEmptySeq, Zenon
    <3> QED
      BY <3>2, <3>3, <3>4
  <2>5. ASSUME NEW n \in Nat, n \in Same PROVE n + 1 \in Same
    <3> SUFFICES ASSUME n + 2 <= Len(ss) PROVE g[n + 2] = f[n + 2]
      BY (n + 1) + 1 = n + 2
    <3>1. n + 2 \in 1 .. Len(ss) /\ n + 2 # 1 /\ (n + 2) - 1 = n + 1 /\ n + 1 <= Len(ss)
      BY <2>0
    <3>2. g[n + 2] = g[n + 1] \o ss[n + 2]
      BY <3>1, <2>a
    <3>3. f[n + 2] = f[n + 1] \o ss[n + 2]
      <4>1. f[n + 2] = f[(n + 2) - 1] \o ss[n + 2]
        BY <3>1, Zenon DEF Concatenates
      <4> QED
        BY <4>1, <3>1
    <3>4. g[n + 1] = f[n + 1]
      BY <2>5, <3>1
    <3> QED
      BY <3>2, <3>3, <3>4
  <2>6. \A n \in Nat : n \in Same
    <3> HIDE DEF Same
    <3> QED
      BY <2>4, <2>5, NatSetInduction
  <2>7. Len(ss) - 1 \in Nat /\ (Len(ss) - 1) + 1 = Len(ss) /\ (Len(ss) - 1) + 1 <= Len(ss)
    BY <1>2, <2>0
  <2>8. Len(ss) - 1 \in Same
    BY <2>6, <2>7
  <2>9. g[Len(ss)] = f[Len(ss)]
    BY <2>7, <2>8
  <2> QED
    BY <2>3, <2>9
<1> QED
  <2>1. Len(ss) \in Nat
    OBVIOUS
  <2> QED
    BY <1>1, <1>2, <2>1

(* Such a function exists.                                                 *)
LEMMA PrefixesExist ==
  ASSUME NEW S, NEW ss \in Seq(Seq(S))
  PROVE  \E f : Concatenates(f, ss, S)
<1> DEFINE V == Seq(S)
           next(n, v) == IF n < Len(ss) THEN v \o ss[n + 1] ELSE v
           step == [p \in Nat \X V |-> next(p[1], p[2])]
<1>1. ASSUME NEW n \in Nat, NEW v \in V PROVE next(n, v) \in V
  <2>1. CASE n < Len(ss)
    <3>1. ss[n + 1] \in Seq(S)
      BY <2>1, ElementOfSeq
    <3> QED
      BY <2>1, <3>1, ConcatProperties
  <2>2. CASE ~ (n < Len(ss))
    BY <2>2
  <2> QED
    BY <2>1, <2>2
<1>4. <<>> \in V
  BY EmptySeq
<1> HIDE DEF V
<1>a. \A n \in Nat, v \in V : n < Len(ss) => next(n, v) = v \o ss[n + 1]
  BY Zenon
<1> HIDE DEF next
<1>2. step \in [Nat \X V -> V]
  BY <1>1
<1>3. \A n \in Nat, v \in V : step[<<n, v>>] = next(n, v)
  OBVIOUS
<1> HIDE DEF step
<1> DEFINE empty == <<>>
<1>b. empty \in V
  BY <1>4
<1> HIDE DEF empty
<1>5. PICK f : Iterates(f, V, empty, step)
  BY <1>2, <1>b, RecursionTheorem, Zenon
<1>6. ASSUME NEW i \in 1 .. Len(ss) PROVE f[i] = f[i - 1] \o ss[i]
  <2>1. i - 1 \in Nat /\ (i - 1) + 1 = i /\ i - 1 < Len(ss)
    BY LenProperties
  <2>2. f[(i - 1) + 1] = step[<<i - 1, f[i - 1]>>] /\ f[i - 1] \in V
    BY <2>1, <1>5 DEF Iterates
  <2>3. step[<<i - 1, f[i - 1]>>] = f[i - 1] \o ss[(i - 1) + 1]
    BY <2>1, <2>2, <1>3, <1>a
  <2> QED
    BY <2>1, <2>2, <2>3
<1>7. f \in [Nat -> Seq(S)] /\ f[0] = <<>>
  BY <1>5, Zenon DEF V, empty, Iterates
<1> QED
  BY <1>6, <1>7, Zenon DEF Concatenates

(* A concatenation of sequences over S is one.                             *)
LEMMA FlattenType ==
  ASSUME NEW S, NEW ss \in Seq(Seq(S)) PROVE FlattenSeq(ss) \in Seq(S)
<1>1. PICK f : Concatenates(f, ss, S)
  BY PrefixesExist
<1>2. FlattenSeq(ss) = f[Len(ss)] /\ Len(ss) \in Nat
  BY <1>1, FlattenByPrefixes, LenProperties
<1> QED
  BY <1>1, <1>2 DEF Concatenates

(* Of nothing it is nothing.                                               *)
LEMMA FlattenEmpty == FlattenSeq(<<>>) = <<>>
  BY DEF FlattenSeq

(* The last sequence is the end of it ...                                  *)
LEMMA FlattenAppend ==
  ASSUME NEW S, NEW ss \in Seq(Seq(S)), NEW s \in Seq(S)
  PROVE  FlattenSeq(Append(ss, s)) = FlattenSeq(ss) \o s
<1> DEFINE long == Append(ss, s)
<1>1. /\ long \in Seq(Seq(S))
      /\ Len(long) = Len(ss) + 1
      /\ Len(ss) \in Nat
      /\ \A i \in 1 .. Len(ss) : long[i] = ss[i]
      /\ long[Len(ss) + 1] = s
  BY AppendProperties, LenProperties
<1> HIDE DEF long
<1>2. PICK f : Concatenates(f, long, S)
  BY <1>1, PrefixesExist
<1>3. FlattenSeq(long) = f[Len(ss) + 1]
  BY <1>1, <1>2, FlattenByPrefixes
<1>4. Concatenates(f, ss, S)
  <2>1. ASSUME NEW i \in 1 .. Len(ss) PROVE f[i] = f[i - 1] \o ss[i]
    <3>1. i \in 1 .. Len(long) /\ long[i] = ss[i]
      BY <1>1
    <3>2. f[i] = f[i - 1] \o long[i]
      BY <1>2, <3>1, Zenon DEF Concatenates
    <3> QED
      BY <3>1, <3>2, Zenon
  <2> QED
    BY <1>2, <2>1, Zenon DEF Concatenates
<1>5. FlattenSeq(ss) = f[Len(ss)]
  BY <1>4, FlattenByPrefixes
<1>6. f[Len(ss) + 1] = f[Len(ss)] \o s
  <2>1. Len(ss) + 1 \in 1 .. Len(long) /\ (Len(ss) + 1) - 1 = Len(ss)
    BY <1>1
  <2>2. f[Len(ss) + 1] = f[(Len(ss) + 1) - 1] \o long[Len(ss) + 1]
    BY <2>1, <1>2, Zenon DEF Concatenates
  <2> QED
    BY <2>1, <2>2, <1>1
<1>7. FlattenSeq(long) = FlattenSeq(ss) \o s
  BY <1>3, <1>5, <1>6
<1> QED
  BY <1>7, Zenon DEF long

(* ... and the first its beginning.                                        *)
LEMMA FlattenCons ==
  ASSUME NEW S, NEW s \in Seq(S), NEW ss \in Seq(Seq(S))
  PROVE  FlattenSeq(<<s>> \o ss) = s \o FlattenSeq(ss)
<1> DEFINE long == <<s>> \o ss
<1>1. /\ long \in Seq(Seq(S))
      /\ Len(long) = Len(ss) + 1
      /\ Len(ss) \in Nat
      /\ long[1] = s
      /\ \A i \in 2 .. Len(long) : long[i] = ss[i - 1]
  <2> DEFINE one == <<s>>
  <2>1. one \in Seq(Seq(S)) /\ Len(one) = 1 /\ one[1] = s /\ Len(ss) \in Nat
    BY LenProperties
  <2> HIDE DEF one
  <2>2. /\ one \o ss \in Seq(Seq(S))
        /\ Len(one \o ss) = Len(one) + Len(ss)
        /\ \A i \in 1 .. Len(one) + Len(ss) : (one \o ss)[i] =
              IF i <= Len(one) THEN one[i] ELSE ss[i - Len(one)]
    BY <2>1, ConcatProperties
  <2> DEFINE both == one \o ss
  <2> HIDE DEF both
  <2>3. /\ both \in Seq(Seq(S)) /\ Len(both) = 1 + Len(ss)
        /\ \A i \in 1 .. 1 + Len(ss) : both[i] = IF i <= 1 THEN one[i] ELSE ss[i - 1]
    BY <2>1, <2>2, Zenon DEF both
  <2>4. both = long
    BY Zenon DEF both, one
  <2> HIDE DEF long
  <2> QED
    BY <2>1, <2>3, <2>4
<1> HIDE DEF long
<1>2. PICK f : Concatenates(f, ss, S)
  BY PrefixesExist
<1> DEFINE after(n) == s \o f[n - 1]
           g == [n \in Nat |-> IF n = 0 THEN <<>> ELSE after(n)]
<1>3. g \in [Nat -> Seq(S)]
  <2>1. \A n \in Nat \ {0} : n - 1 \in Nat
    OBVIOUS
  <2>2. \A n \in Nat \ {0} : after(n) \in Seq(S)
    BY <1>2, <2>1, ConcatProperties DEF Concatenates
  <2> HIDE DEF after
  <2> QED
    BY <2>2, EmptySeq
<1>4. ASSUME NEW i \in 1 .. Len(long)
      PROVE  g[i] = g[i - 1] \o long[i]
  <2>1. CASE i = 1
    <3>1. g[i] = s \o f[0] /\ g[i - 1] = <<>> /\ long[i] = s
      BY <2>1, <1>1
    <3>2. f[0] = <<>>
      BY <1>2 DEF Concatenates
    <3> HIDE DEF g, after
    <3>3. s \o <<>> = s /\ <<>> \o s = s
      BY ConcatEmptySeq
    <3> QED
      BY <3>1, <3>2, <3>3
  <2>2. CASE i # 1
    <3>1. i - 1 \in 1 .. Len(ss) /\ i \in 2 .. Len(long) /\ i - 1 # 0 /\ i # 0 /\ i \in Nat
      BY <2>2, <1>1
    <3>2. g[i] = s \o f[i - 1] /\ g[i - 1] = s \o f[(i - 1) - 1]
      BY <3>1
    <3>3. f[i - 1] = f[(i - 1) - 1] \o ss[i - 1] /\ long[i] = ss[i - 1]
      BY <3>1, <1>1, <1>2, Zenon DEF Concatenates
    <3>4. ss[i - 1] \in Seq(S) /\ f[(i - 1) - 1] \in Seq(S)
      <4>1. ss[i - 1] \in Seq(S)
        BY <3>1, ElementOfSeq
      <4>2. (i - 1) - 1 \in Nat
        BY <3>1
      <4> QED
        BY <4>1, <4>2, <1>2 DEF Concatenates
    <3> HIDE DEF g, after
    <3>5. (s \o f[(i - 1) - 1]) \o ss[i - 1] = s \o (f[(i - 1) - 1] \o ss[i - 1])
      <4> DEFINE u == f[(i - 1) - 1]
                 v == ss[i - 1]
      <4>1. u \in Seq(S) /\ v \in Seq(S)
        BY <3>4
      <4> HIDE DEF u, v
      <4>2. (s \o u) \o v = s \o (u \o v)
        BY <4>1, ConcatAssociative
      <4> QED
        BY <4>2, Zenon DEF u, v
    <3> QED
      BY <3>2, <3>3, <3>5, Zenon
  <2> QED
    BY <2>1, <2>2
<1>5. Concatenates(g, long, S)
  <2>1. g[0] = <<>>
    OBVIOUS
  <2> HIDE DEF g
  <2> QED
    BY <1>3, <1>4, <2>1, Zenon DEF Concatenates
<1>6. g[Len(ss) + 1] = s \o f[Len(ss)]
  <2>1. Len(ss) + 1 \in Nat \ {0} /\ (Len(ss) + 1) - 1 = Len(ss)
    BY <1>1
  <2>2. g[Len(ss) + 1] = s \o f[(Len(ss) + 1) - 1]
    BY <2>1
  <2> HIDE DEF g
  <2> QED
    BY <2>1, <2>2
<1> HIDE DEF g
<1>7. FlattenSeq(long) = g[Len(ss) + 1] /\ FlattenSeq(ss) = f[Len(ss)]
  BY <1>1, <1>2, <1>5, FlattenByPrefixes
<1>8. FlattenSeq(long) = s \o FlattenSeq(ss)
  BY <1>6, <1>7
<1> QED
  BY <1>8, Zenon DEF long
=============================================================================
