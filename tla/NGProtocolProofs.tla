-------------------------- MODULE NGProtocolProofs --------------------------
(***************************************************************************)
(* Facts about the operators of NGProtocol and NGSocket for all their      *)
(* arguments: numbers, digits, headers, and the streams of bytes that      *)
(* sequences of chunks make.                                               *)
(***************************************************************************)
EXTENDS NGSocket, Induction

-----------------------------------------------------------------------------
(* Numbers in decimal.                                                     *)

Digits == Seq(48 .. 57)

(* What Value has made of the first digits.                                *)
Accumulates(f, digits) ==
  /\ f \in [Nat -> Nat]
  /\ f[0] = 0
  /\ \A i \in 1 .. Len(digits) : f[i] = (10 * f[i - 1]) + (digits[i] - 48)

(* Value is the last value of the function that accumulates.               *)
LEMMA ValueByPrefixes ==
  ASSUME NEW digits \in Digits, NEW f, Accumulates(f, digits)
  PROVE  Value(digits) = f[Len(digits)]
<1> DEFINE Unfolds(g) ==
      g = [i \in 0 .. Len(digits) |->
             IF i = 0 THEN 0 ELSE (10 * g[i - 1]) + (digits[i] - 48)]
<1>0. Len(digits) \in Nat
  BY DEF Digits
<1>1. Unfolds([i \in 0 .. Len(digits) |-> f[i]])
  <2> DEFINE h == [i \in 0 .. Len(digits) |-> f[i]]
  <2>1. ASSUME NEW i \in 0 .. Len(digits)
        PROVE  h[i] = IF i = 0 THEN 0 ELSE (10 * h[i - 1]) + (digits[i] - 48)
    <3>1. CASE i = 0
      BY <3>1, <1>0 DEF Accumulates
    <3>2. CASE i # 0
      <4>1. i \in 1 .. Len(digits) /\ i - 1 \in 0 .. Len(digits)
        BY <3>2, <1>0
      <4>2. f[i] = (10 * f[i - 1]) + (digits[i] - 48)
        BY <4>1, Zenon DEF Accumulates
      <4>3. h[i] = f[i] /\ h[i - 1] = f[i - 1]
        BY <4>1
      <4> HIDE DEF h
      <4> QED
        BY <3>2, <4>2, <4>3
    <3> QED
      BY <3>1, <3>2
  <2>2. h = [i \in 0 .. Len(digits) |-> h[i]]
    OBVIOUS
  <2> HIDE DEF h
  <2>3. Unfolds(h)
    BY <2>1, <2>2
  <2> QED
    BY <2>3 DEF h
<1>2. PICK g : Unfolds(g) /\ Value(digits) = g[Len(digits)]
  <2>1. Unfolds(CHOOSE g : Unfolds(g))
    BY <1>1, Zenon
  <2>2. Value(digits) = (CHOOSE g : Unfolds(g))[Len(digits)]
    BY Zenon DEF Value
  <2> QED
    BY <2>1, <2>2, Zenon
<1>3. ASSUME NEW i \in 0 .. Len(digits)
      PROVE  g[i] = IF i = 0 THEN 0 ELSE (10 * g[i - 1]) + (digits[i] - 48)
  BY <1>2
<1> HIDE DEF Unfolds
<1> DEFINE Same == {n \in Nat : n <= Len(digits) => g[n] = f[n]}
<1>4. 0 \in Same
  BY <1>0, <1>3 DEF Accumulates
<1>5. ASSUME NEW n \in Nat, n \in Same PROVE n + 1 \in Same
  <2> SUFFICES ASSUME n + 1 <= Len(digits) PROVE g[n + 1] = f[n + 1]
    OBVIOUS
  <2>1. /\ n + 1 \in 1 .. Len(digits) /\ n + 1 \in 0 .. Len(digits)
        /\ (n + 1) - 1 = n /\ n + 1 # 0
    BY <1>0
  <2>2. g[n + 1] = (10 * g[(n + 1) - 1]) + (digits[n + 1] - 48)
    BY <2>1, <1>3
  <2>3. f[n + 1] = (10 * f[(n + 1) - 1]) + (digits[n + 1] - 48)
    BY <2>1, Zenon DEF Accumulates
  <2>4. g[n] = f[n]
    BY <1>5, <1>0
  <2> QED
    BY <2>1, <2>2, <2>3, <2>4
<1>6. Len(digits) \in Same
  <2> HIDE DEF Same
  <2> QED
    BY <1>0, <1>4, <1>5, NatSetInduction
<1> QED
  BY <1>0, <1>2, <1>6

(* There is such a function.                                               *)
LEMMA AccumulatesExists ==
  ASSUME NEW digits \in Digits
  PROVE  \E f : Accumulates(f, digits)
<1> DEFINE next(n, v) ==
             IF n < Len(digits) THEN (10 * v) + (digits[n + 1] - 48) ELSE v
           step == [p \in Nat \X Nat |-> next(p[1], p[2])]
<1>0. Len(digits) \in Nat /\ \A i \in 1 .. Len(digits) : digits[i] \in 48 .. 57
  BY ElementOfSeq DEF Digits
<1>1. ASSUME NEW n \in Nat, NEW v \in Nat PROVE next(n, v) \in Nat
  <2>1. n < Len(digits) => n + 1 \in 1 .. Len(digits)
    BY <1>0
  <2> QED
    BY <2>1, <1>0
<1>2. \A n \in Nat, v \in Nat :
        n < Len(digits) => next(n, v) = (10 * v) + (digits[n + 1] - 48)
  OBVIOUS
<1> HIDE DEF next
<1>3. step \in [Nat \X Nat -> Nat]
  BY <1>1
<1>4. \A n \in Nat, v \in Nat : step[<<n, v>>] = next(n, v)
  OBVIOUS
<1> HIDE DEF step
<1>5. 0 \in Nat
  OBVIOUS
<1>6. PICK f : Iterates(f, Nat, 0, step)
  BY <1>3, <1>5, RecursionTheorem, Zenon
<1>7. ASSUME NEW i \in 1 .. Len(digits)
      PROVE  f[i] = (10 * f[i - 1]) + (digits[i] - 48)
  <2>1. i - 1 \in Nat /\ (i - 1) + 1 = i /\ i - 1 < Len(digits)
    BY <1>0
  <2>2. f[(i - 1) + 1] = step[<<i - 1, f[i - 1]>>] /\ f[i - 1] \in Nat
    BY <2>1, <1>6 DEF Iterates
  <2>3. step[<<i - 1, f[i - 1]>>] = (10 * f[i - 1]) + (digits[(i - 1) + 1] - 48)
    BY <2>1, <2>2, <1>2, <1>4
  <2> QED
    BY <2>1, <2>2, <2>3
<1> QED
  BY <1>6, <1>7, Zenon DEF Accumulates, Iterates

(* What it computes is a number, ...                                       *)
LEMMA ValueType ==
  ASSUME NEW digits \in Digits PROVE Value(digits) \in Nat
<1>1. PICK f : Accumulates(f, digits)
  BY AccumulatesExists
<1>2. Value(digits) = f[Len(digits)] /\ Len(digits) \in Nat
  BY <1>1, ValueByPrefixes DEF Digits
<1> QED
  BY <1>1, <1>2 DEF Accumulates

(* ... 0 without digits, ...                                               *)
LEMMA ValueEmpty == <<>> \in Digits /\ Value(<<>>) = 0
<1>1. <<>> \in Digits /\ Len(<<>>) = 0
  BY EmptySeq DEF Digits
<1> DEFINE empty == <<>>
<1>2. empty \in Digits /\ Len(empty) = 0
  BY <1>1
<1> HIDE DEF empty
<1>3. PICK f : Accumulates(f, empty)
  BY <1>2, AccumulatesExists
<1>4. Value(empty) = f[0]
  BY <1>2, <1>3, ValueByPrefixes
<1>5. Value(empty) = 0
  BY <1>3, <1>4 DEF Accumulates
<1> QED
  BY <1>1, <1>5, Zenon DEF empty

(* ... and ten times as much and the digit when one is added.              *)
LEMMA ValueAppend ==
  ASSUME NEW digits \in Digits, NEW d \in 48 .. 57
  PROVE  /\ Append(digits, d) \in Digits
         /\ Value(Append(digits, d)) = (10 * Value(digits)) + (d - 48)
<1> DEFINE long == Append(digits, d)
<1>1. /\ long \in Digits
      /\ Len(long) = Len(digits) + 1
      /\ Len(digits) \in Nat
      /\ \A i \in 1 .. Len(digits) : long[i] = digits[i]
      /\ long[Len(digits) + 1] = d
  BY AppendProperties, LenProperties DEF Digits
<1> HIDE DEF long
<1>2. PICK f : Accumulates(f, long)
  BY <1>1, AccumulatesExists
<1>3. Value(long) = f[Len(digits) + 1]
  BY <1>1, <1>2, ValueByPrefixes
<1>4. Accumulates(f, digits)
  <2>1. ASSUME NEW i \in 1 .. Len(digits)
        PROVE  f[i] = (10 * f[i - 1]) + (digits[i] - 48)
    <3>1. i \in 1 .. Len(long) /\ long[i] = digits[i]
      BY <1>1
    <3>2. f[i] = (10 * f[i - 1]) + (long[i] - 48)
      BY <1>2, <3>1, Zenon DEF Accumulates
    <3> QED
      BY <3>1, <3>2, Zenon
  <2> QED
    BY <1>2, <2>1, Zenon DEF Accumulates
<1>5. Value(digits) = f[Len(digits)]
  BY <1>4, ValueByPrefixes
<1>6. f[Len(digits) + 1] = (10 * f[Len(digits)]) + (d - 48)
  <2>1. Len(digits) + 1 \in 1 .. Len(long) /\ (Len(digits) + 1) - 1 = Len(digits)
    BY <1>1
  <2>2. f[Len(digits) + 1]
          = (10 * f[(Len(digits) + 1) - 1]) + (long[Len(digits) + 1] - 48)
    BY <2>1, <1>2, Zenon DEF Accumulates
  <2> QED
    BY <2>1, <2>2, <1>1
<1>7. long \in Digits /\ Value(long) = (10 * Value(digits)) + (d - 48)
  BY <1>1, <1>3, <1>5, <1>6
<1> QED
  BY <1>7, Zenon DEF long

(* The least of a set of numbers.                                          *)
LEMMA MinOfNats ==
  ASSUME NEW S, S \subseteq Nat, S # {}
  PROVE  Min(S) \in S /\ \A m \in S : Min(S) <= m
<1>1. \E n \in S : \A m \in S : n <= m
  BY LeastNatural
<1> QED
  BY <1>1, Zenon DEF Min

(* atoi reads the digits at the front.                                     *)
LEMMA AtoiType ==
  ASSUME NEW text \in Bytes PROVE atoi(text) \in Nat
<1> DEFINE stop == {i \in DOMAIN text : text[i] \notin 48 .. 57}
           front == IF stop = {} THEN text ELSE SubSeq(text, 1, Min(stop) - 1)
<1>1. Len(text) \in Nat /\ DOMAIN text = 1 .. Len(text)
  BY DEF Bytes
<1>2. CASE stop = {}
  <2>1. \A i \in 1 .. Len(text) : text[i] \in 48 .. 57
    BY <1>1, <1>2
  <2>2. text \in [1 .. Len(text) -> 48 .. 57]
    BY <2>1, LenProperties DEF Bytes
  <2>3. text \in Digits
    BY <1>1, <2>2 DEF Digits
  <2>4. front = text
    BY <1>2, Zenon
  <2> QED
    BY <2>3, <2>4, ValueType, Zenon DEF atoi
<1>3. CASE stop # {}
  <2>1. stop \subseteq Nat
    BY <1>1
  <2>2. Min(stop) \in stop /\ \A i \in stop : Min(stop) <= i
    BY <1>3, <2>1, MinOfNats
  <2>3. Min(stop) - 1 \in Int /\ Min(stop) \in 1 .. Len(text)
    BY <1>1, <2>2
  <2>4. ASSUME NEW i \in 1 .. Min(stop) - 1 PROVE text[i] \in 48 .. 57
    <3>1. i \in 1 .. Len(text) /\ ~ (Min(stop) <= i)
      BY <1>1, <2>3
    <3>2. i \notin stop
      BY <2>2, <3>1, Zenon
    <3> QED
      BY <1>1, <3>1, <3>2
  <2> DEFINE n == Min(stop) - 1
  <2>5. n \in Int /\ \A i \in 1 .. n : text[i] \in 48 .. 57
    BY <2>3, <2>4
  <2> HIDE DEF n, stop
  <2>6. SubSeq(text, 1, n) \in Seq(48 .. 57)
    BY <2>5, SubSeqProperties
  <2>7. SubSeq(text, 1, n) \in Digits
    BY <2>6 DEF Digits
  <2>8. front = SubSeq(text, 1, n)
    BY <1>3, Zenon DEF n
  <2> QED
    BY <2>7, <2>8, ValueType, Zenon DEF atoi, stop
<1> QED
  BY <1>2, <1>3

(* A text of digits is read to its end.                                    *)
LEMMA AtoiOfDigits ==
  ASSUME NEW text \in Digits PROVE atoi(text) = Value(text)
<1> DEFINE stop == {i \in DOMAIN text : text[i] \notin 48 .. 57}
<1>1. stop = {}
  BY ElementOfSeq DEF Digits
<1> QED
  BY <1>1, Zenon DEF atoi

-----------------------------------------------------------------------------
(* The digits of the numbers below n are known after n rounds.             *)
DigitsFrom(f, n) == IF n < 10 THEN <<48 + n>> ELSE Append(f[n \div 10], 48 + (n % 10))

(* A number of more than one digit loses its last one and gets smaller.    *)
LEMMA Div10 ==
  ASSUME NEW n \in Nat
  PROVE  /\ n \div 10 \in Nat /\ n % 10 \in 0 .. 9
         /\ n = (10 * (n \div 10)) + (n % 10)
         /\ n >= 10 => n \div 10 < n /\ n \div 10 # 0
  BY SMT

(* One round of Decimal.                                                   *)
LEMMA DigitsFromType ==
  ASSUME NEW f \in [Nat -> Digits], NEW n \in Nat
  PROVE  DigitsFrom(f, n) \in Digits
<1>1. CASE n < 10
  <2>1. 48 + n \in 48 .. 57
    BY <1>1
  <2>2. <<48 + n>> \in Seq(48 .. 57)
    BY <2>1
  <2> QED
    BY <1>1, <2>2 DEF DigitsFrom, Digits
<1>2. CASE ~ (n < 10)
  <2>1. n \div 10 \in Nat /\ 48 + (n % 10) \in 48 .. 57
    BY Div10
  <2>2. f[n \div 10] \in Digits
    BY <2>1
  <2>3. Append(f[n \div 10], 48 + (n % 10)) \in Digits
    BY <2>1, <2>2, ValueAppend
  <2> QED
    BY <1>2, <2>3 DEF DigitsFrom
<1> QED
  BY <1>1, <1>2

(* print(int) writes the digits of a number.                               *)
LEMMA DecimalExists == \E f \in [Nat -> Digits] : \A n \in Nat : f[n] = DigitsFrom(f, n)
<1> DEFINE V == [Nat -> Digits]
           next(f) == [n \in Nat |-> DigitsFrom(f, n)]
           step == [p \in Nat \X V |-> next(p[2])]
           nothing == [n \in Nat |-> <<>>]
<1>1. nothing \in V
  BY ValueEmpty
<1>2. \A f \in V : next(f) \in V
  BY DigitsFromType
<1>3. \A f \in V : \A n \in Nat : next(f)[n] = DigitsFrom(f, n)
  OBVIOUS
<1> HIDE DEF V, next
<1>4. step \in [Nat \X V -> V]
  BY <1>2
<1>5. \A k \in Nat, f \in V : step[<<k, f>>] = next(f)
  OBVIOUS
<1> HIDE DEF step, nothing
<1>6. PICK h : Iterates(h, V, nothing, step)
  BY <1>1, <1>4, RecursionTheorem, Zenon
<1>7. \A k \in Nat : h[k] \in V /\ h[k + 1] = next(h[k])
  BY <1>5, <1>6 DEF Iterates
<1>8. \A k, n \in Nat : h[k + 1][n] = DigitsFrom(h[k], n)
  BY <1>3, <1>7
<1> DEFINE Stable == {k \in Nat : \A n \in Nat : n < k => h[k + 1][n] = h[k][n]}
<1>9. 0 \in Stable
  OBVIOUS
<1>10. ASSUME NEW k \in Nat, k \in Stable PROVE k + 1 \in Stable
  <2> SUFFICES ASSUME NEW n \in Nat, n < k + 1
               PROVE  h[(k + 1) + 1][n] = h[k + 1][n]
    OBVIOUS
  <2>1. h[(k + 1) + 1][n] = DigitsFrom(h[k + 1], n) /\ h[k + 1][n] = DigitsFrom(h[k], n)
    BY <1>8
  <2>2. n >= 10 => n \div 10 \in Nat /\ n \div 10 < k
    BY Div10
  <2>3. n >= 10 => h[k + 1][n \div 10] = h[k][n \div 10]
    BY <1>10, <2>2
  <2>4. DigitsFrom(h[k + 1], n) = DigitsFrom(h[k], n)
    BY <2>3 DEF DigitsFrom
  <2> QED
    BY <2>1, <2>4
<1>11. \A k \in Nat : k \in Stable
  <2> HIDE DEF Stable
  <2> QED
    BY <1>9, <1>10, NatSetInduction
<1>12. ASSUME NEW n \in Nat
       PROVE  \A k \in Nat : h[(n + 1) + k][n] = h[n + 1][n]
  <2> DEFINE Same == {k \in Nat : h[(n + 1) + k][n] = h[n + 1][n]}
  <2>1. 0 \in Same
    BY (n + 1) + 0 = n + 1
  <2>2. ASSUME NEW k \in Nat, k \in Same PROVE k + 1 \in Same
    <3>1. (n + 1) + k \in Nat /\ n < (n + 1) + k /\ ((n + 1) + k) + 1 = (n + 1) + (k + 1)
      OBVIOUS
    <3>2. h[((n + 1) + k) + 1][n] = h[(n + 1) + k][n]
      BY <3>1, <1>11
    <3> QED
      BY <2>2, <3>1, <3>2
  <2>3. \A k \in Nat : k \in Same
    <3> HIDE DEF Same
    <3> QED
      BY <2>1, <2>2, NatSetInduction
  <2> QED
    BY <2>3
<1> DEFINE f == [n \in Nat |-> h[n + 1][n]]
<1>13. f \in [Nat -> Digits]
  BY <1>7 DEF V
<1>14. ASSUME NEW n \in Nat PROVE f[n] = DigitsFrom(f, n)
  <2>1. f[n] = DigitsFrom(h[n], n)
    BY <1>8
  <2>2. ASSUME n >= 10 PROVE h[n][n \div 10] = f[n \div 10]
    <3> DEFINE m == n \div 10
    <3>1. m \in Nat /\ m < n
      BY <2>2, Div10
    <3> HIDE DEF m
    <3> DEFINE k == n - (m + 1)
    <3>2. k \in Nat /\ (m + 1) + k = n
      BY <3>1
    <3>3. h[(m + 1) + k][m] = h[m + 1][m]
      BY <3>1, <3>2, <1>12
    <3>4. f[m] = h[m + 1][m]
      BY <3>1
    <3> HIDE DEF f, k
    <3>5. h[n][m] = f[m]
      BY <3>2, <3>3, <3>4
    <3> QED
      BY <3>5 DEF m
  <2> HIDE DEF f
  <2>3. DigitsFrom(h[n], n) = DigitsFrom(f, n)
    BY <2>2 DEF DigitsFrom
  <2> QED
    BY <2>1, <2>3
<1> QED
  BY <1>13, <1>14

(* Decimal is the function its recursive definition describes.             *)
LEMMA DecimalDigits ==
  /\ Decimal \in [Nat -> Digits]
  /\ \A n \in Nat : Decimal[n] = DigitsFrom(Decimal, n)
<1> DEFINE Unfolds(f) ==
      f = [n \in Nat |-> IF n < 10 THEN <<48 + n>> ELSE Append(f[n \div 10], 48 + (n % 10))]
<1>1. PICK f \in [Nat -> Digits] : \A n \in Nat : f[n] = DigitsFrom(f, n)
  BY DecimalExists
<1>2. f = [n \in Nat |-> f[n]]
  OBVIOUS
<1>3. Unfolds(f)
  BY <1>1, <1>2 DEF DigitsFrom
<1>4. Unfolds(CHOOSE g : Unfolds(g))
  BY <1>3, Zenon
<1>5. Unfolds(Decimal)
  BY <1>4, Zenon DEF Decimal
<1>6. Decimal = [n \in Nat |-> DigitsFrom(Decimal, n)]
  BY <1>5, Zenon DEF DigitsFrom
<1>7. \A n \in Nat : Decimal[n] = DigitsFrom(Decimal, n)
  BY <1>6, Zenon
<1> DEFINE Typed == {n \in Nat : \A m \in 0 .. n : Decimal[m] \in Digits}
<1>8. ASSUME NEW m \in Nat, m >= 10 => Decimal[m \div 10] \in Digits
      PROVE  Decimal[m] \in Digits
  <2>1. CASE m < 10
    <3>1. 48 + m \in 48 .. 57
      BY <2>1
    <3>2. <<48 + m>> \in Seq(48 .. 57)
      BY <3>1
    <3>3. Decimal[m] = <<48 + m>>
      BY <1>7, <2>1 DEF DigitsFrom
    <3> QED
      BY <3>2, <3>3 DEF Digits
  <2>2. CASE ~ (m < 10)
    <3>1. Decimal[m \div 10] \in Digits /\ 48 + (m % 10) \in 48 .. 57
      BY <1>8, <2>2, Div10
    <3>2. Decimal[m] = Append(Decimal[m \div 10], 48 + (m % 10))
      BY <1>7, <2>2 DEF DigitsFrom
    <3> QED
      BY <3>1, <3>2, ValueAppend
  <2> QED
    BY <2>1, <2>2
<1>9. 0 \in Typed
  BY <1>8
<1>10. ASSUME NEW n \in Nat, n \in Typed PROVE n + 1 \in Typed
  <2> SUFFICES ASSUME NEW m \in 0 .. n + 1 PROVE Decimal[m] \in Digits
    OBVIOUS
  <2>1. m >= 10 => m \div 10 \in 0 .. n
    BY Div10
  <2> QED
    BY <1>8, <1>10, <2>1
<1>11. \A n \in Nat : n \in Typed
  <2> HIDE DEF Typed
  <2> QED
    BY <1>9, <1>10, NatSetInduction
<1>12. \A n \in Nat : Decimal[n] \in Digits
  BY <1>11
<1> QED
  BY <1>6, <1>7, <1>12

(* A status is read as it was printed.                                     *)
THEOREM StatusRoundTrip == \A n \in Nat : atoi(Decimal[n]) = n
<1> DEFINE Read == {n \in Nat : \A m \in 0 .. n : Value(Decimal[m]) = m}
<1>1. ASSUME NEW m \in Nat, m >= 10 => Value(Decimal[m \div 10]) = m \div 10
      PROVE  Value(Decimal[m]) = m
  <2>1. CASE m < 10
    <3>1. 48 + m \in 48 .. 57
      BY <2>1
    <3>2. Append(<<>>, 48 + m) = <<48 + m>>
      OBVIOUS
    <3>3. Decimal[m] = <<48 + m>>
      BY <2>1, DecimalDigits DEF DigitsFrom
    <3>4. Value(Append(<<>>, 48 + m)) = (10 * Value(<<>>)) + ((48 + m) - 48)
      BY <3>1, ValueEmpty, ValueAppend
    <3>5. Value(<<48 + m>>) = m
      BY <3>2, <3>4, ValueEmpty
    <3> QED
      BY <3>3, <3>5
  <2>2. CASE ~ (m < 10)
    <3> DEFINE k == m \div 10
               d == 48 + (m % 10)
    <3>1. k \in Nat /\ d \in 48 .. 57 /\ m = (10 * k) + (d - 48)
      BY Div10
    <3>a. Decimal[m] = DigitsFrom(Decimal, m) /\ Decimal[k] \in Digits
      BY <3>1, DecimalDigits
    <3>b. DigitsFrom(Decimal, m) = Append(Decimal[k], d)
      BY <2>2, Zenon DEF DigitsFrom
    <3>2. Decimal[m] = Append(Decimal[k], d) /\ Decimal[k] \in Digits /\ Value(Decimal[k]) = k
      BY <1>1, <2>2, <3>a, <3>b
    <3> HIDE DEF k, d
    <3>3. Value(Append(Decimal[k], d)) = (10 * Value(Decimal[k])) + (d - 48)
      BY <3>1, <3>2, ValueAppend
    <3> QED
      BY <3>1, <3>2, <3>3
  <2> QED
    BY <2>1, <2>2
<1>2. 0 \in Read
  BY <1>1
<1>3. ASSUME NEW n \in Nat, n \in Read PROVE n + 1 \in Read
  <2> SUFFICES ASSUME NEW m \in 0 .. n + 1 PROVE Value(Decimal[m]) = m
    OBVIOUS
  <2>1. m >= 10 => m \div 10 \in 0 .. n
    BY Div10
  <2> QED
    BY <1>1, <1>3, <2>1
<1>4. \A n \in Nat : n \in Read
  <2> HIDE DEF Read
  <2> QED
    BY <1>2, <1>3, NatSetInduction
<1>5. \A n \in Nat : Value(Decimal[n]) = n
  BY <1>4
<1> QED
  BY <1>5, DecimalDigits, AtoiOfDigits

(* A status of up to 999 is at most three digits long: it fits BUFSIZE.    *)
LEMMA DecimalLength == \A n \in 0 .. 999 : Len(Decimal[n]) \in 1 .. 3
<1> SUFFICES ASSUME NEW n \in 0 .. 999 PROVE Len(Decimal[n]) \in 1 .. 3
  OBVIOUS
<1> DEFINE length(m) == Len(Decimal[m])
<1>1. ASSUME NEW m \in Nat, m < 10 PROVE length(m) = 1
  BY <1>1, DecimalDigits DEF DigitsFrom
<1>2. ASSUME NEW m \in Nat, m >= 10
      PROVE  length(m) = length(m \div 10) + 1
  <2> DEFINE k == m \div 10
             d == 48 + (m % 10)
  <2>1. k \in Nat /\ d \in 48 .. 57
    BY Div10
  <2>a. Decimal[m] = DigitsFrom(Decimal, m)
    BY DecimalDigits
  <2>b. DigitsFrom(Decimal, m) = Append(Decimal[k], d)
    <3>1. ~ (m < 10)
      BY <1>2
    <3> QED
      BY <3>1, Zenon DEF DigitsFrom
  <2>2. Decimal[m] = Append(Decimal[k], d)
    BY <2>a, <2>b
  <2>3. Decimal[k] \in Seq(48 .. 57)
    BY <2>1, DecimalDigits DEF Digits
  <2> HIDE DEF k, d
  <2>4. Len(Decimal[m]) = Len(Decimal[k]) + 1 /\ Len(Decimal[k]) \in Nat
    BY <2>1, <2>2, <2>3, AppendProperties, LenProperties
  <2> QED
    BY <2>4 DEF k
<1> HIDE DEF length
<1> SUFFICES length(n) \in 1 .. 3
  BY DEF length
<1>3. CASE n < 10
  BY <1>1, <1>3
<1>4. CASE n >= 10
  <2> DEFINE k == n \div 10
  <2>1. k \in Nat /\ k <= 99
    BY Div10
  <2>2. length(n) = length(k) + 1
    BY <1>2, <1>4
  <2> HIDE DEF k
  <2>3. CASE k < 10
    BY <1>1, <2>1, <2>2, <2>3
  <2>4. CASE k >= 10
    <3> DEFINE j == k \div 10
    <3>1. j \in Nat /\ j <= 9
      BY <2>1, Div10
    <3>2. length(k) = length(j) + 1
      BY <1>2, <2>1, <2>4
    <3> HIDE DEF j
    <3> QED
      BY <1>1, <2>2, <3>1, <3>2
  <2> QED
    BY <2>1, <2>3, <2>4
<1> QED
  BY <1>3, <1>4

(* Digits are bytes.                                                       *)
LEMMA DecimalBytes ==
  ASSUME NEW n \in Nat PROVE Decimal[n] \in Bytes
<1>1. Decimal[n] \in Seq(48 .. 57)
  BY DecimalDigits DEF Digits
<1>2. 48 .. 57 \subseteq Byte
  BY DEF Byte
<1> QED
  BY <1>1, <1>2 DEF Bytes

(* MaxInt is never expanded: the provers need only this of it.             *)
LEMMA MaxIntIsLarge == MaxInt \in Nat /\ 999 <= MaxInt
  BY SMT DEF MaxInt

(* Fits and the lengths of reads are the smaller of two numbers.           *)
LEMMA MinOfTwo ==
  ASSUME NEW a \in Nat, NEW b \in Nat
  PROVE  Min({a, b}) = IF a <= b THEN a ELSE b
<1>1. {a, b} \subseteq Nat /\ {a, b} # {}
  OBVIOUS
<1> DEFINE m == Min({a, b})
<1>2. m \in {a, b} /\ \A x \in {a, b} : m <= x
  BY <1>1, MinOfNats
<1> HIDE DEF m
<1>3. m = IF a <= b THEN a ELSE b
  BY <1>2
<1> QED
  BY <1>3 DEF m

-----------------------------------------------------------------------------
(* Streams of bytes.                                                       *)

(* What is read and what stays are the stream.                             *)
LEMMA TakeSkip ==
  ASSUME NEW s \in Bytes, NEW n \in 0 .. Len(s)
  PROVE  /\ Take(n, s) \in Bytes /\ Len(Take(n, s)) = n
         /\ Skip(n, s) \in Bytes /\ Len(Skip(n, s)) = Len(s) - n
         /\ Take(n, s) \o Skip(n, s) = s
         /\ \A i \in 1 .. n : Take(n, s)[i] = s[i]
<1>0. Len(s) \in Nat /\ \A i \in 1 .. Len(s) : s[i] \in Byte
  BY ElementOfSeq DEF Bytes
<1>1. /\ SubSeq(s, 1, n) \in Seq(Byte)
      /\ Len(SubSeq(s, 1, n)) = IF 1 <= n THEN n - 1 + 1 ELSE 0
      /\ \A i \in 1 .. n - 1 + 1 : SubSeq(s, 1, n)[i] = s[1 + i - 1]
  <2>1. 1 \in Int /\ n \in Int /\ \A i \in 1 .. n : s[i] \in Byte
    BY <1>0
  <2> QED
    BY <2>1, SubSeqProperties
<1>2. /\ SubSeq(s, n + 1, Len(s)) \in Seq(Byte)
      /\ Len(SubSeq(s, n + 1, Len(s)))
           = IF n + 1 <= Len(s) THEN Len(s) - (n + 1) + 1 ELSE 0
  <2>1. n + 1 \in Int /\ Len(s) \in Int /\ \A i \in n + 1 .. Len(s) : s[i] \in Byte
    BY <1>0
  <2> QED
    BY <2>1, SubSeqProperties
<1>3. SubSeq(s, 1, n) \o SubSeq(s, n + 1, Len(s)) = SubSeq(s, 1, Len(s))
  <2>1. 1 \in 1 .. Len(s) + 1 /\ n \in 1 - 1 .. Len(s) /\ Len(s) \in n .. Len(s)
    BY <1>0
  <2> QED
    BY <2>1, ConcatAdjacentSubSeq DEF Bytes
<1>4. SubSeq(s, 1, Len(s)) = s
  BY SubSeqFull DEF Bytes
<1> DEFINE front == SubSeq(s, 1, n)
           back == SubSeq(s, n + 1, Len(s))
<1>5. Take(n, s) = front /\ Skip(n, s) = back
  BY Zenon DEF Take, Skip
<1>6. /\ front \in Bytes /\ Len(front) = n /\ \A i \in 1 .. n : front[i] = s[i]
      /\ back \in Bytes /\ Len(back) = Len(s) - n
  <2>1. /\ front \in Seq(Byte)
        /\ Len(front) = IF 1 <= n THEN n - 1 + 1 ELSE 0
        /\ \A i \in 1 .. n - 1 + 1 : front[i] = s[1 + i - 1]
        /\ back \in Seq(Byte)
        /\ Len(back) = IF n + 1 <= Len(s) THEN Len(s) - (n + 1) + 1 ELSE 0
    BY <1>1, <1>2, Zenon
  <2> HIDE DEF front, back
  <2> QED
    BY <1>0, <2>1 DEF Bytes
<1> QED
  BY <1>3, <1>4, <1>5, <1>6, Zenon

(* Reading all of it.                                                      *)
LEMMA SkipAll ==
  ASSUME NEW s \in Bytes PROVE Skip(Len(s), s) = <<>> /\ Take(Len(s), s) = s
<1>1. Len(s) \in Nat
  BY DEF Bytes
<1>2. SubSeq(s, Len(s) + 1, Len(s)) = <<>>
  BY <1>1, SubSeqEmpty
<1>3. SubSeq(s, 1, Len(s)) = s
  BY SubSeqFull DEF Bytes
<1> QED
  BY <1>2, <1>3, Zenon DEF Take, Skip

(* Sequences of bytes are closed under concatenation, which is associative.*)
LEMMA Concat ==
  ASSUME NEW s \in Bytes, NEW t \in Bytes
  PROVE  s \o t \in Bytes /\ Len(s \o t) = Len(s) + Len(t) /\ Len(s) \in Nat /\ Len(t) \in Nat
  BY ConcatProperties, LenProperties DEF Bytes

(* The bytes of a concatenation are those of its parts.                    *)
LEMMA ConcatElements ==
  ASSUME NEW s \in Bytes, NEW t \in Bytes
  PROVE  /\ \A i \in 1 .. Len(s) : (s \o t)[i] = s[i]
         /\ \A i \in 1 .. Len(t) : (s \o t)[Len(s) + i] = t[i]
<1> DEFINE both == s \o t
<1>1. \A i \in 1 .. Len(s) + Len(t) : both[i] = IF i <= Len(s) THEN s[i] ELSE t[i - Len(s)]
  BY ConcatProperties DEF Bytes
<1> HIDE DEF both
<1>2. Len(s) \in Nat /\ Len(t) \in Nat
  BY DEF Bytes
<1>3. ASSUME NEW i \in 1 .. Len(s) PROVE both[i] = s[i]
  <2>1. i \in 1 .. Len(s) + Len(t) /\ i <= Len(s)
    BY <1>2
  <2> QED
    BY <1>1, <2>1
<1>4. ASSUME NEW i \in 1 .. Len(t) PROVE both[Len(s) + i] = t[i]
  <2>1. /\ Len(s) + i \in 1 .. Len(s) + Len(t) /\ ~ (Len(s) + i <= Len(s))
        /\ (Len(s) + i) - Len(s) = i
    BY <1>2
  <2> QED
    BY <1>1, <2>1
<1> QED
  BY <1>3, <1>4, Zenon DEF both

(* Concatenation is associative.                                           *)
LEMMA ConcatAssoc ==
  ASSUME NEW s \in Bytes, NEW t \in Bytes, NEW u \in Bytes
  PROVE  (s \o t) \o u = s \o (t \o u)
  BY ConcatAssociative DEF Bytes

Assoc(s, t, u) == (s \o t) \o u = s \o (t \o u)

(* The same, with an operator that keeps the provers from rewriting it.    *)
LEMMA Associates ==
  ASSUME NEW s \in Bytes, NEW t \in Bytes, NEW u \in Bytes PROVE Assoc(s, t, u)
  BY ConcatAssoc DEF Assoc

(* The empty stream adds nothing ...                                       *)
LEMMA ConcatEmpty ==
  ASSUME NEW s \in Bytes PROVE s \o <<>> = s /\ <<>> \o s = s
  BY ConcatEmptySeq DEF Bytes

(* ... and is a stream ...                                                 *)
LEMMA EmptyBytes == <<>> \in Bytes /\ Len(<<>>) = 0
  BY EmptySeq DEF Bytes

(* ... the only one of length 0.                                           *)
LEMMA LenZero ==
  ASSUME NEW s \in Bytes PROVE Len(s) = 0 <=> s = <<>>
  BY EmptySeq DEF Bytes

(* A common beginning can be taken off.                                    *)
LEMMA CancelLeft ==
  ASSUME NEW s \in Bytes, NEW t \in Bytes, NEW u \in Bytes, s \o t = s \o u
  PROVE  t = u
<1>1. \A S : \A s_, t_, v_ \in Seq(S) : s_ \o t_ = s_ \o v_ => t_ = v_
  BY ConcatSimplifications, Zenon
<1> QED
  BY <1>1, Zenon DEF Bytes

(* Two ways to write a stream agree at its front, and still do when it is  *)
(* taken off.                                                              *)
Advanced(n, a, b, c, d) == /\ Take(n, a) = Take(n, c)
                           /\ Skip(n, a) \o b = Skip(n, c) \o d

(* The reader takes n bytes off both.                                      *)
LEMMA Advance ==
  ASSUME NEW a \in Bytes, NEW b \in Bytes, NEW c \in Bytes, NEW d \in Bytes,
         a \o b = c \o d, NEW n \in Nat, n <= Len(a), n <= Len(c)
  PROVE  Advanced(n, a, b, c, d)
<1>1. n \in 0 .. Len(a) /\ n \in 0 .. Len(c)
  BY Concat
<1> DEFINE ta == Take(n, a)
           sa == Skip(n, a)
           tc == Take(n, c)
           sc == Skip(n, c)
<1>2. /\ ta \in Bytes /\ sa \in Bytes /\ ta \o sa = a /\ Len(ta) = n
      /\ \A i \in 1 .. n : ta[i] = a[i]
  BY <1>1, TakeSkip
<1>3. /\ tc \in Bytes /\ sc \in Bytes /\ tc \o sc = c /\ Len(tc) = n
      /\ \A i \in 1 .. n : tc[i] = c[i]
  BY <1>1, TakeSkip
<1> HIDE DEF ta, sa, tc, sc
<1>4. \A i \in 1 .. n : a[i] = c[i]
  <2> SUFFICES ASSUME NEW i \in 1 .. n PROVE a[i] = c[i]
    OBVIOUS
  <2>1. i \in 1 .. Len(a) /\ i \in 1 .. Len(c)
    BY <1>1
  <2>2. (a \o b)[i] = a[i]
    BY <2>1, ConcatElements
  <2>3. (c \o d)[i] = c[i]
    BY <2>1, ConcatElements
  <2> QED
    BY <2>2, <2>3
<1>5. ta = tc
  <2>1. \A i \in 1 .. Len(ta) : ta[i] = tc[i]
    BY <1>2, <1>3, <1>4
  <2> QED
    BY <1>2, <1>3, <2>1, SeqEqual DEF Bytes
<1>6. ta \o (sa \o b) = ta \o (sc \o d)
  <2>1. Assoc(ta, sa, b)
    BY <1>2, Associates
  <2>2. Assoc(tc, sc, d)
    BY <1>3, Associates
  <2> QED
    BY <1>2, <1>3, <1>5, <2>1, <2>2, Zenon DEF Assoc
<1>7. sa \o b \in Bytes /\ sc \o d \in Bytes
  BY <1>2, <1>3, Concat
<1>8. sa \o b = sc \o d
  BY <1>2, <1>6, <1>7, CancelLeft
<1> QED
  BY <1>5, <1>8, Zenon DEF ta, tc, sa, sc, Advanced

(* A sequence begins with another when it is that one and something more.  *)
LEMMA PrefixIntro ==
  ASSUME NEW s \in Bytes, NEW u \in Bytes
  PROVE  IsPrefix(s, s \o u)
<1> DEFINE t == s \o u
<1>1. t \in Bytes /\ Len(s) <= Len(t) /\ Len(s) \in 0 .. Len(t) /\ Len(s) \in Nat
  BY Concat
<1>2. \A i \in 1 .. Len(s) : t[i] = s[i]
  BY ConcatElements
<1> HIDE DEF t
<1> DEFINE front == Take(Len(s), t)
<1>a. front \in Bytes /\ Len(front) = Len(s) /\ \A i \in 1 .. Len(s) : front[i] = t[i]
  BY <1>1, TakeSkip
<1> HIDE DEF front
<1>b. front = s
  BY <1>2, <1>a, SeqEqual DEF Bytes
<1>3. Take(Len(s), t) = Take(Len(s), s)
  BY <1>b, SkipAll DEF front
<1>4. SubSeq(s, 1, Len(s)) = SubSeq(t, 1, Len(s))
  BY <1>3, Zenon DEF Take
<1>5. IsPrefix(s, t)
  BY <1>1, <1>4, Zenon DEF IsPrefix
<1> QED
  BY <1>5, Zenon DEF t

(* A prefix has a rest.                                                    *)
LEMMA PrefixElim ==
  ASSUME NEW s \in Bytes, NEW t \in Bytes, IsPrefix(s, t)
  PROVE  \E u \in Bytes : t = s \o u
<1>1. Len(s) \in Nat /\ Len(t) \in Nat
  BY DEF Bytes
<1>2. Len(s) <= Len(t) /\ Take(Len(s), t) = Take(Len(s), s)
  BY Zenon DEF IsPrefix, Take
<1>3. Len(s) \in 0 .. Len(t)
  BY <1>1, <1>2
<1>4. /\ Skip(Len(s), t) \in Bytes
      /\ Take(Len(s), t) \o Skip(Len(s), t) = t
  BY <1>3, TakeSkip
<1>5. Take(Len(s), s) = s
  BY SkipAll
<1> QED
  BY <1>2, <1>4, <1>5, Zenon

(* Writing more keeps a prefix one.                                        *)
LEMMA PrefixExtend ==
  ASSUME NEW s \in Bytes, NEW t \in Bytes, NEW u \in Bytes, IsPrefix(s, t)
  PROVE  IsPrefix(s, t \o u)
<1>1. PICK v \in Bytes : t = s \o v
  BY PrefixElim
<1>a. (s \o v) \o u = s \o (v \o u)
  BY ConcatAssoc, Zenon
<1>b. v \o u \in Bytes
  BY Concat
<1>2. (s \o v) \o u = s \o (v \o u) /\ v \o u \in Bytes
  BY <1>a, <1>b, Zenon
<1>3. t \o u = s \o (v \o u)
  BY <1>1, <1>2, Zenon
<1>4. IsPrefix(s, s \o (v \o u))
  BY <1>2, PrefixIntro, Zenon
<1> QED
  BY <1>3, <1>4, Zenon

-----------------------------------------------------------------------------
(* A number is its last byte and the others.                               *)
LEMMA DivMod ==
  ASSUME NEW k \in Nat
  PROVE  /\ k \div 256 \in Nat
         /\ k % 256 \in 0 .. 255
         /\ k = 256 * (k \div 256) + (k % 256)
  BY SMT

(* The length of every chunk below 4 GB is read as it was written, on both *)
(* sides (LongUtils.toArray and fromArray, sendHeader and                  *)
(* processnailgunstream of ng.c).                                          *)
THEOREM LengthRoundTrip ==
  ASSUME NEW n \in Nat, n < 256 * (256 * (256 * 256))
  PROVE  /\ FromArray(ToArray(n)) = n
         /\ ToArray(n) \in Byte \X Byte \X Byte \X Byte
<1> DEFINE l1 == n \div 256
           l2 == l1 \div 256
           l3 == l2 \div 256
<1>1. l1 \in Nat /\ n % 256 \in Byte /\ n = 256 * l1 + (n % 256)
  BY DivMod DEF Byte
<1>2. l2 \in Nat /\ l1 % 256 \in Byte /\ l1 = 256 * l2 + (l1 % 256)
  BY <1>1, DivMod DEF Byte
<1>3. l3 \in Nat /\ l2 % 256 \in Byte /\ l2 = 256 * l3 + (l2 % 256)
  BY <1>2, DivMod DEF Byte
<1> HIDE DEF l1, l2, l3
<1>4. l3 \in 0 .. 255 /\ l3 % 256 = l3
  BY <1>1, <1>2, <1>3 DEF Byte
<1>5. ToArray(n) = <<l3 % 256, l2 % 256, l1 % 256, n % 256>>
  BY DEF ToArray, l1, l2, l3
<1> QED
  BY <1>1, <1>2, <1>3, <1>4, <1>5 DEF FromArray, Byte

-----------------------------------------------------------------------------
(* Chunks.                                                                 *)

WireChunk == {c \in [type : Byte, text : Bytes] : Len(c.text) <= MaxInt}

Header(type, n) == ToArray(n) \o <<type>>

(* A header holds the length and the type that it is made of.              *)
LEMMA HeaderParts ==
  ASSUME NEW type \in Byte, NEW n \in Nat, n <= MaxInt
  PROVE  /\ Header(type, n) \in Bytes
         /\ Len(Header(type, n)) = CHUNK_HEADER_LEN
         /\ Header(type, n)[CHUNK_HEADER_LEN] = type
         /\ FromArray(Header(type, n)) = n
<1>1. n < 256 * (256 * (256 * 256))
  BY DEF MaxInt
<1>2. FromArray(ToArray(n)) = n /\ ToArray(n) \in Byte \X Byte \X Byte \X Byte
  BY <1>1, LengthRoundTrip
<1>3. PICK b1 \in Byte, b2 \in Byte, b3 \in Byte, b4 \in Byte :
        ToArray(n) = <<b1, b2, b3, b4>>
  <2>1. \A x \in Byte \X Byte \X Byte \X Byte :
          \E b1 \in Byte, b2 \in Byte, b3 \in Byte, b4 \in Byte : x = <<b1, b2, b3, b4>>
    OBVIOUS
  <2> QED
    BY <1>2, <2>1
<1> DEFINE four == <<b1, b2, b3, b4>>
           one == <<type>>
           h == four \o one
<1>4. n = 256 * (256 * (256 * b1 + b2) + b3) + b4
  BY <1>2, <1>3 DEF FromArray
<1>5. /\ four \in Bytes /\ Len(four) = 4
      /\ four[1] = b1 /\ four[2] = b2 /\ four[3] = b3 /\ four[4] = b4
  BY DEF Bytes
<1>6. one \in Bytes /\ Len(one) = 1 /\ one[1] = type
  BY DEF Bytes
<1>7. Header(type, n) = h
  BY <1>3, Zenon DEF Header
<1> HIDE DEF four, one
<1>8. h \in Bytes /\ Len(h) = Len(four) + Len(one)
  BY <1>5, <1>6, Concat
<1>9. /\ \A i \in 1 .. Len(four) : h[i] = four[i]
      /\ \A i \in 1 .. Len(one) : h[Len(four) + i] = one[i]
  BY <1>5, <1>6, ConcatElements
<1> HIDE DEF h
<1>10. h[1] = b1 /\ h[2] = b2 /\ h[3] = b3 /\ h[4] = b4 /\ h[5] = type
  BY <1>5, <1>6, <1>9
<1>11. FromArray(h) = n
  BY <1>4, <1>10 DEF FromArray
<1> QED
  BY <1>5, <1>6, <1>7, <1>8, <1>10, <1>11 DEF CHUNK_HEADER_LEN

(* A chunk is its header and its text.                                     *)
LEMMA ChunkParts ==
  ASSUME NEW c \in WireChunk
  PROVE  /\ Chunk(c.type, c.text) \in Bytes
         /\ Len(Chunk(c.type, c.text)) = CHUNK_HEADER_LEN + Len(c.text)
         /\ Chunk(c.type, c.text) = Header(c.type, Len(c.text)) \o c.text
         /\ Header(c.type, Len(c.text)) \in Bytes
         /\ Len(Header(c.type, Len(c.text))) = CHUNK_HEADER_LEN
         /\ c.text \in Bytes /\ Len(c.text) \in Nat
<1>1. c.type \in Byte /\ c.text \in Bytes /\ Len(c.text) <= MaxInt /\ Len(c.text) \in Nat
  BY LenProperties DEF WireChunk, Bytes
<1> DEFINE h == Header(c.type, Len(c.text))
<1>2. h \in Bytes /\ Len(h) = CHUNK_HEADER_LEN
  BY <1>1, HeaderParts
<1>3. Chunk(c.type, c.text) = h \o c.text
  BY Zenon DEF Chunk, Header
<1> HIDE DEF h
<1>4. h \o c.text \in Bytes /\ Len(h \o c.text) = Len(h) + Len(c.text)
  BY <1>1, <1>2, Concat
<1>5. /\ Chunk(c.type, c.text) \in Bytes
      /\ Len(Chunk(c.type, c.text)) = CHUNK_HEADER_LEN + Len(c.text)
  BY <1>2, <1>3, <1>4
<1> QED
  BY <1>1, <1>2, <1>3, <1>5, Zenon DEF h

(* The header is read from the first five bytes only.                      *)
LEMMA SameFront ==
  ASSUME NEW a, NEW b, \A i \in 1 .. CHUNK_HEADER_LEN : a[i] = b[i]
  PROVE  FromArray(a) = FromArray(b) /\ a[CHUNK_HEADER_LEN] = b[CHUNK_HEADER_LEN]
<1>1. a[1] = b[1] /\ a[2] = b[2] /\ a[3] = b[3] /\ a[4] = b[4] /\ a[5] = b[5]
  BY DEF CHUNK_HEADER_LEN
<1> QED
  BY <1>1 DEF FromArray, CHUNK_HEADER_LEN

(* Where a stream begins with a chunk, its header is read from it.         *)
HeaderRead(a, b, c, d) ==
  /\ a[CHUNK_HEADER_LEN] = c.type
  /\ FromArray(a) = Len(c.text)
  /\ Skip(CHUNK_HEADER_LEN, a) \in Bytes
  /\ Len(Skip(CHUNK_HEADER_LEN, a)) = Len(a) - CHUNK_HEADER_LEN
  /\ Skip(CHUNK_HEADER_LEN, a) \o b = c.text \o d

(* Five bytes of a chunk have arrived: they are its header.                *)
LEMMA HeaderArrives ==
  ASSUME NEW a \in Bytes, NEW b \in Bytes, NEW d \in Bytes, NEW c \in WireChunk,
         a \o b = Chunk(c.type, c.text) \o d, Len(a) >= CHUNK_HEADER_LEN
  PROVE  HeaderRead(a, b, c, d)
<1> DEFINE h == Header(c.type, Len(c.text))
           whole == Chunk(c.type, c.text)
           text == c.text
<1>0. c.type \in Byte /\ Len(c.text) \in Nat /\ Len(c.text) <= MaxInt
  BY ChunkParts DEF WireChunk
<1>1. /\ h \in Bytes /\ Len(h) = CHUNK_HEADER_LEN
      /\ h[CHUNK_HEADER_LEN] = c.type /\ FromArray(h) = Len(c.text)
  BY <1>0, HeaderParts
<1>2. whole = h \o text /\ whole \in Bytes /\ text \in Bytes
  BY ChunkParts
<1> HIDE DEF h, whole, text
<1>3. whole \o d = h \o (text \o d) /\ text \o d \in Bytes
  <2>1. (h \o text) \o d = h \o (text \o d)
    BY <1>1, <1>2, ConcatAssoc, Zenon
  <2>2. text \o d \in Bytes
    BY <1>2, Concat
  <2> QED
    BY <1>2, <2>1, <2>2, Zenon
<1> DEFINE rest == text \o d
<1>4. a \o b = h \o rest /\ rest \in Bytes
  BY <1>3, Zenon DEF whole
<1> HIDE DEF rest
<1>5. /\ CHUNK_HEADER_LEN \in Nat /\ Len(a) \in Nat
      /\ CHUNK_HEADER_LEN <= Len(h) /\ CHUNK_HEADER_LEN <= Len(a)
  BY <1>1 DEF CHUNK_HEADER_LEN, Bytes
<1>6. /\ Take(CHUNK_HEADER_LEN, a) = Take(CHUNK_HEADER_LEN, h)
      /\ Skip(CHUNK_HEADER_LEN, a) \o b = Skip(CHUNK_HEADER_LEN, h) \o rest
  <2> DEFINE n == CHUNK_HEADER_LEN
  <2>1. n \in Nat /\ n <= Len(a) /\ n <= Len(h)
    BY <1>5
  <2>2. a \in Bytes /\ b \in Bytes /\ h \in Bytes /\ rest \in Bytes
    BY <1>1, <1>4
  <2>3. a \o b = h \o rest
    BY <1>4
  <2> HIDE DEF n
  <2>4. Advanced(n, a, b, h, rest)
    BY <2>1, <2>2, <2>3, Advance, Zenon
  <2> QED
    BY <2>4, Zenon DEF n, Advanced
<1>7. Skip(CHUNK_HEADER_LEN, h) = <<>>
  BY <1>1, SkipAll
<1>8. Skip(CHUNK_HEADER_LEN, a) \o b = rest
  BY <1>4, <1>6, <1>7, ConcatEmpty
<1>9. \A i \in 1 .. CHUNK_HEADER_LEN : a[i] = h[i]
  <2>1. CHUNK_HEADER_LEN \in 0 .. Len(a) /\ CHUNK_HEADER_LEN \in 0 .. Len(h)
    BY <1>1, <1>5
  <2>2. \A i \in 1 .. CHUNK_HEADER_LEN : Take(CHUNK_HEADER_LEN, a)[i] = a[i]
    BY <2>1, TakeSkip
  <2>3. \A i \in 1 .. CHUNK_HEADER_LEN : Take(CHUNK_HEADER_LEN, h)[i] = h[i]
    BY <1>1, <2>1, TakeSkip
  <2> QED
    BY <1>6, <2>2, <2>3
<1>10. FromArray(a) = FromArray(h) /\ a[CHUNK_HEADER_LEN] = h[CHUNK_HEADER_LEN]
  BY <1>9, SameFront
<1>11. /\ Skip(CHUNK_HEADER_LEN, a) \in Bytes
       /\ Len(Skip(CHUNK_HEADER_LEN, a)) = Len(a) - CHUNK_HEADER_LEN
  <2>1. CHUNK_HEADER_LEN \in 0 .. Len(a)
    BY <1>5
  <2> QED
    BY <2>1, TakeSkip
<1>12. Skip(CHUNK_HEADER_LEN, a) \o b = c.text \o d
  BY <1>8, Zenon DEF rest, text
<1> QED
  BY <1>1, <1>10, <1>11, <1>12, Zenon DEF HeaderRead

-----------------------------------------------------------------------------
(* Sequences of chunks: their bytes, and the bytes of one type.            *)

Stream(cs) == FlattenSeq([i \in DOMAIN cs |-> Chunk(cs[i].type, cs[i].text)])

Of(s, c) == IF c.type = s THEN c.text ELSE <<>>

Payload(s, cs) == FlattenSeq([i \in DOMAIN cs |-> Of(s, cs[i])])

(* The bytes of one type that a chunk adds.                                *)
LEMMA OfType ==
  ASSUME NEW c \in WireChunk, NEW s PROVE Of(s, c) \in Bytes
<1>1. c.text \in Bytes /\ <<>> \in Bytes
  BY ChunkParts, EmptyBytes
<1> QED
  BY <1>1, Zenon DEF Of

(* No chunks, no bytes.                                                    *)
LEMMA StreamEmpty == Stream(<<>>) = <<>> /\ \A s : Payload(s, <<>>) = <<>>
<1>1. FlattenSeq(<<>>) = <<>>
  BY FlattenEmpty
<1>2. [i \in DOMAIN <<>> |-> Chunk(<<>>[i].type, <<>>[i].text)] = <<>>
  OBVIOUS
<1>3. ASSUME NEW s PROVE [i \in DOMAIN <<>> |-> Of(s, <<>>[i])] = <<>>
  OBVIOUS
<1> QED
  BY <1>1, <1>2, <1>3, Zenon DEF Stream, Payload

(* What FlattenSeq is applied to in Stream and Payload.                    *)
LEMMA MappedType ==
  ASSUME NEW cs \in Seq(WireChunk), NEW s
  PROVE  /\ [i \in DOMAIN cs |-> Chunk(cs[i].type, cs[i].text)] \in Seq(Bytes)
         /\ [i \in DOMAIN cs |-> Of(s, cs[i])] \in Seq(Bytes)
<1>1. Len(cs) \in Nat /\ DOMAIN cs = 1 .. Len(cs)
  BY LenProperties
<1>2. \A i \in 1 .. Len(cs) : cs[i] \in WireChunk
  BY ElementOfSeq
<1>3. \A i \in 1 .. Len(cs) : Chunk(cs[i].type, cs[i].text) \in Bytes /\ Of(s, cs[i]) \in Bytes
  BY <1>2, ChunkParts, OfType
<1> DEFINE f(i) == Chunk(cs[i].type, cs[i].text)
           g(i) == Of(s, cs[i])
<1> HIDE DEF f, g
<1>4. [i \in 1 .. Len(cs) |-> f(i)] \in Seq(Bytes) /\ [i \in 1 .. Len(cs) |-> g(i)] \in Seq(Bytes)
  BY <1>1, <1>3 DEF f, g
<1> QED
  BY <1>1, <1>4, Zenon DEF f, g

(* Both are sequences of bytes.                                            *)
LEMMA StreamType ==
  ASSUME NEW cs \in Seq(WireChunk), NEW s
  PROVE  Stream(cs) \in Bytes /\ Payload(s, cs) \in Bytes
<1> DEFINE f == [i \in DOMAIN cs |-> Chunk(cs[i].type, cs[i].text)]
           g == [i \in DOMAIN cs |-> Of(s, cs[i])]
<1>1. f \in Seq(Seq(Byte)) /\ g \in Seq(Seq(Byte))
  BY MappedType, Zenon DEF Bytes
<1>2. Stream(cs) = FlattenSeq(f) /\ Payload(s, cs) = FlattenSeq(g)
  BY Zenon DEF Stream, Payload
<1> HIDE DEF f, g
<1>3. FlattenSeq(f) \in Seq(Byte) /\ FlattenSeq(g) \in Seq(Byte)
  BY <1>1, FlattenType
<1> QED
  BY <1>2, <1>3, Zenon DEF Bytes

(* The sequence that is another one with one more element.                 *)
LEMMA AppendedIs ==
  ASSUME NEW S, NEW n \in Nat, NEW f \in Seq(S), NEW g \in Seq(S), NEW x \in S,
         DOMAIN f = 1 .. n, DOMAIN g = 1 .. n + 1,
         \A i \in 1 .. n : g[i] = f[i], g[n + 1] = x
  PROVE  g = Append(f, x)
<1>1. Len(f) = n /\ Len(g) = n + 1
  BY LenProperties
<1> DEFINE h == Append(f, x)
<1>2. h \in Seq(S) /\ Len(h) = n + 1 /\ h[n + 1] = x /\ \A i \in 1 .. n : h[i] = f[i]
  BY <1>1, AppendProperties
<1> HIDE DEF h
<1>3. \A i \in 1 .. Len(g) : g[i] = h[i]
  BY <1>1, <1>2
<1>4. g = h
  BY <1>1, <1>2, <1>3, SeqEqual
<1> QED
  BY <1>4 DEF h

(* A sequence with one more element in front.                              *)
LEMMA ConsIs ==
  ASSUME NEW S, NEW n \in Nat, NEW f \in Seq(S), NEW g \in Seq(S), NEW x \in S,
         DOMAIN f = 1 .. n, DOMAIN g = 1 .. n + 1,
         \A i \in 1 .. n : g[i + 1] = f[i], g[1] = x
  PROVE  g = <<x>> \o f
<1>1. Len(f) = n /\ Len(g) = n + 1
  BY LenProperties
<1> DEFINE one == <<x>>
           h == one \o f
<1>2. one \in Seq(S) /\ Len(one) = 1 /\ one[1] = x
  OBVIOUS
<1> HIDE DEF one
<1>3. /\ h \in Seq(S) /\ Len(h) = Len(one) + Len(f)
      /\ \A i \in 1 .. Len(one) + Len(f) : h[i] = IF i <= Len(one) THEN one[i] ELSE f[i - Len(one)]
  BY <1>2, ConcatProperties
<1> HIDE DEF h
<1>4. ASSUME NEW i \in 1 .. Len(g) PROVE g[i] = h[i]
  <2>1. CASE i = 1
    BY <1>1, <1>2, <1>3, <2>1
  <2>2. CASE i # 1
    <3>1. i - 1 \in 1 .. n /\ (i - 1) + 1 = i /\ i \in 1 .. Len(one) + Len(f) /\ ~ (i <= Len(one))
      BY <1>1, <1>2, <2>2
    <3>2. h[i] = f[i - Len(one)] /\ g[(i - 1) + 1] = f[i - 1]
      BY <1>3, <3>1
    <3> QED
      BY <1>2, <3>1, <3>2
  <2> QED
    BY <2>1, <2>2
<1>5. g = h
  BY <1>1, <1>2, <1>3, <1>4, SeqEqual
<1> QED
  BY <1>5, Zenon DEF h, one

(* A chunk more at the end: its writer puts it there.                      *)
LEMMA StreamAppend ==
  ASSUME NEW cs \in Seq(WireChunk), NEW c \in WireChunk, NEW s
  PROVE  /\ Append(cs, c) \in Seq(WireChunk)
         /\ Stream(Append(cs, c)) = Stream(cs) \o Chunk(c.type, c.text)
         /\ Payload(s, Append(cs, c)) = Payload(s, cs) \o Of(s, c)
<1> DEFINE long == Append(cs, c)
           f == [i \in DOMAIN cs |-> Chunk(cs[i].type, cs[i].text)]
           g == [i \in DOMAIN cs |-> Of(s, cs[i])]
           ff == [i \in DOMAIN long |-> Chunk(long[i].type, long[i].text)]
           gg == [i \in DOMAIN long |-> Of(s, long[i])]
           x == Chunk(c.type, c.text)
           y == Of(s, c)
<1>1. /\ long \in Seq(WireChunk) /\ Len(long) = Len(cs) + 1 /\ Len(cs) \in Nat
      /\ long[Len(cs) + 1] = c /\ \A i \in 1 .. Len(cs) : long[i] = cs[i]
      /\ DOMAIN long = 1 .. Len(long) /\ DOMAIN cs = 1 .. Len(cs)
  BY AppendProperties, LenProperties
<1> HIDE DEF long
<1>2. f \in Seq(Seq(Byte)) /\ g \in Seq(Seq(Byte)) /\ ff \in Seq(Seq(Byte)) /\ gg \in Seq(Seq(Byte))
  <2>1. f \in Seq(Bytes) /\ g \in Seq(Bytes)
    BY MappedType
  <2>2. ff \in Seq(Bytes) /\ gg \in Seq(Bytes)
    BY <1>1, MappedType
  <2> QED
    BY <2>1, <2>2, Zenon DEF Bytes
<1>3. x \in Seq(Byte) /\ y \in Seq(Byte)
  BY ChunkParts, OfType DEF Bytes
<1>4. /\ DOMAIN f = 1 .. Len(cs) /\ DOMAIN ff = 1 .. Len(cs) + 1
      /\ DOMAIN g = 1 .. Len(cs) /\ DOMAIN gg = 1 .. Len(cs) + 1
      /\ \A i \in 1 .. Len(cs) : ff[i] = f[i] /\ gg[i] = g[i]
      /\ ff[Len(cs) + 1] = x /\ gg[Len(cs) + 1] = y
  <2>1. Len(cs) + 1 \in 1 .. Len(cs) + 1 /\ \A i \in 1 .. Len(cs) : i \in 1 .. Len(cs) + 1
    BY <1>1
  <2>2. \A i \in 1 .. Len(cs) + 1 :
          ff[i] = Chunk(long[i].type, long[i].text) /\ gg[i] = Of(s, long[i])
    BY <1>1, Zenon
  <2>3. \A i \in 1 .. Len(cs) : f[i] = Chunk(cs[i].type, cs[i].text) /\ g[i] = Of(s, cs[i])
    BY <1>1, Zenon
  <2>4. DOMAIN f = 1 .. Len(cs) /\ DOMAIN ff = 1 .. Len(cs) + 1
        /\ DOMAIN g = 1 .. Len(cs) /\ DOMAIN gg = 1 .. Len(cs) + 1
    BY <1>1
  <2> HIDE DEF f, g, ff, gg
  <2>5. \A i \in 1 .. Len(cs) : ff[i] = f[i] /\ gg[i] = g[i]
    BY <1>1, <2>1, <2>2, <2>3, Zenon
  <2>6. ff[Len(cs) + 1] = x /\ gg[Len(cs) + 1] = y
    BY <1>1, <2>1, <2>2, Zenon
  <2> QED
    BY <2>4, <2>5, <2>6
<1>5. Stream(cs) = FlattenSeq(f) /\ Payload(s, cs) = FlattenSeq(g)
      /\ Stream(long) = FlattenSeq(ff) /\ Payload(s, long) = FlattenSeq(gg)
  BY Zenon DEF Stream, Payload
<1> HIDE DEF f, g, ff, gg, x, y
<1>6. ff = Append(f, x)
  BY <1>1, <1>2, <1>3, <1>4, AppendedIs
<1>7. gg = Append(g, y)
  BY <1>1, <1>2, <1>3, <1>4, AppendedIs
<1>8. FlattenSeq(ff) = FlattenSeq(f) \o x
  BY <1>2, <1>3, <1>6, FlattenAppend
<1>9. FlattenSeq(gg) = FlattenSeq(g) \o y
  BY <1>2, <1>3, <1>7, FlattenAppend
<1> QED
  BY <1>1, <1>5, <1>8, <1>9, Zenon DEF long, x, y

(* The first chunk and the others: its reader takes it off.                *)
LEMMA StreamCons ==
  ASSUME NEW cs \in Seq(WireChunk), NEW s, cs # <<>>
  PROVE  /\ Head(cs) \in WireChunk /\ Tail(cs) \in Seq(WireChunk)
         /\ Len(Tail(cs)) = Len(cs) - 1
         /\ Len(cs) \in Nat \ {0}
         /\ cs[1] = Head(cs)
         /\ \A i \in 1 .. Len(Tail(cs)) : Tail(cs)[i] = cs[i + 1]
         /\ Stream(cs) = Chunk(Head(cs).type, Head(cs).text) \o Stream(Tail(cs))
         /\ Payload(s, cs) = Of(s, Head(cs)) \o Payload(s, Tail(cs))
<1> DEFINE c == Head(cs)
           rest == Tail(cs)
           f == [i \in DOMAIN rest |-> Chunk(rest[i].type, rest[i].text)]
           g == [i \in DOMAIN rest |-> Of(s, rest[i])]
           ff == [i \in DOMAIN cs |-> Chunk(cs[i].type, cs[i].text)]
           gg == [i \in DOMAIN cs |-> Of(s, cs[i])]
           x == Chunk(c.type, c.text)
           y == Of(s, c)
<1>0. /\ c \in WireChunk /\ rest \in Seq(WireChunk)
      /\ Len(rest) = Len(cs) - 1
      /\ Len(cs) \in Nat \ {0}
      /\ cs[1] = c
      /\ \A i \in 1 .. Len(rest) : rest[i] = cs[i + 1]
  <2>1. c \in WireChunk /\ rest \in Seq(WireChunk) /\ Len(rest) = Len(cs) - 1
        /\ \A i \in 1 .. Len(rest) : rest[i] = cs[i + 1]
    BY HeadTailProperties
  <2>2. Len(cs) \in Nat \ {0} /\ cs[1] = c
    BY EmptySeq
  <2> QED
    BY <2>1, <2>2
<1> HIDE DEF c, rest
<1> DEFINE n == Len(rest)
<1>1. /\ n \in Nat /\ DOMAIN rest = 1 .. n /\ DOMAIN cs = 1 .. n + 1
      /\ \A i \in 1 .. n : rest[i] = cs[i + 1]
  <2>1. Len(rest) \in Nat /\ DOMAIN rest = 1 .. Len(rest) /\ DOMAIN cs = 1 .. Len(cs)
    BY <1>0, LenProperties
  <2> QED
    BY <1>0, <2>1
<1> HIDE DEF n
<1>2. f \in Seq(Seq(Byte)) /\ g \in Seq(Seq(Byte)) /\ ff \in Seq(Seq(Byte)) /\ gg \in Seq(Seq(Byte))
  <2>1. f \in Seq(Bytes) /\ g \in Seq(Bytes)
    BY <1>0, MappedType
  <2>2. ff \in Seq(Bytes) /\ gg \in Seq(Bytes)
    BY MappedType
  <2> QED
    BY <2>1, <2>2, Zenon DEF Bytes
<1>3. x \in Seq(Byte) /\ y \in Seq(Byte)
  <2>1. x \in Bytes /\ y \in Bytes
    BY <1>0, ChunkParts, OfType
  <2> QED
    BY <2>1, Zenon DEF Bytes
<1>4. /\ DOMAIN f = 1 .. n /\ DOMAIN ff = 1 .. n + 1
      /\ DOMAIN g = 1 .. n /\ DOMAIN gg = 1 .. n + 1
      /\ \A i \in 1 .. n : ff[i + 1] = f[i] /\ gg[i + 1] = g[i]
      /\ ff[1] = x /\ gg[1] = y
  <2>1. 1 \in 1 .. n + 1 /\ \A i \in 1 .. n : i + 1 \in 1 .. n + 1
    BY <1>1
  <2>2. \A i \in 1 .. n + 1 : ff[i] = Chunk(cs[i].type, cs[i].text) /\ gg[i] = Of(s, cs[i])
    BY <1>1, Zenon
  <2>3. \A i \in 1 .. n : f[i] = Chunk(rest[i].type, rest[i].text) /\ g[i] = Of(s, rest[i])
    BY <1>1, Zenon
  <2>4. DOMAIN f = 1 .. n /\ DOMAIN ff = 1 .. n + 1
        /\ DOMAIN g = 1 .. n /\ DOMAIN gg = 1 .. n + 1
    BY <1>1
  <2> HIDE DEF f, g, ff, gg
  <2>5. \A i \in 1 .. n : ff[i + 1] = f[i] /\ gg[i + 1] = g[i]
    BY <1>1, <2>1, <2>2, <2>3, Zenon
  <2>6. ff[1] = x /\ gg[1] = y
    BY <1>0, <2>1, <2>2, Zenon
  <2> QED
    BY <2>4, <2>5, <2>6
<1>5. Stream(rest) = FlattenSeq(f) /\ Payload(s, rest) = FlattenSeq(g)
      /\ Stream(cs) = FlattenSeq(ff) /\ Payload(s, cs) = FlattenSeq(gg)
  BY Zenon DEF Stream, Payload
<1> HIDE DEF f, g, ff, gg, x, y
<1>6. ff = <<x>> \o f
  BY <1>1, <1>2, <1>3, <1>4, ConsIs
<1>7. gg = <<y>> \o g
  BY <1>1, <1>2, <1>3, <1>4, ConsIs
<1>8. FlattenSeq(<<x>> \o f) = x \o FlattenSeq(f)
  BY <1>2, <1>3, FlattenCons
<1>9. FlattenSeq(<<y>> \o g) = y \o FlattenSeq(g)
  BY <1>2, <1>3, FlattenCons
<1>10. Stream(cs) = x \o Stream(rest)
  BY <1>5, <1>6, <1>8, Zenon
<1>11. Payload(s, cs) = y \o Payload(s, rest)
  BY <1>5, <1>7, <1>9, Zenon
<1> QED
  BY <1>0, <1>10, <1>11, Zenon DEF c, rest, x, y

(* Chunks of other types add nothing to the bytes of a type.               *)
LEMMA PayloadOfOthers ==
  ASSUME NEW cs \in Seq(WireChunk), NEW s, \A i \in 1 .. Len(cs) : cs[i].type # s
  PROVE  Payload(s, cs) = <<>>
<1> DEFINE Without(n) == \A ds \in Seq(WireChunk) :
              /\ Len(ds) = n
              /\ \A i \in 1 .. Len(ds) : ds[i].type # s
              => Payload(s, ds) = <<>>
           S == {n \in Nat : Without(n)}
<1>1. Without(0)
  <2> SUFFICES ASSUME NEW ds \in Seq(WireChunk), Len(ds) = 0 PROVE Payload(s, ds) = <<>>
    OBVIOUS
  <2>1. ds = <<>>
    BY EmptySeq
  <2> QED
    BY <2>1, StreamEmpty
<1>2. ASSUME NEW n \in Nat, Without(n) PROVE Without(n + 1)
  <2> SUFFICES ASSUME NEW ds \in Seq(WireChunk), Len(ds) = n + 1,
                      \A i \in 1 .. Len(ds) : ds[i].type # s
               PROVE  Payload(s, ds) = <<>>
    OBVIOUS
  <2>1. ds # <<>>
    BY EmptySeq
  <2> DEFINE c == Head(ds)
             rest == Tail(ds)
  <2>2. /\ rest \in Seq(WireChunk) /\ Len(rest) = Len(ds) - 1 /\ ds[1] = c
        /\ \A i \in 1 .. Len(rest) : rest[i] = ds[i + 1]
        /\ Payload(s, ds) = Of(s, c) \o Payload(s, rest)
    BY <2>1, StreamCons
  <2> HIDE DEF c, rest
  <2>3. Len(rest) = n /\ c.type # s
    BY <2>2
  <2>4. \A i \in 1 .. Len(rest) : rest[i].type # s
    <3>1. \A i \in 1 .. Len(rest) : i + 1 \in 1 .. Len(ds)
      BY <2>2
    <3> QED
      BY <2>2, <3>1
  <2>5. Payload(s, rest) = <<>>
    BY <1>2, <2>2, <2>3, <2>4
  <2>6. Of(s, c) = <<>>
    BY <2>3, Zenon DEF Of
  <2> QED
    BY <2>2, <2>5, <2>6, EmptyBytes, ConcatEmpty
<1> HIDE DEF Without
<1>3. 0 \in S /\ \A n \in S : n + 1 \in S
  BY <1>1, <1>2
<1>4. S \subseteq Nat
  OBVIOUS
<1> HIDE DEF S
<1>5. \A n \in Nat : n \in S
  BY <1>3, <1>4, NatSetInduction
<1>6. Len(cs) \in Nat
  BY LenProperties
<1>7. Without(Len(cs))
  BY <1>5, <1>6 DEF S
<1> QED
  BY <1>7 DEF Without
=============================================================================
