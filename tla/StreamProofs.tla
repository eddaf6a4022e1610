--------------------------- MODULE StreamProofs ---------------------------
(***************************************************************************)
(* Proofs about what every forwarded stream rests on: the framed           *)
(* connection (FrameCodec) and the counters it is reported to (ConnStats). *)
(*                                                                         *)
(* FrameCodec, for bytes of any number of values, fields of any width, any *)
(* messages that fit them, and any cut of the bytes.  decode is the        *)
(* inverse of encode on any part of a stream (DecodeFrame); to_be_bytes    *)
(* and from_be_bytes are inverse on the numbers that fit (Numbers), by an  *)
(* induction over the bytes that the library's least elements give.  The   *)
(* invariant is Carried: in the buffer and under way are the frames of     *)
(* what is still to come, and all of them unless bytes were lost.          *)
(*                                                                         *)
(* ConnStats, for any finite set of connections and any number of entries  *)
(* and chunks.  CountNear is about states in which all tasks have run.     *)
(* What makes it so is said of every state by CountInv: which tasks a      *)
(* connection can have (TasksSound), what each history set means           *)
(* (CountedSound, StraysSound), and the balance of the counter (Balanced). *)
(* TrafficAccounted is inductive with its types.                           *)
(***************************************************************************)
EXTENDS FrameCodec, ConnStats, FiniteSetTheorems, WellFoundedInduction, TLAPS

-----------------------------------------------------------------------------
(* Induction, and the values that w bytes have *)

\* The order on the numbers as a relation, which the library calls well-founded.
LEMMA LessNat == \A x, y \in Nat : x < y <=> <<x, y>> \in OpToRel(<, Nat)
  BY Zenon DEF OpToRel

\* Induction over the numbers: a set of them that has no least number missing has
\* all of them.
LEMMA SetInduction ==
    ASSUME NEW T, 0 \in T, \A n \in Nat : n \in T => n + 1 \in T
    PROVE  \A n \in Nat : n \in T
<1> DEFINE Bad == {n \in Nat : n \notin T}
           R   == OpToRel(<, Nat)
<1>1. SUFFICES ASSUME Bad # {} PROVE FALSE
  OBVIOUS
<1>2. \A x, y \in Nat : x < y <=> <<x, y>> \in R
  BY LessNat, Zenon
<1>3. IsWellFoundedOn(R, Nat)
  BY NatLessThanWellFounded, Zenon
<1>4. Bad \subseteq Nat
  OBVIOUS
<1> HIDE DEF R, Bad
<1>5. PICK x \in Bad : \A y \in Bad : <<y, x>> \notin R
  BY <1>1, <1>3, <1>4, WFMin
<1>6. x \in Nat /\ x \notin T
  BY DEF Bad
<1>7. x # 0 /\ x - 1 \in Nat /\ (x - 1) + 1 = x /\ x - 1 < x
  BY <1>6
<1>8. x - 1 \in Bad
  BY <1>6, <1>7 DEF Bad
<1>9. <<x - 1, x>> \in R
  BY <1>2, <1>6, <1>7
<1>10. QED
  BY <1>5, <1>8, <1>9

\* f is Values on the numbers up to n.
Upto(f, n) == /\ f \in [0 .. n -> Nat]
              /\ \A i \in 0 .. n : f[i] = IF i = 0 THEN 1 ELSE Base * f[i - 1]

\* There is such an f for every n.
LEMMA UptoExists == \A n \in Nat : \E f : Upto(f, n)
<1> DEFINE T == {n \in Nat : \E f : Upto(f, n)}
<1>1. 0 \in T
  <2>1. Upto([i \in 0 .. 0 |-> 1], 0)
    BY DEF Upto
  <2>2. QED
    BY <2>1
<1>2. ASSUME NEW n \in Nat, n \in T PROVE n + 1 \in T
  <2>1. PICK f : Upto(f, n)
    BY <1>2
  <2> DEFINE g == [i \in 0 .. n + 1 |-> IF i = n + 1 THEN Base * f[n] ELSE f[i]]
  <2>2. Base * f[n] \in Nat
    BY <2>1, CodecAssumption DEF Upto
  <2>3. g \in [0 .. n + 1 -> Nat]
    BY <2>1, <2>2 DEF Upto
  <2>4. ASSUME NEW i \in 0 .. n + 1 PROVE g[i] = IF i = 0 THEN 1 ELSE Base * g[i - 1]
    <3>1. CASE i = n + 1
      <4>1. i - 1 = n /\ n # n + 1 /\ n \in 0 .. n + 1 /\ i # 0
        BY <3>1
      <4>2. g[n] = f[n]
        BY <4>1
      <4>3. g[i] = Base * f[n]
        BY <3>1
      <4>4. QED
        BY <4>1, <4>2, <4>3
    <3>2. CASE i # n + 1
      <4>1. i \in 0 .. n
        BY <3>2
      <4>2. g[i] = f[i]
        BY <3>2
      <4>3. i # 0 => i - 1 \in 0 .. n + 1 /\ i - 1 # n + 1
        BY <4>1
      <4>4. i # 0 => g[i - 1] = f[i - 1]
        BY <4>3
      <4>5. f[i] = IF i = 0 THEN 1 ELSE Base * f[i - 1]
        BY <2>1, <4>1 DEF Upto
      <4> HIDE DEF g
      <4>6. QED
        BY <4>2, <4>4, <4>5
    <3>3. QED
      BY <3>1, <3>2
  <2> HIDE DEF g
  <2>5. Upto(g, n + 1)
    BY <2>3, <2>4 DEF Upto
  <2>6. QED
    BY <2>5
<1> HIDE DEF T
<1>3. \A n \in Nat : n \in T
  BY <1>1, <1>2, SetInduction
<1>4. QED
  BY <1>3 DEF T

\* And there is one only.
LEMMA UptoUnique ==
    ASSUME NEW m \in Nat, NEW n \in Nat, NEW f, NEW g, Upto(f, m), Upto(g, n)
    PROVE  \A i \in Nat : i <= m /\ i <= n => f[i] = g[i]
<1> DEFINE T == {i \in Nat : i <= m /\ i <= n => f[i] = g[i]}
<1>1. 0 \in T
  BY DEF Upto
<1>2. ASSUME NEW i \in Nat, i \in T PROVE i + 1 \in T
  <2> SUFFICES ASSUME i + 1 <= m, i + 1 <= n PROVE f[i + 1] = g[i + 1]
    OBVIOUS
  <2>1. f[i] = g[i]
    BY <1>2
  <2>2. i + 1 \in 0 .. m /\ i + 1 \in 0 .. n /\ i + 1 # 0 /\ (i + 1) - 1 = i
    OBVIOUS
  <2>3. f[i + 1] = Base * f[i]
    BY <2>2 DEF Upto
  <2>4. g[i + 1] = Base * g[i]
    BY <2>2 DEF Upto
  <2>5. QED
    BY <2>1, <2>3, <2>4
<1> HIDE DEF T
<1>3. \A i \in Nat : i \in T
  BY <1>1, <1>2, SetInduction
<1>4. QED
  BY <1>3 DEF T

\* Values is what its definition says of it.
LEMMA ValuesDef ==
    /\ Values = [w \in Nat |-> IF w = 0 THEN 1 ELSE Base * Values[w - 1]]
    /\ Values \in [Nat -> Nat]
<1> DEFINE F(n) == CHOOSE f : Upto(f, n)
           V == [n \in Nat |-> F(n)[n]]
<1>1. \A n \in Nat : Upto(F(n), n)
  BY UptoExists
<1>2. \A n \in Nat : F(n)[n] \in Nat
  <2> TAKE n \in Nat
  <2>1. Upto(F(n), n) /\ n \in 0 .. n
    BY <1>1
  <2> HIDE DEF F
  <2>2. QED
    BY <2>1 DEF Upto
<1> HIDE DEF F
<1>3. V \in [Nat -> Nat]
  BY <1>2
<1>4. \A n \in Nat : V[n] = IF n = 0 THEN 1 ELSE Base * V[n - 1]
  <2> TAKE n \in Nat
  <2>1. F(n)[n] = IF n = 0 THEN 1 ELSE Base * F(n)[n - 1]
    BY <1>1 DEF Upto
  <2>2. ASSUME n # 0 PROVE F(n)[n - 1] = F(n - 1)[n - 1]
    <3>1. n - 1 \in Nat /\ n - 1 <= n /\ n - 1 <= n - 1
      BY <2>2
    <3>2. Upto(F(n), n) /\ Upto(F(n - 1), n - 1)
      BY <1>1, <3>1
    <3>3. QED
      BY <3>1, <3>2, UptoUnique
  <2>3. n # 0 => V[n - 1] = F(n - 1)[n - 1]
    OBVIOUS
  <2>4. V[n] = F(n)[n]
    OBVIOUS
  <2> HIDE DEF V
  <2>5. QED
    BY <2>1, <2>2, <2>3, <2>4
<1>5. V = [w \in Nat |-> IF w = 0 THEN 1 ELSE Base * V[w - 1]]
  <2> DEFINE W == [w \in Nat |-> IF w = 0 THEN 1 ELSE Base * V[w - 1]]
  <2>1. \A w \in Nat : V[w] = W[w]
    BY <1>4
  <2>2. QED
    BY <2>1
<1> HIDE DEF V
<1>6. Values = [w \in Nat |-> IF w = 0 THEN 1 ELSE Base * Values[w - 1]]
  BY <1>5 DEF Values
<1>7. \A n \in Nat : Values[n] = V[n]
  <2> DEFINE T == {n \in Nat : Values[n] = V[n]}
  <2>1. \A n \in Nat : Values[n] = IF n = 0 THEN 1 ELSE Base * Values[n - 1]
    BY <1>6
  <2>2. 0 \in T
    BY <2>1, <1>4
  <2>3. ASSUME NEW n \in Nat, n \in T PROVE n + 1 \in T
    <3>1. n + 1 \in Nat /\ n + 1 # 0 /\ (n + 1) - 1 = n
      OBVIOUS
    <3>2. Values[n + 1] = Base * Values[n]
      BY <2>1, <3>1
    <3>3. V[n + 1] = Base * V[n]
      BY <1>4, <3>1
    <3>4. QED
      BY <2>3, <3>2, <3>3
  <2> HIDE DEF T
  <2>4. \A n \in Nat : n \in T
    BY <2>2, <2>3, SetInduction
  <2>5. QED
    BY <2>4 DEF T
<1>8. Values = V
  BY <1>3, <1>6, <1>7
<1>9. QED
  BY <1>3, <1>6, <1>8

-----------------------------------------------------------------------------
(* Numbers *)

\* What is used of Values.
LEMMA ValuesFacts ==
    /\ Values[0] = 1
    /\ \A w \in Nat : Values[w] \in Nat /\ Values[w] > 0 /\ Values[w + 1] = Base * Values[w]
<1>1. \A w \in Nat : Values[w] = IF w = 0 THEN 1 ELSE Base * Values[w - 1]
  BY ValuesDef
<1>2. \A w \in Nat : Values[w + 1] = Base * Values[w]
  <2> TAKE w \in Nat
  <2>1. w + 1 \in Nat /\ w + 1 # 0 /\ (w + 1) - 1 = w
    OBVIOUS
  <2>2. QED
    BY <1>1, <2>1
<1>3. \A w \in Nat : Values[w] > 0
  <2> DEFINE T == {w \in Nat : Values[w] > 0}
  <2>1. 0 \in T
    BY <1>1
  <2>2. ASSUME NEW w \in Nat, w \in T PROVE w + 1 \in T
    <3>1. Values[w] \in Nat /\ Values[w] > 0
      BY <2>2, ValuesDef
    <3>2. QED
      BY <1>2, <3>1, CodecAssumption
  <2> HIDE DEF T
  <2>3. \A w \in Nat : w \in T
    BY <2>1, <2>2, SetInduction
  <2>4. QED
    BY <2>3 DEF T
<1>4. QED
  BY <1>1, <1>2, <1>3, ValuesDef

\* What a quotient and a remainder are.
LEMMA Division ==
    ASSUME NEW n \in Nat, NEW d \in Nat, d > 0
    PROVE  /\ n \div d \in Nat /\ n % d \in Nat
           /\ n % d < d /\ n = d * (n \div d) + (n % d)
  OBVIOUS

\* A quotient is known by its remainder.
LEMMA Quotient ==
    ASSUME NEW n \in Nat, NEW d \in Nat, NEW q \in Nat, NEW r \in Nat, r < d, n = d * q + r
    PROVE  n \div d = q
<1>1. /\ n \div d \in Nat /\ n % d \in Nat /\ n % d < d
      /\ n = d * (n \div d) + (n % d)
  BY Division
<1> DEFINE k == n \div d
           t == n % d
<1>2. k \in Nat /\ t \in Nat /\ t < d /\ n = d * k + t
  BY <1>1
<1> HIDE DEF k, t
<1>3. ASSUME k > q PROVE FALSE
  <2>1. PICK e \in Nat : k = q + 1 + e
    <3>1. k - q - 1 \in Nat /\ k = q + 1 + (k - q - 1)
      BY <1>2, <1>3
    <3>2. QED
      BY <3>1
  <2>2. d * k = d * q + d + d * e
    BY <2>1
  <2>3. d * e \in Nat
    BY <2>1
  <2>4. QED
    BY <1>2, <2>2, <2>3
<1>4. ASSUME k < q PROVE FALSE
  <2>1. PICK e \in Nat : q = k + 1 + e
    <3>1. q - k - 1 \in Nat /\ q = k + 1 + (q - k - 1)
      BY <1>2, <1>4
    <3>2. QED
      BY <3>1
  <2>2. d * q = d * k + d + d * e
    BY <2>1, <1>2
  <2>3. d * e \in Nat
    BY <2>1
  <2>4. QED
    BY <1>2, <2>2, <2>3
<1>5. k = q
  BY <1>2, <1>3, <1>4
<1>6. QED
  BY <1>5 DEF k

\* To divide by a product is to divide by one factor and then by the other.
LEMMA DivideTwice ==
    ASSUME NEW n \in Nat, NEW b \in Nat, NEW p \in Nat, b > 0, p > 0
    PROVE  n \div (b * p) = (n \div p) \div b
<1> DEFINE k == n \div p
           r == n % p
           q == k \div b
           t == k % b
<1>1. k \in Nat /\ r \in Nat /\ r < p /\ n = p * k + r
  BY Division
<1>2. q \in Nat /\ t \in Nat /\ t < b /\ k = b * q + t
  BY <1>1, Division
<1> HIDE DEF k, r, q, t
<1>3. PICK e \in Nat : b = t + 1 + e
  <2>1. b - t - 1 \in Nat /\ b = t + 1 + (b - t - 1)
    BY <1>2
  <2>2. QED
    BY <2>1
<1>4. b * p = p * t + p + p * e
  BY <1>2, <1>3
<1>5. p * t \in Nat /\ p * e \in Nat /\ b * p \in Nat
  BY <1>2, <1>3
<1>6. p * t + r \in Nat /\ p * t + r < b * p
  BY <1>1, <1>4, <1>5
<1>7. n = (b * p) * q + (p * t + r)
  <2>1. p * (b * q + t) = p * (b * q) + p * t
    BY <1>2
  <2>2. p * (b * q) = (b * p) * q
    BY <1>2
  <2>3. n = p * (b * q + t) + r
    BY <1>1, <1>2
  <2>4. p * (b * q) \in Nat /\ p * t \in Nat
    BY <1>2
  <2>5. QED
    BY <2>1, <2>2, <2>3, <2>4, <1>1
<1>8. n \div (b * p) = q
  BY <1>2, <1>5, <1>6, <1>7, Quotient
<1>9. QED
  BY <1>8 DEF q, k

\* The bytes of a number that they can hold give the number back.
LEMMA Numbers ==
    ASSUME NEW n \in Nat, NEW w \in Nat, n < Values[w]
    PROVE  /\ ToBytes(n, w) \in Seq(Nat) /\ Len(ToBytes(n, w)) = w
           /\ FromBytes(ToBytes(n, w)) = n
<1> DEFINE s == ToBytes(n, w)
           up(i) == n \div Values[w - i]
<1>1. \A i \in 0 .. w : w - i \in Nat /\ up(i) \in Nat
  <2> TAKE i \in 0 .. w
  <2>1. w - i \in Nat
    OBVIOUS
  <2>2. Values[w - i] \in Nat /\ Values[w - i] > 0
    BY <2>1, ValuesFacts
  <2>3. QED
    BY <2>1, <2>2, Division
<1>2. \A i \in 1 .. w : up(i) % Base \in Nat
  <2> TAKE i \in 1 .. w
  <2>1. up(i) \in Nat
    BY <1>1
  <2> HIDE DEF up
  <2>2. QED
    BY <2>1, CodecAssumption, Division
<1>3. s = [i \in 1 .. w |-> up(i) % Base]
  BY DEF ToBytes
<1> HIDE DEF s
<1>4. s \in Seq(Nat) /\ Len(s) = w /\ \A i \in 1 .. w : s[i] = up(i) % Base
  <2> HIDE DEF up
  <2>1. s \in [1 .. w -> Nat]
    BY <1>2, <1>3
  <2>2. QED
    BY <2>1, <1>3
<1>5. \A i \in 1 .. w : up(i) = Base * up(i - 1) + s[i]
  <2> TAKE i \in 1 .. w
  <2>1. w - i \in Nat /\ w - (i - 1) = (w - i) + 1 /\ i \in 0 .. w
    OBVIOUS
  <2>2. Values[w - (i - 1)] = Base * Values[w - i] /\ Values[w - i] \in Nat /\ Values[w - i] > 0
    BY <2>1, ValuesFacts
  <2>3. up(i - 1) = up(i) \div Base
    <3> DEFINE p == Values[w - i]
    <3>1. p \in Nat /\ p > 0 /\ up(i - 1) = n \div (Base * p) /\ up(i) = n \div p
      BY <2>2
    <3>2. p \in Nat /\ p > 0
      BY <3>1
    <3>3. Base \in Nat /\ Base > 0
      BY CodecAssumption
    <3> HIDE DEF p, up
    <3>4. n \div (Base * p) = (n \div p) \div Base
      BY <3>2, <3>3, DivideTwice, Zenon
    <3>5. QED
      BY <3>1, <3>4
  <2>4. up(i) \in Nat
    BY <2>1, <1>1
  <2> HIDE DEF up
  <2>5. up(i) = Base * (up(i) \div Base) + (up(i) % Base)
    BY <2>4, CodecAssumption, Division
  <2>6. QED
    BY <2>3, <2>5, <1>4
<1>6. up(0) = 0
  <2>1. Values[w] \in Nat /\ Values[w] > 0
    BY ValuesFacts
  <2>2. n = Values[w] * 0 + n
    BY <2>1
  <2>3. n \div Values[w] = 0
    BY <2>1, <2>2, Quotient
  <2>4. QED
    BY <2>3
<1>7. up(w) = n
  <2>1. Values[w - w] = 1
    BY ValuesFacts
  <2>2. n = 1 * n + 0
    OBVIOUS
  <2>3. n \div 1 = n
    BY <2>2, Quotient
  <2>4. QED
    BY <2>1, <2>3
<1> DEFINE v == [i \in 0 .. w |-> up(i)]
<1> HIDE DEF up
<1>8. v = [i \in 0 .. w |-> IF i = 0 THEN 0 ELSE v[i - 1] * Base + s[i]]
  <2>1. ASSUME NEW i \in 0 .. w PROVE v[i] = IF i = 0 THEN 0 ELSE v[i - 1] * Base + s[i]
    <3>1. CASE i = 0
      BY <3>1, <1>6
    <3>2. CASE i # 0
      <4>1. i \in 1 .. w /\ i - 1 \in 0 .. w
        BY <3>2
      <4>2. v[i] = up(i) /\ v[i - 1] = up(i - 1)
        BY <4>1
      <4>3. up(i) = Base * up(i - 1) + s[i] /\ up(i - 1) \in Nat /\ s[i] \in Nat
        BY <4>1, <1>1, <1>5, <1>4
      <4> HIDE DEF v
      <4>4. QED
        BY <4>2, <4>3, <3>2, CodecAssumption
    <3>3. QED
      BY <3>1, <3>2
  <2> DEFINE x == [i \in 0 .. w |-> IF i = 0 THEN 0 ELSE v[i - 1] * Base + s[i]]
  <2>2. \A i \in 0 .. w : x[i] = v[i]
    BY <2>1
  <2>3. v = [i \in 0 .. w |-> v[i]]
    OBVIOUS
  <2> HIDE DEF v
  <2>4. QED
    BY <2>2, <2>3
<1> HIDE DEF v
<1> DEFINE value == CHOOSE f : f = [i \in 0 .. Len(s) |-> IF i = 0 THEN 0 ELSE f[i - 1] * Base + s[i]]
<1>9. value = [i \in 0 .. w |-> IF i = 0 THEN 0 ELSE value[i - 1] * Base + s[i]]
  BY <1>8, <1>4
<1>10. FromBytes(s) = value[w]
  BY <1>4 DEF FromBytes
<1> HIDE DEF value
<1>11. \A i \in Nat : i <= w => value[i] = up(i)
  <2> DEFINE T == {i \in Nat : i <= w => value[i] = up(i)}
  <2>1. 0 \in T
    BY <1>9, <1>6
  <2>2. ASSUME NEW i \in Nat, i \in T PROVE i + 1 \in T
    <3> SUFFICES ASSUME i + 1 <= w PROVE value[i + 1] = up(i + 1)
      OBVIOUS
    <3>1. i + 1 \in 1 .. w /\ i + 1 \in 0 .. w /\ (i + 1) - 1 = i /\ i + 1 # 0 /\ i \in 0 .. w
      OBVIOUS
    <3>2. value[i] = up(i)
      BY <2>2
    <3>3. value[i + 1] = value[i] * Base + s[i + 1]
      BY <1>9, <3>1
    <3>4. up(i + 1) = Base * up(i) + s[i + 1]
      BY <1>5, <3>1
    <3>5. up(i) \in Nat /\ s[i + 1] \in Nat
      BY <1>1, <1>4, <3>1
    <3>6. QED
      BY <3>2, <3>3, <3>4, <3>5, CodecAssumption
  <2> HIDE DEF T
  <2>3. \A i \in Nat : i \in T
    BY <2>1, <2>2, SetInduction
  <2>4. QED
    BY <2>3 DEF T
<1>12. FromBytes(s) = n
  BY <1>7, <1>10, <1>11
<1>13. QED
  BY <1>4, <1>12 DEF s
-----------------------------------------------------------------------------
(* Sequences of bytes *)

\* A sequence of some values is one of more values.
LEMMA SeqOf ==
    ASSUME NEW S, NEW T, S \subseteq T, NEW x \in Seq(S)
    PROVE  x \in Seq(T)
<1>1. Len(x) \in Nat /\ x \in [1 .. Len(x) -> S]
  OBVIOUS
<1>2. x \in [1 .. Len(x) -> T]
  BY <1>1
<1>3. QED
  BY <1>1, <1>2

\* What x \o y is, byte by byte.
LEMMA Concat ==
    ASSUME NEW x \in Seq(Nat), NEW y \in Seq(Nat)
    PROVE  /\ x \o y \in Seq(Nat) /\ Len(x \o y) = Len(x) + Len(y)
           /\ \A i \in 1 .. Len(x) : (x \o y)[i] = x[i]
           /\ \A i \in 1 .. Len(y) : (x \o y)[Len(x) + i] = y[i]
  OBVIOUS

\* Concatenation is associative.
LEMMA Associative ==
    ASSUME NEW x \in Seq(Nat), NEW y \in Seq(Nat), NEW z \in Seq(Nat)
    PROVE  (x \o y) \o z = x \o (y \o z)
  OBVIOUS

\* Sequences with the same bytes are the same.
LEMMA SameBytes ==
    ASSUME NEW x \in Seq(Nat), NEW y \in Seq(Nat), Len(x) = Len(y),
           \A i \in 1 .. Len(x) : x[i] = y[i]
    PROVE  x = y
  OBVIOUS

\* What a piece of a sequence is, byte by byte.
LEMMA Piece ==
    ASSUME NEW x \in Seq(Nat), NEW i \in Nat, i > 0, NEW j \in Nat, j <= Len(x), i <= j + 1
    PROVE  /\ SubSeq(x, i, j) \in Seq(Nat) /\ Len(SubSeq(x, i, j)) = j - i + 1
           /\ \A k \in 1 .. j - i + 1 : SubSeq(x, i, j)[k] = x[i - 1 + k]
  OBVIOUS

\* The piece in front of a cut.
LEMMA Front ==
    ASSUME NEW x \in Seq(Nat), NEW n \in Nat, n <= Len(x)
    PROVE  /\ SubSeq(x, 1, n) \in Seq(Nat) /\ Len(SubSeq(x, 1, n)) = n
           /\ \A k \in 1 .. n : SubSeq(x, 1, n)[k] = x[k]
<1> DEFINE a == SubSeq(x, 1, n)
<1>1. 1 \in Nat /\ 1 > 0 /\ 1 <= n + 1
  OBVIOUS
<1>2. /\ a \in Seq(Nat) /\ Len(a) = n - 1 + 1
      /\ \A k \in 1 .. n - 1 + 1 : a[k] = x[1 - 1 + k]
  BY <1>1, Piece
<1>3. n - 1 + 1 = n /\ \A k \in 1 .. n : 1 - 1 + k = k
  OBVIOUS
<1> HIDE DEF a
<1>4. a \in Seq(Nat) /\ Len(a) = n /\ \A k \in 1 .. n : a[k] = x[k]
  BY <1>2, <1>3
<1>5. QED
  BY <1>4 DEF a

\* The piece behind it.
LEMMA Back ==
    ASSUME NEW x \in Seq(Nat), NEW n \in Nat, n <= Len(x)
    PROVE  /\ SubSeq(x, n + 1, Len(x)) \in Seq(Nat)
           /\ Len(SubSeq(x, n + 1, Len(x))) = Len(x) - n
           /\ \A k \in 1 .. Len(x) - n : SubSeq(x, n + 1, Len(x))[k] = x[n + k]
<1> DEFINE i == n + 1
           j == Len(x)
<1>1. /\ i \in Nat /\ i > 0 /\ j \in Nat /\ j <= Len(x) /\ i <= j + 1
      /\ j - i + 1 = Len(x) - n /\ \A k \in 1 .. Len(x) - n : i - 1 + k = n + k
  OBVIOUS
<1> HIDE DEF i, j
<1>2. /\ SubSeq(x, i, j) \in Seq(Nat) /\ Len(SubSeq(x, i, j)) = j - i + 1
      /\ \A k \in 1 .. j - i + 1 : SubSeq(x, i, j)[k] = x[i - 1 + k]
  BY <1>1, Piece
<1> DEFINE b == SubSeq(x, i, j)
<1> HIDE DEF b
<1>3. b \in Seq(Nat) /\ Len(b) = Len(x) - n /\ \A k \in 1 .. Len(x) - n : b[k] = x[n + k]
  BY <1>1, <1>2 DEF b
<1>4. QED
  BY <1>3 DEF b, i, j

\* What is cut where it was put together comes apart again.
LEMMA Halves ==
    ASSUME NEW x \in Seq(Nat), NEW y \in Seq(Nat)
    PROVE  /\ SubSeq(x \o y, 1, Len(x)) = x
           /\ SubSeq(x \o y, Len(x) + 1, Len(x \o y)) = y
<1> DEFINE z == x \o y
           n == Len(x)
           a == SubSeq(z, 1, n)
           b == SubSeq(z, n + 1, Len(z))
<1>1. /\ z \in Seq(Nat) /\ Len(z) = n + Len(y) /\ n \in Nat /\ Len(y) \in Nat
      /\ \A i \in 1 .. n : z[i] = x[i]
      /\ \A i \in 1 .. Len(y) : z[n + i] = y[i]
  BY Concat
<1> HIDE DEF z
<1>2. n \in Nat /\ n <= Len(z)
  BY <1>1
<1>3. a \in Seq(Nat) /\ Len(a) = n /\ \A k \in 1 .. n : a[k] = z[k]
  BY <1>1, <1>2, Front
<1>4. b \in Seq(Nat) /\ Len(b) = Len(z) - n /\ \A k \in 1 .. Len(z) - n : b[k] = z[n + k]
  BY <1>1, <1>2, Back
<1>5. Len(z) - n = Len(y)
  BY <1>1
<1> HIDE DEF a, b
<1>6. a = x
  <2>1. \A k \in 1 .. n : a[k] = x[k]
    BY <1>1, <1>3
  <2>2. QED
    BY <1>3, <2>1, SameBytes
<1>7. b = y
  <2>1. \A k \in 1 .. Len(y) : b[k] = y[k]
    BY <1>1, <1>4, <1>5
  <2>2. QED
    BY <1>4, <1>5, <2>1, SameBytes
<1>8. QED
  BY <1>6, <1>7 DEF a, b, z

\* What is cut in two can be put together again.
LEMMA Parts ==
    ASSUME NEW x \in Seq(Nat), NEW n \in Nat, n <= Len(x)
    PROVE  SubSeq(x, 1, n) \o SubSeq(x, n + 1, Len(x)) = x
<1> DEFINE a == SubSeq(x, 1, n)
           b == SubSeq(x, n + 1, Len(x))
<1>1. Len(x) \in Nat
  OBVIOUS
<1>2. a \in Seq(Nat) /\ Len(a) = n /\ \A k \in 1 .. n : a[k] = x[k]
  BY Front
<1>3. b \in Seq(Nat) /\ Len(b) = Len(x) - n /\ \A k \in 1 .. Len(x) - n : b[k] = x[n + k]
  BY Back
<1> HIDE DEF a, b
<1>4. /\ a \o b \in Seq(Nat) /\ Len(a \o b) = Len(a) + Len(b)
      /\ \A i \in 1 .. Len(a) : (a \o b)[i] = a[i]
      /\ \A i \in 1 .. Len(b) : (a \o b)[Len(a) + i] = b[i]
  BY <1>2, <1>3, Concat
<1>5. Len(a \o b) = Len(x)
  BY <1>1, <1>2, <1>3, <1>4
<1>6. \A k \in 1 .. Len(x) : (a \o b)[k] = x[k]
  <2> TAKE k \in 1 .. Len(x)
  <2>1. CASE k \in 1 .. n
    BY <1>2, <1>4, <2>1
  <2>2. CASE k \notin 1 .. n
    <3> DEFINE j == k - n
    <3>1. j \in 1 .. Len(x) - n /\ k = n + j
      BY <1>1, <2>2
    <3> HIDE DEF j
    <3>2. (a \o b)[k] = b[j]
      BY <1>2, <1>3, <1>4, <3>1
    <3>3. QED
      BY <1>3, <3>1, <3>2
  <2>3. QED
    BY <2>1, <2>2
<1>7. a \o b = x
  BY <1>4, <1>5, <1>6, SameBytes
<1>8. QED
  BY <1>7 DEF a, b

\* To drop bytes in front and to add some behind are independent.
LEMMA Drop ==
    ASSUME NEW x \in Seq(Nat), NEW y \in Seq(Nat), NEW n \in Nat, n <= Len(x)
    PROVE  SubSeq(x, n + 1, Len(x)) \o y = SubSeq(x \o y, n + 1, Len(x \o y))
<1> DEFINE a == SubSeq(x, 1, n)
           b == SubSeq(x, n + 1, Len(x))
<1>1. a \in Seq(Nat) /\ Len(a) = n /\ b \in Seq(Nat) /\ a \o b = x
  BY Front, Back, Parts
<1> HIDE DEF a, b
<1>2. b \o y \in Seq(Nat)
  BY <1>1, Concat
<1>3. a \o (b \o y) = x \o y
  BY <1>1, Associative
<1>4. SubSeq(a \o (b \o y), Len(a) + 1, Len(a \o (b \o y))) = b \o y
  BY <1>1, <1>2, Halves
<1>5. SubSeq(x \o y, n + 1, Len(x \o y)) = b \o y
  BY <1>1, <1>3, <1>4
<1>6. QED
  BY <1>5 DEF b

-----------------------------------------------------------------------------
(* The codec *)

\* The length of a frame.
Size(m) == HEADER_SIZE + Len(Payload(m))

\* What can be sent (MessagesAssumption), field by field.
LEMMA MessageFacts ==
    ASSUME NEW m \in Messages
    PROVE  /\ m.type \in MessageTypes /\ m.type \in Nat
           /\ m.id \in Nat /\ m.id < Values[IdBytes] /\ m.body \in Seq(Nat)
           /\ m = [type |-> m.type, id |-> m.id, body |-> m.body]
           /\ m.type # Data => m.id = 0
           /\ m.type \in JsonTypes => m.body \in Json
           /\ m.type \in {Ping, Pong} => m.body = <<>>
           /\ Len(Payload(m)) < Values[LengthBytes]
<1>1. m \in [type : MessageTypes, id : Nat, body : Seq(0 .. Base - 1)]
  BY MessagesAssumption
<1>2. m.body \in Seq(Nat)
  <2>1. m.body \in Seq(0 .. Base - 1)
    BY <1>1
  <2>2. 0 .. Base - 1 \subseteq Nat
    BY CodecAssumption
  <2>3. QED
    BY <2>1, <2>2, SeqOf
<1>3. m.type \in MessageTypes /\ m.id \in Nat
      /\ m = [type |-> m.type, id |-> m.id, body |-> m.body]
  BY <1>1
<1>4. m.type \in Nat
  BY <1>3 DEF MessageTypes, JsonTypes, Data, Ping, Pong
<1>5. QED
  BY <1>2, <1>3, <1>4, MessagesAssumption

\* The sizes of the header and of its fields.
LEMMA Header ==
    /\ HEADER_SIZE \in Nat /\ HEADER_SIZE = LengthBytes + 1 + ReservedBytes
    /\ LengthBytes \in Nat /\ ReservedBytes \in Nat /\ IdBytes \in Nat /\ MAX_FRAME_SIZE \in Nat
  BY CodecAssumption DEF HEADER_SIZE

\* A payload is the body, or id and body.
LEMMA PayloadFacts ==
    ASSUME NEW m \in Messages
    PROVE  /\ Payload(m) \in Seq(Nat) /\ Len(Payload(m)) \in Nat
           /\ m.type # Data => Payload(m) = m.body
           /\ m.type = Data =>
                 /\ IdBytes <= Len(Payload(m))
                 /\ SubSeq(Payload(m), 1, IdBytes) = ToBytes(m.id, IdBytes)
                 /\ SubSeq(Payload(m), IdBytes + 1, Len(Payload(m))) = m.body
<1>1. m.body \in Seq(Nat) /\ m.id \in Nat /\ m.id < Values[IdBytes]
  BY MessageFacts
<1>2. CASE m.type # Data
  BY <1>1, <1>2 DEF Payload
<1>3. CASE m.type = Data
  <2> DEFINE x == ToBytes(m.id, IdBytes)
             y == m.body
  <2>1. x \in Seq(Nat) /\ Len(x) = IdBytes
    BY <1>1, Numbers, Header
  <2>2. Payload(m) = x \o y
    BY <1>3 DEF Payload
  <2>3. y \in Seq(Nat)
    BY <1>1
  <2> HIDE DEF x, y
  <2>4. Len(x \o y) = Len(x) + Len(y) /\ x \o y \in Seq(Nat) /\ Len(y) \in Nat
    <3>1. Len(x \o y) = Len(x) + Len(y) /\ x \o y \in Seq(Nat)
      BY <2>1, <2>3, Concat
    <3>2. Len(y) \in Nat
      BY <2>3
    <3>3. QED
      BY <3>1, <3>2
  <2>5. SubSeq(x \o y, 1, Len(x)) = x /\ SubSeq(x \o y, Len(x) + 1, Len(x \o y)) = y
    BY <2>1, <2>3, Halves
  <2>6. Payload(m) \in Seq(Nat) /\ IdBytes <= Len(Payload(m)) /\ Len(Payload(m)) \in Nat
    BY <2>1, <2>2, <2>4, Header
  <2>7. SubSeq(Payload(m), 1, IdBytes) = x /\ SubSeq(Payload(m), IdBytes + 1, Len(Payload(m))) = y
    BY <2>1, <2>2, <2>5
  <2>8. QED
    BY <1>3, <2>6, <2>7 DEF x, y
<1>4. QED
  BY <1>2, <1>3

\* A frame: the length, the type, and after the header the payload.
LEMMA EncodeFacts ==
    ASSUME NEW m \in Messages
    PROVE  /\ encode(m) \in Seq(Nat) /\ Len(encode(m)) = Size(m) /\ Size(m) \in Nat
           /\ Size(m) > 0
           /\ SubSeq(encode(m), 1, LengthBytes) = ToBytes(Len(Payload(m)), LengthBytes)
           /\ encode(m)[LengthBytes + 1] = m.type
           /\ SubSeq(encode(m), HEADER_SIZE + 1, Size(m)) = Payload(m)
<1> DEFINE l == ToBytes(Len(Payload(m)), LengthBytes)
           t == <<m.type>>
           r == ToBytes(0, ReservedBytes)
           p == Payload(m)
<1>1. l \in Seq(Nat) /\ Len(l) = LengthBytes
  <2>1. Len(Payload(m)) \in Nat /\ Len(Payload(m)) < Values[LengthBytes]
    BY MessageFacts, PayloadFacts
  <2>2. QED
    BY <2>1, Header, Numbers
<1>2. t \in Seq(Nat) /\ Len(t) = 1 /\ t[1] = m.type
  BY MessageFacts
<1>3. r \in Seq(Nat) /\ Len(r) = ReservedBytes
  <2>1. 0 < Values[ReservedBytes]
    BY Header, ValuesFacts
  <2>2. QED
    BY <2>1, Header, Numbers
<1>4. p \in Seq(Nat) /\ Len(p) \in Nat
  BY PayloadFacts
<1>5. encode(m) = ((l \o t) \o r) \o p
  BY DEF encode
<1>6. Size(m) = HEADER_SIZE + Len(p)
  BY DEF Size
<1> DEFINE u == l \o t
<1> DEFINE h == u \o r
<1> HIDE DEF l, t, r, p
<1>7. /\ u \in Seq(Nat) /\ Len(u) = LengthBytes + 1
      /\ \A i \in 1 .. LengthBytes : u[i] = l[i]
      /\ u[LengthBytes + 1] = m.type
  <2>1. /\ l \o t \in Seq(Nat) /\ Len(l \o t) = Len(l) + Len(t)
        /\ \A i \in 1 .. Len(l) : (l \o t)[i] = l[i]
        /\ \A i \in 1 .. Len(t) : (l \o t)[Len(l) + i] = t[i]
    BY <1>1, <1>2, Concat
  <2>2. QED
    BY <1>1, <1>2, <2>1
<1> HIDE DEF u
<1>8. /\ h \in Seq(Nat) /\ Len(h) = HEADER_SIZE
      /\ \A i \in 1 .. LengthBytes + 1 : h[i] = u[i]
  <2>1. /\ u \o r \in Seq(Nat) /\ Len(u \o r) = Len(u) + Len(r)
        /\ \A i \in 1 .. Len(u) : (u \o r)[i] = u[i]
    BY <1>3, <1>7, Concat
  <2>2. Len(u) + Len(r) = HEADER_SIZE
    BY <1>3, <1>7, Header
  <2>3. QED
    BY <1>7, <2>1, <2>2
<1> HIDE DEF h
<1> DEFINE f == h \o p
<1>9. /\ f \in Seq(Nat) /\ Len(f) = HEADER_SIZE + Len(p)
      /\ \A i \in 1 .. HEADER_SIZE : f[i] = h[i]
  BY <1>4, <1>8, Concat
<1>10. SubSeq(f, HEADER_SIZE + 1, HEADER_SIZE + Len(p)) = p
  BY <1>4, <1>8, <1>9, Halves
<1>11. encode(m) = f
  BY <1>5 DEF h, u
<1> HIDE DEF f
<1>12. SubSeq(f, 1, LengthBytes) = l
  <2>0. LengthBytes \in Nat /\ LengthBytes <= Len(f)
    BY <1>4, <1>9, Header
  <2>1. /\ SubSeq(f, 1, LengthBytes) \in Seq(Nat) /\ Len(SubSeq(f, 1, LengthBytes)) = LengthBytes
        /\ \A k \in 1 .. LengthBytes : SubSeq(f, 1, LengthBytes)[k] = f[k]
    BY <1>9, <2>0, Front
  <2>2. \A k \in 1 .. LengthBytes : f[k] = l[k]
    <3> TAKE k \in 1 .. LengthBytes
    <3>1. k \in 1 .. LengthBytes + 1 /\ k \in 1 .. HEADER_SIZE
      BY Header
    <3>2. f[k] = h[k]
      BY <3>1, <1>9
    <3>3. h[k] = u[k]
      BY <3>1, <1>8
    <3>4. u[k] = l[k]
      BY <1>7
    <3>5. QED
      BY <3>2, <3>3, <3>4
  <2>3. QED
    BY <2>1, <2>2, <1>1, SameBytes
<1>13. f[LengthBytes + 1] = m.type
  <2>1. LengthBytes + 1 \in 1 .. LengthBytes + 1 /\ LengthBytes + 1 \in 1 .. HEADER_SIZE
    BY Header
  <2>2. f[LengthBytes + 1] = h[LengthBytes + 1]
    BY <1>9, <2>1
  <2>3. h[LengthBytes + 1] = u[LengthBytes + 1]
    BY <1>8, <2>1
  <2>4. QED
    BY <1>7, <2>2, <2>3
<1>14. HEADER_SIZE + Len(p) \in Nat /\ HEADER_SIZE + Len(p) > 0
  BY <1>4, Header
<1>15. QED
  BY <1>6, <1>9, <1>10, <1>11, <1>12, <1>13, <1>14 DEF l, p

\* Sequence s begins with frame f, as far as it goes.
Begins(s, f) == \A j \in 1 .. Len(f) : j <= Len(s) => s[j] = f[j]

\* A piece of a frame, of a sequence that has all of it.
LEMMA SamePiece ==
    ASSUME NEW s \in Seq(Nat), NEW f \in Seq(Nat), Begins(s, f),
           NEW i \in Nat, i > 0, NEW j \in Nat, i <= j + 1, j <= Len(s), j <= Len(f)
    PROVE  SubSeq(s, i, j) = SubSeq(f, i, j)
<1>1. \A k \in 1 .. j - i + 1 : s[i - 1 + k] = f[i - 1 + k]
  <2> TAKE k \in 1 .. j - i + 1
  <2>1. i - 1 + k \in 1 .. Len(f) /\ i - 1 + k <= Len(s)
    OBVIOUS
  <2>2. QED
    BY <2>1 DEF Begins
<1>2. /\ SubSeq(s, i, j) \in Seq(Nat) /\ Len(SubSeq(s, i, j)) = j - i + 1
      /\ \A k \in 1 .. j - i + 1 : SubSeq(s, i, j)[k] = s[i - 1 + k]
  BY Piece
<1>3. /\ SubSeq(f, i, j) \in Seq(Nat) /\ Len(SubSeq(f, i, j)) = j - i + 1
      /\ \A k \in 1 .. j - i + 1 : SubSeq(f, i, j)[k] = f[i - 1 + k]
  BY Piece
<1>4. QED
  BY <1>1, <1>2, <1>3, SameBytes

\* What Parse makes of the payload of a message.
LEMMA ParseFacts ==
    ASSUME NEW m \in Messages, NEW rest
    PROVE  Parse(m.type, Payload(m), rest) = Some(m, rest)
<1>0. m.type \in MessageTypes
  BY MessageFacts
<1>1. CASE m.type \in JsonTypes
  <2>1. m.type # Data /\ m.body \in Json /\ m.id = 0
    BY <1>1, MessageFacts DEF JsonTypes, Data
  <2>2. Payload(m) = m.body
    BY <2>1, PayloadFacts
  <2>3. Control(m.type, m.body) = m
    BY <2>1, MessageFacts DEF Control
  <2>4. QED
    BY <1>1, <2>1, <2>2, <2>3 DEF Parse, JsonTypes, Data, Ping, Pong
<1>2. CASE m.type \in {Ping, Pong}
  <2>1. m.type # Data /\ m.type \notin JsonTypes /\ m.body = <<>> /\ m.id = 0
    BY <1>2, MessageFacts DEF JsonTypes, Data, Ping, Pong
  <2>2. Control(m.type, <<>>) = m
    BY <2>1, MessageFacts DEF Control
  <2>3. QED
    BY <1>2, <2>1, <2>2 DEF Parse
<1>3. CASE m.type = Data
  <2>1. m.type \notin JsonTypes
    BY <1>3 DEF JsonTypes, Data
  <2>2. Parse(m.type, Payload(m), rest) = DecodeData(Payload(m), rest)
    BY <1>3, <2>1 DEF Parse, Data, Ping, Pong
  <2>3. /\ IdBytes <= Len(Payload(m)) /\ Len(Payload(m)) \in Nat
        /\ SubSeq(Payload(m), 1, IdBytes) = ToBytes(m.id, IdBytes)
        /\ SubSeq(Payload(m), IdBytes + 1, Len(Payload(m))) = m.body
    BY <1>3, PayloadFacts
  <2>4. FromBytes(ToBytes(m.id, IdBytes)) = m.id
    BY MessageFacts, Header, Numbers
  <2>5. ~(Len(Payload(m)) < IdBytes)
    BY <2>3, Header
  <2>6. DecodeData(Payload(m), rest)
          = Some([type |-> Data, id |-> m.id, body |-> m.body], rest)
    BY <2>3, <2>4, <2>5 DEF DecodeData
  <2>7. QED
    BY <1>3, <2>2, <2>6, MessageFacts
<1>4. QED
  BY <1>0, <1>1, <1>2, <1>3 DEF MessageTypes

\* decode inverts encode, however much of the frame, or of what follows it, is
\* in the buffer.
LEMMA DecodeFrame ==
    ASSUME NEW m \in Messages, NEW s \in Seq(Nat), Begins(s, encode(m))
    PROVE  /\ Len(s) < HEADER_SIZE => decode(s) = None(s)
           /\ Len(s) >= HEADER_SIZE /\ TooLarge(m) => decode(s) = Err(s)
           /\ Len(s) >= HEADER_SIZE /\ ~TooLarge(m) /\ Len(s) < Size(m) => decode(s) = None(s)
           /\ Len(s) >= Size(m) /\ ~TooLarge(m) =>
                 decode(s) = Some(m, SubSeq(s, Size(m) + 1, Len(s)))
<1> DEFINE f == encode(m)
           length == FromBytes(SubSeq(s, 1, LengthBytes))
<1>1. /\ f \in Seq(Nat) /\ Len(f) = Size(m) /\ Size(m) \in Nat
      /\ SubSeq(f, 1, LengthBytes) = ToBytes(Len(Payload(m)), LengthBytes)
      /\ f[LengthBytes + 1] = m.type
      /\ SubSeq(f, HEADER_SIZE + 1, Size(m)) = Payload(m)
  BY EncodeFacts
<1>2. Len(Payload(m)) \in Nat /\ Len(Payload(m)) < Values[LengthBytes]
  BY PayloadFacts, MessageFacts
<1>3. Begins(s, f)
  OBVIOUS
<1>4. Size(m) = HEADER_SIZE + Len(Payload(m))
  BY DEF Size
<1>5. Len(s) \in Nat
  OBVIOUS
<1> HIDE DEF f
<1>6. ASSUME Len(s) >= HEADER_SIZE PROVE length = Len(Payload(m)) /\ s[LengthBytes + 1] = m.type
  <2>1. LengthBytes <= Len(s) /\ LengthBytes <= Len(f) /\ 1 <= LengthBytes + 1
    BY <1>1, <1>2, <1>4, <1>6, Header
  <2>0. 1 \in Nat /\ 1 > 0 /\ LengthBytes \in Nat
    BY Header
  <2>2. SubSeq(s, 1, LengthBytes) = SubSeq(f, 1, LengthBytes)
    BY <2>0, <2>1, <1>1, <1>3, SamePiece
  <2>3. FromBytes(ToBytes(Len(Payload(m)), LengthBytes)) = Len(Payload(m))
    BY <1>2, Header, Numbers
  <2>4. LengthBytes + 1 \in 1 .. Len(f) /\ LengthBytes + 1 <= Len(s)
    BY <1>1, <1>2, <1>4, <1>6, Header
  <2>5. s[LengthBytes + 1] = f[LengthBytes + 1]
    BY <2>4, <1>3 DEF Begins
  <2>6. QED
    BY <2>2, <2>3, <2>5, <1>1
<1>7. decode(s) =
        IF Len(s) < HEADER_SIZE THEN None(s)
        ELSE IF length > MAX_FRAME_SIZE THEN Err(s)
        ELSE IF Len(s) < HEADER_SIZE + length THEN None(s)
        ELSE IF s[LengthBytes + 1] \notin MessageTypes THEN Err(s)
        ELSE Parse(s[LengthBytes + 1], SubSeq(s, HEADER_SIZE + 1, HEADER_SIZE + length),
                   SubSeq(s, HEADER_SIZE + length + 1, Len(s)))
  BY DEF decode
<1> HIDE DEF length
<1>8. TooLarge(m) <=> Len(Payload(m)) > MAX_FRAME_SIZE
  BY DEF TooLarge
<1>9. Len(s) < HEADER_SIZE => decode(s) = None(s)
  BY <1>7
<1>10. ASSUME Len(s) >= HEADER_SIZE, TooLarge(m) PROVE decode(s) = Err(s)
  <2>1. ~(Len(s) < HEADER_SIZE)
    BY <1>10, <1>5, Header
  <2>2. QED
    BY <2>1, <1>6, <1>7, <1>8, <1>10
<1>11. ASSUME Len(s) >= HEADER_SIZE, ~TooLarge(m), Len(s) < Size(m) PROVE decode(s) = None(s)
  <2>1. ~(Len(s) < HEADER_SIZE) /\ ~(length > MAX_FRAME_SIZE) /\ Len(s) < HEADER_SIZE + length
    BY <1>4, <1>5, <1>6, <1>8, <1>11, Header
  <2>2. QED
    BY <2>1, <1>7
<1>12. ASSUME Len(s) >= Size(m), ~TooLarge(m)
       PROVE  decode(s) = Some(m, SubSeq(s, Size(m) + 1, Len(s)))
  <2>1. Len(s) >= HEADER_SIZE
    BY <1>2, <1>4, <1>5, <1>12, Header
  <2>2. length = Len(Payload(m)) /\ s[LengthBytes + 1] = m.type
    BY <1>6, <2>1
  <2>3. ~(Len(s) < HEADER_SIZE) /\ ~(length > MAX_FRAME_SIZE) /\ ~(Len(s) < HEADER_SIZE + length)
    BY <1>2, <1>4, <1>5, <1>8, <1>12, <2>1, <2>2, Header
  <2>4. m.type \in MessageTypes
    BY MessageFacts
  <2>5. decode(s) = Parse(m.type, SubSeq(s, HEADER_SIZE + 1, Size(m)), SubSeq(s, Size(m) + 1, Len(s)))
    BY <1>4, <1>7, <2>2, <2>3, <2>4
  <2>6. SubSeq(s, HEADER_SIZE + 1, Size(m)) = Payload(m)
    <3>1. HEADER_SIZE + 1 \in Nat /\ HEADER_SIZE + 1 > 0 /\ HEADER_SIZE + 1 <= Size(m) + 1
      BY <1>2, <1>4, Header
    <3>2. Size(m) <= Len(s) /\ Size(m) <= Len(f)
      BY <1>1, <1>5, <1>12
    <3>3. QED
      BY <1>1, <1>3, <3>1, <3>2, SamePiece
  <2>7. QED
    BY <2>5, <2>6, ParseFacts
<1>13. QED
  BY <1>9, <1>10, <1>11, <1>12

\* With nothing in the buffer decode waits.
LEMMA DecodeEmpty == decode(<<>>) = None(<<>>)
<1>1. Len(<<>>) = 0 /\ 0 < HEADER_SIZE
  BY Header
<1>2. QED
  BY <1>1 DEF decode

-----------------------------------------------------------------------------
(* The bytes that Framed has yet to decode *)

\* Of the messages ms the first d are decoded, and s begins with the frames of
\* the others and has nothing else: the frame of message i ends at c[i].
Fits(ms, d, s, c) ==
    /\ c \in [d .. Len(ms) -> Nat] /\ c[d] = 0
    /\ \A i \in d + 1 .. Len(ms) : c[i] = c[i - 1] + Size(ms[i])
    /\ \A i, j \in d .. Len(ms) : i <= j => c[i] <= c[j]
    /\ \A i \in d + 1 .. Len(ms) : \A k \in 1 .. Size(ms[i]) :
          c[i - 1] + k <= Len(s) => s[c[i - 1] + k] = encode(ms[i])[k]
    /\ Len(s) <= c[Len(ms)]

\* Byte k of a frame that begins after byte a.
LEMMA Within ==
    ASSUME NEW a \in Nat, NEW k \in Nat, k > 0, NEW n \in Nat, a + k <= n
    PROVE  a + k \in 1 .. n
  OBVIOUS

\* The same byte, when the first z bytes have gone.
LEMMA Shift ==
    ASSUME NEW b \in Nat, NEW z \in Nat, z <= b, NEW k \in Nat, k > 0,
           NEW n \in Nat, z <= n, NEW a, a = b - z, a + k <= n - z
    PROVE  a + k \in 1 .. n - z /\ b + k <= n /\ z + (a + k) = b + k
  OBVIOUS

\* A message is sent after all the others.
LEMMA FitsSend ==
    ASSUME NEW ms \in Seq(Messages), NEW d \in Nat, d <= Len(ms), NEW s \in Seq(Nat), NEW c,
           Fits(ms, d, s, c), Len(s) = c[Len(ms)], NEW m \in Messages
    PROVE  \E e : /\ Fits(Append(ms, m), d, s \o encode(m), e)
                  /\ Len(s \o encode(m)) = e[Len(Append(ms, m))]
<1> DEFINE n  == Len(ms)
           ns == Append(ms, m)
           f  == encode(m)
           t  == s \o f
           e  == [i \in d .. n + 1 |-> IF i = n + 1 THEN Len(t) ELSE c[i]]
<1>1. n \in Nat /\ d <= n
  OBVIOUS
<1>2. /\ ns \in Seq(Messages) /\ Len(ns) = n + 1
      /\ \A i \in 1 .. n : ns[i] = ms[i]
      /\ ns[n + 1] = m
  OBVIOUS
<1>3. f \in Seq(Nat) /\ Len(f) = Size(m) /\ Size(m) \in Nat
  BY EncodeFacts
<1>4. Len(s) \in Nat /\ c[n] = Len(s)
  OBVIOUS
<1> HIDE DEF f
<1>5. /\ t \in Seq(Nat) /\ Len(t) = c[n] + Size(m)
      /\ \A i \in 1 .. Len(s) : t[i] = s[i]
      /\ \A k \in 1 .. Size(m) : t[c[n] + k] = f[k]
  <2>1. /\ s \o f \in Seq(Nat) /\ Len(s \o f) = Len(s) + Len(f)
        /\ \A i \in 1 .. Len(s) : (s \o f)[i] = s[i]
        /\ \A i \in 1 .. Len(f) : (s \o f)[Len(s) + i] = f[i]
    BY <1>3, Concat
  <2>2. QED
    BY <1>3, <1>4, <2>1
<1>6. /\ c \in [d .. n -> Nat] /\ c[d] = 0
      /\ \A i \in d + 1 .. n : c[i] = c[i - 1] + Size(ms[i])
      /\ \A i, j \in d .. n : i <= j => c[i] <= c[j]
      /\ \A i \in d + 1 .. n : \A k \in 1 .. Size(ms[i]) :
            c[i - 1] + k <= Len(s) => s[c[i - 1] + k] = encode(ms[i])[k]
  BY DEF Fits
<1>7. \A i \in 1 .. n : Size(ms[i]) \in Nat
  <2> TAKE i \in 1 .. n
  <2>1. ms[i] \in Messages
    OBVIOUS
  <2>2. QED
    BY <2>1, EncodeFacts
<1> HIDE DEF n, ns, t
<1>8. Len(t) \in Nat
  BY <1>5
<1>9. e \in [d .. n + 1 -> Nat]
  BY <1>1, <1>6, <1>8
<1>10. /\ \A i \in d .. n : e[i] = c[i]
       /\ e[n + 1] = Len(t)
  <2>1. \A i \in d .. n : i \in d .. n + 1 /\ i # n + 1
    BY <1>1
  <2>2. n + 1 \in d .. n + 1
    BY <1>1
  <2>3. QED
    BY <2>1, <2>2
<1> HIDE DEF e
<1>11. e[d] = 0
  BY <1>1, <1>6, <1>10
<1>12. \A i \in d + 1 .. n + 1 : e[i] = e[i - 1] + Size(ns[i])
  <2> TAKE i \in d + 1 .. n + 1
  <2>1. CASE i = n + 1
    <3>1. i - 1 = n /\ n \in d .. n
      BY <1>1, <2>1
    <3>2. QED
      BY <1>2, <1>5, <1>10, <2>1, <3>1
  <2>2. CASE i # n + 1
    <3>1. i \in d + 1 .. n /\ i \in d .. n /\ i - 1 \in d .. n /\ i \in 1 .. n
      BY <1>1, <2>2
    <3>2. QED
      BY <1>2, <1>6, <1>10, <3>1
  <2>3. QED
    BY <2>1, <2>2
<1>13. \A i, j \in d .. n + 1 : i <= j => e[i] <= e[j]
  <2> TAKE i, j \in d .. n + 1
  <2> HAVE i <= j
  <2>1. CASE j # n + 1
    <3>1. i \in d .. n /\ j \in d .. n
      BY <1>1, <2>1
    <3>2. QED
      BY <1>6, <1>10, <3>1
  <2>2. CASE j = n + 1 /\ i # n + 1
    <3>1. i \in d .. n /\ n \in d .. n /\ i <= n
      BY <1>1, <2>2
    <3>2. c[i] <= c[n] /\ c[i] \in Nat /\ c[n] \in Nat
      BY <1>6, <3>1
    <3>3. QED
      BY <1>3, <1>5, <1>10, <2>2, <3>1, <3>2
  <2>3. CASE j = n + 1 /\ i = n + 1
    BY <2>3, <1>8, <1>10
  <2>4. QED
    BY <2>1, <2>2, <2>3
<1>14. ASSUME NEW i \in d + 1 .. n + 1, NEW k \in 1 .. Size(ns[i]), e[i - 1] + k <= Len(t)
       PROVE  t[e[i - 1] + k] = encode(ns[i])[k]
  <2>1. CASE i = n + 1
    <3>1. i - 1 = n /\ n \in d .. n
      BY <1>1, <2>1
    <3>2. ns[i] = m /\ e[i - 1] = c[n]
      BY <1>2, <1>10, <2>1, <3>1
    <3>3. QED
      BY <1>5, <3>2 DEF f
  <2>2. CASE i # n + 1
    <3>1. i \in d + 1 .. n /\ i \in d .. n /\ i - 1 \in d .. n /\ i \in 1 .. n /\ n \in d .. n
      BY <1>1, <2>2
    <3>2. ns[i] = ms[i] /\ e[i - 1] = c[i - 1] /\ c[i] = c[i - 1] + Size(ms[i])
      BY <1>2, <1>6, <1>10, <3>1
    <3>3. c[i] <= c[n]
      BY <1>1, <1>6, <3>1
    <3>0. c[i - 1] \in Nat
      BY <1>6, <3>1
    <3>4. Size(ms[i]) \in Nat /\ k \in 1 .. Size(ms[i])
      BY <1>7, <3>1, <3>2
    <3>5. c[i - 1] + k \in 1 .. Len(s)
      <4> DEFINE a == c[i - 1]
                 z == Size(ms[i])
      <4>1. /\ a \in Nat /\ z \in Nat /\ k \in 1 .. z /\ a + z <= Len(s) /\ Len(s) \in Nat
        BY <1>4, <3>0, <3>2, <3>3, <3>4
      <4> HIDE DEF a, z
      <4>2. a + k <= Len(s)
        BY <4>1
      <4>3. a + k \in 1 .. Len(s)
        BY <4>1, <4>2, Within
      <4>4. QED
        BY <4>3 DEF a
    <3>6. s[c[i - 1] + k] = encode(ms[i])[k]
      <4>1. c[i - 1] + k <= Len(s)
        BY <3>5
      <4>2. QED
        BY <1>6, <3>1, <3>4, <4>1
    <3>7. QED
      BY <1>5, <3>2, <3>5, <3>6
  <2>3. QED
    BY <2>1, <2>2
<1>15. Fits(ns, d, t, e)
  BY <1>2, <1>8, <1>9, <1>10, <1>11, <1>12, <1>13, <1>14 DEF Fits
<1>16. QED
  BY <1>2, <1>10, <1>15 DEF n, ns, t, f

\* What is left when the end of it is cut off.
LEMMA FitsPrefix ==
    ASSUME NEW ms \in Seq(Messages), NEW d \in Nat, d <= Len(ms), NEW s \in Seq(Nat), NEW c,
           Fits(ms, d, s, c),
           NEW t \in Seq(Nat), Len(t) <= Len(s), \A k \in 1 .. Len(t) : t[k] = s[k]
    PROVE  Fits(ms, d, t, c)
<1>1. /\ c \in [d .. Len(ms) -> Nat] /\ c[d] = 0
      /\ \A i \in d + 1 .. Len(ms) : c[i] = c[i - 1] + Size(ms[i])
      /\ \A i, j \in d .. Len(ms) : i <= j => c[i] <= c[j]
      /\ \A i \in d + 1 .. Len(ms) : \A k \in 1 .. Size(ms[i]) :
            c[i - 1] + k <= Len(s) => s[c[i - 1] + k] = encode(ms[i])[k]
      /\ Len(s) <= c[Len(ms)]
  BY DEF Fits
<1>2. Len(ms) \in Nat /\ Len(s) \in Nat /\ Len(t) \in Nat
  OBVIOUS
<1>3. Len(t) <= c[Len(ms)]
  <2>1. Len(ms) \in d .. Len(ms)
    BY <1>2
  <2>2. c[Len(ms)] \in Nat
    BY <1>1, <2>1
  <2>3. QED
    BY <1>1, <1>2, <2>2
<1>4. ASSUME NEW i \in d + 1 .. Len(ms), NEW k \in 1 .. Size(ms[i]), c[i - 1] + k <= Len(t)
      PROVE  t[c[i - 1] + k] = encode(ms[i])[k]
  <2>1. i - 1 \in d .. Len(ms) /\ k \in Nat /\ k > 0
    <3>1. ms[i] \in Messages
      BY <1>2
    <3>2. Size(ms[i]) \in Nat
      BY <3>1, EncodeFacts
    <3>3. QED
      BY <1>2, <3>2
  <2>2. c[i - 1] \in Nat
    BY <1>1, <2>1
  <2>3. c[i - 1] + k \in 1 .. Len(t) /\ c[i - 1] + k <= Len(s)
    <3> DEFINE a == c[i - 1]
    <3>1. a \in Nat /\ k \in Nat /\ k > 0 /\ a + k <= Len(t)
      BY <1>4, <2>1, <2>2
    <3> HIDE DEF a
    <3>2. a + k \in 1 .. Len(t)
      BY <1>2, <3>1, Within
    <3> DEFINE u == Len(t)
               v == Len(s)
    <3>3. u \in Nat /\ v \in Nat /\ u <= v /\ a + k <= u
      BY <1>2, <3>1
    <3> HIDE DEF u, v
    <3>4. a + k <= v
      BY <3>1, <3>3
    <3>5. QED
      BY <3>2, <3>4 DEF a, v
  <2>4. QED
    BY <1>1, <2>3
<1>5. QED
  BY <1>1, <1>3, <1>4 DEF Fits

\* The next frame comes first.
LEMMA FitsHead ==
    ASSUME NEW ms \in Seq(Messages), NEW d \in Nat, d < Len(ms), NEW s \in Seq(Nat), NEW c,
           Fits(ms, d, s, c)
    PROVE  /\ ms[d + 1] \in Messages
           /\ Begins(s, encode(ms[d + 1]))
           /\ Size(ms[d + 1]) = c[d + 1] /\ c[d + 1] <= c[Len(ms)]
<1> DEFINE m == ms[d + 1]
<1>1. d + 1 \in d + 1 .. Len(ms) /\ (d + 1) - 1 = d /\ Len(ms) \in Nat
  OBVIOUS
<1>2. m \in Messages
  BY <1>1
<1>3. Len(encode(m)) = Size(m) /\ Size(m) \in Nat
  BY <1>2, EncodeFacts
<1>4. c[d + 1] = c[d] + Size(m) /\ c[d] = 0
  BY <1>1 DEF Fits
<1>5. \A k \in 1 .. Size(m) : c[d] + k <= Len(s) => s[c[d] + k] = encode(m)[k]
  BY <1>1 DEF Fits
<1>6. \A k \in 1 .. Size(m) : k <= Len(s) => s[k] = encode(m)[k]
  <2> TAKE k \in 1 .. Size(m)
  <2>1. c[d] + k = k
    BY <1>3, <1>4
  <2>2. QED
    BY <1>5, <2>1
<1>7. c[d + 1] <= c[Len(ms)]
  <2>1. d + 1 \in d .. Len(ms) /\ Len(ms) \in d .. Len(ms) /\ d + 1 <= Len(ms)
    BY <1>1
  <2>2. QED
    BY <2>1 DEF Fits
<1>8. Begins(s, encode(m))
  BY <1>3, <1>6 DEF Begins
<1>9. QED
  BY <1>2, <1>3, <1>4, <1>7, <1>8

\* Its bytes are taken off when it is decoded.
LEMMA FitsTail ==
    ASSUME NEW ms \in Seq(Messages), NEW d \in Nat, d < Len(ms), NEW s \in Seq(Nat), NEW c,
           Fits(ms, d, s, c), Size(ms[d + 1]) <= Len(s)
    PROVE  \E e : /\ Fits(ms, d + 1, SubSeq(s, Size(ms[d + 1]) + 1, Len(s)), e)
                  /\ Len(SubSeq(s, Size(ms[d + 1]) + 1, Len(s))) = Len(s) - Size(ms[d + 1])
                  /\ e[Len(ms)] = c[Len(ms)] - Size(ms[d + 1])
                  /\ c[Len(ms)] \in Nat
<1> DEFINE n == Len(ms)
           z == Size(ms[d + 1])
           t == SubSeq(s, z + 1, Len(s))
           e == [i \in d + 1 .. n |-> c[i] - z]
<1>1. n \in Nat /\ d + 1 <= n /\ Len(s) \in Nat
  OBVIOUS
<1>2. z = c[d + 1]
  BY FitsHead
<1>3. z \in Nat
  <2>1. ms[d + 1] \in Messages
    BY FitsHead
  <2>2. QED
    BY <2>1, EncodeFacts
<1>4. /\ c \in [d .. n -> Nat]
      /\ \A i \in d + 1 .. n : c[i] = c[i - 1] + Size(ms[i])
      /\ \A i, j \in d .. n : i <= j => c[i] <= c[j]
      /\ \A i \in d + 1 .. n : \A k \in 1 .. Size(ms[i]) :
            c[i - 1] + k <= Len(s) => s[c[i - 1] + k] = encode(ms[i])[k]
      /\ Len(s) <= c[n]
  BY DEF Fits
<1>5. z <= Len(s)
  OBVIOUS
<1> HIDE DEF n, z
<1>6. /\ t \in Seq(Nat) /\ Len(t) = Len(s) - z
      /\ \A k \in 1 .. Len(t) : t[k] = s[z + k]
  <2>1. t \in Seq(Nat) /\ Len(t) = Len(s) - z /\ \A k \in 1 .. Len(s) - z : t[k] = s[z + k]
    BY <1>3, <1>5, Back
  <2> HIDE DEF t
  <2>2. QED
    BY <2>1
<1> HIDE DEF t
<1>7. \A i \in d + 1 .. n : c[i] \in Nat /\ z <= c[i]
  <2> TAKE i \in d + 1 .. n
  <2>1. i \in d .. n /\ d + 1 \in d .. n /\ d + 1 <= i
    BY <1>1
  <2>2. c[i] \in Nat
    BY <1>4, <2>1
  <2>3. c[d + 1] <= c[i]
    BY <1>4, <2>1
  <2>4. QED
    BY <1>2, <2>2, <2>3
<1>8. e \in [d + 1 .. n -> Nat] /\ \A i \in d + 1 .. n : e[i] = c[i] - z
  <2>1. \A i \in d + 1 .. n : c[i] - z \in Nat
    BY <1>3, <1>7
  <2>2. QED
    BY <2>1
<1> HIDE DEF e
<1>9. e[d + 1] = 0
  <2>1. d + 1 \in d + 1 .. n
    BY <1>1
  <2>2. QED
    BY <1>2, <1>3, <1>8, <2>1
<1>10. \A i \in (d + 1) + 1 .. n : e[i] = e[i - 1] + Size(ms[i])
  <2> TAKE i \in (d + 1) + 1 .. n
  <2>1. i \in d + 1 .. n /\ i - 1 \in d + 1 .. n
    BY <1>1
  <2>2. ms[i] \in Messages
    BY <1>1, <2>1 DEF n
  <2>3. Size(ms[i]) \in Nat
    BY <2>2, EncodeFacts
  <2>4. c[i] = c[i - 1] + Size(ms[i]) /\ c[i - 1] \in Nat
    BY <1>4, <1>7, <2>1
  <2>5. QED
    BY <1>3, <1>8, <2>1, <2>3, <2>4
<1>11. \A i, j \in d + 1 .. n : i <= j => e[i] <= e[j]
  <2> TAKE i, j \in d + 1 .. n
  <2> HAVE i <= j
  <2>1. i \in d .. n /\ j \in d .. n
    BY <1>1
  <2>2. c[i] <= c[j] /\ c[i] \in Nat /\ c[j] \in Nat
    BY <1>4, <1>7, <2>1
  <2>3. QED
    BY <1>3, <1>8, <2>2
<1>12. ASSUME NEW i \in (d + 1) + 1 .. n, NEW k \in 1 .. Size(ms[i]), e[i - 1] + k <= Len(t)
       PROVE  t[e[i - 1] + k] = encode(ms[i])[k]
  <2>1. i \in d + 1 .. n /\ i - 1 \in d + 1 .. n
    BY <1>1
  <2>2. ms[i] \in Messages
    BY <1>1, <2>1 DEF n
  <2>3. Size(ms[i]) \in Nat
    BY <2>2, EncodeFacts
  <2> DEFINE a == e[i - 1]
             b == c[i - 1]
  <2>4. a = b - z /\ b \in Nat /\ z <= b
    BY <1>7, <1>8, <2>1
  <2>5. a + k <= Len(t)
    BY <1>12
  <2>6. k \in Nat /\ k > 0
    BY <2>3
  <2>7. b + k <= Len(s) => s[b + k] = encode(ms[i])[k]
    BY <1>4, <2>1
  <2> HIDE DEF a, b
  <2>8. a + k \in 1 .. Len(t) /\ b + k <= Len(s) /\ z + (a + k) = b + k
    <3>1. Len(s) \in Nat /\ z \in Nat /\ z <= Len(s) /\ Len(t) = Len(s) - z
      BY <1>1, <1>3, <1>5, <1>6
    <3>2. a + k <= Len(s) - z
      BY <2>5, <3>1
    <3>3. QED
      BY <2>4, <2>6, <3>1, <3>2, Shift
  <2>9. t[a + k] = s[b + k]
    BY <1>6, <2>8
  <2>10. t[a + k] = encode(ms[i])[k]
    BY <2>7, <2>8, <2>9
  <2>11. QED
    BY <2>10 DEF a
<1>13. n \in d + 1 .. n
  BY <1>1
<1>14. e[n] = c[n] - z /\ c[n] \in Nat
  BY <1>7, <1>8, <1>13
<1>15. Len(t) <= e[n]
  BY <1>1, <1>3, <1>4, <1>6, <1>14
<1>16. Fits(ms, d + 1, t, e)
  BY <1>8, <1>9, <1>10, <1>11, <1>12, <1>15 DEF Fits, n
<1>17. QED
  BY <1>6, <1>14, <1>16 DEF n, z, t

\* When all are decoded no byte is left.
LEMMA FitsDone ==
    ASSUME NEW ms \in Seq(Messages), NEW s \in Seq(Nat), NEW c, Fits(ms, Len(ms), s, c)
    PROVE  s = <<>> /\ c[Len(ms)] = 0
<1>1. Len(s) <= c[Len(ms)] /\ c[Len(ms)] = 0
  BY DEF Fits
<1>2. Len(s) = 0
  BY <1>1
<1>3. QED
  BY <1>1, <1>2

-----------------------------------------------------------------------------
(* The invariant *)

\* Messages and bytes are what their types say, and none is decoded before it was sent.
CodecTypeOK ==
    /\ sent \in Seq(Messages) /\ decoded \in Seq(Messages)
    /\ Len(decoded) <= Len(sent)
    /\ wire \in Seq(Nat) /\ src \in Seq(Nat)
    /\ status \in {"open", "ended", "failed"}

\* Bytes are lost when the connection breaks; its end is read when it has none
\* left and did not break; only then next() returns None.
EofSound ==
    /\ lost => broken
    /\ broken => closed
    /\ eof => closed /\ ~broken /\ wire = <<>>
    /\ status = "ended" => eof

\* In the buffer and under way are the frames of the messages that have not been
\* decoded, from the first byte of the first on, and all of them unless bytes
\* were lost.
Carried ==
    \E c : /\ Fits(sent, Len(decoded), src \o wire, c)
           /\ lost <=> Len(src \o wire) < c[Len(sent)]

\* The inductive invariant.
CodecInv == CodecTypeOK /\ EofSound /\ Carried /\ EndsForCause

\* The next message to be decoded.
Upcoming == sent[Len(decoded) + 1]

\* EndsForCause, without the sequence of the messages that remain.
Causes ==
    /\ status = "ended" => src = <<>> /\ Len(decoded) = Len(sent)
    /\ status = "failed" => broken \/ (Len(decoded) < Len(sent) /\ TooLarge(Upcoming))

\* The two say the same.
LEMMA Cause == CodecTypeOK => (EndsForCause <=> Causes)
<1> SUFFICES ASSUME CodecTypeOK PROVE EndsForCause <=> Causes
  OBVIOUS
<1> DEFINE d == Len(decoded)
           n == Len(sent)
           rest == SubSeq(sent, d + 1, n)
<1>1. d \in Nat /\ n \in Nat /\ d <= n
  BY DEF CodecTypeOK
<1>2. rest = <<>> <=> d = n
  <2>1. rest \in Seq(Messages) /\ Len(rest) = n - d
    BY <1>1 DEF CodecTypeOK
  <2> HIDE DEF rest, d, n
  <2>2. rest = <<>> <=> Len(rest) = 0
    BY <2>1
  <2>3. QED
    BY <1>1, <2>1, <2>2
<1>3. d < n => Head(rest) = sent[d + 1]
  <2> SUFFICES ASSUME d < n PROVE Head(rest) = sent[d + 1]
    OBVIOUS
  <2>1. rest \in Seq(Messages) /\ Len(rest) = n - d /\ rest[1] = sent[d + 1]
    BY <1>1 DEF CodecTypeOK
  <2> HIDE DEF rest, d, n
  <2>2. Len(rest) > 0
    BY <1>1, <2>1
  <2>3. QED
    BY <2>1, <2>2
<1>4. d < n <=> ~(d = n)
  BY <1>1
<1>5. EndsForCause <=>
        /\ status = "ended" => src = <<>> /\ rest = <<>>
        /\ status = "failed" => broken \/ (rest # <<>> /\ TooLarge(Head(rest)))
  BY DEF EndsForCause
<1> HIDE DEF rest, d, n
<1>6. EndsForCause <=>
        /\ status = "ended" => src = <<>> /\ d = n
        /\ status = "failed" => broken \/ (d < n /\ TooLarge(sent[d + 1]))
  BY <1>2, <1>3, <1>4, <1>5, Zenon
<1>7. QED
  BY <1>6 DEF d, n, Upcoming, Causes

\* In the next state too.
LEMMA CauseNext == CodecTypeOK' => (EndsForCause' <=> Causes')
  BY Cause, PTL

\* What the invariant says of the buffer.
LEMMA Buffer ==
    ASSUME CodecInv
    PROVE  /\ Len(decoded) = Len(sent) => src = <<>>
           /\ Len(decoded) < Len(sent) =>
                 /\ Upcoming \in Messages /\ Begins(src, encode(Upcoming))
                 /\ eof => Len(src) >= Size(Upcoming)
<1> DEFINE d == Len(decoded)
           n == Len(sent)
           s == src \o wire
<1>1. /\ d \in Nat /\ n \in Nat /\ d <= n /\ sent \in Seq(Messages)
      /\ src \in Seq(Nat) /\ wire \in Seq(Nat) /\ Len(src) \in Nat /\ Len(wire) \in Nat
  BY DEF CodecInv, CodecTypeOK
<1>2. s \in Seq(Nat) /\ Len(s) = Len(src) + Len(wire) /\ \A k \in 1 .. Len(src) : s[k] = src[k]
  BY <1>1, Concat
<1>3. PICK c : Fits(sent, d, s, c) /\ (lost <=> Len(s) < c[n])
  BY DEF CodecInv, Carried
<1>4. eof => wire = <<>> /\ ~lost
  BY DEF CodecInv, EofSound
<1>5. eof => Len(s) = Len(src)
  BY <1>1, <1>2, <1>4
<1> HIDE DEF s
<1>6. ASSUME d = n PROVE src = <<>>
  <2>1. Fits(sent, n, s, c)
    BY <1>3, <1>6
  <2>2. s = <<>>
    BY <1>1, <1>2, <2>1, FitsDone
  <2>3. Len(s) = 0
    BY <2>2
  <2>4. Len(src) = 0
    <3>1. 0 = Len(src) + Len(wire)
      BY <1>2, <2>3
    <3>2. QED
      BY <1>1, <3>1
  <2>5. QED
    BY <1>1, <2>4
<1>7. ASSUME d < n
      PROVE  /\ Upcoming \in Messages /\ Begins(src, encode(Upcoming))
             /\ eof => Len(src) >= Size(Upcoming)
  <2> DEFINE m == sent[d + 1]
  <2>1. m \in Messages /\ Begins(s, encode(m)) /\ Size(m) = c[d + 1] /\ c[d + 1] <= c[n]
    BY <1>1, <1>2, <1>3, <1>7, FitsHead
  <2>2. Len(encode(m)) = Size(m) /\ Size(m) \in Nat
    BY <2>1, EncodeFacts
  <2>3. c[n] \in Nat
    <3>1. n \in d .. n
      BY <1>1
    <3>2. QED
      BY <1>3, <3>1 DEF Fits
  <2> HIDE DEF m
  <2>4. Begins(src, encode(m))
    <3>1. ASSUME NEW j \in 1 .. Len(encode(m)), j <= Len(src) PROVE src[j] = encode(m)[j]
      <4>1. j \in 1 .. Len(src) /\ j <= Len(s)
        BY <1>1, <1>2, <2>2, <3>1
      <4>2. s[j] = encode(m)[j]
        BY <2>1, <4>1 DEF Begins
      <4>3. QED
        BY <1>2, <4>1, <4>2
    <3>2. QED
      BY <3>1 DEF Begins
  <2>5. ASSUME eof PROVE Len(src) >= Size(m)
    <3>1. ~(Len(s) < c[n])
      BY <1>3, <1>4, <2>5
    <3>2. Len(s) = Len(src)
      BY <1>5, <2>5
    <3>3. QED
      BY <1>1, <2>1, <2>2, <2>3, <3>1, <3>2
  <2>6. QED
    BY <2>1, <2>4, <2>5 DEF m, Upcoming
<1>8. QED
  BY <1>6, <1>7

\* What decode returns: the next message, if all of its frame is in the buffer.
LEMMA Decode ==
    ASSUME CodecInv
    PROVE  \/ /\ decode(src) = None(src)
              /\ eof => Len(decoded) = Len(sent) /\ src = <<>>
           \/ /\ Len(decoded) < Len(sent) /\ ~TooLarge(Upcoming)
              /\ Size(Upcoming) <= Len(src)
              /\ decode(src) = Some(Upcoming, SubSeq(src, Size(Upcoming) + 1, Len(src)))
           \/ /\ Len(decoded) < Len(sent) /\ TooLarge(Upcoming)
              /\ decode(src) = Err(src)
<1>1. src \in Seq(Nat) /\ Len(src) \in Nat /\ Len(sent) \in Nat /\ Len(decoded) \in Nat
      /\ Len(decoded) <= Len(sent)
  BY DEF CodecInv, CodecTypeOK
<1>2. CASE Len(decoded) = Len(sent)
  <2>1. src = <<>>
    BY <1>2, Buffer
  <2>2. decode(src) = None(src)
    BY <2>1, DecodeEmpty
  <2>3. QED
    BY <1>2, <2>1, <2>2
<1>3. CASE Len(decoded) < Len(sent)
  <2> DEFINE m == Upcoming
  <2>1. m \in Messages /\ Begins(src, encode(m)) /\ (eof => Len(src) >= Size(m))
    BY <1>3, Buffer
  <2>2. HEADER_SIZE \in Nat /\ HEADER_SIZE <= Size(m) /\ Size(m) \in Nat
    <3>1. Len(Payload(m)) \in Nat
      BY <2>1, PayloadFacts
    <3>2. QED
      BY <3>1, Header DEF Size
  <2>3. /\ Len(src) < HEADER_SIZE => decode(src) = None(src)
        /\ Len(src) >= HEADER_SIZE /\ TooLarge(m) => decode(src) = Err(src)
        /\ Len(src) >= HEADER_SIZE /\ ~TooLarge(m) /\ Len(src) < Size(m) => decode(src) = None(src)
        /\ Len(src) >= Size(m) /\ ~TooLarge(m) =>
              decode(src) = Some(m, SubSeq(src, Size(m) + 1, Len(src)))
    BY <1>1, <2>1, DecodeFrame
  <2> HIDE DEF m
  <2>4. CASE Len(src) < HEADER_SIZE
    <3>1. ~(Len(src) >= Size(m))
      BY <1>1, <2>2, <2>4
    <3>2. QED
      BY <1>3, <2>1, <2>3, <2>4, <3>1
  <2>5. CASE Len(src) >= HEADER_SIZE /\ TooLarge(m)
    BY <1>3, <2>3, <2>5 DEF m
  <2>6. CASE Len(src) >= HEADER_SIZE /\ ~TooLarge(m) /\ Len(src) < Size(m)
    <3>1. ~(Len(src) >= Size(m))
      BY <1>1, <2>2, <2>6
    <3>2. QED
      BY <1>3, <2>1, <2>3, <2>6, <3>1
  <2>7. CASE ~TooLarge(m) /\ Len(src) >= Size(m)
    <3>1. Size(m) <= Len(src)
      BY <1>1, <2>2, <2>7
    <3>2. QED
      BY <1>3, <2>3, <2>7, <3>1 DEF m
  <2>8. QED
    BY <1>1, <2>2, <2>4, <2>5, <2>6, <2>7
<1>4. QED
  BY <1>1, <1>2, <1>3

\* The invariant holds at first.
LEMMA InitInv == Init => CodecInv
<1> SUFFICES ASSUME Init PROVE CodecInv
  OBVIOUS
<1>1. /\ sent = <<>> /\ wire = <<>> /\ src = <<>> /\ decoded = <<>>
      /\ closed = FALSE /\ broken = FALSE /\ lost = FALSE /\ eof = FALSE /\ status = "open"
  BY DEF Init
<1>2. CodecTypeOK
  <2>1. <<>> \in Seq(Messages) /\ <<>> \in Seq(Nat) /\ Len(<<>>) <= Len(<<>>)
    OBVIOUS
  <2>2. QED
    BY <1>1, <2>1 DEF CodecTypeOK
<1>3. EofSound
  BY <1>1 DEF EofSound
<1>4. Carried
  <2> DEFINE c == [i \in 0 .. 0 |-> 0]
  <2>1. src \o wire = <<>> /\ Len(sent) = 0 /\ Len(decoded) = 0 /\ Len(src \o wire) = 0
    BY <1>1
  <2>2. c \in [0 .. 0 -> Nat] /\ c[0] = 0
    OBVIOUS
  <2> HIDE DEF c
  <2>3. 0 + 1 .. 0 = {} /\ \A i, j \in 0 .. 0 : i = 0 /\ j = 0
    OBVIOUS
  <2>4. Fits(sent, Len(decoded), src \o wire, c)
    BY <2>1, <2>2, <2>3 DEF Fits
  <2>5. lost <=> Len(src \o wire) < c[Len(sent)]
    BY <1>1, <2>1, <2>2
  <2>6. QED
    BY <2>4, <2>5 DEF Carried
<1>5. EndsForCause
  BY <1>1 DEF EndsForCause
<1>6. QED
  BY <1>2, <1>3, <1>4, <1>5 DEF CodecInv

\* Send: while the connection is open nothing was lost, so the frame comes right
\* after the others.
LEMMA SendInv ==
    ASSUME CodecInv, NEW m \in Messages, Send(m)
    PROVE  CodecInv'
<1>1. /\ ~closed /\ sent' = Append(sent, m) /\ wire' = wire \o encode(m)
      /\ closed' = closed /\ broken' = broken /\ lost' = lost /\ src' = src /\ eof' = eof
      /\ decoded' = decoded /\ status' = status
  BY DEF Send
<1>2. CodecTypeOK
  BY DEF CodecInv
<1>3. ~broken /\ ~lost /\ ~eof /\ status # "ended"
  BY <1>1 DEF CodecInv, EofSound
<1>4. /\ sent' \in Seq(Messages) /\ Len(sent') = Len(sent) + 1
      /\ \A i \in 1 .. Len(sent) : sent'[i] = sent[i]
      /\ Len(sent) \in Nat /\ Len(decoded) \in Nat /\ Len(decoded) <= Len(sent)
  BY <1>1, <1>2 DEF CodecTypeOK
<1>5. encode(m) \in Seq(Nat)
  BY EncodeFacts
<1>6. CodecTypeOK'
  <2>1. wire' \in Seq(Nat)
    <3>1. wire \in Seq(Nat)
      BY <1>2 DEF CodecTypeOK
    <3>2. QED
      BY <1>1, <1>5, <3>1, Concat
  <2>2. Len(decoded') <= Len(sent')
    BY <1>1, <1>4
  <2>3. QED
    BY <1>1, <1>2, <1>4, <2>1, <2>2 DEF CodecTypeOK
<1>7. EofSound'
  BY <1>1, <1>3 DEF EofSound
<1>8. Carried'
  <2> DEFINE s == src \o wire
  <2>1. src \in Seq(Nat) /\ wire \in Seq(Nat) /\ sent \in Seq(Messages)
    BY <1>2 DEF CodecTypeOK
  <2>2. s \in Seq(Nat)
    BY <2>1, Concat
  <2>3. PICK c : Fits(sent, Len(decoded), s, c) /\ (lost <=> Len(s) < c[Len(sent)])
    BY DEF CodecInv, Carried
  <2>4. src' \o wire' = s \o encode(m)
    <3>1. (src \o wire) \o encode(m) = src \o (wire \o encode(m))
      BY <2>1, <1>5, Associative
    <3>2. QED
      BY <1>1, <3>1
  <2> HIDE DEF s
  <2>5. Len(s) = c[Len(sent)]
    <3>1. Len(s) <= c[Len(sent)]
      BY <2>3 DEF Fits
    <3>2. Len(sent) \in Len(decoded) .. Len(sent)
      BY <1>4
    <3>3. c[Len(sent)] \in Nat
      BY <2>3, <3>2 DEF Fits
    <3>4. Len(s) \in Nat
      BY <2>2
    <3>5. ~(Len(s) < c[Len(sent)])
      BY <1>3, <2>3
    <3>6. QED
      BY <3>1, <3>3, <3>4, <3>5
  <2>6. PICK e : /\ Fits(Append(sent, m), Len(decoded), s \o encode(m), e)
                 /\ Len(s \o encode(m)) = e[Len(Append(sent, m))]
    BY <1>4, <2>1, <2>2, <2>3, <2>5, FitsSend
  <2>7. Fits(sent', Len(decoded'), src' \o wire', e) /\ Len(src' \o wire') = e[Len(sent')]
    BY <1>1, <2>4, <2>6
  <2>8. Len(src' \o wire') \in Nat
    <3>1. s \o encode(m) \in Seq(Nat)
      BY <2>2, <1>5, Concat
    <3>2. QED
      BY <2>4, <3>1
  <2>9. ~(Len(src' \o wire') < e[Len(sent')])
    BY <2>7, <2>8
  <2>10. lost' <=> Len(src' \o wire') < e[Len(sent')]
    BY <1>1, <1>3, <2>9
  <2>11. QED
    BY <2>7, <2>10 DEF Carried
<1>9. EndsForCause'
  <2>1. Causes
    BY <1>2, Cause DEF CodecInv
  <2>2. ASSUME status' = "failed"
        PROVE  Len(decoded') < Len(sent') /\ TooLarge(Upcoming')
    <3>1. Len(decoded) < Len(sent) /\ TooLarge(Upcoming)
      BY <1>1, <1>3, <2>1, <2>2 DEF Causes
    <3>2. Len(decoded) + 1 \in 1 .. Len(sent)
      BY <1>4, <3>1
    <3>3. Upcoming' = Upcoming
      BY <1>1, <1>4, <3>2 DEF Upcoming
    <3>4. Len(decoded') < Len(sent')
      BY <1>1, <1>4, <3>1
    <3>5. QED
      BY <3>1, <3>3, <3>4
  <2>3. Causes'
    BY <1>1, <1>3, <2>2 DEF Causes
  <2>4. QED
    BY <1>6, <2>3, CauseNext
<1>10. QED
  BY <1>6, <1>7, <1>8, <1>9 DEF CodecInv

\* Close: only the announcement is added.
LEMMA CloseInv == ASSUME CodecInv, Close PROVE CodecInv'
<1>1. /\ closed' /\ broken' = broken /\ sent' = sent /\ wire' = wire /\ lost' = lost /\ src' = src
      /\ eof' = eof /\ decoded' = decoded /\ status' = status
  BY DEF Close
<1>2. CodecTypeOK'
  BY <1>1 DEF CodecInv, CodecTypeOK
<1>3. EofSound'
  BY <1>1 DEF CodecInv, EofSound
<1>4. Carried'
  BY <1>1 DEF CodecInv, Carried
<1>5. EndsForCause'
  BY <1>1 DEF CodecInv, EndsForCause
<1>6. QED
  BY <1>2, <1>3, <1>4, <1>5 DEF CodecInv

\* Break: some of the bytes under way are cut off at the end.
LEMMA BreakInv ==
    ASSUME CodecInv, NEW n \in 0 .. Len(wire), Break(n)
    PROVE  CodecInv'
<1>1. /\ ~broken /\ ~eof /\ closed' = TRUE /\ broken' = TRUE
      /\ (lost' <=> n < Len(wire)) /\ wire' = SubSeq(wire, 1, n)
      /\ sent' = sent /\ src' = src /\ eof' = eof /\ decoded' = decoded /\ status' = status
  BY DEF Break
<1>2. CodecTypeOK
  BY DEF CodecInv
<1>3. ~lost /\ ~eof /\ status # "ended"
  BY <1>1 DEF CodecInv, EofSound
<1>4. /\ sent \in Seq(Messages) /\ src \in Seq(Nat) /\ wire \in Seq(Nat)
      /\ Len(sent) \in Nat /\ Len(src) \in Nat /\ Len(wire) \in Nat /\ Len(decoded) \in Nat
      /\ Len(decoded) <= Len(sent)
  BY <1>2 DEF CodecTypeOK
<1>5. /\ wire' \in Seq(Nat) /\ Len(wire') = n /\ n \in Nat /\ n <= Len(wire)
      /\ \A k \in 1 .. n : wire'[k] = wire[k]
  <2>1. n \in Nat /\ n <= Len(wire)
    BY <1>4
  <2>2. /\ SubSeq(wire, 1, n) \in Seq(Nat) /\ Len(SubSeq(wire, 1, n)) = n
        /\ \A k \in 1 .. n : SubSeq(wire, 1, n)[k] = wire[k]
    BY <1>4, <2>1, Front
  <2>3. QED
    BY <1>1, <2>1, <2>2
<1>6. CodecTypeOK'
  BY <1>1, <1>2, <1>5 DEF CodecTypeOK
<1>7. EofSound'
  BY <1>1, <1>3 DEF EofSound
<1>8. Carried'
  <2> DEFINE s == src \o wire
             t == src \o wire'
  <2>1. s \in Seq(Nat) /\ Len(s) = Len(src) + Len(wire)
        /\ (\A i \in 1 .. Len(src) : s[i] = src[i])
        /\ (\A i \in 1 .. Len(wire) : s[Len(src) + i] = wire[i])
    BY <1>4, Concat
  <2>2. t \in Seq(Nat) /\ Len(t) = Len(src) + n
        /\ (\A i \in 1 .. Len(src) : t[i] = src[i])
        /\ (\A i \in 1 .. n : t[Len(src) + i] = wire'[i])
    <3>1. /\ src \o wire' \in Seq(Nat) /\ Len(src \o wire') = Len(src) + Len(wire')
          /\ \A i \in 1 .. Len(src) : (src \o wire')[i] = src[i]
          /\ \A i \in 1 .. Len(wire') : (src \o wire')[Len(src) + i] = wire'[i]
      BY <1>4, <1>5, Concat
    <3>2. QED
      BY <1>5, <3>1
  <2>3. PICK c : Fits(sent, Len(decoded), s, c) /\ (lost <=> Len(s) < c[Len(sent)])
    BY DEF CodecInv, Carried
  <2>4. Len(s) = c[Len(sent)]
    <3>1. Len(s) <= c[Len(sent)]
      BY <2>3 DEF Fits
    <3>2. Len(sent) \in Len(decoded) .. Len(sent)
      BY <1>4
    <3>3. c[Len(sent)] \in Nat
      BY <2>3, <3>2 DEF Fits
    <3>4. Len(s) \in Nat
      BY <2>1
    <3>5. ~(Len(s) < c[Len(sent)])
      BY <1>3, <2>3
    <3>6. QED
      BY <3>1, <3>3, <3>4, <3>5
  <2> HIDE DEF s, t
  <2>5. Len(t) <= Len(s)
    BY <1>4, <1>5, <2>1, <2>2
  <2>6. \A k \in 1 .. Len(t) : t[k] = s[k]
    <3> TAKE k \in 1 .. Len(t)
    <3>1. CASE k \in 1 .. Len(src)
      BY <2>1, <2>2, <3>1
    <3>2. CASE k \notin 1 .. Len(src)
      <4> DEFINE j == k - Len(src)
      <4>1. j \in 1 .. n /\ j \in 1 .. Len(wire) /\ k = Len(src) + j
        BY <1>4, <1>5, <2>2, <3>2
      <4> HIDE DEF j
      <4>2. t[k] = wire'[j]
        BY <2>2, <4>1
      <4>3. s[k] = wire[j]
        BY <2>1, <4>1
      <4>4. QED
        BY <1>5, <4>1, <4>2, <4>3
    <3>3. QED
      BY <3>1, <3>2
  <2>7. Fits(sent, Len(decoded), t, c)
    BY <1>4, <2>1, <2>2, <2>3, <2>5, <2>6, FitsPrefix
  <2>8. lost' <=> Len(t) < c[Len(sent)]
    <3>1. n < Len(wire) <=> Len(t) < c[Len(sent)]
      BY <1>4, <1>5, <2>1, <2>2, <2>4
    <3>2. QED
      BY <1>1, <3>1
  <2>9. src' \o wire' = t
    BY <1>1 DEF t
  <2>10. Fits(sent', Len(decoded'), src' \o wire', c) /\ (lost' <=> Len(src' \o wire') < c[Len(sent')])
    BY <1>1, <2>7, <2>8, <2>9
  <2>11. QED
    BY <2>10 DEF Carried
<1>9. EndsForCause'
  <2>1. Causes
    BY <1>2, Cause DEF CodecInv
  <2>2. Upcoming' = Upcoming
    BY <1>1 DEF Upcoming
  <2>3. Causes'
    BY <1>1, <1>3, <2>1, <2>2 DEF Causes
  <2>4. QED
    BY <1>6, <2>3, CauseNext
<1>10. QED
  BY <1>6, <1>7, <1>8, <1>9 DEF CodecInv

\* Arrive: bytes move from the connection to the buffer, which changes neither.
LEMMA ArriveInv ==
    ASSUME CodecInv, NEW n \in 1 .. Len(wire), Arrive(n)
    PROVE  CodecInv'
<1>1. /\ status = "open" /\ ~eof /\ src' = src \o SubSeq(wire, 1, n)
      /\ wire' = SubSeq(wire, n + 1, Len(wire))
      /\ sent' = sent /\ closed' = closed /\ broken' = broken /\ lost' = lost /\ eof' = eof
      /\ decoded' = decoded /\ status' = status
  BY DEF Arrive
<1>2. CodecTypeOK
  BY DEF CodecInv
<1>3. /\ src \in Seq(Nat) /\ wire \in Seq(Nat) /\ Len(wire) \in Nat
      /\ n \in Nat /\ n <= Len(wire)
  BY <1>2 DEF CodecTypeOK
<1>4. SubSeq(wire, 1, n) \in Seq(Nat) /\ SubSeq(wire, n + 1, Len(wire)) \in Seq(Nat)
      /\ SubSeq(wire, 1, n) \o SubSeq(wire, n + 1, Len(wire)) = wire
  BY <1>3, Front, Back, Parts
<1>5. CodecTypeOK'
  <2>1. src \o SubSeq(wire, 1, n) \in Seq(Nat)
    BY <1>3, <1>4, Concat
  <2>2. QED
    BY <1>1, <1>2, <1>4, <2>1 DEF CodecTypeOK
<1>6. EofSound'
  BY <1>1 DEF CodecInv, EofSound
<1>7. src' \o wire' = src \o wire
  <2> DEFINE x == SubSeq(wire, 1, n)
             y == SubSeq(wire, n + 1, Len(wire))
  <2>1. x \in Seq(Nat) /\ y \in Seq(Nat) /\ x \o y = wire /\ src' = src \o x /\ wire' = y
    BY <1>1, <1>4
  <2> HIDE DEF x, y
  <2>2. (src \o x) \o y = src \o (x \o y)
    BY <1>3, <2>1, Associative
  <2>3. QED
    BY <2>1, <2>2
<1>8. Carried'
  BY <1>1, <1>7 DEF CodecInv, Carried
<1>9. EndsForCause'
  BY <1>1 DEF EndsForCause
<1>10. QED
  BY <1>5, <1>6, <1>8, <1>9 DEF CodecInv

\* ReadEof: the end of the connection is read when nothing is under way.
LEMMA ReadEofInv == ASSUME CodecInv, ReadEof PROVE CodecInv'
<1>1. /\ status = "open" /\ closed /\ ~broken /\ wire = <<>> /\ eof'
      /\ sent' = sent /\ wire' = wire /\ closed' = closed /\ broken' = broken
      /\ lost' = lost /\ src' = src
      /\ decoded' = decoded /\ status' = status
  BY DEF ReadEof
<1>2. CodecTypeOK'
  BY <1>1 DEF CodecInv, CodecTypeOK
<1>3. EofSound'
  BY <1>1 DEF CodecInv, EofSound
<1>4. Carried'
  BY <1>1 DEF CodecInv, Carried
<1>5. EndsForCause'
  BY <1>1 DEF EndsForCause
<1>6. QED
  BY <1>2, <1>3, <1>4, <1>5 DEF CodecInv

\* ReadFails: the reader learns that the connection broke.
LEMMA ReadFailsInv == ASSUME CodecInv, ReadFails PROVE CodecInv'
<1>1. /\ broken /\ status' = "failed"
      /\ sent' = sent /\ wire' = wire /\ closed' = closed /\ broken' = broken
      /\ lost' = lost /\ src' = src /\ eof' = eof /\ decoded' = decoded
  BY DEF ReadFails
<1>2. CodecTypeOK'
  BY <1>1 DEF CodecInv, CodecTypeOK
<1>3. EofSound'
  BY <1>1 DEF CodecInv, EofSound
<1>4. Carried'
  BY <1>1 DEF CodecInv, Carried
<1>5. EndsForCause'
  BY <1>1 DEF EndsForCause
<1>6. QED
  BY <1>2, <1>3, <1>4, <1>5 DEF CodecInv

\* The three things that a call of decode can do.
LEMMA PollCases ==
    ASSUME CodecInv, PollNext(decode(src))
    PROVE  \/ /\ src' = src /\ decoded' = decoded
              /\ status' = IF ~eof THEN "open" ELSE IF src = <<>> THEN "ended" ELSE "failed"
              /\ eof => Len(decoded) = Len(sent) /\ src = <<>>
           \/ /\ Len(decoded) < Len(sent) /\ ~TooLarge(Upcoming)
              /\ Size(Upcoming) <= Len(src)
              /\ src' = SubSeq(src, Size(Upcoming) + 1, Len(src))
              /\ decoded' = Append(decoded, Upcoming) /\ status' = status
           \/ /\ Len(decoded) < Len(sent) /\ TooLarge(Upcoming)
              /\ src' = src /\ decoded' = decoded /\ status' = "failed"
<1> DEFINE d == decode(src)
<1>1. PollNext(d)
  OBVIOUS
<1>2. CASE /\ d = None(src)
           /\ eof => Len(decoded) = Len(sent) /\ src = <<>>
  <2> HIDE DEF d
  <2>1. d.result = "none" /\ d.rest = src
    BY <1>2 DEF None
  <2>2. QED
    BY <1>1, <1>2, <2>1 DEF PollNext
<1>3. CASE /\ Len(decoded) < Len(sent) /\ ~TooLarge(Upcoming)
           /\ Size(Upcoming) <= Len(src)
           /\ d = Some(Upcoming, SubSeq(src, Size(Upcoming) + 1, Len(src)))
  <2> HIDE DEF d
  <2>1. /\ d.result = "some" /\ d.message = Upcoming
        /\ d.rest = SubSeq(src, Size(Upcoming) + 1, Len(src))
    BY <1>3 DEF Some
  <2>2. QED
    BY <1>1, <1>3, <2>1 DEF PollNext
<1>4. CASE /\ Len(decoded) < Len(sent) /\ TooLarge(Upcoming)
           /\ d = Err(src)
  <2> HIDE DEF d
  <2>1. d.result = "err" /\ d.rest = src
    BY <1>4 DEF Err
  <2>2. QED
    BY <1>1, <1>4, <2>1 DEF PollNext
<1>5. QED
  BY <1>2, <1>3, <1>4, Decode

\* PollNext: the frame in front goes, the buffer waits, or the stream ends.
LEMMA PollInv == ASSUME CodecInv, PollNext(decode(src)) PROVE CodecInv'
<1>1. /\ status = "open"
      /\ sent' = sent /\ wire' = wire /\ closed' = closed /\ broken' = broken
      /\ lost' = lost /\ eof' = eof
  BY DEF PollNext
<1>2. CodecTypeOK
  BY DEF CodecInv
<1>3. /\ sent \in Seq(Messages) /\ decoded \in Seq(Messages) /\ src \in Seq(Nat) /\ wire \in Seq(Nat)
      /\ Len(sent) \in Nat /\ Len(decoded) \in Nat /\ Len(src) \in Nat /\ Len(wire) \in Nat
  BY <1>2 DEF CodecTypeOK
<1>4. CASE /\ src' = src /\ decoded' = decoded
           /\ status' = IF ~eof THEN "open" ELSE IF src = <<>> THEN "ended" ELSE "failed"
           /\ eof => Len(decoded) = Len(sent) /\ src = <<>>
  <2>1. status' \in {"open", "ended"} /\ (status' = "ended" => eof /\ src = <<>>)
    BY <1>4
  <2>2. CodecTypeOK'
    BY <1>1, <1>2, <1>4, <2>1 DEF CodecTypeOK
  <2>3. EofSound'
    BY <1>1, <1>4, <2>1 DEF CodecInv, EofSound
  <2>4. Carried'
    BY <1>1, <1>4 DEF CodecInv, Carried
  <2>5. Causes'
    BY <1>1, <1>4, <2>1 DEF Causes
  <2>6. QED
    BY <2>2, <2>3, <2>4, <2>5, CauseNext DEF CodecInv
<1>5. CASE /\ Len(decoded) < Len(sent) /\ TooLarge(Upcoming)
           /\ src' = src /\ decoded' = decoded /\ status' = "failed"
  <2>1. CodecTypeOK'
    BY <1>1, <1>2, <1>5 DEF CodecTypeOK
  <2>2. EofSound'
    BY <1>1, <1>5 DEF CodecInv, EofSound
  <2>3. Carried'
    BY <1>1, <1>5 DEF CodecInv, Carried
  <2>4. Upcoming' = Upcoming
    BY <1>1, <1>5 DEF Upcoming
  <2>5. Causes'
    BY <1>1, <1>5, <2>4 DEF Causes
  <2>6. QED
    BY <2>1, <2>2, <2>3, <2>5, CauseNext DEF CodecInv
<1>6. CASE /\ Len(decoded) < Len(sent) /\ ~TooLarge(Upcoming)
           /\ Size(Upcoming) <= Len(src)
           /\ src' = SubSeq(src, Size(Upcoming) + 1, Len(src))
           /\ decoded' = Append(decoded, Upcoming) /\ status' = status
  <2> DEFINE m == Upcoming
             d == Len(decoded)
             z == Size(m)
             s == src \o wire
  <2>1. m \in Messages
    BY <1>6, Buffer
  <2>2. z \in Nat /\ z <= Len(src)
    BY <1>6, <2>1, EncodeFacts
  <2>3. decoded' \in Seq(Messages) /\ Len(decoded') = d + 1
    BY <1>3, <1>6, <2>1
  <2>4. src' \in Seq(Nat) /\ src' \o wire = SubSeq(s, z + 1, Len(s))
    <3>1. src' = SubSeq(src, z + 1, Len(src))
      BY <1>6
    <3> HIDE DEF z
    <3>2. QED
      BY <1>3, <2>2, <3>1, Back, Drop
  <2>5. s \in Seq(Nat) /\ Len(s) = Len(src) + Len(wire) /\ Len(s) \in Nat
    <3>1. s \in Seq(Nat) /\ Len(s) = Len(src) + Len(wire)
      BY <1>3, Concat
    <3>2. QED
      BY <1>3, <3>1
  <2>6. CodecTypeOK'
    <3>1. Len(decoded') <= Len(sent')
      BY <1>1, <1>3, <1>6, <2>3
    <3>2. QED
      BY <1>1, <1>2, <1>6, <2>3, <2>4, <3>1 DEF CodecTypeOK
  <2>7. EofSound'
    BY <1>1, <1>6 DEF CodecInv, EofSound
  <2>8. Carried'
    <3>1. PICK c : Fits(sent, d, s, c) /\ (lost <=> Len(s) < c[Len(sent)])
      BY DEF CodecInv, Carried
    <3>2. z = Size(sent[d + 1]) /\ z <= Len(s)
      <4>1. z <= Len(s)
        BY <1>3, <2>2, <2>5
      <4>2. QED
        BY <4>1 DEF Upcoming
    <3>3. d < Len(sent)
      BY <1>6
    <3> HIDE DEF z, s, d
    <3>4. d \in Nat
      BY <1>3 DEF d
    <3>5. PICK e : /\ Fits(sent, d + 1, SubSeq(s, z + 1, Len(s)), e)
                   /\ Len(SubSeq(s, z + 1, Len(s))) = Len(s) - z
                   /\ e[Len(sent)] = c[Len(sent)] - z
                   /\ c[Len(sent)] \in Nat
      <4>1. Size(sent[d + 1]) <= Len(s)
        BY <3>2
      <4>2. \E e : /\ Fits(sent, d + 1, SubSeq(s, Size(sent[d + 1]) + 1, Len(s)), e)
                   /\ Len(SubSeq(s, Size(sent[d + 1]) + 1, Len(s))) = Len(s) - Size(sent[d + 1])
                   /\ e[Len(sent)] = c[Len(sent)] - Size(sent[d + 1])
                   /\ c[Len(sent)] \in Nat
        BY <1>3, <2>5, <3>1, <3>3, <3>4, <4>1, FitsTail
      <4>3. QED
        BY <3>2, <4>2
    <3>6. src' \o wire' = SubSeq(s, z + 1, Len(s))
      BY <1>1, <2>4
    <3>7. lost <=> Len(SubSeq(s, z + 1, Len(s))) < e[Len(sent)]
      <4>1. Len(s) < c[Len(sent)] <=> Len(s) - z < c[Len(sent)] - z
        BY <2>2, <2>5, <3>5
      <4>2. QED
        BY <3>1, <3>5, <4>1
    <3>8. Fits(sent', Len(decoded'), src' \o wire', e)
      BY <1>1, <2>3, <3>5, <3>6
    <3>9. lost' <=> Len(src' \o wire') < e[Len(sent')]
      BY <1>1, <3>6, <3>7
    <3>10. QED
      BY <3>8, <3>9 DEF Carried
  <2>9. Causes'
    BY <1>1, <1>6 DEF Causes
  <2>10. QED
    BY <2>6, <2>7, <2>8, <2>9, CauseNext DEF CodecInv
<1>7. QED
  BY <1>4, <1>5, <1>6, PollCases

\* A step that changes nothing.
LEMMA StutterInv == ASSUME CodecInv, UNCHANGED vars PROVE CodecInv'
<1>1. /\ sent' = sent /\ wire' = wire /\ closed' = closed /\ broken' = broken
      /\ lost' = lost /\ src' = src /\ eof' = eof /\ decoded' = decoded /\ status' = status
  BY DEF vars
<1>2. CodecTypeOK'
  BY <1>1 DEF CodecInv, CodecTypeOK
<1>3. EofSound'
  BY <1>1 DEF CodecInv, EofSound
<1>4. Carried'
  BY <1>1 DEF CodecInv, Carried
<1>5. EndsForCause'
  BY <1>1 DEF CodecInv, EndsForCause
<1>6. QED
  BY <1>2, <1>3, <1>4, <1>5 DEF CodecInv

\* Every step keeps the invariant.
LEMMA NextInv == CodecInv /\ [Next]_vars => CodecInv'
<1> SUFFICES ASSUME CodecInv, [Next]_vars PROVE CodecInv'
  OBVIOUS
<1>1. CASE \E m \in Messages : Send(m)
  BY <1>1, SendInv
<1>2. CASE Close
  BY <1>2, CloseInv
<1>3. CASE \E n \in 0 .. Len(wire) : Break(n)
  BY <1>3, BreakInv
<1>4. CASE ReadFails
  BY <1>4, ReadFailsInv
<1>5. CASE PollNext(decode(src))
  BY <1>5, PollInv
<1>6. CASE ReadEof
  BY <1>6, ReadEofInv
<1>7. CASE \E n \in 1 .. Len(wire) : Arrive(n)
  BY <1>7, ArriveInv
<1>8. CASE UNCHANGED vars
  BY <1>8, StutterInv
<1>9. QED
  BY <1>1, <1>2, <1>5, <1>6, <1>7, <1>8, <1>3, <1>4 DEF Next, Read

\* The bytes in the buffer and under way are at all times the frames of the
\* messages that are still to come, whatever the bytes are and wherever they are cut.
THEOREM CodecInvariance == Spec => []CodecInv
  BY InitInv, NextInv, PTL DEF Spec

\* The reader sees an orderly end only when everything sent has been returned, and an
\* error only when the connection broke or the next message is too long.
THEOREM EndsWithCause == Spec => []EndsForCause
<1>1. CodecInv => EndsForCause
  BY DEF CodecInv
<1>2. QED
  BY <1>1, CodecInvariance, PTL

-----------------------------------------------------------------------------
(* The codec implements MessageStream *)

\* The first state is one of MessageStream.
LEMMA StreamInit == Init => Stream!Init
  BY DEF Init, Stream!Init

\* Every step is one of MessageStream or changes nothing that it has: what decode
\* returns is Receive, the end of the stream End, and an error Fail.
LEMMA StreamStep == CodecInv /\ [Next]_vars => [Stream!Next]_(Stream!vars)
<1> SUFFICES ASSUME CodecInv, [Next]_vars PROVE Stream!Next \/ UNCHANGED Stream!vars
  OBVIOUS
<1>1. ASSUME NEW m \in Messages, Send(m) PROVE Stream!Send(m)
  BY <1>1 DEF Send, Stream!Send
<1>2. ASSUME Close PROVE Stream!Close
  BY <1>2 DEF Close, Stream!Close
<1>3. ASSUME NEW n \in 0 .. Len(wire), Break(n) PROVE Stream!Break
  BY <1>3 DEF Break, Stream!Break
<1>4. ASSUME ReadFails PROVE Stream!Fail
  BY <1>4 DEF ReadFails, Stream!Fail
<1>5. ASSUME NEW n \in 1 .. Len(wire), Arrive(n) PROVE UNCHANGED Stream!vars
  BY <1>5 DEF Arrive, Stream!vars
<1>6. ASSUME ReadEof PROVE UNCHANGED Stream!vars
  BY <1>6 DEF ReadEof, Stream!vars
<1>7. ASSUME PollNext(decode(src))
      PROVE  Stream!Receive \/ Stream!End \/ Stream!Fail \/ UNCHANGED Stream!vars
  <2>1. status = "open" /\ sent' = sent /\ closed' = closed /\ broken' = broken
    BY <1>7 DEF PollNext
  <2>2. eof => closed /\ ~broken
    BY DEF CodecInv, EofSound
  <2>3. Len(decoded) < Len(sent) => Upcoming \in Messages
    BY Buffer
  <2>4. Stream!Pending <=> Len(decoded) < Len(sent)
    BY DEF Stream!Pending
  <2>5. Stream!Upcoming = Upcoming
    BY DEF Stream!Upcoming, Upcoming
  <2>6. CASE /\ src' = src /\ decoded' = decoded
             /\ status' = IF ~eof THEN "open" ELSE IF src = <<>> THEN "ended" ELSE "failed"
             /\ eof => Len(decoded) = Len(sent) /\ src = <<>>
    <3>1. CASE ~eof
      BY <2>1, <2>6, <3>1 DEF Stream!vars
    <3>2. CASE eof
      <4>1. ~Stream!Pending
        BY <2>4, <2>6, <3>2 DEF CodecInv, CodecTypeOK
      <4>2. QED
        BY <2>1, <2>2, <2>6, <3>2, <4>1 DEF Stream!End
    <3>3. QED
      BY <3>1, <3>2
  <2>7. CASE /\ Len(decoded) < Len(sent) /\ ~TooLarge(Upcoming)
             /\ decoded' = Append(decoded, Upcoming) /\ status' = status
    BY <2>1, <2>4, <2>5, <2>7 DEF Stream!Receive
  <2>8. CASE /\ Len(decoded) < Len(sent) /\ TooLarge(Upcoming)
             /\ decoded' = decoded /\ status' = "failed"
    BY <2>1, <2>3, <2>4, <2>5, <2>8 DEF Stream!Fail
  <2>9. QED
    BY <1>7, <2>6, <2>7, <2>8, PollCases
<1>8. ASSUME UNCHANGED vars PROVE UNCHANGED Stream!vars
  BY <1>8 DEF vars, Stream!vars
<1>9. QED
  BY <1>1, <1>2, <1>5, <1>6, <1>7, <1>8, <1>3, <1>4 DEF Next, Read, Stream!Next

\* encode, the connection, decode and Framed together implement MessageStream: what
\* comes out is what was put in, in order and unchanged.
THEOREM ImplementsStream == Spec => StreamSpec
  BY CodecInvariance, StreamInit, StreamStep, PTL DEF Spec, StreamSpec, Stream!Spec

-----------------------------------------------------------------------------
(* The counters *)

\* The counter of connections, the tasks that change it and the history are what
\* their types say.
CountTypeOK ==
    /\ present \in BOOLEAN /\ sampled \in BOOLEAN
    /\ connections \in Nat
    /\ conn \in [Conns -> {"idle", "accepted", "live", "ended"}]
    /\ tasks \in SUBSET (Conns \X {1, -1})
    /\ counted \in SUBSET Conns /\ older \in SUBSET Conns
    /\ strays \in SUBSET Conns /\ swallowed \in SUBSET Conns

\* A connection's +1 is spawned when it is bridged, its -1 when it has ended.
TasksSound ==
    \A c \in Conns :
        /\ <<c, 1>> \in tasks => conn[c] \in {"live", "ended"}
        /\ <<c, -1>> \in tasks => conn[c] = "ended"

\* A bridged connection is counted, or will be, or reported before this entry;
\* one that is counted is bridged, or ended with its -1 to come or misplaced.
CountedSound ==
    present => \A c \in Conns :
        /\ conn[c] = "live" => <<c, 1>> \in tasks \/ c \in counted \/ c \in older
        /\ c \in older =>
              conn[c] \in {"live", "ended"} /\ <<c, 1>> \notin tasks /\ c \notin counted
        /\ c \in counted =>
              /\ <<c, 1>> \notin tasks
              /\ conn[c] \in {"live", "ended"}
              /\ conn[c] = "ended" => <<c, -1>> \in tasks \/ c \in strays

\* A misplaced or swallowed -1 has been applied; one that overtook its +1 is
\* misplaced.
StraysSound ==
    present => \A c \in Conns :
        /\ c \in strays \cup swallowed => conn[c] = "ended" /\ <<c, -1>> \notin tasks
        /\ <<c, 1>> \in tasks /\ conn[c] = "ended" /\ <<c, -1>> \notin tasks => c \in strays

\* The counter is short of the connections it counts by the misplaced -1s, and
\* has kept the swallowed ones.
Balanced ==
    present =>
        /\ connections + Cardinality(strays) = Cardinality(counted) + Cardinality(swallowed)
        /\ Cardinality(swallowed) <= Cardinality(strays)

CountInv == CountTypeOK /\ TasksSound /\ CountedSound /\ StraysSound /\ Balanced

\* The history sets are finite, so that they can be counted.
LEMMA HistoryFinite ==
    ASSUME CountTypeOK
    PROVE  /\ IsFiniteSet(counted) /\ Cardinality(counted) \in Nat
           /\ IsFiniteSet(strays) /\ Cardinality(strays) \in Nat
           /\ IsFiniteSet(swallowed) /\ Cardinality(swallowed) \in Nat
<1>1. IsFiniteSet(counted) /\ IsFiniteSet(strays) /\ IsFiniteSet(swallowed)
  BY StatsAssumption, FS_Subset DEF CountTypeOK
<1>2. QED
  BY <1>1, FS_CardinalityType

\* add_proxy: every connection is in its place in the history of the new entry,
\* whose counter starts at 0.
LEMMA AddProxyInv ==
    ASSUME CountInv, add_proxy
    PROVE  CountInv'
<1> USE DEF CountInv
<1>1. CountTypeOK'
  BY DEF add_proxy, CountTypeOK, Overtaken
<1>2. TasksSound'
  BY DEF add_proxy, TasksSound
<1>3. CountedSound'
  BY DEF add_proxy, CountTypeOK, TasksSound, CountedSound
<1>4. StraysSound'
  BY DEF add_proxy, CountTypeOK, StraysSound, Overtaken
<1>5. Balanced'
  <2>1. connections' = 0 /\ counted' = {} /\ swallowed' = strays'
    BY DEF add_proxy
  <2>2. Cardinality(strays') \in Nat
    <3>1. strays' \in SUBSET Conns
      BY <1>1 DEF CountTypeOK
    <3>2. QED
      BY <3>1, StatsAssumption, FS_Subset, FS_CardinalityType
  <2>3. QED
    BY <2>1, <2>2, FS_EmptySet DEF Balanced
<1>6. QED
  BY <1>1, <1>2, <1>3, <1>4, <1>5

\* What report_conn adds to the tasks.
LEMMA Reported ==
    ASSUME CountTypeOK, NEW c \in Conns, NEW delta \in {1, -1}, ReportConn(c, delta)
    PROVE  /\ tasks' \in SUBSET (Conns \X {1, -1})
           /\ \A d \in Conns, k \in {1, -1} :
                 <<d, k>> \in tasks' <=> <<d, k>> \in tasks \/ (d = c /\ k = delta)
  BY DEF CountTypeOK, ReportConn

\* A connection is accepted or refused: nothing is reported.
LEMMA AcceptInv ==
    ASSUME CountInv, NEW c \in Conns, Accept(c) \/ Refuse(c)
    PROVE  CountInv'
<1>1. /\ conn[c] \in {"idle", "accepted"} /\ conn'[c] \in {"idle", "accepted"}
      /\ conn' \in [Conns -> {"idle", "accepted", "live", "ended"}]
      /\ \A d \in Conns \ {c} : conn'[d] = conn[d]
      /\ UNCHANGED <<entry, tasks, counts>>
  BY DEF CountInv, CountTypeOK, Accept, Refuse
<1>2. QED
  BY <1>1 DEF CountInv, CountTypeOK, TasksSound, CountedSound, StraysSound, Balanced, entry, counts

\* A connection is bridged: its +1 is spawned, and no counter changes.
LEMMA BridgeInv ==
    ASSUME CountInv, NEW c \in Conns, Bridge(c)
    PROVE  CountInv'
<1>1. /\ conn[c] = "accepted" /\ conn'[c] = "live"
      /\ conn' \in [Conns -> {"idle", "accepted", "live", "ended"}]
      /\ \A d \in Conns \ {c} : conn'[d] = conn[d]
      /\ UNCHANGED <<present, sampled, connections, counted, older, strays, swallowed>>
  BY DEF CountInv, CountTypeOK, Bridge, entry, counts
<1>2. /\ tasks' \in SUBSET (Conns \X {1, -1})
      /\ \A d \in Conns : <<d, 1>> \in tasks' <=> <<d, 1>> \in tasks \/ d = c
      /\ \A d \in Conns : <<d, -1>> \in tasks' <=> <<d, -1>> \in tasks
  <2>1. CountTypeOK /\ ReportConn(c, 1) /\ 1 \in {1, -1} /\ -1 \in {1, -1} /\ 1 # -1
    BY DEF CountInv, Bridge
  <2>2. QED
    BY <2>1, Reported
<1>3. CountTypeOK' /\ Balanced'
  BY <1>1, <1>2 DEF CountInv, CountTypeOK, Balanced
<1>4. TasksSound'
  BY <1>1, <1>2 DEF CountInv, TasksSound
<1>5. CountedSound' /\ StraysSound'
  BY <1>1, <1>2 DEF CountInv, CountedSound, StraysSound
<1>6. QED
  BY <1>3, <1>4, <1>5 DEF CountInv

\* A bridge ends: its -1 is spawned, and no counter changes.
LEMMA EndInv ==
    ASSUME CountInv, NEW c \in Conns, End(c)
    PROVE  CountInv'
<1>1. /\ conn[c] = "live" /\ conn'[c] = "ended"
      /\ conn' \in [Conns -> {"idle", "accepted", "live", "ended"}]
      /\ \A d \in Conns \ {c} : conn'[d] = conn[d]
      /\ UNCHANGED <<present, sampled, connections, counted, older, strays, swallowed>>
  BY DEF CountInv, CountTypeOK, End, entry, counts
<1>2. /\ tasks' \in SUBSET (Conns \X {1, -1})
      /\ \A d \in Conns : <<d, 1>> \in tasks' <=> <<d, 1>> \in tasks
      /\ \A d \in Conns : <<d, -1>> \in tasks' <=> <<d, -1>> \in tasks \/ d = c
  <2>1. CountTypeOK /\ ReportConn(c, -1) /\ 1 \in {1, -1} /\ -1 \in {1, -1} /\ 1 # -1
    BY DEF CountInv, End
  <2>2. QED
    BY <2>1, Reported
<1>3. CountTypeOK' /\ Balanced'
  BY <1>1, <1>2 DEF CountInv, CountTypeOK, Balanced
<1>4. TasksSound'
  BY <1>1, <1>2 DEF CountInv, TasksSound
<1>5. CountedSound' /\ StraysSound'
  BY <1>1, <1>2 DEF CountInv, CountedSound, StraysSound
<1>6. QED
  BY <1>3, <1>4, <1>5 DEF CountInv

\* inc_connections: a +1 that runs is of a connection not yet counted; if its -1
\* has overtaken it, that one is among the strays.
LEMMA IncInv ==
    ASSUME CountInv, NEW c \in Conns, inc_connections(c)
    PROVE  CountInv'
<1> USE DEF CountInv
<1>1. CountTypeOK'
  BY DEF inc_connections, CountTypeOK
<1>2. TasksSound'
  BY DEF inc_connections, CountTypeOK, TasksSound
<1>3. CountedSound'
  <2> SUFFICES ASSUME present
               PROVE  CountedSound'
    BY DEF inc_connections, CountedSound
  <2>1. /\ <<c, 1>> \in tasks /\ <<c, 1>> \notin tasks'
        /\ \A d \in Conns \ {c} : <<d, 1>> \in tasks' <=> <<d, 1>> \in tasks
        /\ \A d \in Conns : <<d, -1>> \in tasks' <=> <<d, -1>> \in tasks
    BY DEF inc_connections
  <2>2. /\ c \in counted' /\ \A d \in Conns \ {c} : d \in counted' <=> d \in counted
        /\ UNCHANGED <<conn, older, strays>>
    BY DEF inc_connections
  <2>3. conn[c] \in {"live", "ended"} /\ c \notin older
        /\ (conn[c] = "ended" => <<c, -1>> \in tasks \/ c \in strays)
    BY <2>1 DEF TasksSound, CountedSound, StraysSound
  <2>4. QED
    BY <2>1, <2>2, <2>3 DEF CountedSound
<1>4. StraysSound'
  BY DEF inc_connections, CountTypeOK, StraysSound
<1>5. Balanced'
  <2>1. CASE ~present
    BY <2>1 DEF inc_connections, Balanced
  <2>2. CASE present
    <3>1. c \notin counted
      BY <2>2 DEF inc_connections, CountedSound
    <3>2. Cardinality(counted') = Cardinality(counted) + 1
      BY <2>2, <3>1, HistoryFinite, FS_AddElement DEF inc_connections
    <3>3. connections' = connections + 1 /\ strays' = strays /\ swallowed' = swallowed
      BY <2>2 DEF inc_connections
    <3>4. QED
      BY <2>2, <3>2, <3>3, HistoryFinite DEF Balanced, CountTypeOK
  <2>3. QED
    BY <2>1, <2>2
<1>6. QED
  BY <1>1, <1>2, <1>3, <1>4, <1>5

\* dec_connections: a -1 that runs is of a connection that is neither a stray nor
\* swallowed yet; whichever of counter and history change, the balance stays.
LEMMA DecInv ==
    ASSUME CountInv, NEW c \in Conns, dec_connections(c)
    PROVE  CountInv'
<1> USE DEF CountInv
<1>1. CountTypeOK'
  BY DEF dec_connections, CountTypeOK
<1>2. TasksSound'
  BY DEF dec_connections, CountTypeOK, TasksSound
<1>3. CountedSound'
  BY DEF dec_connections, CountTypeOK, TasksSound, CountedSound
<1>4. StraysSound'
  BY DEF dec_connections, CountTypeOK, TasksSound, CountedSound, StraysSound
<1>5. Balanced'
  <2>1. CASE ~present
    BY <2>1 DEF dec_connections, Balanced
  <2>2. CASE present
    <3> DEFINE C == Cardinality(counted)
               S == Cardinality(strays)
               W == Cardinality(swallowed)
    <3>1. c \notin strays /\ c \notin swallowed
      BY <2>2 DEF dec_connections, StraysSound
    <3>2. Cardinality(counted') = IF c \in counted THEN C - 1 ELSE C
      BY <2>2, HistoryFinite, FS_RemoveElement DEF dec_connections
    <3>3. Cardinality(strays') = IF c \in counted THEN S ELSE S + 1
      BY <2>2, <3>1, HistoryFinite, FS_AddElement DEF dec_connections
    <3>4. Cardinality(swallowed') = IF connections = 0 THEN W + 1 ELSE W
      BY <2>2, <3>1, HistoryFinite, FS_AddElement DEF dec_connections
    <3>5. connections' = IF connections = 0 THEN 0 ELSE connections - 1
      BY <2>2 DEF dec_connections
    <3>6. c \in counted => C >= 1
      BY HistoryFinite, FS_EmptySet
    <3>7. C \in Nat /\ S \in Nat /\ W \in Nat /\ connections \in Nat
      BY HistoryFinite DEF CountTypeOK
    <3>8. connections + S = C + W /\ W <= S
      BY <2>2 DEF Balanced
    <3> HIDE DEF C, S, W
    <3>9. /\ connections' + Cardinality(strays') = Cardinality(counted') + Cardinality(swallowed')
          /\ Cardinality(swallowed') <= Cardinality(strays')
      BY <3>2, <3>3, <3>4, <3>5, <3>6, <3>7, <3>8
    <3>10. QED
      BY <3>9 DEF Balanced
  <2>3. QED
    BY <2>1, <2>2
<1>6. QED
  BY <1>1, <1>2, <1>3, <1>4, <1>5

\* The other steps change neither connections nor their tasks and history.
LEMMA OtherInv ==
    ASSUME CountInv,
           \/ remove_proxy \/ update_bandwidth \/ UNCHANGED statsVars
           \/ \E d \in Directions : Forward(d) \/ add_traffic(d)
    PROVE  CountInv'
<1>1. UNCHANGED <<connections, conn, tasks, counts>>
  BY DEF remove_proxy, update_bandwidth, Forward, add_traffic, statsVars, entry, counts, volume
<1>2. present' \in BOOLEAN /\ sampled' \in BOOLEAN /\ (present' => present)
  <2>1. (present' = present \/ present' = FALSE) /\ (sampled' = sampled \/ sampled' = TRUE)
    BY Zenon DEF remove_proxy, update_bandwidth, Forward, add_traffic, statsVars, entry
  <2>2. QED
    <3>1. present' \in BOOLEAN /\ (present' => present)
      <4>1. CASE present' = present
        BY <4>1 DEF CountInv, CountTypeOK
      <4>2. CASE present' = FALSE
        BY <4>2
      <4>3. QED
        BY <2>1, <4>1, <4>2
    <3>2. sampled' \in BOOLEAN
      BY <2>1 DEF CountInv, CountTypeOK
    <3>3. QED
      BY <3>1, <3>2
<1>3. QED
  BY <1>1, <1>2 DEF counts, CountInv, CountTypeOK, TasksSound, CountedSound, StraysSound, Balanced

\* In every reachable state the counter is in balance with the history.
THEOREM CountInvariance == StatsSpec => []CountInv
<1>1. StatsInit => CountInv
  <2> SUFFICES ASSUME StatsInit PROVE CountInv
    OBVIOUS
  <2>1. CountTypeOK
    <3>1. present \in BOOLEAN /\ sampled \in BOOLEAN
      BY Zenon DEF StatsInit
    <3>2. QED
      BY <3>1 DEF StatsInit, CountTypeOK
  <2>2. TasksSound
    BY DEF StatsInit, TasksSound
  <2>3. CountedSound /\ StraysSound /\ Balanced
    BY Zenon DEF StatsInit, CountedSound, StraysSound, Balanced
  <2>4. QED
    BY <2>1, <2>2, <2>3 DEF CountInv
<1>2. CountInv /\ [StatsNext]_statsVars => CountInv'
  <2> SUFFICES ASSUME CountInv, [StatsNext]_statsVars PROVE CountInv'
    OBVIOUS
  <2>1. CASE add_proxy
    BY <2>1, AddProxyInv
  <2>2. CASE \E c \in Conns : Accept(c) \/ Bridge(c) \/ Refuse(c) \/ End(c)
    BY <2>2, AcceptInv, BridgeInv, EndInv
  <2>3. CASE \E c \in Conns : inc_connections(c)
    BY <2>3, IncInv
  <2>4. CASE \E c \in Conns : dec_connections(c)
    BY <2>4, DecInv
  <2>5. CASE \/ remove_proxy \/ update_bandwidth \/ UNCHANGED statsVars
             \/ \E d \in Directions : Forward(d) \/ add_traffic(d)
    BY <2>5, OtherInv
  <2>6. QED
    BY <2>1, <2>2, <2>3, <2>4, <2>5 DEF StatsNext
<1>3. QED
  BY <1>1, <1>2, PTL DEF StatsSpec

\* When no task is left, what the entry counts lies between the connections that
\* live and those with the strays.
LEMMA CountedBetween ==
    ASSUME CountInv, present, tasks = {}
    PROVE  /\ Live \ older \subseteq counted
           /\ counted \subseteq (Live \ older) \cup strays
  BY DEF CountInv, CountTypeOK, CountedSound, Live

\* The panel's number of connections is right up to the misplaced -1s, however
\* inc_connections and dec_connections were ordered.
THEOREM CountCorrect == StatsSpec => []CountNear
<1>1. CountInv => CountNear
  <2> SUFFICES ASSUME CountInv, present, tasks = {}
               PROVE  /\ connections <= Cardinality(Live \ older) + Cardinality(strays)
                      /\ connections + Cardinality(strays) >= Cardinality(Live \ older)
    BY DEF CountNear
  <2> DEFINE L == Live \ older
  <2>1. IsFiniteSet(L) /\ Cardinality(L) \in Nat
    <3>1. L \in SUBSET Conns
      BY DEF Live
    <3>2. QED
      BY <3>1, StatsAssumption, FS_Subset, FS_CardinalityType
  <2>2. L \in SUBSET counted /\ counted \in SUBSET (L \cup strays)
    BY CountedBetween
  <2>3. CountTypeOK
    BY DEF CountInv
  <2>4. Cardinality(L) <= Cardinality(counted)
    BY <2>2, <2>3, HistoryFinite, FS_Subset
  <2>5. Cardinality(counted) <= Cardinality(L) + Cardinality(strays)
    <3>1. IsFiniteSet(L \cup strays) /\ IsFiniteSet(L \cap strays)
      <4>1. L \cap strays \in SUBSET L
        OBVIOUS
      <4>2. QED
        BY <4>1, <2>1, <2>3, HistoryFinite, FS_Union, FS_Subset
    <3>2. Cardinality(L \cup strays) = Cardinality(L) + Cardinality(strays) - Cardinality(L \cap strays)
      BY <2>1, <2>3, HistoryFinite, FS_Union
    <3>3. Cardinality(counted) <= Cardinality(L \cup strays)
      BY <2>2, <3>1, FS_Subset
    <3>4. Cardinality(L \cap strays) \in Nat
      BY <3>1, FS_CardinalityType
    <3> HIDE DEF L
    <3>5. QED
      BY <2>1, <2>3, <3>2, <3>3, <3>4, HistoryFinite
  <2>6. connections \in Nat
        /\ connections + Cardinality(strays) = Cardinality(counted) + Cardinality(swallowed)
        /\ Cardinality(swallowed) <= Cardinality(strays)
    BY DEF CountInv, CountTypeOK, Balanced
  <2> HIDE DEF L
  <2>7. /\ connections <= Cardinality(L) + Cardinality(strays)
        /\ connections + Cardinality(strays) >= Cardinality(L)
    BY <2>1, <2>3, <2>4, <2>5, <2>6, HistoryFinite
  <2>8. QED
    BY <2>7 DEF L
<1>2. QED
  BY <1>1, CountInvariance, PTL

-----------------------------------------------------------------------------
(* Traffic *)

Amounts == [Directions -> Nat]

\* Bytes, samples and spawned tasks are natural numbers, and add up.
TrafficInv ==
    /\ present \in BOOLEAN /\ sampled \in BOOLEAN
    /\ bytes \in Amounts /\ last_sample \in Amounts /\ traffic \in Amounts
    /\ owed \in Amounts /\ shown \in Amounts /\ unshown \in Amounts
    /\ TrafficAccounted

\* update_bandwidth: what has come since the last sample goes to a bandwidth or to
\* none, and the new sample begins where this one ends.
LEMMA SampleInv ==
    ASSUME TrafficInv, update_bandwidth
    PROVE  TrafficInv'
<1>1. \A d \in Directions : Delta(d) \in Nat /\ last_sample[d] + Delta(d) = bytes[d]
  BY DEF Delta, TrafficInv, TrafficAccounted, Amounts, update_bandwidth
<1>2. /\ shown' \in Amounts /\ unshown' \in Amounts
      /\ \A d \in Directions : shown'[d] + unshown'[d] = shown[d] + unshown[d] + Delta(d)
  <2> HIDE DEF Delta
  <2>1. PICK elapsed \in BOOLEAN :
            /\ shown' = [d \in Directions |->
                  IF sampled /\ elapsed THEN shown[d] + Delta(d) ELSE shown[d]]
            /\ unshown' = [d \in Directions |->
                  IF sampled /\ elapsed THEN unshown[d] ELSE unshown[d] + Delta(d)]
    BY Zenon DEF update_bandwidth
  <2>2. CASE sampled /\ elapsed
    BY <1>1, <2>1, <2>2 DEF TrafficInv, Amounts
  <2>3. CASE ~(sampled /\ elapsed)
    BY <1>1, <2>1, <2>3 DEF TrafficInv, Amounts
  <2>4. QED
    BY <2>2, <2>3
<1>3. last_sample' = bytes /\ sampled' = TRUE
      /\ UNCHANGED <<present, bytes, traffic, owed>>
  BY DEF update_bandwidth
<1>4. sampled' \in BOOLEAN
  BY <1>3
<1>5. \A d \in Directions : shown'[d] + unshown'[d] = last_sample'[d]
  BY <1>1, <1>2, <1>3 DEF TrafficInv, TrafficAccounted, Amounts, update_bandwidth
<1>6. QED
  BY <1>2, <1>3, <1>4, <1>5 DEF TrafficInv, TrafficAccounted, Amounts

\* report_traffic and add_traffic: a chunk is owed to the entry from the moment it
\* is reported, and its task adds it once.
LEMMA ChunkInv ==
    ASSUME TrafficInv, NEW d \in Directions, Forward(d) \/ add_traffic(d)
    PROVE  TrafficInv'
<1>1. CASE Forward(d)
  BY <1>1 DEF Forward, ReportTraffic, TrafficInv, TrafficAccounted, Amounts, entry
<1>2. CASE add_traffic(d)
  BY <1>2 DEF add_traffic, TrafficInv, TrafficAccounted, Amounts
<1>3. QED
  BY <1>1, <1>2

\* Every chunk is counted once by the entry of its rule, and the samples divide them
\* without gap or overlap, however add_traffic and update_bandwidth interleave.
THEOREM TrafficCorrect == StatsSpec => []TrafficAccounted
<1>1. StatsInit => TrafficInv
  <2>1. StatsInit => present = FALSE /\ present \in BOOLEAN /\ sampled \in BOOLEAN
    BY Zenon DEF StatsInit
  <2>2. QED
    BY <2>1 DEF StatsInit, Zero, TrafficInv, TrafficAccounted, Amounts
<1>2. TrafficInv /\ [StatsNext]_statsVars => TrafficInv'
  <2> SUFFICES ASSUME TrafficInv, [StatsNext]_statsVars PROVE TrafficInv'
    OBVIOUS
  <2>1. CASE add_proxy
    <3>1. present' \in BOOLEAN /\ sampled' \in BOOLEAN
      BY <2>1, Zenon DEF add_proxy
    <3>2. QED
      BY <2>1, <3>1 DEF add_proxy, Zero, TrafficInv, TrafficAccounted, Amounts
  <2>2. CASE update_bandwidth
    BY <2>2, SampleInv
  <2>3. CASE \E d \in Directions : Forward(d) \/ add_traffic(d)
    BY <2>3, ChunkInv
  <2>4. CASE \/ remove_proxy \/ UNCHANGED statsVars
             \/ \E c \in Conns :
                   \/ Accept(c) \/ Bridge(c) \/ Refuse(c) \/ End(c)
                   \/ inc_connections(c) \/ dec_connections(c)
    <3>1. UNCHANGED <<bytes, sampled, last_sample, traffic, owed, shown, unshown>>
      BY <2>4 DEF remove_proxy, Accept, Bridge, Refuse, End, inc_connections,
                  dec_connections, statsVars, entry, volume
    <3>2. present' = present \/ present' = FALSE
      BY <2>4, Zenon DEF remove_proxy, Accept, Bridge, Refuse, End, inc_connections,
                  dec_connections, statsVars, entry
    <3>3. present' \in BOOLEAN /\ (present' => present)
      <4>1. CASE present' = present
        BY <4>1 DEF TrafficInv
      <4>2. CASE present' = FALSE
        BY <4>2
      <4>3. QED
        BY <3>2, <4>1, <4>2
    <3>4. QED
      BY <3>1, <3>3 DEF TrafficInv, TrafficAccounted
  <2>5. QED
    BY <2>1, <2>2, <2>3, <2>4 DEF StatsNext
<1>3. TrafficInv => TrafficAccounted
  BY DEF TrafficInv
<1>4. QED
  BY <1>1, <1>2, <1>3, PTL DEF StatsSpec
=============================================================================
