-------------------------- MODULE MqttCodecProofs ---------------------------
(***************************************************************************)
(* Proofs about the packets: what is packed is read back, for every base of *)
(* the remaining length that the module allows, strings and data of any     *)
(* length, and any bytes that follow.  The recursive definitions of the     *)
(* codec are functions, so that what they compute can be proved by          *)
(* induction over sets of naturals (SetInduction, StrongInduction).         *)
(***************************************************************************)
EXTENDS MqttCodec, SequenceTheorems, WellFoundedInduction, TLAPS

-----------------------------------------------------------------------------
(* Recursive functions, and sequences strung together.                      *)

\* A set of naturals has a least member.
LEMMA LeastExists ==
    ASSUME NEW T, T \subseteq Nat, T # {}
    PROVE  \E k \in T : \A j \in T : k <= j
<1>1. PICK k \in T : \A j \in T : ~(<<j, k>> \in OpToRel(<, Nat))
  BY WFMin, NatLessThanWellFounded
<1>2. \A j \in T : ~(j < k)
  BY <1>1 DEF OpToRel
<1> QED BY <1>2

\* Induction: a set that has 0 and n + 1 with every n has all naturals.
LEMMA SetInduction ==
    ASSUME NEW T, 0 \in T, \A n \in Nat : n \in T => n + 1 \in T
    PROVE  \A n \in Nat : n \in T
<1> DEFINE U == Nat \ T
<1> SUFFICES ASSUME U # {} PROVE FALSE
  OBVIOUS
<1>1. PICK k \in U : \A j \in U : k <= j
  BY LeastExists
<1>2. k - 1 \in Nat /\ k - 1 \in T
  BY <1>1
<1> QED BY <1>2, <1>1

\* A set of elements with a measure has one of least measure.
LEMMA LeastMeasure ==
    ASSUME NEW V, NEW mu, V # {}, \A x \in V : mu[x] \in Nat
    PROVE  \E x \in V : \A y \in V : mu[x] <= mu[y]
<1> DEFINE T == {mu[x] : x \in V}
<1>1. T \subseteq Nat /\ T # {}
  OBVIOUS
<1>2. PICK k \in T : \A j \in T : k <= j
  BY <1>1, LeastExists
<1> QED BY <1>2

Recursive(W, S, mu, c, b, d, g) ==
    /\ mu \in [W -> Nat]
    /\ \A x \in W : x \in c => b[x] \in S
    /\ \A x \in W : x \notin c => d[x] \in W /\ mu[d[x]] < mu[x]
    /\ \A x \in W : \A s \in S : x \notin c => g[x][s] \in S

Solves(f, W, c, b, d, g) ==
    \A x \in W : f[x] = IF x \in c THEN b[x] ELSE g[x][f[d[x]]]

\* A function defined by recursion on a measure exists.
LEMMA WellDefined ==
    ASSUME NEW W, NEW S, NEW mu, NEW c, NEW b, NEW d, NEW g,
           Recursive(W, S, mu, c, b, d, g)
    PROVE  \E f \in [W -> S] : Solves(f, W, c, b, d, g)
<1> USE DEF Recursive
<1> DEFINE Step(h, x)   == IF x \in c THEN b[x] ELSE g[x][h[d[x]]]
           Approx(h, n) == /\ h \in [W -> S]
                           /\ \A x \in W : mu[x] < n => h[x] = Step(h, x)
           T            == {n \in Nat : \E h : Approx(h, n)}
<1>1. ASSUME W = {} PROVE \E h \in [W -> S] : TRUE
  <2>1. [x \in W |-> 0] \in [W -> S]
    BY <1>1
  <2> QED BY <2>1
<1>2. ASSUME W # {} PROVE \E h \in [W -> S] : TRUE
  <2>1. PICK x \in W : \A y \in W : mu[x] <= mu[y]
    BY <1>2, LeastMeasure
  <2>2. x \in c
    BY <2>1
  <2>3. [y \in W |-> b[x]] \in [W -> S]
    BY <2>2
  <2> QED BY <2>3
<1>3. 0 \in T
  <2>1. PICK h \in [W -> S] : TRUE
    BY <1>1, <1>2
  <2>2. Approx(h, 0)
    OBVIOUS
  <2> QED BY <2>2
<1>4. ASSUME NEW n \in Nat, n \in T PROVE n + 1 \in T
  <2>1. PICK h : Approx(h, n)
    BY <1>4
  <2> DEFINE k == [x \in W |-> Step(h, x)]
  <2>2. k \in [W -> S]
    BY <2>1
  <2>3. ASSUME NEW x \in W, mu[x] < n + 1 PROVE k[x] = Step(k, x)
    <3>1. CASE x \in c
      BY <3>1
    <3>2. CASE x \notin c
      <4>1. d[x] \in W /\ mu[d[x]] < n
        BY <2>3, <3>2
      <4>2. k[d[x]] = h[d[x]]
        BY <4>1, <2>1
      <4> QED BY <4>2, <3>2
    <3> QED BY <3>1, <3>2
  <2>4. Approx(k, n + 1)
    BY <2>2, <2>3
  <2> HIDE DEF k, Approx
  <2> QED BY <2>4
<1>5. \A n \in Nat : n \in T
  BY <1>3, <1>4, SetInduction
<1>6. ASSUME NEW h, NEW k, NEW m \in Nat, NEW n \in Nat, Approx(h, m), Approx(k, n)
      PROVE  \A x \in W : mu[x] < m /\ mu[x] < n => h[x] = k[x]
  <2> DEFINE V == {x \in W : mu[x] < m /\ mu[x] < n /\ h[x] # k[x]}
  <2> SUFFICES ASSUME V # {} PROVE FALSE
    OBVIOUS
  <2>1. PICK x \in V : \A y \in V : mu[x] <= mu[y]
    BY LeastMeasure
  <2>2. x \notin c
    BY <2>1, <1>6
  <2>3. d[x] \in W /\ mu[d[x]] < mu[x]
    BY <2>2
  <2>4. h[d[x]] = k[d[x]]
    BY <2>1, <2>3
  <2> QED BY <2>4, <2>2, <1>6
<1> DEFINE A == [n \in Nat |-> CHOOSE h : Approx(h, n)]
           f == [x \in W |-> A[mu[x] + 1][x]]
<1>7. \A n \in Nat : Approx(A[n], n)
  BY <1>5
<1> HIDE DEF A
<1>8. \A x \in W : A[mu[x] + 1] \in [W -> S]
  BY <1>7
<1> HIDE DEF Approx
<1>9. f \in [W -> S]
  BY <1>8
<1>10. ASSUME NEW x \in W PROVE f[x] = Step(f, x)
  <2> DEFINE h == A[mu[x] + 1]
  <2>0. Approx(h, mu[x] + 1) /\ mu[x] \in Nat
    BY <1>7
  <2>1. f[x] = h[x]
    OBVIOUS
  <2>2. ASSUME NEW y \in W, mu[y] <= mu[x] PROVE f[y] = h[y]
    <3>1. Approx(A[mu[y] + 1], mu[y] + 1) /\ mu[y] \in Nat
      BY <1>7
    <3>2. A[mu[y] + 1][y] = h[y]
      BY <2>0, <2>2, <3>1, <1>6
    <3> QED BY <3>2
  <2> HIDE DEF f, h
  <2>3. h[x] = Step(h, x)
    BY <2>0 DEF Approx
  <2>4. CASE x \in c
    BY <2>1, <2>3, <2>4
  <2>5. CASE x \notin c
    BY <2>1, <2>2, <2>3, <2>5
  <2> QED BY <2>4, <2>5
<1> QED BY <1>9, <1>10 DEF Solves

\* The weights of the bytes of a remaining length, by recursion.
LEMMA WeightDef ==
    /\ Weight \in [Nat -> Nat \ {0}]
    /\ Weight[0] = 1
    /\ \A j \in Nat : Weight[j + 1] = Base * Weight[j]
<1> DEFINE S == Nat \ {0}
           b == [j \in Nat |-> 1]
           d == [j \in Nat |-> j - 1]
           mu == [j \in Nat |-> j]
           g == [j \in Nat |-> [s \in S |-> Base * s]]
<1>0. Base \in Nat \ {0}
  BY CodecAssumption
<1>1. mu \in [Nat -> Nat]
  OBVIOUS
<1>2. \A j \in Nat : j \in {0} => b[j] \in S
  OBVIOUS
<1>3. \A j \in Nat : j \notin {0} => d[j] \in Nat /\ mu[d[j]] < mu[j]
  OBVIOUS
<1>4. \A j \in Nat : \A s \in S : j \notin {0} => g[j][s] \in S
  BY <1>0
<1>5. Recursive(Nat, S, mu, {0}, b, d, g)
  <2> HIDE DEF S, b, d, mu, g
  <2> QED BY <1>1, <1>2, <1>3, <1>4 DEF Recursive
<1>6. PICK f \in [Nat -> S] : Solves(f, Nat, {0}, b, d, g)
  <2> HIDE DEF S, b, d, mu, g
  <2> QED BY <1>5, WellDefined
<1>7. f = [j \in Nat |-> IF j = 0 THEN 1 ELSE Base * f[j - 1]]
  <2>1. ASSUME NEW j \in Nat PROVE f[j] = IF j = 0 THEN 1 ELSE Base * f[j - 1]
    <3>1. f[j] = IF j \in {0} THEN b[j] ELSE g[j][f[d[j]]]
      BY <1>6 DEF Solves
    <3> QED BY <3>1
  <2> QED BY <2>1, <1>6
<1>8. Weight = [j \in Nat |-> IF j = 0 THEN 1 ELSE Base * Weight[j - 1]]
  BY <1>7 DEF Weight
<1>9. \A j \in Nat : Weight[j] = IF j = 0 THEN 1 ELSE Base * Weight[j - 1]
  BY <1>8
<1> DEFINE T == {n \in Nat : Weight[n] \in S}
<1>10. 0 \in T
  BY <1>9
<1>11. ASSUME NEW n \in Nat, n \in T PROVE n + 1 \in T
  BY <1>9, <1>11, <1>0
<1>12. \A n \in Nat : n \in T
  BY <1>10, <1>11, SetInduction
<1> QED BY <1>8, <1>9, <1>12

\* FlattenSeq strings its pieces together from the first one on.
LEMMA FlattenDef ==
    ASSUME NEW S, NEW ss \in Seq(Seq(S))
    PROVE  \E f \in [0..Len(ss) -> Seq(S)] :
              /\ f[0] = <<>>
              /\ \A i \in 1..Len(ss) : f[i] = f[i - 1] \o ss[i]
              /\ FlattenSeq(ss) = f[Len(ss)]
<1> DEFINE W == 1..Len(ss)
           d == [i \in W |-> i - 1]
           mu == [i \in W |-> i]
           g == [i \in W |-> [s \in Seq(S) |-> s \o ss[i]]]
           Flat == CHOOSE flatten : flatten = [i \in 1..Len(ss) |->
                      IF i = 1 THEN ss[i] ELSE flatten[i - 1] \o ss[i]]
<1>0. Len(ss) \in Nat /\ \A i \in W : ss[i] \in Seq(S)
  BY LenProperties, ElementOfSeq
<1>1. mu \in [W -> Nat]
  BY <1>0
<1>2. \A i \in W : i \in {1} => ss[i] \in Seq(S)
  BY <1>0
<1>3. \A i \in W : i \notin {1} => d[i] \in W /\ mu[d[i]] < mu[i]
  BY <1>0
<1>4. \A i \in W : \A s \in Seq(S) : i \notin {1} => g[i][s] \in Seq(S)
  BY <1>0, ConcatProperties
<1>5. Recursive(W, Seq(S), mu, {1}, ss, d, g)
  <2> HIDE DEF W, d, mu, g
  <2> QED BY <1>1, <1>2, <1>3, <1>4 DEF Recursive
<1>6. PICK f \in [W -> Seq(S)] : Solves(f, W, {1}, ss, d, g)
  <2> HIDE DEF W, d, mu, g
  <2> QED BY <1>5, WellDefined
<1>7. f = [i \in 1..Len(ss) |-> IF i = 1 THEN ss[i] ELSE f[i - 1] \o ss[i]]
  <2>1. ASSUME NEW i \in W PROVE f[i] = IF i = 1 THEN ss[i] ELSE f[i - 1] \o ss[i]
    <3>1. i # 1 => i - 1 \in W
      BY <1>0
    <3>2. f[i] = IF i \in {1} THEN ss[i] ELSE g[i][f[d[i]]]
      BY <1>6 DEF Solves
    <3> QED BY <3>1, <3>2
  <2> QED BY <2>1, <1>6
<1>8. Flat = [i \in 1..Len(ss) |-> IF i = 1 THEN ss[i] ELSE Flat[i - 1] \o ss[i]]
  BY <1>7
<1>8a. \A i \in W : Flat[i] = IF i = 1 THEN ss[i] ELSE Flat[i - 1] \o ss[i]
  <2> HIDE DEF Flat
  <2> QED BY <1>8
<1>9. Len(ss) # 0 => FlattenSeq(ss) = Flat[Len(ss)]
  BY DEF FlattenSeq
<1>10. Len(ss) = 0 => FlattenSeq(ss) = ss /\ ss = <<>>
  BY <1>0 DEF FlattenSeq
<1> HIDE DEF Flat
<1> DEFINE T == {n \in Nat : n + 1 \in W => Flat[n + 1] \in Seq(S)}
<1>11. 0 \in T
  BY <1>8, <1>0
<1>12. ASSUME NEW n \in Nat, n \in T PROVE n + 1 \in T
  <2> SUFFICES ASSUME n + 1 + 1 \in W PROVE Flat[n + 1 + 1] \in Seq(S)
    OBVIOUS
  <2>1. n + 1 \in W /\ Flat[n + 1] \in Seq(S)
    BY <1>12, <1>0
  <2>2. n + 1 + 1 # 1 /\ (n + 1 + 1) - 1 = n + 1
    OBVIOUS
  <2>3. Flat[n + 1 + 1] = Flat[n + 1] \o ss[n + 1 + 1]
    BY <1>8a, <2>2
  <2> QED BY <2>1, <2>3, <1>0, ConcatProperties
<1>13. \A n \in Nat : n \in T
  <2> HIDE DEF T
  <2> QED BY <1>11, <1>12, SetInduction
<1>14. ASSUME NEW i \in W PROVE Flat[i] \in Seq(S)
  <2>1. i \in Nat /\ i - 1 \in Nat /\ (i - 1) + 1 = i
    BY <1>0
  <2>2. i - 1 \in T
    <3> HIDE DEF T
    <3> QED BY <1>13, <2>1
  <2> QED BY <2>2, <2>1
<1> DEFINE h == [i \in 0..Len(ss) |-> IF i = 0 THEN <<>> ELSE Flat[i]]
<1>15. h \in [0..Len(ss) -> Seq(S)]
  BY <1>14, <1>0, EmptySeq
<1>16. ASSUME NEW i \in 1..Len(ss) PROVE h[i] = h[i - 1] \o ss[i]
  <2>1. CASE i = 1
    <3>1. h[1] = ss[1] /\ h[0] = <<>>
      BY <1>0, <1>8, <2>1
    <3> QED BY <3>1, <2>1, <1>0, ConcatEmptySeq
  <2>2. CASE i # 1
    <3>1. i - 1 \in 1..Len(ss) /\ i - 1 # 0
      BY <2>2, <1>0
    <3>2. h[i] = Flat[i] /\ h[i - 1] = Flat[i - 1]
      BY <3>1, <1>0
    <3> HIDE DEF h
    <3> QED BY <1>8a, <2>2, <3>1, <3>2
  <2> QED BY <2>1, <2>2
<1>17. h[0] = <<>> /\ FlattenSeq(ss) = h[Len(ss)]
  BY <1>9, <1>10, <1>0
<1> HIDE DEF h
<1> QED BY <1>15, <1>16, <1>17

\* No pieces give no bytes.
LEMMA FlattenEmpty == FlattenSeq(<<>>) = <<>>
  BY DEF FlattenSeq

\* The pieces strung together have the members of the pieces.
LEMMA FlattenType ==
    ASSUME NEW S, NEW ss \in Seq(Seq(S))
    PROVE  FlattenSeq(ss) \in Seq(S)
<1>1. PICK f \in [0..Len(ss) -> Seq(S)] : FlattenSeq(ss) = f[Len(ss)]
  BY FlattenDef
<1>2. Len(ss) \in Nat
  BY LenProperties
<1> QED BY <1>1, <1>2

\* The first piece goes first.
LEMMA FlattenCons ==
    ASSUME NEW S, NEW s \in Seq(S), NEW ss \in Seq(Seq(S))
    PROVE  FlattenSeq(<<s>> \o ss) = s \o FlattenSeq(ss)
<1> DEFINE ts == <<s>> \o ss
           n  == Len(ss)
<1>0. \A a, b \in Seq(S) : (s \o a) \o b = s \o (a \o b)
  BY ConcatAssociative
<1>1. /\ <<s>> \in Seq(Seq(S)) /\ Len(<<s>>) = 1
      /\ n \in Nat
  BY LenProperties
<1>2. /\ ts \in Seq(Seq(S)) /\ Len(ts) = n + 1 /\ ts[1] = s
      /\ \A i \in 1..n : ts[i + 1] = ss[i] /\ ss[i] \in Seq(S)
  <2>1. /\ ts \in Seq(Seq(S)) /\ Len(ts) = n + 1
        /\ \A i \in 1..(n + 1) : ts[i] = IF i <= 1 THEN <<s>>[i] ELSE ss[i - 1]
    BY <1>1, ConcatProperties
  <2> HIDE DEF ts
  <2>2. ts[1] = s
    BY <2>1, <1>1
  <2>3. ASSUME NEW i \in 1..n PROVE ts[i + 1] = ss[i] /\ ss[i] \in Seq(S)
    <3>1. i + 1 \in 1..(n + 1) /\ ~(i + 1 <= 1) /\ (i + 1) - 1 = i
      BY <1>1
    <3>2. ss[i] \in Seq(S)
      BY ElementOfSeq
    <3> QED BY <2>1, <3>1, <3>2
  <2> QED BY <2>1, <2>2, <2>3
<1> HIDE DEF ts
<1>3. PICK f \in [0..Len(ss) -> Seq(S)] :
              /\ f[0] = <<>>
              /\ \A i \in 1..Len(ss) : f[i] = f[i - 1] \o ss[i]
              /\ FlattenSeq(ss) = f[Len(ss)]
  BY FlattenDef
<1>4. PICK h \in [0..Len(ts) -> Seq(S)] :
              /\ h[0] = <<>>
              /\ \A i \in 1..Len(ts) : h[i] = h[i - 1] \o ts[i]
              /\ FlattenSeq(ts) = h[Len(ts)]
  BY <1>2, FlattenDef
<1> DEFINE T == {i \in Nat : i <= n => h[i + 1] = s \o f[i]}
<1>5. 0 \in T
  <2>0. 1 \in 1..Len(ts) /\ 1 - 1 = 0
    BY <1>1, <1>2
  <2>1. h[1] = <<>> \o s
    BY <1>2, <1>4, <2>0
  <2> QED BY <2>1, <1>3, ConcatEmptySeq
<1>6. ASSUME NEW i \in Nat, i \in T PROVE i + 1 \in T
  <2> SUFFICES ASSUME i + 1 <= n PROVE h[i + 1 + 1] = s \o f[i + 1]
    OBVIOUS
  <2>1. i + 1 \in 1..n /\ i \in 0..n /\ i + 1 + 1 \in 1..Len(ts) /\ (i + 1 + 1) - 1 = i + 1
        /\ (i + 1) - 1 = i
    BY <1>1, <1>2
  <2>2. h[i + 1] = s \o f[i]
    BY <1>6, <1>1
  <2>3. h[i + 1 + 1] = h[i + 1] \o ts[i + 1 + 1]
    BY <1>4, <2>1
  <2>4. ts[i + 1 + 1] = ss[i + 1] /\ ss[i + 1] \in Seq(S)
    BY <1>2, <2>1
  <2>5. f[i + 1] = f[i] \o ss[i + 1] /\ f[i] \in Seq(S)
    BY <1>3, <2>1
  <2>6. (s \o f[i]) \o ss[i + 1] = s \o (f[i] \o ss[i + 1])
    BY <2>4, <2>5, <1>0
  <2> QED BY <2>2, <2>3, <2>4, <2>5, <2>6
<1>7. n \in T
  <2> HIDE DEF T
  <2> QED BY <1>1, <1>5, <1>6, SetInduction
<1>8. h[n + 1] = s \o f[n]
  BY <1>7, <1>1
<1> QED BY <1>8, <1>2, <1>3, <1>4 DEF ts

-----------------------------------------------------------------------------
(* The remaining length of a packet.                                        *)

\* Induction with every smaller natural.
LEMMA StrongInduction ==
    ASSUME NEW T, \A n \in Nat : (\A m \in 0..(n - 1) : m \in T) => n \in T
    PROVE  \A n \in Nat : n \in T
<1> DEFINE U == Nat \ T
<1> SUFFICES ASSUME U # {} PROVE FALSE
  OBVIOUS
<1>1. PICK k \in U : \A j \in U : k <= j
  BY LeastExists
<1>2. \A m \in 0..(k - 1) : m \in T
  BY <1>1
<1> QED BY <1>2, <1>1

\* The least that is known of Base.
LEMMA BaseType == Base \in Nat /\ Base > 1 /\ Base <= 128
  BY CodecAssumption

\* A quotient is smaller than what is divided.
LEMMA QuotientBounds ==
    ASSUME NEW q \in Nat, NEW b \in Nat, NEW r \in 0..(b - 1), b > 1, b * q + r >= b
    PROVE  q > 0 /\ q < b * q + r
<1>1. q # 0
  <2> SUFFICES ASSUME q = 0 PROVE FALSE
    OBVIOUS
  <2> QED OBVIOUS
<1>2. b * q >= 2 * q
  OBVIOUS
<1> QED BY <1>1, <1>2

\* Division with remainder.
LEMMA DivisionBy ==
    ASSUME NEW n \in Nat, NEW b \in Nat, b > 1
    PROVE  /\ n % b \in 0..(b - 1) /\ n \div b \in Nat
           /\ n = b * (n \div b) + (n % b)
           /\ n >= b => n \div b < n /\ n \div b > 0
<1> DEFINE q == n \div b
           r == n % b
<1>1. q \in Nat /\ r \in 0..(b - 1) /\ n = b * q + r
  OBVIOUS
<1> HIDE DEF q, r
<1>2. n >= b => q < n /\ q > 0
  BY <1>1, QuotientBounds
<1> QED BY <1>1, <1>2 DEF q, r

\* A remaining length is its last digit and Base times the others.
LEMMA Division ==
    ASSUME NEW n \in Nat
    PROVE  /\ n % Base \in Nat /\ n % Base < Base /\ n \div Base \in Nat
           /\ n = Base * (n \div Base) + (n % Base)
           /\ n >= Base => n \div Base < n /\ n \div Base > 0
  BY BaseType, DivisionBy

\* A digit needs no mark; with the mark it is another byte, and still the same digit.
LEMMA Digit ==
    ASSUME NEW n \in Nat, n < Base
    PROVE  /\ n \in Byte /\ n % Base = n /\ ~Continues(n)
           /\ n + Base \in Byte /\ (n + Base) % Base = n /\ Continues(n + Base)
<1>1. n % Base = n /\ n \div Base = 0
  BY BaseType
<1>2. (n + Base) % Base = n /\ (n + Base) \div Base = 1
  BY BaseType
<1>3. n \in Byte /\ n + Base \in Byte
  BY BaseType DEF Byte
<1> QED BY <1>1, <1>2, <1>3 DEF Continues

\* One step of the loop in mqtt_pack_fixed_header.
LEMMA LengthBytesDef ==
    /\ \A n \in Nat : n < Base => LengthBytes[n] = <<n>>
    /\ \A n \in Nat : n >= Base =>
          LengthBytes[n] = <<(n % Base) + Base>> \o LengthBytes[n \div Base]
<1> DEFINE S == Seq(Byte)
           c == {n \in Nat : n < Base}
           b == [n \in Nat |-> <<n>>]
           d == [n \in Nat |-> n \div Base]
           mu == [n \in Nat |-> n]
           g == [n \in Nat |-> [s \in S |-> <<(n % Base) + Base>> \o s]]
<1>1. mu \in [Nat -> Nat]
  OBVIOUS
<1>2. \A n \in Nat : n \in c => b[n] \in S
  BY Digit
<1>3. \A n \in Nat : n \notin c => d[n] \in Nat /\ mu[d[n]] < mu[n]
  BY Division, BaseType
<1>4. ASSUME NEW n \in Nat, NEW s \in S PROVE g[n][s] \in S
  <2>1. n % Base \in Nat /\ n % Base < Base
    BY Division
  <2>2. (n % Base) + Base \in Byte
    BY <2>1, Digit
  <2> QED BY <2>2, ConcatProperties
<1>5. Recursive(Nat, S, mu, c, b, d, g)
  <2> HIDE DEF S, c, b, d, mu, g
  <2> QED BY <1>1, <1>2, <1>3, <1>4 DEF Recursive
<1>6. PICK f \in [Nat -> S] : Solves(f, Nat, c, b, d, g)
  <2> HIDE DEF S, c, b, d, mu, g
  <2> QED BY <1>5, WellDefined
<1>7. f = [n \in Nat |->
              IF n < Base THEN <<n>> ELSE <<(n % Base) + Base>> \o f[n \div Base]]
  <2>1. ASSUME NEW n \in Nat
        PROVE f[n] = IF n < Base THEN <<n>> ELSE <<(n % Base) + Base>> \o f[n \div Base]
    <3>1. f[n] = IF n \in c THEN b[n] ELSE g[n][f[d[n]]]
      BY <1>6 DEF Solves
    <3>2. n \div Base \in Nat
      BY Division
    <3> QED BY <3>1, <3>2
  <2> QED BY <2>1, <1>6
<1>8. LengthBytes = [n \in Nat |->
          IF n < Base THEN <<n>> ELSE <<(n % Base) + Base>> \o LengthBytes[n \div Base]]
  BY <1>7 DEF LengthBytes
<1>9. ASSUME NEW n \in Nat
      PROVE  LengthBytes[n] =
          IF n < Base THEN <<n>> ELSE <<(n % Base) + Base>> \o LengthBytes[n \div Base]
  BY <1>8
<1>10. ASSUME NEW n \in Nat, n >= Base PROVE ~(n < Base)
  BY <1>10, BaseType
<1> QED BY <1>9, <1>10

\* v[j] is the value of the first j bytes of the remaining length l.
IsValue(v, l) ==
    /\ v \in [0..Len(l) -> Nat] /\ v[0] = 0
    /\ \A j \in 1..Len(l) : v[j] = v[j - 1] + (l[j] % Base) * Weight[j - 1]

\* What holds of the bytes l of the remaining length n.
Encodes(l, n) ==
    /\ l \in Seq(Byte) /\ Len(l) >= 1
    /\ \A i \in 1..Len(l) : Continues(l[i]) <=> i < Len(l)
    /\ \A i \in Nat \ {0} : n < Weight[i] => Len(l) <= i
    /\ \E v : IsValue(v, l) /\ v[Len(l)] = n

\* A remaining length of one digit.
LEMMA EncodesShort ==
    ASSUME NEW n \in Nat, n < Base
    PROVE  Encodes(<<n>>, n)
<1> DEFINE l == <<n>>
           v == [j \in 0..1 |-> IF j = 0 THEN 0 ELSE n]
<1>1. l \in Seq(Byte) /\ Len(l) = 1 /\ l[1] = n
  BY Digit
<1>2. ~Continues(l[1]) /\ l[1] % Base = n
  BY <1>1, Digit
<1>3. IsValue(v, l) /\ v[Len(l)] = n
  <2>1. v \in [0..Len(l) -> Nat] /\ v[0] = 0 /\ v[1] = n
    BY <1>1
  <2> HIDE DEF v, l
  <2>2. ASSUME NEW j \in 1..Len(l)
        PROVE  v[j] = v[j - 1] + (l[j] % Base) * Weight[j - 1]
    <3>1. j = 1 /\ j - 1 = 0
      BY <1>1
    <3>2. v[1] = v[0] + (l[1] % Base) * Weight[0]
      BY <1>2, <2>1, WeightDef
    <3> QED BY <3>1, <3>2
  <2> QED BY <1>1, <2>1, <2>2 DEF IsValue
<1> HIDE DEF l, v
<1>4. Encodes(l, n)
  BY <1>1, <1>2, <1>3 DEF Encodes
<1> QED BY <1>4 DEF l

\* Bytes are naturals.
LEMMA ByteIsNat == \A x \in Byte : x \in Nat
  BY DEF Byte

\* A member put in front of a sequence.
LEMMA ConsByte ==
    ASSUME NEW S, NEW a \in S, NEW m \in Seq(S)
    PROVE  /\ <<a>> \o m \in Seq(S) /\ Len(<<a>> \o m) = Len(m) + 1
           /\ (<<a>> \o m)[1] = a
           /\ \A i \in 1..Len(m) : (<<a>> \o m)[i + 1] = m[i]
<1>1. <<a>> \in Seq(S) /\ Len(<<a>>) = 1 /\ <<a>>[1] = a /\ Len(m) \in Nat
  BY LenProperties
<1>2. /\ <<a>> \o m \in Seq(S) /\ Len(<<a>> \o m) = Len(<<a>>) + Len(m)
      /\ \A i \in 1..(Len(<<a>>) + Len(m)) :
            (<<a>> \o m)[i] = IF i <= Len(<<a>>) THEN <<a>>[i] ELSE m[i - Len(<<a>>)]
  BY <1>1, ConcatProperties
<1> DEFINE l == <<a>> \o m
<1> HIDE DEF l
<1>3. \A i \in 1..(1 + Len(m)) : l[i] = IF i <= 1 THEN a ELSE m[i - 1]
  BY <1>1, <1>2 DEF l
<1>4. ASSUME NEW i \in 1..Len(m) PROVE l[i + 1] = m[i]
  <2>1. i + 1 \in 1..(1 + Len(m)) /\ ~(i + 1 <= 1) /\ (i + 1) - 1 = i
    BY <1>1
  <2> QED BY <1>3, <2>1
<1>5. l[1] = a
  BY <1>3, <1>1
<1> QED BY <1>1, <1>2, <1>4, <1>5 DEF l

\* The arithmetic of one digit more.
LEMMA Distribute ==
    ASSUME NEW b \in Nat, NEW x \in Nat, NEW y \in Nat, NEW w \in Nat, NEW d \in Nat
    PROVE  d + b * (x + y * w) = (d + b * x) + y * (b * w)
  OBVIOUS

\* A remaining length of one digit more.
LEMMA EncodesLong ==
    ASSUME NEW n \in Nat, n >= Base, NEW m, Encodes(m, n \div Base)
    PROVE  Encodes(<<(n % Base) + Base>> \o m, n)
<1> DEFINE d == n % Base
           q == n \div Base
           l == <<d + Base>> \o m
<1>1. /\ d \in Nat /\ d < Base /\ q \in Nat /\ n = Base * q + d /\ q < n
      /\ Base \in Nat /\ Base > 1 /\ Encodes(m, q)
  BY Division, BaseType
<1> HIDE DEF d, q
<1>2. d + Base \in Byte /\ (d + Base) % Base = d /\ Continues(d + Base)
  BY <1>1, Digit
<1>3. m \in Seq(Byte) /\ Len(m) \in Nat /\ Len(m) >= 1
  BY <1>1, LenProperties DEF Encodes
<1>3a. ASSUME NEW i \in 1..Len(m) PROVE m[i] \in Nat
  <2>1. m[i] \in Byte
    BY <1>3, ElementOfSeq
  <2> QED BY <2>1, ByteIsNat
<1>4. /\ l \in Seq(Byte) /\ Len(l) = Len(m) + 1 /\ l[1] = d + Base
      /\ \A i \in 1..Len(m) : l[i + 1] = m[i]
  BY <1>2, <1>3, ConsByte
<1> HIDE DEF l
<1>5. ASSUME NEW i \in 1..Len(l) PROVE Continues(l[i]) <=> i < Len(l)
  <2>1. CASE i = 1
    BY <2>1, <1>2, <1>3, <1>4
  <2>2. CASE i # 1
    <3>1. i - 1 \in 1..Len(m) /\ (i - 1) + 1 = i
      BY <2>2, <1>3, <1>4
    <3>2. Continues(m[i - 1]) <=> i - 1 < Len(m)
      BY <3>1, <1>1 DEF Encodes
    <3>3. l[i] = m[i - 1]
      BY <3>1, <1>4
    <3> QED BY <3>1, <3>2, <3>3, <1>3, <1>4
  <2> QED BY <2>1, <2>2
<1>6. ASSUME NEW i \in Nat \ {0}, n < Weight[i] PROVE Len(l) <= i
  <2>1. i # 1
    <3> SUFFICES ASSUME i = 1 PROVE FALSE
      OBVIOUS
    <3>1. Weight[0 + 1] = Base * Weight[0] /\ Weight[0] = 1
      BY WeightDef
    <3> QED BY <3>1, <1>6, <1>1
  <2> DEFINE j == i - 1
  <2>2. j \in Nat \ {0} /\ i = j + 1
    BY <2>1
  <2> HIDE DEF j
  <2>3. Weight[i] = Base * Weight[j] /\ Weight[j] \in Nat
    BY <2>2, WeightDef
  <2>4. q < Weight[j]
    <3> DEFINE w == Weight[j]
    <3>1. Base * q + d < Base * w /\ w \in Nat
      BY <2>3, <1>1, <1>6
    <3> HIDE DEF w
    <3>2. ~(q >= w)
      <4> SUFFICES ASSUME q >= w PROVE FALSE
        OBVIOUS
      <4>1. Base * q >= Base * w
        BY <1>1, <3>1
      <4> QED BY <4>1, <3>1, <1>1
    <3>3. q < w
      BY <3>1, <3>2, <1>1
    <3> QED BY <3>3 DEF w
  <2>5. Len(m) <= j
    BY <1>1, <2>2, <2>4 DEF Encodes
  <2> QED BY <2>5, <2>2, <1>3, <1>4
<1>7. PICK v : IsValue(v, m) /\ v[Len(m)] = q
  BY <1>1 DEF Encodes
<1> DEFINE u == [j \in 0..Len(l) |-> IF j = 0 THEN 0 ELSE d + Base * v[j - 1]]
<1>8. \A j \in 0..Len(m) : v[j] \in Nat
  BY <1>7 DEF IsValue
<1>9. u \in [0..Len(l) -> Nat] /\ u[0] = 0
  <2>1. ASSUME NEW j \in 0..Len(l), j # 0 PROVE d + Base * v[j - 1] \in Nat
    <3>1. v[j - 1] \in Nat
      BY <1>8, <1>3, <1>4, <2>1
    <3> QED BY <3>1, <1>1
  <2> QED BY <2>1, <1>3, <1>4
<1>10. \A j \in 1..Len(l) : u[j] = d + Base * v[j - 1]
  BY <1>3, <1>4
<1> HIDE DEF u
<1>11. ASSUME NEW j \in 1..Len(l) PROVE u[j] = u[j - 1] + (l[j] % Base) * Weight[j - 1]
  <2>1. CASE j = 1
    <3>1. u[1] = d + Base * v[0] /\ v[0] = 0
      <4>1. v[0] = 0
        BY <1>7 DEF IsValue
      <4>2. 1 \in 1..Len(l) /\ 1 - 1 = 0
        BY <1>3, <1>4
      <4> QED BY <4>1, <4>2, <1>10
    <3>2. (l[1] % Base) * Weight[0] = d
      BY <1>1, <1>2, <1>4, WeightDef
    <3>3. j - 1 = 0
      BY <2>1
    <3> QED BY <2>1, <3>1, <3>2, <3>3, <1>9, <1>1
  <2>2. CASE j # 1
    <3> DEFINE i == j - 1
               k == i - 1
    <3>1. i \in 1..Len(m) /\ i \in 1..Len(l) /\ j = i + 1 /\ k \in Nat /\ i = k + 1
      BY <2>2, <1>3, <1>4
    <3>2. k \in 0..Len(m) /\ i \in 0..Len(m)
      BY <3>1, <1>3
    <3>3. u[j] = d + Base * v[i] /\ u[i] = d + Base * v[k]
      BY <3>1, <1>10
    <3>4. v[i] = v[k] + (m[i] % Base) * Weight[k]
      BY <3>1, <1>7 DEF IsValue
    <3> HIDE DEF i, k
    <3>5. l[j] = m[i] /\ Weight[i] = Base * Weight[k] /\ Weight[k] \in Nat
      BY <3>1, <1>4, WeightDef
    <3>6. m[i] % Base \in Nat /\ v[k] \in Nat
      BY <3>1, <1>3a, <1>8, <3>2, Division
    <3> DEFINE y == m[i] % Base
    <3>7. d + Base * (v[k] + y * Weight[k]) = (d + Base * v[k]) + y * (Base * Weight[k])
      BY <3>5, <3>6, <1>1, Distribute
    <3>8. u[j] = u[i] + (l[j] % Base) * Weight[i]
      BY <3>7, <3>5, <3>4, <3>3
    <3> QED BY <3>8 DEF i
  <2> QED BY <2>1, <2>2
<1>12. IsValue(u, l)
  BY <1>9, <1>11 DEF IsValue
<1>13. u[Len(l)] = n
  <2>1. u[Len(l)] = d + Base * v[Len(m)]
    <3>1. Len(l) \in 1..Len(l) /\ Len(l) - 1 = Len(m)
      BY <1>3, <1>4
    <3> QED BY <3>1, <1>10
  <2> QED BY <2>1, <1>7, <1>1
<1>14. Encodes(l, n)
  BY <1>3, <1>4, <1>5, <1>6, <1>12, <1>13 DEF Encodes
<1> QED BY <1>14 DEF l, d

\* Every remaining length is written as digits of which only the last one is not marked,
\* as few as it needs (mqtt_pack_fixed_header).
THEOREM LengthEncoded == \A n \in Nat : Encodes(LengthBytes[n], n)
<1> DEFINE T == {n \in Nat : Encodes(LengthBytes[n], n)}
<1>1. ASSUME NEW n \in Nat, \A m \in 0..(n - 1) : m \in T PROVE n \in T
  <2>1. CASE n < Base
    BY <2>1, LengthBytesDef, EncodesShort
  <2>2. CASE n >= Base
    <3>1. n \div Base \in 0..(n - 1)
      BY <2>2, Division
    <3>2. Encodes(LengthBytes[n \div Base], n \div Base)
      BY <3>1, <1>1
    <3>3. Encodes(<<(n % Base) + Base>> \o LengthBytes[n \div Base], n)
      BY <2>2, <3>2, EncodesLong
    <3> QED BY <2>2, <3>3, LengthBytesDef
  <2> QED BY <2>1, <2>2, BaseType
<1> HIDE DEF T
<1>2. \A n \in Nat : n \in T
  BY <1>1, StrongInduction
<1> QED BY <1>2 DEF T

\* The sum that mqtt_unpack_fixed_header adds up is the value of the digits.
LEMMA LengthRead ==
    ASSUME NEW b, NEW l, NEW v, IsValue(v, l), Len(l) \in Nat,
           \A i \in 1..Len(l) : b[i + 1] = l[i]
    PROVE  LengthOf(b, Len(l)) = v[Len(l)]
<1> DEFINE k == Len(l)
           Value == CHOOSE value : value = [j \in 0..k |->
                       IF j = 0 THEN 0 ELSE value[j - 1] + (b[j + 1] % Base) * Weight[j - 1]]
<1>1. v = [j \in 0..k |->
             IF j = 0 THEN 0 ELSE v[j - 1] + (b[j + 1] % Base) * Weight[j - 1]]
  <2>1. ASSUME NEW j \in 0..k
        PROVE v[j] = IF j = 0 THEN 0 ELSE v[j - 1] + (b[j + 1] % Base) * Weight[j - 1]
    <3>1. CASE j = 0
      BY <3>1 DEF IsValue
    <3>2. CASE j # 0
      <4>1. j \in 1..k
        BY <3>2
      <4>2. v[j] = v[j - 1] + (l[j] % Base) * Weight[j - 1]
        BY <4>1 DEF IsValue
      <4> QED BY <4>1, <4>2, <3>2
    <3> QED BY <3>1, <3>2
  <2>2. v \in [0..k -> Nat]
    BY DEF IsValue
  <2> QED BY <2>1, <2>2
<1>2. Value = [j \in 0..k |->
          IF j = 0 THEN 0 ELSE Value[j - 1] + (b[j + 1] % Base) * Weight[j - 1]]
  BY <1>1
<1>3. LengthOf(b, k) = Value[k]
  BY DEF LengthOf
<1> HIDE DEF Value
<1>4. ASSUME NEW j \in 0..k
      PROVE Value[j] = IF j = 0 THEN 0
                       ELSE Value[j - 1] + (b[j + 1] % Base) * Weight[j - 1]
  BY <1>2
<1>5. ASSUME NEW j \in 0..k
      PROVE v[j] = IF j = 0 THEN 0 ELSE v[j - 1] + (b[j + 1] % Base) * Weight[j - 1]
  BY <1>1
<1> DEFINE T == {j \in Nat : j <= k => Value[j] = v[j]}
<1>6. 0 \in T
  BY <1>4, <1>5
<1>7. ASSUME NEW j \in Nat, j \in T PROVE j + 1 \in T
  <2> SUFFICES ASSUME j + 1 <= k PROVE Value[j + 1] = v[j + 1]
    OBVIOUS
  <2>1. j + 1 \in 0..k /\ j + 1 # 0 /\ (j + 1) - 1 = j /\ Value[j] = v[j]
    BY <1>7
  <2>2. Value[j + 1] = Value[j] + (b[j + 1 + 1] % Base) * Weight[j]
    BY <1>4, <2>1
  <2>3. v[j + 1] = v[j] + (b[j + 1 + 1] % Base) * Weight[j]
    BY <1>5, <2>1
  <2> QED BY <2>1, <2>2, <2>3
<1>8. k \in T
  <2> HIDE DEF T
  <2> QED BY <1>6, <1>7, SetInduction
<1> QED BY <1>3, <1>8

\* b starts like a packet of type t with flags f whose remaining length is l; it
\* may end before l does.
Starts(b, t, f, l) ==
    /\ b \in Seq(Byte)
    /\ Len(b) > 0 => b[1] = 16 * t + f
    /\ \A i \in 1..Len(l) : i < Len(b) => b[i + 1] = l[i]

\* mqtt_unpack_fixed_header reads back the remaining length, and tells whether the packet
\* is complete.
LEMMA HeaderRead ==
    ASSUME NEW b, NEW t \in 0..15, NEW f \in 0..15, NEW l, NEW n \in Nat,
           Encodes(l, n), Len(l) <= MaxLenBytes,
           mqtt_fixed_header_rule_violation(t, f) = "MQTT_OK",
           Starts(b, t, f, l), Len(b) > Len(l)
    PROVE  mqtt_unpack_fixed_header(b) =
              [error |-> "MQTT_OK",
               n |-> IF Len(b) - Len(l) - 1 < n THEN 0 ELSE Len(l) + 1, rl |-> n]
<1> DEFINE ends == {k \in 1..MaxLenBytes :
                       /\ k < Len(b) /\ ~Continues(b[k + 1])
                       /\ \A j \in 1..(k - 1) : Continues(b[j + 1])}
<1>1. Len(l) \in Nat /\ Len(l) >= 1 /\ Len(b) \in Nat /\ MaxLenBytes \in Nat
  BY LenProperties, CodecAssumption DEF Encodes, Starts
<1>2. \A i \in 1..Len(l) : b[i + 1] = l[i]
  BY <1>1 DEF Starts
<1>3. \A i \in 1..Len(l) : Continues(b[i + 1]) <=> i < Len(l)
  BY <1>2 DEF Encodes
<1>4. Len(l) \in ends
  <2>1. Len(l) \in 1..MaxLenBytes /\ Len(l) \in 1..Len(l) /\ Len(l) < Len(b)
    BY <1>1
  <2>2. ~Continues(b[Len(l) + 1])
    BY <2>1, <1>3, <1>1
  <2>3. ASSUME NEW j \in 1..(Len(l) - 1) PROVE Continues(b[j + 1])
    <3>1. j \in 1..Len(l) /\ j < Len(l)
      BY <1>1
    <3> QED BY <3>1, <1>3
  <2> QED BY <2>1, <2>2, <2>3
<1>5. ASSUME NEW k \in ends PROVE k = Len(l)
  <2>1. ~(k < Len(l))
    BY <1>1, <1>3
  <2>2. ~(Len(l) < k)
    <3> SUFFICES ASSUME Len(l) < k PROVE FALSE
      OBVIOUS
    <3>1. Len(l) \in 1..(k - 1) /\ Len(l) \in 1..Len(l)
      BY <1>1
    <3>2. Continues(b[Len(l) + 1])
      BY <3>1
    <3> QED BY <3>1, <3>2, <1>3, <1>1
  <2> QED BY <2>1, <2>2, <1>1
<1> HIDE DEF ends
<1>6. ends # {} /\ (CHOOSE i \in ends : TRUE) = Len(l)
  BY <1>4, <1>5
<1>7. LengthOf(b, Len(l)) = n
  <2>1. PICK v : IsValue(v, l) /\ v[Len(l)] = n
    BY DEF Encodes
  <2> QED BY <2>1, <1>1, <1>2, LengthRead
<1>8. b[1] \div 16 = t /\ b[1] % 16 = f
  <2>1. b[1] = 16 * t + f
    BY <1>1 DEF Starts
  <2>2. (16 * t + f) \div 16 = t /\ (16 * t + f) % 16 = f
    OBVIOUS
  <2> QED BY <2>1, <2>2
<1>9. mqtt_unpack_fixed_header(b) =
         [error |-> "MQTT_OK",
          n |-> IF Incomplete(Len(b) - Len(l) - 1, n) THEN 0 ELSE Len(l) + 1, rl |-> n]
  BY <1>6, <1>7, <1>8 DEF mqtt_unpack_fixed_header, ends
<1> QED BY <1>9 DEF Incomplete

\* It asks for more bytes as long as the last digit is not there.
LEMMA HeaderAwaited ==
    ASSUME NEW b, NEW t \in 0..15, NEW f \in 0..15, NEW l, NEW n \in Nat,
           Encodes(l, n), Len(l) <= MaxLenBytes,
           Starts(b, t, f, l), Len(b) <= Len(l)
    PROVE  mqtt_unpack_fixed_header(b) = [error |-> "MQTT_OK", n |-> 0, rl |-> 0]
<1> DEFINE ends == {k \in 1..MaxLenBytes :
                       /\ k < Len(b) /\ ~Continues(b[k + 1])
                       /\ \A j \in 1..(k - 1) : Continues(b[j + 1])}
<1>1. Len(l) \in Nat /\ Len(l) >= 1 /\ Len(b) \in Nat /\ MaxLenBytes \in Nat
  BY LenProperties, CodecAssumption DEF Encodes, Starts
<1>2. ASSUME NEW k \in ends PROVE FALSE
  <2>1. k \in 1..Len(l) /\ k < Len(l) /\ b[k + 1] = l[k]
    BY <1>1 DEF Starts
  <2> QED BY <2>1 DEF Encodes
<1>3. ends = {}
  BY <1>2
<1>4. ~(Len(b) > MaxLenBytes)
  BY <1>1
<1> HIDE DEF ends
<1> QED BY <1>3, <1>4 DEF mqtt_unpack_fixed_header, ends

-----------------------------------------------------------------------------
(* Parts of a sequence; words and strings.                                  *)

\* t lies in s, after the first o elements of s.
At(s, o, t) ==
    /\ o + Len(t) <= Len(s)
    /\ \A i \in 1..Len(t) : s[o + i] = t[i]

\* A part of a part.
LEMMA AtTrans ==
    ASSUME NEW S, NEW s \in Seq(S), NEW t \in Seq(S), NEW u \in Seq(S),
           NEW o \in Nat, NEW q \in Nat, At(s, o, t), At(t, q, u)
    PROVE  At(s, o + q, u)
<1>1. Len(s) \in Nat /\ Len(t) \in Nat /\ Len(u) \in Nat
  BY LenProperties
<1>2. (o + q) + Len(u) <= Len(s)
  BY <1>1 DEF At
<1>3. ASSUME NEW i \in 1..Len(u) PROVE s[(o + q) + i] = u[i]
  <2>1. q + i \in 1..Len(t) /\ (o + q) + i = o + (q + i)
    BY <1>1 DEF At
  <2>2. s[o + (q + i)] = t[q + i] /\ t[q + i] = u[i]
    BY <2>1 DEF At
  <2> QED BY <2>1, <2>2
<1> QED BY <1>2, <1>3 DEF At

\* Two sequences one after the other are parts of the whole.
LEMMA AtConcat ==
    ASSUME NEW S, NEW s \in Seq(S), NEW t \in Seq(S)
    PROVE  /\ At(s \o t, 0, s) /\ At(s \o t, Len(s), t)
           /\ s \o t \in Seq(S) /\ Len(s \o t) = Len(s) + Len(t)
<1>1. Len(s) \in Nat /\ Len(t) \in Nat
  BY LenProperties
<1> DEFINE u == s \o t
<1>2. /\ u \in Seq(S) /\ Len(u) = Len(s) + Len(t)
      /\ \A i \in 1..(Len(s) + Len(t)) : u[i] = IF i <= Len(s) THEN s[i] ELSE t[i - Len(s)]
  BY ConcatProperties
<1> HIDE DEF u
<1>3. ASSUME NEW i \in 1..Len(s) PROVE u[0 + i] = s[i]
  BY <1>1, <1>2
<1>4. ASSUME NEW i \in 1..Len(t) PROVE u[Len(s) + i] = t[i]
  <2>1. /\ Len(s) + i \in 1..(Len(s) + Len(t)) /\ ~(Len(s) + i <= Len(s))
        /\ (Len(s) + i) - Len(s) = i
    BY <1>1
  <2> QED BY <2>1, <1>2
<1>5. At(u, 0, s) /\ At(u, Len(s), t)
  BY <1>1, <1>2, <1>3, <1>4 DEF At
<1> QED BY <1>2, <1>5 DEF u

\* A part can be cut out.
LEMMA AtSlice ==
    ASSUME NEW S, NEW s \in Seq(S), NEW t \in Seq(S), NEW o \in Nat, At(s, o, t)
    PROVE  SubSeq(s, o + 1, o + Len(t)) = t
<1>1. Len(s) \in Nat /\ Len(t) \in Nat
  BY LenProperties
<1> DEFINE m == o + 1
           n == o + Len(t)
<1>2. m \in Int /\ n \in Int /\ (n - m) + 1 = Len(t) /\ (m <= n <=> Len(t) > 0)
  BY <1>1
<1>3. \A i \in m..n : s[i] \in S
  <2>1. \A i \in m..n : i \in 1..Len(s)
    BY <1>1 DEF At
  <2> QED BY <2>1, ElementOfSeq
<1>4. /\ SubSeq(s, m, n) \in Seq(S)
      /\ Len(SubSeq(s, m, n)) = IF m <= n THEN n - m + 1 ELSE 0
      /\ \A i \in 1..(n - m + 1) : SubSeq(s, m, n)[i] = s[m + i - 1]
  <2> HIDE DEF m, n
  <2> QED BY <1>2, <1>3, SubSeqProperties
<1> DEFINE u == SubSeq(s, m, n)
<1>5. u \in Seq(S) /\ Len(u) = Len(t)
  <2>1. CASE Len(t) > 0
    BY <1>2, <1>4, <2>1
  <2>2. CASE ~(Len(t) > 0)
    BY <1>1, <1>2, <1>4, <2>2
  <2> QED BY <2>1, <2>2
<1>6. ASSUME NEW i \in 1..Len(t) PROVE u[i] = t[i]
  <2>1. i \in 1..(n - m + 1) /\ m + i - 1 = o + i
    BY <1>1
  <2>2. u[i] = s[o + i]
    BY <2>1, <1>4
  <2> QED BY <2>2 DEF At
<1> HIDE DEF u
<1>7. u = t
  BY <1>5, <1>6, SeqEqual
<1> QED BY <1>7 DEF u

\* A sequence without its first o members.
LEMMA Dropped ==
    ASSUME NEW S, NEW s \in Seq(S), NEW o \in Nat, o <= Len(s)
    PROVE  /\ SubSeq(s, o + 1, Len(s)) \in Seq(S)
           /\ Len(SubSeq(s, o + 1, Len(s))) = Len(s) - o
           /\ At(s, o, SubSeq(s, o + 1, Len(s)))
<1>1. Len(s) \in Nat
  BY LenProperties
<1> DEFINE m == o + 1
           n == Len(s)
           u == SubSeq(s, m, n)
<1>3. \A i \in m..n : s[i] \in S
  <2>1. \A i \in m..n : i \in 1..Len(s)
    BY <1>1
  <2> QED BY <2>1, ElementOfSeq
<1>2. m \in Int /\ n \in Int
  BY <1>1
<1>4. /\ u \in Seq(S)
      /\ Len(u) = IF m <= n THEN n - m + 1 ELSE 0
      /\ \A i \in 1..(n - m + 1) : u[i] = s[m + i - 1]
  <2> HIDE DEF m, n
  <2> QED BY <1>2, <1>3, SubSeqProperties
<1> HIDE DEF u
<1>5. Len(u) = Len(s) - o
  BY <1>4, <1>1
<1>6. ASSUME NEW i \in 1..Len(u) PROVE s[o + i] = u[i]
  <2>1. i \in 1..(n - m + 1) /\ m + i - 1 = o + i
    BY <1>1, <1>5
  <2> QED BY <2>1, <1>4
<1>7. At(s, o, u)
  BY <1>5, <1>6, <1>1 DEF At
<1> QED BY <1>4, <1>5, <1>7 DEF u

\* What was at o is at the front then.
LEMMA AtDrop ==
    ASSUME NEW S, NEW s \in Seq(S), NEW t \in Seq(S), NEW o \in Nat, At(s, o, t)
    PROVE  At(SubSeq(s, o + 1, Len(s)), 0, t)
<1> DEFINE u == SubSeq(s, o + 1, Len(s))
<1>1. Len(s) \in Nat /\ Len(t) \in Nat /\ o + Len(t) <= Len(s) /\ o <= Len(s)
  BY LenProperties DEF At
<1>2. u \in Seq(S) /\ Len(u) = Len(s) - o /\ At(s, o, u)
  BY <1>1, Dropped
<1> HIDE DEF u
<1>3. ASSUME NEW i \in 1..Len(t) PROVE u[0 + i] = t[i]
  <2>1. i \in 1..Len(u) /\ 0 + i = i
    BY <1>1, <1>2
  <2>2. s[o + i] = u[i]
    BY <2>1, <1>2 DEF At
  <2> QED BY <2>1, <2>2 DEF At
<1>4. At(u, 0, t)
  BY <1>1, <1>2, <1>3 DEF At
<1> QED BY <1>4 DEF u

\* The two bytes of a word of 16 bits.
LEMMA Word ==
    ASSUME NEW n \in Nat, n < 65536
    PROVE  /\ (n \div 256) % 256 \in 0..255 /\ n % 256 \in 0..255
           /\ 256 * ((n \div 256) % 256) + (n % 256) = n
           /\ n % 65536 = n
<1>1. (n \div 256) % 256 \in 0..255 /\ n % 256 \in 0..255
  OBVIOUS
<1>2. 256 * ((n \div 256) % 256) + (n % 256) = n
  OBVIOUS
<1>3. n % 65536 = n
  OBVIOUS
<1> QED BY <1>1, <1>2, <1>3

\* mqtt_pack_uint16 writes two bytes, the high one first.
LEMMA PackUint16 ==
    ASSUME NEW n, IsWord(n)
    PROVE  /\ mqtt_pack_uint16(n) \in Seq(Byte) /\ Len(mqtt_pack_uint16(n)) = 2
           /\ 256 * mqtt_pack_uint16(n)[1] + mqtt_pack_uint16(n)[2] = n
<1> DEFINE a == (n \div 256) % 256
           b == n % 256
<1>1. a \in Byte /\ b \in Byte /\ 256 * a + b = n
  BY Word DEF Byte, IsWord
<1> HIDE DEF a, b
<1>2. <<a, b>> \in Seq(Byte) /\ Len(<<a, b>>) = 2 /\ <<a, b>>[1] = a /\ <<a, b>>[2] = b
  BY <1>1
<1> QED BY <1>1, <1>2 DEF mqtt_pack_uint16, a, b

\* mqtt_unpack_uint16 reads back what mqtt_pack_uint16 writes.
LEMMA UnpackUint16 ==
    ASSUME NEW s, NEW n, IsWord(n), At(s, 0, mqtt_pack_uint16(n))
    PROVE  mqtt_unpack_uint16(s) = n
<1> DEFINE h == mqtt_pack_uint16(n)
<1>1. Len(h) = 2 /\ 256 * h[1] + h[2] = n
  BY PackUint16
<1> HIDE DEF h
<1>2. \A i \in 1..2 : s[0 + i] = h[i]
  BY <1>1 DEF At, h
<1>3. s[0 + 1] = h[1] /\ s[0 + 2] = h[2]
  BY <1>2
<1> QED BY <1>1, <1>3 DEF mqtt_unpack_uint16

\* mqtt_pack_str writes the length of a string and its bytes.
LEMMA PackStr ==
    ASSUME NEW s, IsString(s)
    PROVE  /\ mqtt_pack_str(s) \in Seq(Byte) /\ Len(mqtt_pack_str(s)) = 2 + Len(s)
           /\ At(mqtt_pack_str(s), 0, mqtt_pack_uint16(Len(s)))
           /\ At(mqtt_pack_str(s), 2, s)
<1> DEFINE h == mqtt_pack_uint16(Len(s))
<1>0. s \in Seq(Byte) /\ Len(s) \in Nat /\ IsWord(Len(s))
  BY LenProperties DEF IsString
<1>1. h \in Seq(Byte) /\ Len(h) = 2
  BY <1>0, PackUint16
<1>2. Len(s) % 65536 = Len(s)
  BY <1>0, Word DEF IsWord
<1>3. SubSeq(s, 1, Len(s) % 65536) = s
  BY <1>0, <1>2, SubSeqFull
<1> DEFINE u == mqtt_pack_str(s)
<1>4. u = h \o s
  BY <1>3 DEF mqtt_pack_str
<1> HIDE DEF h, u
<1>5. u \in Seq(Byte) /\ Len(u) = Len(h) + Len(s) /\ At(u, 0, h) /\ At(u, Len(h), s)
  BY <1>0, <1>1, <1>4, AtConcat
<1> QED BY <1>1, <1>5 DEF h, u

-----------------------------------------------------------------------------
(* A packet is a fixed header and a body.                                   *)

Frame(t, f, n, body) == mqtt_pack_fixed_header(t, f, n) \o body

\* The bytes w are a fixed header with the remaining length l, and body.
Framed(w, l, t, f, n, body) ==
    /\ w \in Seq(Byte) /\ Len(w) = 1 + Len(l) + n
    /\ At(w, 1 + Len(l), body) /\ At(w, 1, l) /\ w[1] = 16 * t + f

\* A remaining length below the limit takes at most MaxLenBytes bytes.
LEMMA LengthFits ==
    ASSUME NEW n \in Nat, n < Weight[MaxLenBytes]
    PROVE  /\ Encodes(LengthBytes[n], n) /\ LengthBytes[n] \in Seq(Byte)
           /\ Len(LengthBytes[n]) \in Nat /\ Len(LengthBytes[n]) >= 1
           /\ Len(LengthBytes[n]) <= MaxLenBytes
<1> DEFINE l == LengthBytes[n]
<1>1. Encodes(l, n)
  BY LengthEncoded
<1> HIDE DEF l
<1>2. MaxLenBytes \in Nat \ {0}
  BY CodecAssumption
<1>3. Len(l) <= MaxLenBytes /\ l \in Seq(Byte) /\ Len(l) >= 1
  BY <1>1, <1>2 DEF Encodes
<1> QED BY <1>1, <1>3, LenProperties DEF l

\* The header byte, the remaining length and the body of a packet, at their places.
LEMMA FrameShape ==
    ASSUME NEW t \in 0..15, NEW f \in 0..15, NEW n \in Nat, NEW body \in Seq(Byte),
           Len(body) = n
    PROVE  Framed(Frame(t, f, n, body), LengthBytes[n], t, f, n, body)
<1> DEFINE l == LengthBytes[n]
           a == 16 * t + f
           h == <<a>> \o l
           w == h \o body
<1>1. a \in Byte
  BY DEF Byte
<1>2. l \in Seq(Byte) /\ Len(l) \in Nat
  BY LengthEncoded, LenProperties DEF Encodes
<1> HIDE DEF a, l
<1>3. <<a>> \in Seq(Byte) /\ Len(<<a>>) = 1 /\ <<a>>[1] = a
  BY <1>1
<1>4. h \in Seq(Byte) /\ Len(h) = 1 + Len(l) /\ At(h, 1, l) /\ h[1] = a
  <2> DEFINE s == <<a>>
  <2>1. s \in Seq(Byte) /\ Len(s) = 1
    BY <1>3
  <2>2. h[1] = a
    BY <1>1, <1>2, ConsByte
  <2>3. h = s \o l
    OBVIOUS
  <2> HIDE DEF s, h
  <2>4. h \in Seq(Byte) /\ Len(h) = Len(s) + Len(l) /\ At(h, Len(s), l)
    BY <2>1, <2>3, <1>2, AtConcat
  <2> QED BY <2>1, <2>2, <2>4
<1>5. w = h \o body
  OBVIOUS
<1> HIDE DEF h, w
<1>6. /\ w \in Seq(Byte) /\ Len(w) = Len(h) + Len(body) /\ At(w, 0, h)
      /\ At(w, Len(h), body)
  BY <1>4, <1>5, AtConcat
<1>7. At(w, 0 + 1, l)
  BY <1>2, <1>4, <1>6, AtTrans
<1>8. w[1] = a
  <2>1. 1 \in 1..Len(h)
    BY <1>2, <1>4
  <2>2. w[0 + 1] = h[1]
    BY <1>6, <2>1 DEF At
  <2> QED BY <2>2, <1>4
<1>9. w = Frame(t, f, n, body)
  BY DEF w, h, a, l, Frame, mqtt_pack_fixed_header
<1>10. Framed(w, l, t, f, n, body)
  BY <1>2, <1>4, <1>6, <1>7, <1>8 DEF Framed, a
<1> QED BY <1>9, <1>10 DEF l

\* Bytes that agree with a packet start with its header.
LEMMA FrameStarts ==
    ASSUME NEW t \in 0..15, NEW f \in 0..15, NEW n \in Nat, NEW body \in Seq(Byte),
           Len(body) = n, NEW b \in Seq(Byte),
           \A i \in Nat \ {0} : i <= Len(b) /\ i <= 1 + Len(LengthBytes[n]) + n =>
              b[i] = Frame(t, f, n, body)[i]
    PROVE  Starts(b, t, f, LengthBytes[n])
<1> DEFINE l == LengthBytes[n]
           w == Frame(t, f, n, body)
<1>0. l \in Seq(Byte) /\ Len(l) \in Nat
  BY LengthEncoded, LenProperties DEF Encodes
<1>1. Len(l) \in Nat /\ At(w, 1, l) /\ w[1] = 16 * t + f
  <2>1. Framed(w, l, t, f, n, body)
    BY FrameShape
  <2> QED BY <1>0, <2>1 DEF Framed
<1>2. Len(b) \in Nat
  BY LenProperties
<1> HIDE DEF l, w
<1>3. \A i \in Nat \ {0} : i <= Len(b) /\ i <= 1 + Len(l) + n => b[i] = w[i]
  BY DEF l, w
<1>4. Len(b) > 0 => b[1] = 16 * t + f
  BY <1>1, <1>2, <1>3
<1>5. ASSUME NEW i \in 1..Len(l), i < Len(b) PROVE b[i + 1] = l[i]
  <2>1. b[i + 1] = w[i + 1]
    BY <1>1, <1>2, <1>3, <1>5
  <2>2. w[1 + i] = l[i]
    BY <1>1 DEF At
  <2>3. 1 + i = i + 1
    BY <1>1
  <2> QED BY <2>1, <2>2, <2>3
<1>6. Starts(b, t, f, l)
  BY <1>4, <1>5 DEF Starts
<1> QED BY <1>6 DEF l

\* The variable header and the payload.
Variable(type, flags, rest, rl) ==
    CASE type = CONNACK   -> mqtt_unpack_connack_response(rest, rl)
      [] type = PUBLISH   -> mqtt_unpack_publish_response(rest, flags, rl)
      [] type \in PUBXXX  -> mqtt_unpack_pubxxx_response(rest, type, flags, rl)
      [] type = SUBACK    -> mqtt_unpack_suback_response(rest, rl)
      [] type = UNSUBACK  -> mqtt_unpack_unsuback_response(rest, rl)
      [] type = PINGRESP  -> Good(0, Packet(PINGRESP, 0, 0, <<>>, <<>>))
      [] OTHER            -> Bad("RESPONSE_INVALID_CONTROL_TYPE")

\* mqtt_unpack_response after the fixed header.
LEMMA ResponseDef ==
    ASSUME NEW b, NEW n, NEW rl, 
           mqtt_unpack_fixed_header(b) = [error |-> "MQTT_OK", n |-> n, rl |-> rl]
    PROVE  /\ n = 0 => mqtt_unpack_response(b) = Wait
           /\ n # 0 =>
                LET r == Variable(b[1] \div 16, b[1] % 16, SubSeq(b, n + 1, Len(b)), rl)
                IN  mqtt_unpack_response(b) =
                       IF r.error # "MQTT_OK" THEN r ELSE [r EXCEPT !.n = @ + n]
  BY DEF mqtt_unpack_response, Variable

\* The fixed header at the front of b takes k bytes, and the n bytes of body follow.
Fronted(b, k, t, f, n, body) ==
    /\ mqtt_unpack_fixed_header(b) = [error |-> "MQTT_OK", n |-> k, rl |-> n]
    /\ b[1] \div 16 = t /\ b[1] % 16 = f
    /\ SubSeq(b, k + 1, Len(b)) \in Seq(Byte)
    /\ At(SubSeq(b, k + 1, Len(b)), 0, body)

FrontRead(b, t, f, n, body) ==
    \E k \in Nat \ {0} :
       Fronted(b, k, t, f, n, body) /\ k + n = Len(Frame(t, f, n, body))

\* mqtt_unpack_fixed_header finds the body of a packet that is there as a whole.
LEMMA ReadFrame ==
    ASSUME NEW t \in 0..15, NEW f \in 0..15, NEW n \in Nat, NEW body \in Seq(Byte),
           Len(body) = n, n < Weight[MaxLenBytes],
           mqtt_fixed_header_rule_violation(t, f) = "MQTT_OK",
           NEW b \in Seq(Byte), At(b, 0, Frame(t, f, n, body))
    PROVE  FrontRead(b, t, f, n, body)
<1> DEFINE l == LengthBytes[n]
           w == Frame(t, f, n, body)
           k == 1 + Len(l)
<1>1. /\ Encodes(l, n) /\ l \in Seq(Byte) /\ Len(l) \in Nat /\ Len(l) >= 1
      /\ Len(l) <= MaxLenBytes
  BY LengthFits
<1>2. w \in Seq(Byte) /\ Len(w) = k + n /\ At(w, k, body) /\ w[1] = 16 * t + f
  <2>1. Framed(w, l, t, f, n, body)
    BY FrameShape
  <2> HIDE DEF w, l
  <2> QED BY <2>1 DEF Framed
<1>3. Len(b) \in Nat /\ Len(b) >= k + n
  BY <1>2, LenProperties DEF At
<1>4. \A i \in 1..Len(w) : b[i] = w[i]
  <2>1. \A i \in 1..Len(w) : b[0 + i] = w[i]
    BY DEF At
  <2>2. \A i \in 1..Len(w) : 0 + i = i
    OBVIOUS
  <2> QED BY <2>1, <2>2
<1>5. Starts(b, t, f, l)
  <2>1. \A i \in Nat \ {0} : i <= Len(b) /\ i <= 1 + Len(l) + n => b[i] = w[i]
    <3> HIDE DEF w
    <3> QED BY <1>2, <1>4, <1>1
  <2> QED BY <2>1, FrameStarts
<1>6. b[1] = 16 * t + f
  <2> HIDE DEF w
  <2> QED BY <1>1, <1>2, <1>4
<1>7. b[1] \div 16 = t /\ b[1] % 16 = f
  <2>1. (16 * t + f) \div 16 = t /\ (16 * t + f) % 16 = f
    OBVIOUS
  <2> QED BY <2>1, <1>6
<1> HIDE DEF l, w
<1>8. mqtt_unpack_fixed_header(b) = [error |-> "MQTT_OK", n |-> k, rl |-> n]
  <2>1. Len(b) > Len(l) /\ ~(Len(b) - Len(l) - 1 < n)
    BY <1>1, <1>3
  <2>2. mqtt_unpack_fixed_header(b) =
              [error |-> "MQTT_OK",
               n |-> IF Len(b) - Len(l) - 1 < n THEN 0 ELSE Len(l) + 1, rl |-> n]
    BY <1>1, <1>5, <2>1, HeaderRead
  <2> QED BY <2>1, <2>2, <1>1
<1> HIDE DEF k
<1>9. k \in Nat \ {0}
  BY <1>1 DEF k
<1>10. At(b, 0 + k, body)
  <2>1. At(b, 0, w)
    BY DEF w
  <2> QED BY <2>1, <1>2, <1>9, AtTrans
<1>11. At(SubSeq(b, k + 1, Len(b)), 0, body) /\ SubSeq(b, k + 1, Len(b)) \in Seq(Byte)
  <2>1. At(b, k, body)
    BY <1>9, <1>10
  <2>2. k <= Len(b)
    BY <1>3, <1>9
  <2> QED BY <2>1, <2>2, <1>9, AtDrop, Dropped
<1>12. Fronted(b, k, t, f, n, body)
  BY <1>7, <1>8, <1>11 DEF Fronted
<1> QED BY <1>2, <1>9, <1>12 DEF w, FrontRead

\* mqtt_unpack_response waits while a packet is not there as a whole.
LEMMA AwaitFrame ==
    ASSUME NEW t \in 0..15, NEW f \in 0..15, NEW n \in Nat, NEW body \in Seq(Byte),
           Len(body) = n, n < Weight[MaxLenBytes],
           mqtt_fixed_header_rule_violation(t, f) = "MQTT_OK",
           NEW b \in Seq(Byte), At(Frame(t, f, n, body), 0, b),
           Len(b) < Len(Frame(t, f, n, body))
    PROVE  mqtt_unpack_response(b) = Wait
<1> DEFINE l == LengthBytes[n]
           w == Frame(t, f, n, body)
<1>1. /\ Encodes(l, n) /\ l \in Seq(Byte) /\ Len(l) \in Nat /\ Len(l) >= 1
      /\ Len(l) <= MaxLenBytes
  BY LengthFits
<1>2. w \in Seq(Byte) /\ Len(w) = 1 + Len(l) + n
  <2>1. Framed(w, l, t, f, n, body)
    BY FrameShape
  <2> HIDE DEF w, l
  <2> QED BY <2>1 DEF Framed
<1>3. Len(b) \in Nat /\ Len(b) < 1 + Len(l) + n
  BY <1>2, LenProperties
<1>4. \A i \in 1..Len(b) : w[i] = b[i]
  <2>1. \A i \in 1..Len(b) : w[0 + i] = b[i]
    BY DEF At
  <2>2. \A i \in 1..Len(b) : 0 + i = i
    BY <1>3
  <2> QED BY <2>1, <2>2
<1>5. Starts(b, t, f, l)
  <2>1. \A i \in Nat \ {0} : i <= Len(b) /\ i <= 1 + Len(l) + n => b[i] = w[i]
    <3> HIDE DEF w
    <3> QED BY <1>3, <1>4
  <2> QED BY <2>1, FrameStarts
<1> HIDE DEF l, w
<1>6. CASE Len(b) <= Len(l)
  <2>1. mqtt_unpack_fixed_header(b) = [error |-> "MQTT_OK", n |-> 0, rl |-> 0]
    BY <1>1, <1>5, <1>6, HeaderAwaited
  <2> QED BY <2>1, ResponseDef
<1>7. CASE Len(b) > Len(l)
  <2>1. Len(b) - Len(l) - 1 < n
    BY <1>1, <1>3
  <2>2. mqtt_unpack_fixed_header(b) =
              [error |-> "MQTT_OK",
               n |-> IF Len(b) - Len(l) - 1 < n THEN 0 ELSE Len(l) + 1, rl |-> n]
    BY <1>1, <1>5, <1>7, HeaderRead
  <2>3. mqtt_unpack_fixed_header(b) = [error |-> "MQTT_OK", n |-> 0, rl |-> n]
    BY <2>1, <2>2
  <2> QED BY <2>3, ResponseDef
<1> QED BY <1>1, <1>3, <1>6, <1>7

-----------------------------------------------------------------------------
(* What the packing functions write, and how it is read back.               *)

\* What the packing function of p yields: flags f and n bytes after the fixed header.
Packs(p, f, n, body) ==
    /\ Packing(p) = Parts(f, n, body)
    /\ n \in Nat /\ body \in Seq(Byte) /\ Len(body) = n

\* What is packed is a header and a body, unless the body is too long for the header.
LEMMA PacksFrame ==
    ASSUME NEW p, NEW f, NEW n, NEW body, Packs(p, f, n, body)
    PROVE  /\ Pack(p) = Frame(p.type, f, n, body)
           /\ PackedSize(p) = 1 + Len(LengthBytes[n]) + n
           /\ PackError(p) = IF n >= Weight[MaxLenBytes] THEN "INVALID_REMAINING_LENGTH"
                             ELSE "MQTT_OK"
<1>1. /\ Packing(p).error = "MQTT_OK" /\ Packing(p).flags = f /\ Packing(p).rl = n
      /\ Packing(p).body = body
  BY DEF Packs, Parts
<1> QED BY <1>1 DEF Pack, PackedSize, PackError, Frame

\* Lengths add up.
LEMMA SumOfThree ==
    ASSUME NEW a \in Nat, NEW b \in Nat, NEW c \in Nat
    PROVE  2 + a + b + c \in Nat /\ (2 + a) + b + c = 2 + a + b + c
OBVIOUS

\* The bytes s, t and u one after another.
LEMMA Three ==
    ASSUME NEW S, NEW s \in Seq(S), NEW t \in Seq(S), NEW u \in Seq(S)
    PROVE  /\ s \o t \o u \in Seq(S) /\ Len(s \o t \o u) = Len(s) + Len(t) + Len(u)
           /\ At(s \o t \o u, 0, s) /\ At(s \o t \o u, Len(s), t)
           /\ At(s \o t \o u, Len(s) + Len(t), u)
<1>1. Len(s) \in Nat /\ Len(t) \in Nat /\ Len(u) \in Nat
  BY LenProperties
<1> DEFINE v == s \o t
           w == v \o u
<1>2. v \in Seq(S) /\ Len(v) = Len(s) + Len(t) /\ At(v, 0, s) /\ At(v, Len(s), t)
  BY AtConcat
<1> HIDE DEF v
<1>3. w \in Seq(S) /\ Len(w) = Len(v) + Len(u) /\ At(w, 0, v) /\ At(w, Len(v), u)
  BY <1>2, AtConcat
<1> HIDE DEF w
<1>4. At(w, 0 + 0, s)
  BY <1>2, <1>3, AtTrans
<1>5. At(w, 0 + Len(s), t)
  BY <1>1, <1>2, <1>3, AtTrans
<1>6. 0 + 0 = 0 /\ 0 + Len(s) = Len(s)
  BY <1>1
<1>7. At(w, 0, s) /\ At(w, Len(s), t) /\ At(w, Len(s) + Len(t), u)
  BY <1>2, <1>3, <1>4, <1>5, <1>6
<1> QED BY <1>2, <1>3, <1>7 DEF v, w

\* The fields of a PUBLISH, and what mqtt_pack_publish_request writes.
IsPublish(p) ==
    /\ p.type = PUBLISH /\ p.flags \in 0..15 /\ IsWord(p.pid) /\ IsString(p.topic)
    /\ p.data \in Seq(Byte) /\ QosOf(p.flags) # 3

PublishBody(p, pid, n, body) ==
    /\ n = 2 + Len(p.topic) + Len(pid) + Len(p.data)
    /\ pid = (IF QosOf(p.flags) > 0 THEN mqtt_pack_uint16(p.pid) ELSE <<>>)
    /\ pid \in Seq(Byte) /\ Len(pid) = (IF QosOf(p.flags) > 0 THEN 2 ELSE 0)
    /\ At(body, 0, mqtt_pack_str(p.topic)) /\ At(body, 2 + Len(p.topic), pid)
    /\ At(body, 2 + Len(p.topic) + Len(pid), p.data)

\* A QoS is a field of two bits.
LEMMA QosRange == ASSUME NEW f \in Nat PROVE QosOf(f) \in 0..3
<1>1. f \div 2 \in Nat
  OBVIOUS
<1> DEFINE m == f \div 2
<1> HIDE DEF m
<1>2. ASSUME m \in Nat PROVE m % 4 \in 0..3
  BY <1>2
<1> QED BY <1>1, <1>2 DEF QosOf, m

\* mqtt_pack_publish_request writes the topic, the identifier if there is one, and the
\* data, and clears the DUP flag of a QoS 0 message.
LEMMA PacksPublish ==
    ASSUME NEW p, IsPublish(p)
    PROVE  \E pid, n, body :
              /\ Packs(p, IF QosOf(p.flags) = 0 THEN p.flags % 8 ELSE p.flags, n, body)
              /\ PublishBody(p, pid, n, body)
<1> DEFINE str == mqtt_pack_str(p.topic)
           pid == IF QosOf(p.flags) > 0 THEN mqtt_pack_uint16(p.pid) ELSE <<>>
           body == str \o pid \o p.data
           f == IF QosOf(p.flags) = 0 THEN p.flags % 8 ELSE p.flags
           n == 2 + Len(p.topic) + Len(pid) + Len(p.data)
<1>1. str \in Seq(Byte) /\ Len(str) = 2 + Len(p.topic)
  BY PackStr DEF IsPublish
<1>2. pid \in Seq(Byte) /\ Len(pid) = IF QosOf(p.flags) > 0 THEN 2 ELSE 0
  <2>1. mqtt_pack_uint16(p.pid) \in Seq(Byte) /\ Len(mqtt_pack_uint16(p.pid)) = 2
    BY PackUint16 DEF IsPublish
  <2>2. <<>> \in Seq(Byte) /\ Len(<<>>) = 0
    BY EmptySeq
  <2>3. CASE QosOf(p.flags) > 0
    BY <2>1, <2>3
  <2>4. CASE ~(QosOf(p.flags) > 0)
    BY <2>2, <2>4
  <2> QED BY <2>3, <2>4
<1>3. Packing(p) = Parts(f, n, body)
  <2>1. Packing(p) = mqtt_pack_publish_request(p)
    BY DEF IsPublish, Packing, CONNECT, PUBLISH, PUBXXX, SUBSCRIBE, UNSUBSCRIBE, PINGREQ, DISCONNECT
  <2>2. mqtt_pack_publish_request(p) = Parts(f, n, body)
    BY DEF IsPublish, mqtt_pack_publish_request, mqtt_packed_cstrlen
  <2> QED BY <2>1, <2>2
<1>4. Len(p.topic) \in Nat /\ Len(p.data) \in Nat
  BY LenProperties DEF IsString, IsPublish
<1>4a. p.data \in Seq(Byte)
  BY DEF IsPublish
<1> HIDE DEF str, pid
<1>5. /\ body \in Seq(Byte) /\ Len(body) = Len(str) + Len(pid) + Len(p.data)
      /\ At(body, 0, str) /\ At(body, Len(str), pid)
      /\ At(body, Len(str) + Len(pid), p.data)
  BY <1>1, <1>2, <1>4a, Three
<1> HIDE DEF body, f
<1>6. n \in Nat /\ Len(body) = n
  <2>1. Len(pid) \in Nat
    BY <1>2, LenProperties
  <2> HIDE DEF n
  <2>2. n = 2 + Len(p.topic) + Len(pid) + Len(p.data)
    BY DEF n
  <2>3. n \in Nat
    BY <1>4, <2>1, <2>2, SumOfThree
  <2>4. Len(body) = (2 + Len(p.topic)) + Len(pid) + Len(p.data)
    BY <1>1, <1>5
  <2>5. Len(body) = n
    BY <1>4, <2>1, <2>2, <2>4, SumOfThree
  <2> QED BY <2>3, <2>5
<1>7. Packs(p, f, n, body)
  BY <1>3, <1>5, <1>6 DEF Packs
<1>8. PublishBody(p, pid, n, body)
  BY <1>1, <1>2, <1>5 DEF PublishBody, pid, str
<1> QED BY <1>7, <1>8 DEF f

\* mqtt_unpack_publish_response reads them back.
LEMMA UnpackPublish ==
    ASSUME NEW p, IsPublish(p), QosOf(p.flags) = 0 => p.pid = 0,
           NEW pid, NEW n, NEW body \in Seq(Byte), PublishBody(p, pid, n, body), ~(n < 4),
           NEW rest \in Seq(Byte), At(rest, 0, body)
    PROVE  mqtt_unpack_publish_response(rest, p.flags, n) =
              Good(n, Packet(PUBLISH, p.flags, p.pid, p.topic, p.data))
<1> DEFINE size == Len(p.topic)
           head == size + (IF QosOf(p.flags) > 0 THEN 4 ELSE 2)
           str  == mqtt_pack_str(p.topic)
<1>1. /\ size \in Nat /\ Len(p.data) \in Nat /\ IsWord(size) /\ p.topic \in Seq(Byte)
      /\ p.data \in Seq(Byte)
  BY LenProperties DEF IsString, IsPublish
<1>2. /\ str \in Seq(Byte) /\ At(str, 0, mqtt_pack_uint16(size)) /\ At(str, 2, p.topic)
      /\ mqtt_pack_uint16(size) \in Seq(Byte)
  BY <1>1, PackStr, PackUint16 DEF IsPublish
<1>3. /\ pid \in Seq(Byte) /\ Len(pid) = (IF QosOf(p.flags) > 0 THEN 2 ELSE 0)
      /\ At(body, 0, str) /\ At(body, 2 + size, pid)
      /\ At(body, 2 + size + Len(pid), p.data) /\ n = 2 + size + Len(pid) + Len(p.data)
  BY DEF PublishBody
<1>4. QosOf(p.flags) \in 0..3
  BY QosRange DEF IsPublish
<1> HIDE DEF size, str
<1>5. head = 2 + size + Len(pid) /\ n = head + Len(p.data) /\ head \in Nat
  <2>1. CASE QosOf(p.flags) > 0
    <3>1. head = size + 4 /\ Len(pid) = 2
      BY <1>3, <2>1
    <3> HIDE DEF head
    <3>2. Len(pid) \in Nat /\ head = size + (2 + Len(pid))
      BY <3>1
    <3>3. n = 2 + size + Len(pid) + Len(p.data)
      BY <1>3
    <3>4. Len(p.data) \in Nat /\ size \in Nat
      BY <1>1
    <3>5. head = 2 + size + Len(pid)
      BY ONLY <3>4, <3>2
    <3>6. head \in Nat
      BY ONLY <3>4, <3>2
    <3>7. n = head + Len(p.data)
      BY ONLY <3>3, <3>5
    <3> QED BY ONLY <3>5, <3>6, <3>7
  <2>2. CASE ~(QosOf(p.flags) > 0)
    <3>1. head = size + 2 /\ Len(pid) = 0
      BY <1>3, <2>2
    <3> HIDE DEF head
    <3>2. Len(pid) \in Nat /\ head = size + (2 + Len(pid))
      BY <3>1
    <3>3. n = 2 + size + Len(pid) + Len(p.data)
      BY <1>3
    <3>4. Len(p.data) \in Nat /\ size \in Nat
      BY <1>1
    <3>5. head = 2 + size + Len(pid)
      BY ONLY <3>4, <3>2
    <3>6. head \in Nat
      BY ONLY <3>4, <3>2
    <3>7. n = head + Len(p.data)
      BY ONLY <3>3, <3>5
    <3> QED BY ONLY <3>5, <3>6, <3>7
  <2> QED BY <2>1, <2>2
<1> HIDE DEF head
<1>6. At(rest, 0, str)
  <2>1. At(rest, 0 + 0, str)
    BY <1>2, <1>3, AtTrans
  <2> QED BY <2>1
<1>6a. At(rest, 2 + size, pid)
  <2> DEFINE o == 2 + size
  <2>1. o \in Nat /\ 0 + o = o /\ At(body, o, pid)
    BY <1>1, <1>3
  <2> HIDE DEF o
  <2>2. At(rest, 0 + o, pid)
    BY <2>1, <1>3, AtTrans
  <2> QED BY <2>1, <2>2 DEF o
<1>6b. At(rest, head, p.data)
  <2>1. 0 + head = head /\ At(body, head, p.data)
    BY <1>3, <1>5
  <2>2. At(rest, 0 + head, p.data)
    BY <2>1, <1>1, <1>5, AtTrans
  <2> QED BY <2>1, <2>2
<1>8. At(rest, 0 + 0, mqtt_pack_uint16(size)) /\ At(rest, 0 + 2, p.topic)
  BY <1>1, <1>2, <1>6, AtTrans
<1>9. mqtt_unpack_uint16(rest) = size
  BY <1>1, <1>8, UnpackUint16
<1>10. SubSeq(rest, 3, size + 2) = p.topic
  <2>1. SubSeq(rest, 2 + 1, 2 + Len(p.topic)) = p.topic
    BY <1>1, <1>8, AtSlice
  <2>2. 2 + Len(p.topic) = size + 2
    BY <1>1 DEF size
  <2> QED BY <2>1, <2>2
<1>11. SubSeq(rest, head + 1, n) = p.data
  <2>1. SubSeq(rest, head + 1, head + Len(p.data)) = p.data
    BY <1>1, <1>5, <1>6b, AtSlice
  <2> QED BY <2>1, <1>5
<1>12. (IF QosOf(p.flags) > 0 THEN mqtt_unpack_uint16(SubSeq(rest, size + 3, size + 4)) ELSE 0)
          = p.pid
  <2>1. CASE QosOf(p.flags) > 0
    <3>1. pid = mqtt_pack_uint16(p.pid) /\ Len(pid) = 2
      BY <2>1, <1>3 DEF PublishBody
    <3>2. SubSeq(rest, (2 + size) + 1, (2 + size) + Len(pid)) = pid
      <4> DEFINE o == 2 + size
      <4>1. o \in Nat /\ At(rest, o, pid)
        BY <1>1, <1>6a
      <4> HIDE DEF o
      <4>2. SubSeq(rest, o + 1, o + Len(pid)) = pid
        BY <4>1, <1>3, AtSlice
      <4> QED BY <4>2 DEF o
    <3>3. (2 + size) + 1 = size + 3 /\ (2 + size) + Len(pid) = size + 4
      BY <1>1, <3>1
    <3>4. mqtt_unpack_uint16(pid) = p.pid
      BY <3>1, PackUint16 DEF mqtt_unpack_uint16, IsPublish
    <3> QED BY <2>1, <3>2, <3>3, <3>4
  <2>2. CASE ~(QosOf(p.flags) > 0)
    BY <2>2, <1>4
  <2> QED BY <2>1, <2>2
<1> QED BY <1>9, <1>10, <1>11, <1>12 DEF mqtt_unpack_publish_response, head

PublishSize(p) == 2 + Len(p.topic) + (IF QosOf(p.flags) > 0 THEN 2 ELSE 0) + Len(p.data)

\* How the variable header and the payload of p, its n bytes body, are read.
Readable(p, n, body) ==
    /\ Packs(p, p.flags, n, body)
    /\ p.type \in 0..15 /\ p.flags \in 0..15
    /\ mqtt_fixed_header_rule_violation(p.type, p.flags) = "MQTT_OK"
    /\ \A rest \in Seq(Byte) : At(rest, 0, body) =>
          Variable(p.type, p.flags, rest, n) =
             IF p.type = PUBLISH /\ n < 4 THEN Bad("MALFORMED_RESPONSE") ELSE Good(n, p)
    /\ p.type = PUBLISH => n = PublishSize(p)

\* A PUBLISH of the broker can be read back.
LEMMA ReadablePublish ==
    ASSUME NEW p, SentByBroker(p), p.type = PUBLISH
    PROVE  \E n, body : Readable(p, n, body)
<1>1. IsPublish(p)
  <2>1. QosOf(p.flags) # 3
    <3>1. Packing(p) = mqtt_pack_publish_request(p)
      BY DEF Packing, CONNECT, PUBLISH, PUBXXX, SUBSCRIBE, UNSUBSCRIBE, PINGREQ, DISCONNECT
    <3>2. QosOf(p.flags) = 3 => Packing(p) = Forbidden("PUBLISH_FORBIDDEN_QOS")
      BY <3>1 DEF mqtt_pack_publish_request
    <3>3. PackError(p) = "MQTT_OK"
      BY DEF SentByBroker
    <3> QED BY <3>2, <3>3 DEF PackError, Forbidden
  <2> QED BY <2>1 DEF IsPublish, SentByBroker
<1>2. /\ p = Packet(PUBLISH, p.flags, p.pid, p.topic, p.data) /\ p.flags \in 0..15
      /\ QosOf(p.flags) = 0 => p.flags < 8 /\ p.pid = 0
  BY DEF SentByBroker, CONNACK, PUBLISH, PUBXXX, SUBACK, UNSUBACK, PINGRESP
<1>3. PICK pid, n, body :
         /\ Packs(p, IF QosOf(p.flags) = 0 THEN p.flags % 8 ELSE p.flags, n, body)
         /\ PublishBody(p, pid, n, body)
  BY <1>1, PacksPublish
<1>4. (IF QosOf(p.flags) = 0 THEN p.flags % 8 ELSE p.flags) = p.flags
  BY <1>2
<1>5. Packs(p, p.flags, n, body)
  BY <1>3, <1>4
<1>6. mqtt_fixed_header_rule_violation(p.type, p.flags) = "MQTT_OK"
  BY DEF mqtt_fixed_header_rule_violation, PUBLISH
<1>7. ASSUME NEW rest \in Seq(Byte), At(rest, 0, body)
      PROVE Variable(p.type, p.flags, rest, n) =
             IF p.type = PUBLISH /\ n < 4 THEN Bad("MALFORMED_RESPONSE") ELSE Good(n, p)
  <2>1. Variable(p.type, p.flags, rest, n) = mqtt_unpack_publish_response(rest, p.flags, n)
    BY DEF Variable, CONNACK, PUBLISH, PUBXXX, SUBACK, UNSUBACK, PINGRESP
  <2>2. CASE n < 4
    BY <2>1, <2>2 DEF mqtt_unpack_publish_response
  <2>3. CASE ~(n < 4)
    <3>1. body \in Seq(Byte)
      BY <1>5 DEF Packs
    <3>2. mqtt_unpack_publish_response(rest, p.flags, n) =
              Good(n, Packet(PUBLISH, p.flags, p.pid, p.topic, p.data))
      BY <1>1, <1>2, <1>3, <1>7, <2>3, <3>1, UnpackPublish
    <3> QED BY <1>2, <2>1, <2>3, <3>2
  <2> QED BY <2>2, <2>3
<1>8. n = PublishSize(p)
  BY <1>3 DEF PublishBody, PublishSize
<1>9. p.type \in 0..15
  BY DEF PUBLISH
<1> QED BY <1>2, <1>5, <1>6, <1>7, <1>8, <1>9 DEF Readable

\* A PUBACK, PUBREC, PUBREL or PUBCOMP of the broker can be read back.
LEMMA ReadablePubxxx ==
    ASSUME NEW p, SentByBroker(p), p.type \in PUBXXX
    PROVE  \E n, body : Readable(p, n, body)
<1> DEFINE body == mqtt_pack_uint16(p.pid)
<1>1. /\ p = Packet(p.type, p.flags, p.pid, <<>>, <<>>) /\ p.flags \in 0..15 /\ IsWord(p.pid)
      /\ p.flags = (IF p.type = PUBREL THEN 2 ELSE 0) /\ p.type # PUBLISH /\ p.type \in 0..15
  BY DEF SentByBroker, CONNACK, PUBLISH, PUBXXX, SUBACK, UNSUBACK, PINGRESP
<1>2. body \in Seq(Byte) /\ Len(body) = 2
  BY <1>1, PackUint16
<1>3. Packs(p, p.flags, 2, body)
  <2>1. Packing(p) = mqtt_pack_pubxxx_request(p)
    BY DEF Packing, CONNECT, PUBLISH, PUBXXX, SUBSCRIBE, UNSUBSCRIBE, PINGREQ, DISCONNECT
  <2> QED BY <1>1, <1>2, <2>1 DEF Packs, mqtt_pack_pubxxx_request
<1>4. mqtt_fixed_header_rule_violation(p.type, p.flags) = "MQTT_OK"
  BY <1>1 DEF mqtt_fixed_header_rule_violation, PUBXXX, PUBREL
<1>5. ASSUME NEW rest \in Seq(Byte), At(rest, 0, body)
      PROVE Variable(p.type, p.flags, rest, 2) = Good(2, p)
  <2>1. Variable(p.type, p.flags, rest, 2)
           = mqtt_unpack_pubxxx_response(rest, p.type, p.flags, 2)
    BY DEF Variable, CONNACK, PUBLISH, PUBXXX, SUBACK, UNSUBACK, PINGRESP
  <2>2. mqtt_unpack_uint16(rest) = p.pid
    BY <1>1, <1>5, UnpackUint16
  <2> QED BY <1>1, <2>1, <2>2 DEF mqtt_unpack_pubxxx_response
<1> HIDE DEF body
<1> QED BY <1>1, <1>3, <1>4, <1>5 DEF Readable

\* A CONNACK can be read back.
LEMMA ReadableConnack ==
    ASSUME NEW p, SentByBroker(p), p.type = CONNACK
    PROVE  \E n, body : Readable(p, n, body)
<1> DEFINE body == p.data
<1>1. /\ p = Packet(CONNACK, 0, 0, <<>>, p.data) /\ p.flags = 0 /\ p.type # PUBLISH
      /\ p.data \in Seq(Byte) /\ Len(p.data) = 2 /\ p.data[1] <= 1 /\ p.data[2] <= 5
  BY DEF SentByBroker, CONNACK, PUBLISH, PUBXXX, SUBACK, UNSUBACK, PINGRESP
<1>3. Packs(p, p.flags, 2, body)
  <2>1. Packing(p) = BrokerPack(p)
    BY DEF Packing, CONNACK, CONNECT, PUBLISH, PUBXXX, SUBSCRIBE, UNSUBSCRIBE, PINGREQ, DISCONNECT
  <2>2. <<>> \o p.data = p.data
    BY <1>1, ConcatEmptySeq
  <2>3. (IF p.type \in {SUBACK, UNSUBACK} THEN mqtt_pack_uint16(p.pid) ELSE <<>>) = <<>>
    BY DEF CONNACK, SUBACK, UNSUBACK
  <2> QED BY <1>1, <2>1, <2>2, <2>3 DEF Packs, BrokerPack
<1>4. mqtt_fixed_header_rule_violation(p.type, p.flags) = "MQTT_OK"
  BY <1>1 DEF mqtt_fixed_header_rule_violation, CONNACK
<1>5. ASSUME NEW rest \in Seq(Byte), At(rest, 0, body)
      PROVE Variable(p.type, p.flags, rest, 2) = Good(2, p)
  <2>1. Variable(p.type, p.flags, rest, 2) = mqtt_unpack_connack_response(rest, 2)
    BY DEF Variable, CONNACK, PUBLISH, PUBXXX, SUBACK, UNSUBACK, PINGRESP
  <2>a. body \in Seq(Byte) /\ Len(body) = 2
    BY <1>1
  <2> HIDE DEF body
  <2>2. SubSeq(rest, 0 + 1, 0 + Len(body)) = body
    BY <2>a, <1>5, AtSlice
  <2>3. \A i \in 1..2 : rest[0 + i] = body[i]
    BY <2>a, <1>5 DEF At
  <2>4. rest[0 + 1] = body[1] /\ rest[0 + 2] = body[2]
    BY <2>3
  <2>b. SubSeq(rest, 1, 2) = body /\ rest[1] = body[1] /\ rest[2] = body[2]
    BY <2>a, <2>2, <2>4
  <2>c. body[1] \in Byte /\ body[2] \in Byte
    <3>1. 1 \in 1..Len(body) /\ 2 \in 1..Len(body)
      BY <2>a
    <3> QED BY <2>a, <3>1, ElementOfSeq
  <2>d. body[1] \in Nat /\ body[2] \in Nat
    BY <2>c, ByteIsNat
  <2>5. SubSeq(rest, 1, 2) = p.data /\ rest[1] = p.data[1] /\ rest[2] = p.data[2]
    BY <2>b DEF body
  <2>6. p.data[1] \in Nat /\ p.data[2] \in Nat
    BY <2>d DEF body
  <2>7. mqtt_unpack_connack_response(rest, 2) = Good(2, Packet(CONNACK, 0, 0, <<>>, p.data))
    <3>1. ~(2 # 2) /\ ~(rest[1] > 1) /\ ~(rest[2] > 5)
      BY <1>1, <2>5, <2>6
    <3> QED BY <2>5, <3>1 DEF mqtt_unpack_connack_response
  <2> QED BY <1>1, <2>1, <2>7
<1>6. p.type \in 0..15
  BY DEF CONNACK
<1> HIDE DEF body
<1> QED BY <1>1, <1>3, <1>4, <1>5, <1>6 DEF Readable

\* A PINGRESP can be read back.
LEMMA ReadablePingresp ==
    ASSUME NEW p, SentByBroker(p), p.type = PINGRESP
    PROVE  \E n, body : Readable(p, n, body)
<1>1. /\ p = Packet(PINGRESP, 0, 0, <<>>, <<>>) /\ p.flags = 0 /\ p.type # PUBLISH
      /\ p.data = <<>>
  BY DEF SentByBroker, CONNACK, PUBLISH, PUBXXX, SUBACK, UNSUBACK, PINGRESP
<1>3. Packs(p, p.flags, 0, <<>>)
  <2>1. Packing(p) = BrokerPack(p)
    BY DEF Packing, PINGRESP, CONNECT, PUBLISH, PUBXXX, SUBSCRIBE, UNSUBSCRIBE, PINGREQ, DISCONNECT
  <2>2. (IF p.type \in {SUBACK, UNSUBACK} THEN mqtt_pack_uint16(p.pid) ELSE <<>>) = <<>>
    BY DEF PINGRESP, SUBACK, UNSUBACK
  <2>3. <<>> \o <<>> = <<>> /\ Len(<<>>) = 0 /\ <<>> \in Seq(Byte)
    OBVIOUS
  <2> QED BY <1>1, <2>1, <2>2, <2>3 DEF Packs, BrokerPack
<1>4. mqtt_fixed_header_rule_violation(p.type, p.flags) = "MQTT_OK"
  BY <1>1 DEF mqtt_fixed_header_rule_violation, PINGRESP
<1>5. ASSUME NEW rest \in Seq(Byte)
      PROVE Variable(p.type, p.flags, rest, 0) = Good(0, p)
  BY <1>1 DEF Variable, CONNACK, PUBLISH, PUBXXX, SUBACK, UNSUBACK, PINGRESP
<1>6. p.type \in 0..15
  BY DEF PINGRESP
<1> QED BY <1>1, <1>3, <1>4, <1>5, <1>6 DEF Readable

\* A SUBACK or UNSUBACK can be read back.
LEMMA ReadableSuback ==
    ASSUME NEW p, SentByBroker(p), p.type \in {SUBACK, UNSUBACK}
    PROVE  \E n, body : Readable(p, n, body)
<1> DEFINE h == mqtt_pack_uint16(p.pid)
           body == h \o p.data
           n == Len(body)
<1>1. /\ p = Packet(p.type, 0, p.pid, <<>>, p.data) /\ p.flags = 0 /\ p.type # PUBLISH
      /\ p.data \in Seq(Byte) /\ IsWord(p.pid)
      /\ p.type = SUBACK => p.data # <<>>
      /\ p.type = UNSUBACK => p.data = <<>>
  BY DEF SentByBroker, CONNACK, PUBLISH, PUBXXX, SUBACK, UNSUBACK, PINGRESP
<1>2. h \in Seq(Byte) /\ Len(h) = 2
  BY <1>1, PackUint16
<1>3. Packing(p) = Parts(0, n, body)
  <2>1. Packing(p) = BrokerPack(p)
    BY DEF Packing, SUBACK, UNSUBACK, CONNECT, PUBLISH, PUBXXX, SUBSCRIBE, UNSUBSCRIBE,
           PINGREQ, DISCONNECT
  <2> QED BY <2>1 DEF BrokerPack
<1> HIDE DEF h
<1>4. body \in Seq(Byte) /\ n = 2 + Len(p.data) /\ At(body, 0, h) /\ At(body, 2, p.data)
  <2> DEFINE d == p.data
  <2>1. d \in Seq(Byte)
    BY <1>1
  <2>2. body = h \o d
    OBVIOUS
  <2> HIDE DEF d, body
  <2>3. body \in Seq(Byte) /\ Len(body) = Len(h) + Len(d) /\ At(body, 0, h) /\ At(body, Len(h), d)
    BY <1>2, <2>1, <2>2, AtConcat
  <2> QED BY <1>2, <2>3 DEF d
<1>5. Len(p.data) \in Nat /\ n \in Nat
  BY <1>1, <1>4, LenProperties
<1>6. Packs(p, p.flags, n, body)
  BY <1>1, <1>3, <1>4, <1>5 DEF Packs
<1>7. mqtt_fixed_header_rule_violation(p.type, p.flags) = "MQTT_OK"
  BY <1>1 DEF mqtt_fixed_header_rule_violation, SUBACK, UNSUBACK
<1> HIDE DEF n, body
<1>8. ASSUME NEW rest \in Seq(Byte), At(rest, 0, body)
      PROVE Variable(p.type, p.flags, rest, n) = Good(n, p)
  <2>1. At(rest, 0 + 0, h)
    BY <1>2, <1>4, <1>8, AtTrans
  <2>2. At(rest, 0 + 2, p.data)
    BY <1>1, <1>4, <1>8, AtTrans
  <2>3. mqtt_unpack_uint16(rest) = p.pid
    BY <1>1, <2>1, UnpackUint16 DEF h
  <2>4. SubSeq(rest, 2 + 1, 2 + Len(p.data)) = p.data
    BY <1>1, <2>2, AtSlice
  <2>5. SubSeq(rest, 3, n) = p.data
    BY <1>4, <2>4
  <2>6. CASE p.type = SUBACK
    <3>1. Variable(p.type, p.flags, rest, n) = mqtt_unpack_suback_response(rest, n)
      BY <2>6 DEF Variable, CONNACK, PUBLISH, PUBXXX, SUBACK, UNSUBACK, PINGRESP
    <3>2. Len(p.data) # 0
      BY <1>1, <2>6, EmptySeq
    <3>3. ~(n < 3)
      BY <3>2, <1>4, <1>5
    <3> QED BY <1>1, <2>3, <2>5, <2>6, <3>1, <3>3 DEF mqtt_unpack_suback_response
  <2>7. CASE p.type = UNSUBACK
    <3>1. Variable(p.type, p.flags, rest, n) = mqtt_unpack_unsuback_response(rest, n)
      BY <2>7 DEF Variable, CONNACK, PUBLISH, PUBXXX, SUBACK, UNSUBACK, PINGRESP
    <3>2. Len(p.data) = 0
      BY <1>1, <2>7, EmptySeq
    <3>3. n = 2
      BY <3>2, <1>4, <1>5
    <3> QED BY <1>1, <2>3, <2>7, <3>1, <3>3 DEF mqtt_unpack_unsuback_response
  <2> QED BY <2>6, <2>7
<1>9. p.type \in 0..15
  BY DEF SUBACK, UNSUBACK
<1> QED BY <1>1, <1>6, <1>7, <1>8, <1>9 DEF Readable

\* Whatever a broker sends can be read back.
LEMMA ReadablePacket ==
    ASSUME NEW p, SentByBroker(p)
    PROVE  \E n, body : Readable(p, n, body) /\ n < Weight[MaxLenBytes]
<1>1. \/ p.type = CONNACK \/ p.type = PUBLISH \/ p.type \in PUBXXX
      \/ p.type \in {SUBACK, UNSUBACK} \/ p.type = PINGRESP
  BY DEF SentByBroker
<1>2. PICK n, body : Readable(p, n, body)
  BY <1>1, ReadablePublish, ReadablePubxxx, ReadableConnack, ReadablePingresp, ReadableSuback
<1>3. ~(n >= Weight[MaxLenBytes]) /\ n \in Nat
  <2>1. Packs(p, p.flags, n, body)
    BY <1>2 DEF Readable
  <2>2. PackError(p) = "MQTT_OK"
    BY DEF SentByBroker
  <2>3. PackError(p) = IF n >= Weight[MaxLenBytes] THEN "INVALID_REMAINING_LENGTH"
                       ELSE "MQTT_OK"
    BY <2>1, PacksFrame
  <2> QED BY <2>1, <2>2, <2>3 DEF Packs
<1>4. Weight[MaxLenBytes] \in Nat
  BY WeightDef, CodecAssumption
<1> QED BY <1>2, <1>3, <1>4

-----------------------------------------------------------------------------
(* Packets, and packets one after the other.                                *)

\* A packet of the broker is at least one byte.
LEMMA PackShape ==
    ASSUME NEW p, SentByBroker(p)
    PROVE  Pack(p) \in Seq(Byte) /\ Len(Pack(p)) \in Nat /\ Len(Pack(p)) > 0
<1>1. PICK n, body : Readable(p, n, body)
  BY ReadablePacket
<1>2. /\ p.type \in 0..15 /\ p.flags \in 0..15 /\ n \in Nat /\ body \in Seq(Byte)
      /\ Len(body) = n /\ Packs(p, p.flags, n, body)
  BY <1>1 DEF Readable, Packs
<1>3. Pack(p) = Frame(p.type, p.flags, n, body)
  BY <1>2, PacksFrame
<1>4. Framed(Pack(p), LengthBytes[n], p.type, p.flags, n, body)
  BY <1>2, <1>3, FrameShape
<1>5. Encodes(LengthBytes[n], n)
  BY <1>2, LengthEncoded
<1>6. LengthBytes[n] \in Seq(Byte)
  BY <1>5 DEF Encodes
<1>7. Len(LengthBytes[n]) \in Nat
  BY <1>6, LenProperties
<1> QED BY <1>2, <1>4, <1>7 DEF Framed

\* The round trip: of the bytes of a packet that a broker sends, whatever follows them,
\* mqtt_unpack_response makes this packet, and takes exactly its bytes; but it refuses a
\* PUBLISH whose topic and data have less than four bytes between them.
THEOREM ReadPacket ==
    ASSUME NEW p, SentByBroker(p), NEW b \in Seq(Byte), At(b, 0, Pack(p))
    PROVE  mqtt_unpack_response(b) =
              IF p.type = PUBLISH /\ PublishSize(p) < 4 THEN Bad("MALFORMED_RESPONSE")
              ELSE Good(Len(Pack(p)), p)
<1>1. PICK n, body : Readable(p, n, body) /\ n < Weight[MaxLenBytes]
  BY ReadablePacket
<1>2. /\ p.type \in 0..15 /\ p.flags \in 0..15 /\ n \in Nat /\ body \in Seq(Byte)
      /\ Len(body) = n /\ Packs(p, p.flags, n, body)
      /\ mqtt_fixed_header_rule_violation(p.type, p.flags) = "MQTT_OK"
      /\ p.type = PUBLISH => n = PublishSize(p)
  BY <1>1 DEF Readable, Packs
<1>3. Pack(p) = Frame(p.type, p.flags, n, body)
  BY <1>2, PacksFrame
<1>4. PICK k \in Nat \ {0} :
         Fronted(b, k, p.type, p.flags, n, body) /\ k + n = Len(Pack(p))
  <2> DEFINE t == p.type
             f == p.flags
             w == Frame(t, f, n, body)
  <2>1. /\ t \in 0..15 /\ f \in 0..15 /\ n < Weight[MaxLenBytes]
        /\ mqtt_fixed_header_rule_violation(t, f) = "MQTT_OK" /\ At(b, 0, w)
    BY <1>1, <1>2, <1>3
  <2> HIDE DEF t, f
  <2>2. FrontRead(b, t, f, n, body)
    BY <1>2, <2>1, ReadFrame
  <2>3. Pack(p) = w
    BY <1>3 DEF t, f
  <2> HIDE DEF w
  <2> QED BY <2>2, <2>3 DEF t, f, w, FrontRead
<1> DEFINE r == Variable(p.type, p.flags, SubSeq(b, k + 1, Len(b)), n)
<1>5. r = IF p.type = PUBLISH /\ n < 4 THEN Bad("MALFORMED_RESPONSE") ELSE Good(n, p)
  BY <1>1, <1>4 DEF Readable, Fronted
<1>6. mqtt_unpack_response(b) = IF r.error # "MQTT_OK" THEN r ELSE [r EXCEPT !.n = @ + k]
  BY <1>4, ResponseDef DEF Fronted
<1> HIDE DEF r
<1>7. CASE p.type = PUBLISH /\ n < 4
  BY <1>2, <1>5, <1>6, <1>7 DEF Bad
<1>8. CASE ~(p.type = PUBLISH /\ n < 4)
  <2>1. r = Good(n, p)
    BY <1>5, <1>8
  <2>2. mqtt_unpack_response(b) = Good(n + k, p)
    BY <1>6, <2>1 DEF Good
  <2>3. n + k = Len(Pack(p))
    BY <1>2, <1>4
  <2> QED BY <1>2, <1>8, <2>2, <2>3
<1> QED BY <1>7, <1>8

\* Of a part of the bytes of a packet, however short, mqtt_unpack_response makes nothing
\* yet: it never takes a part of a packet for a whole one, or for an error.
THEOREM AwaitPacket ==
    ASSUME NEW p, SentByBroker(p), NEW b \in Seq(Byte), At(Pack(p), 0, b),
           Len(b) < Len(Pack(p))
    PROVE  mqtt_unpack_response(b) = Wait
<1>1. PICK n, body : Readable(p, n, body) /\ n < Weight[MaxLenBytes]
  BY ReadablePacket
<1>2. /\ p.type \in 0..15 /\ p.flags \in 0..15 /\ n \in Nat /\ body \in Seq(Byte)
      /\ Len(body) = n /\ Packs(p, p.flags, n, body)
      /\ mqtt_fixed_header_rule_violation(p.type, p.flags) = "MQTT_OK"
  BY <1>1 DEF Readable, Packs
<1>3. Pack(p) = Frame(p.type, p.flags, n, body)
  BY <1>2, PacksFrame
<1> QED BY <1>1, <1>2, <1>3, AwaitFrame

\* Of no bytes it makes nothing.
LEMMA AwaitNothing == mqtt_unpack_response(<<>>) = Wait
<1> DEFINE l == LengthBytes[0]
<1>1. Weight[MaxLenBytes] \in Nat \ {0}
  BY WeightDef, CodecAssumption
<1>2. /\ Encodes(l, 0) /\ Len(l) \in Nat /\ Len(l) >= 1 /\ Len(l) <= MaxLenBytes
  BY <1>1, LengthFits
<1> HIDE DEF l
<1> DEFINE b == <<>>
<1>3. b \in Seq(Byte) /\ Len(b) = 0
  OBVIOUS
<1> HIDE DEF b
<1> DEFINE t == 2
           f == 0
<1>a. t \in 0..15 /\ f \in 0..15 /\ f \in Nat
  OBVIOUS
<1>b. Encodes(l, f)
  BY <1>2
<1> HIDE DEF t, f
<1>4. Starts(b, t, f, l)
  BY <1>2, <1>3 DEF Starts
<1>5. Len(b) <= Len(l)
  BY <1>2, <1>3
<1>6. mqtt_unpack_fixed_header(b) = [error |-> "MQTT_OK", n |-> 0, rl |-> 0]
  BY <1>2, <1>a, <1>b, <1>4, <1>5, HeaderAwaited
<1>7. mqtt_unpack_response(b) = Wait
  BY <1>6, ResponseDef
<1> QED BY <1>7 DEF b

\* No packets give no bytes.
LEMMA PackAllNone == PackAll(<<>>) = <<>>
<1>1. [i \in DOMAIN <<>> |-> Pack(<<>>[i])] = <<>>
  OBVIOUS
<1> QED BY <1>1, FlattenEmpty DEF PackAll

\* Packets give bytes.
LEMMA PackAllType ==
    ASSUME NEW P, \A p \in P : SentByBroker(p), NEW ps \in Seq(P)
    PROVE  PackAll(ps) \in Seq(Byte)
<1> DEFINE ws == [i \in DOMAIN ps |-> Pack(ps[i])]
<1>1. \A i \in 1..Len(ps) : Pack(ps[i]) \in Seq(Byte)
  BY ElementOfSeq, PackShape
<1>2. DOMAIN ps = 1..Len(ps) /\ Len(ps) \in Nat
  BY LenProperties
<1>3. ws \in Seq(Seq(Byte))
  BY <1>1, <1>2, IsASeq
<1> HIDE DEF ws
<1>4. FlattenSeq(ws) \in Seq(Byte)
  BY <1>3, FlattenType
<1> QED BY <1>4 DEF PackAll, ws

\* The first packet goes first.
LEMMA PackAllCons ==
    ASSUME NEW P, \A p \in P : SentByBroker(p), NEW a \in P, NEW ps \in Seq(P)
    PROVE  PackAll(<<a>> \o ps) = Pack(a) \o PackAll(ps)
<1> DEFINE ws == [i \in DOMAIN ps |-> Pack(ps[i])]
           qs == <<a>> \o ps
           vs == [i \in DOMAIN qs |-> Pack(qs[i])]
<1>1. \A i \in 1..Len(ps) : Pack(ps[i]) \in Seq(Byte)
  BY ElementOfSeq, PackShape
<1>2. DOMAIN ps = 1..Len(ps) /\ Len(ps) \in Nat
  BY LenProperties
<1>3. ws \in Seq(Seq(Byte)) /\ Len(ws) = Len(ps) /\ \A i \in 1..Len(ps) : ws[i] = Pack(ps[i])
  BY <1>1, <1>2, IsASeq
<1>4. /\ qs \in Seq(P) /\ Len(qs) = Len(ps) + 1 /\ qs[1] = a
      /\ \A i \in 1..Len(ps) : qs[i + 1] = ps[i]
  BY ConsByte
<1>5. Pack(a) \in Seq(Byte)
  BY PackShape
<1> HIDE DEF ws, qs
<1> DEFINE us == <<Pack(a)>> \o ws
<1>6. /\ us \in Seq(Seq(Byte)) /\ Len(us) = Len(ws) + 1 /\ us[1] = Pack(a)
      /\ \A i \in 1..Len(ws) : us[i + 1] = ws[i]
  BY <1>3, <1>5, ConsByte
<1>7. vs \in Seq(Seq(Byte)) /\ Len(vs) = Len(qs) /\ \A i \in 1..Len(qs) : vs[i] = Pack(qs[i])
  <2>1. \A i \in 1..Len(qs) : Pack(qs[i]) \in Seq(Byte)
    BY <1>4, ElementOfSeq, PackShape
  <2>2. DOMAIN qs = 1..Len(qs) /\ Len(qs) \in Nat
    BY <1>4, LenProperties
  <2> QED BY <2>1, <2>2, IsASeq
<1> HIDE DEF us, vs
<1>8. us = vs
  <2>1. Len(us) = Len(vs)
    BY <1>3, <1>4, <1>6, <1>7
  <2>2. ASSUME NEW i \in 1..Len(us) PROVE us[i] = vs[i]
    <3>1. CASE i = 1
      BY <1>2, <1>4, <1>6, <1>7, <3>1
    <3>2. CASE i # 1
      <4> DEFINE j == i - 1
      <4>1. j \in 1..Len(ps) /\ j + 1 = i /\ i \in 1..Len(qs)
        BY <1>2, <1>3, <1>4, <1>6, <3>2
      <4> HIDE DEF j
      <4>2. us[j + 1] = ws[j] /\ ws[j] = Pack(ps[j]) /\ qs[j + 1] = ps[j]
        BY <4>1, <1>3, <1>4, <1>6
      <4>3. vs[i] = Pack(qs[i])
        BY <4>1, <1>7
      <4> QED BY <4>1, <4>2, <4>3
    <3> QED BY <3>1, <3>2
  <2> QED BY <1>6, <1>7, <2>1, <2>2, SeqEqual
<1>9. FlattenSeq(us) = Pack(a) \o FlattenSeq(ws)
  BY <1>3, <1>5, FlattenCons DEF us
<1>10. PackAll(qs) = FlattenSeq(vs) /\ PackAll(ps) = FlattenSeq(ws)
  BY DEF PackAll, vs, ws
<1> QED BY <1>8, <1>9, <1>10 DEF qs

\* The packets of ps from the one after k on.
LEMMA PackAllNext ==
    ASSUME NEW P, \A p \in P : SentByBroker(p), NEW ps \in Seq(P), NEW k \in Nat, k < Len(ps)
    PROVE  PackAll(SubSeq(ps, k + 1, Len(ps)))
              = Pack(ps[k + 1]) \o PackAll(SubSeq(ps, (k + 1) + 1, Len(ps)))
<1> DEFINE q == SubSeq(ps, k + 1, Len(ps))
           r == SubSeq(ps, (k + 1) + 1, Len(ps))
           a == ps[k + 1]
           c == <<a>> \o r
<1>1. Len(ps) \in Nat /\ k + 1 \in 1..Len(ps) /\ k + 1 \in Nat /\ k + 1 <= Len(ps) /\ k <= Len(ps)
  BY LenProperties
<1>2. a \in P
  BY <1>1, ElementOfSeq
<1>3. q \in Seq(P) /\ Len(q) = Len(ps) - k /\ At(ps, k, q)
  BY <1>1, Dropped
<1>4. r \in Seq(P) /\ Len(r) = Len(ps) - (k + 1) /\ At(ps, k + 1, r)
  BY <1>1, Dropped
<1> HIDE DEF q, r
<1>5. /\ c \in Seq(P) /\ Len(c) = Len(r) + 1 /\ c[1] = a
      /\ \A i \in 1..Len(r) : c[i + 1] = r[i]
  BY <1>2, <1>4, ConsByte
<1> HIDE DEF c
<1>6. q = c
  <2>1. Len(q) = Len(c)
    BY <1>1, <1>3, <1>4, <1>5
  <2>2. ASSUME NEW i \in 1..Len(q) PROVE q[i] = c[i]
    <3>1. ps[k + i] = q[i]
      BY <1>3 DEF At
    <3>2. CASE i = 1
      BY <1>5, <3>1, <3>2
    <3>3. CASE i # 1
      <4> DEFINE j == i - 1
      <4>1. j \in 1..Len(r) /\ j + 1 = i /\ (k + 1) + j = k + i
        BY <1>1, <1>3, <1>4, <3>3
      <4> HIDE DEF j
      <4>2. ps[(k + 1) + j] = r[j] /\ c[j + 1] = r[j]
        BY <1>4, <1>5, <4>1 DEF At
      <4> QED BY <3>1, <4>1, <4>2
    <3> QED BY <3>2, <3>3
  <2> QED BY <1>3, <1>5, <2>1, <2>2, SeqEqual
<1> HIDE DEF a
<1>7. PackAll(c) = Pack(a) \o PackAll(r)
  BY <1>2, <1>4, PackAllCons DEF c
<1> QED BY <1>6, <1>7 DEF a, q, r

-----------------------------------------------------------------------------
(* The front of a sequence.                                                 *)

\* The order in which bytes are strung together does not matter.
LEMMA ByteAssoc == \A a, b, c \in Seq(Byte) : (a \o b) \o c = a \o (b \o c)
BY ConcatAssociative

\* A sequence is its first n members and the others.
LEMMA Split ==
    ASSUME NEW S, NEW s \in Seq(S), NEW n \in Nat, n <= Len(s)
    PROVE  /\ SubSeq(s, 1, n) \in Seq(S) /\ Len(SubSeq(s, 1, n)) = n
           /\ SubSeq(s, n + 1, Len(s)) \in Seq(S)
           /\ Len(SubSeq(s, n + 1, Len(s))) = Len(s) - n
           /\ SubSeq(s, 1, n) \o SubSeq(s, n + 1, Len(s)) = s
           /\ \A i \in 1..n : SubSeq(s, 1, n)[i] = s[i]
<1> DEFINE f == SubSeq(s, 1, n)
           r == SubSeq(s, n + 1, Len(s))
           u == f \o r
<1>1. Len(s) \in Nat
  BY LenProperties
<1>2. r \in Seq(S) /\ Len(r) = Len(s) - n /\ At(s, n, r)
  BY Dropped
<1>3. f \in Seq(S) /\ Len(f) = n /\ \A i \in 1..n : f[i] = s[i]
  <2> DEFINE m == 1
  <2>1. \A i \in m..n : s[i] \in S
    <3>1. \A i \in m..n : i \in 1..Len(s)
      BY <1>1
    <3> QED BY <3>1, ElementOfSeq
  <2>2. m \in Int /\ n \in Int
    OBVIOUS
  <2> DEFINE v == SubSeq(s, m, n)
  <2>3. /\ v \in Seq(S)
        /\ Len(v) = IF m <= n THEN n - m + 1 ELSE 0
        /\ \A i \in 1..(n - m + 1) : v[i] = s[m + i - 1]
    <3> HIDE DEF m
    <3> QED BY <2>1, <2>2, SubSeqProperties
  <2> HIDE DEF v
  <2>4. Len(v) = n
    BY <2>3
  <2>5. ASSUME NEW i \in 1..n PROVE v[i] = s[i]
    <3>1. i \in 1..(n - m + 1) /\ m + i - 1 = i
      OBVIOUS
    <3> QED BY <3>1, <2>3
  <2> QED BY <2>3, <2>4, <2>5 DEF v
<1> HIDE DEF f, r
<1>4. u \in Seq(S) /\ Len(u) = Len(f) + Len(r) /\ At(u, 0, f) /\ At(u, Len(f), r)
  BY <1>2, <1>3, AtConcat
<1> HIDE DEF u
<1>5. u = s
  <2>1. Len(u) = Len(s)
    BY <1>1, <1>2, <1>3, <1>4
  <2>2. ASSUME NEW i \in 1..Len(u) PROVE u[i] = s[i]
    <3>1. CASE i <= n
      <4>1. i \in 1..n /\ i \in 1..Len(f) /\ 0 + i = i
        BY <3>1, <1>3
      <4>2. u[0 + i] = f[i]
        BY <4>1, <1>4 DEF At
      <4> QED BY <4>1, <4>2, <1>3
    <3>2. CASE ~(i <= n)
      <4> DEFINE j == i - n
      <4>1. j \in 1..Len(r) /\ n + j = i
        BY <3>2, <2>1, <1>1, <1>2
      <4> HIDE DEF j
      <4>2. u[n + j] = r[j] /\ s[n + j] = r[j]
        BY <4>1, <1>2, <1>3, <1>4 DEF At
      <4> QED BY <4>1, <4>2
    <3> QED BY <3>1, <3>2
  <2> QED BY <1>4, <2>1, <2>2, SeqEqual
<1> QED BY <1>2, <1>3, <1>5 DEF f, r, u

\* Two prefixes of c: the longer one starts with the shorter one.
LEMMA PrefixOrder ==
    ASSUME NEW S, NEW c \in Seq(S), NEW s \in Seq(S), NEW t \in Seq(S),
           At(c, 0, s), At(c, 0, t), Len(s) <= Len(t)
    PROVE  At(t, 0, s)
<1>1. Len(s) \in Nat /\ Len(t) \in Nat
  BY LenProperties
<1>2. ASSUME NEW i \in 1..Len(s) PROVE t[0 + i] = s[i]
  <2>1. i \in 1..Len(t) /\ 0 + i = i
    BY <1>1
  <2>2. c[0 + i] = s[i] /\ c[0 + i] = t[i]
    BY <2>1 DEF At
  <2> QED BY <2>1, <2>2
<1>3. 0 + Len(s) <= Len(t)
  BY <1>1
<1> QED BY <1>2, <1>3 DEF At

\* Prefixes of the same length are equal.
LEMMA PrefixEqual ==
    ASSUME NEW S, NEW c \in Seq(S), NEW s \in Seq(S), At(c, 0, s), Len(s) = Len(c)
    PROVE  s = c
<1>1. Len(s) \in Nat
  BY LenProperties
<1>2. ASSUME NEW i \in 1..Len(s) PROVE s[i] = c[i]
  <2>1. c[0 + i] = s[i]
    BY DEF At
  <2>2. 0 + i = i
    OBVIOUS
  <2> QED BY <2>1, <2>2
<1> QED BY <1>2, SeqEqual

\* A sequence starts with itself.
LEMMA PrefixSelf ==
    ASSUME NEW S, NEW s \in Seq(S)
    PROVE  At(s, 0, s)
<1>1. Len(s) \in Nat
  BY LenProperties
<1> QED BY <1>1 DEF At

\* To be at the front is to be a prefix.
LEMMA PrefixIs ==
    ASSUME NEW S, NEW c \in Seq(S), NEW s \in Seq(S), At(c, 0, s)
    PROVE  IsPrefix(s, c)
<1>1. Len(s) \in Nat /\ Len(c) \in Nat
  BY LenProperties
<1>2. SubSeq(c, 0 + 1, 0 + Len(s)) = s
  BY AtSlice
<1>3. SubSeq(c, 1, Len(s)) = s
  BY <1>1, <1>2
<1>4. SubSeq(s, 1, Len(s)) = s
  <2>1. SubSeq(s, 0 + 1, 0 + Len(s)) = s
    BY PrefixSelf, AtSlice
  <2> QED BY <1>1, <2>1
<1>5. Len(s) <= Len(c)
  BY <1>1 DEF At
<1> QED BY <1>3, <1>4, <1>5 DEF IsPrefix

\* When the bytes b and then x are under way of w and then c, and w is whole in b,
\* then without w they are under way of c.
LEMMA Advance ==
    ASSUME NEW S, NEW w \in Seq(S), NEW c \in Seq(S), NEW b \in Seq(S), NEW x \in Seq(S),
           At(w \o c, 0, b \o x), Len(w) <= Len(b)
    PROVE  /\ At(c, 0, SubSeq(b, Len(w) + 1, Len(b)) \o x)
           /\ Len(SubSeq(b, Len(w) + 1, Len(b)) \o x) = Len(b \o x) - Len(w)
           /\ Len(c) = Len(w \o c) - Len(w)
<1> DEFINE d == SubSeq(b, Len(w) + 1, Len(b))
           wc == w \o c
           bx == b \o x
           dx == d \o x
<1>1. Len(w) \in Nat /\ Len(c) \in Nat /\ Len(b) \in Nat /\ Len(x) \in Nat
  BY LenProperties
<1>2. d \in Seq(S) /\ Len(d) = Len(b) - Len(w) /\ At(b, Len(w), d)
  BY <1>1, Dropped
<1> HIDE DEF d
<1>3. wc \in Seq(S) /\ Len(wc) = Len(w) + Len(c) /\ At(wc, Len(w), c)
  BY AtConcat
<1>4. /\ bx \in Seq(S) /\ Len(bx) = Len(b) + Len(x) /\ At(bx, 0, b) /\ At(bx, Len(b), x)
  BY AtConcat
<1>5. /\ dx \in Seq(S) /\ Len(dx) = Len(d) + Len(x) /\ At(dx, 0, d) /\ At(dx, Len(d), x)
  BY <1>2, AtConcat
<1>6. At(wc, 0, bx)
  OBVIOUS
<1> HIDE DEF wc, bx, dx
<1>7. Len(dx) = Len(bx) - Len(w) /\ Len(dx) \in Nat
  BY <1>1, <1>2, <1>4, <1>5
<1>8. 0 + Len(dx) <= Len(c)
  <2>1. 0 + Len(bx) <= Len(wc)
    BY <1>6 DEF At
  <2> QED BY <2>1, <1>1, <1>3, <1>4, <1>7
<1>9. ASSUME NEW i \in 1..Len(dx) PROVE c[0 + i] = dx[i]
  <2> DEFINE j == Len(w) + i
  <2>1. i \in 1..Len(c) /\ j \in 1..Len(bx) /\ 0 + j = j /\ 0 + i = i
    BY <1>1, <1>7, <1>8, <1>4
  <2>2. wc[j] = c[i]
    BY <2>1, <1>3 DEF At
  <2>3. bx[j] = dx[i]
    <3>1. CASE i <= Len(d)
      <4>1. i \in 1..Len(d) /\ j \in 1..Len(b)
        BY <3>1, <1>1, <1>2
      <4>2. b[j] = d[i]
        BY <4>1, <1>2 DEF At
      <4> HIDE DEF j
      <4>3. bx[0 + j] = b[j] /\ dx[0 + i] = d[i]
        BY <4>1, <1>4, <1>5 DEF At
      <4> QED BY <4>2, <4>3, <2>1
    <3>2. CASE ~(i <= Len(d))
      <4> DEFINE k == i - Len(d)
      <4>1. k \in 1..Len(x) /\ Len(d) + k = i /\ Len(b) + k = j
        BY <3>2, <1>1, <1>2, <1>5
      <4> HIDE DEF k, j
      <4>2. bx[Len(b) + k] = x[k] /\ dx[Len(d) + k] = x[k]
        BY <4>1, <1>4, <1>5 DEF At
      <4> QED BY <4>1, <4>2
    <3> QED BY <3>1, <3>2
  <2> HIDE DEF j
  <2>4. wc[0 + j] = bx[j]
    BY <2>1, <1>6 DEF At
  <2> QED BY <2>1, <2>2, <2>3, <2>4
<1>10. At(c, 0, dx)
  BY <1>8, <1>9 DEF At
<1>11. Len(c) = Len(wc) - Len(w)
  BY <1>1, <1>3
<1> QED BY <1>7, <1>10, <1>11 DEF dx, d, bx, wc

-----------------------------------------------------------------------------
(* Lengths that add up.                                                     *)

\* o[i] is the sum of the first i of n numbers a.
IsSum(o, n, a) ==
    /\ n \in Nat /\ o \in [0..n -> Nat] /\ o[0] = 0
    /\ \A i \in 1..n : o[i] = o[i - 1] + a[i]

\* Sums exist.
LEMMA SumExists ==
    ASSUME NEW n \in Nat, NEW a, \A i \in 1..n : a[i] \in Nat
    PROVE  \E o : IsSum(o, n, a)
<1> DEFINE W == 0..n
           mu == [x \in W |-> x]
           c == {0}
           b == [x \in W |-> 0]
           d == [x \in W |-> x - 1]
           g == [x \in W |-> [s \in Nat |-> s + a[x]]]
<1>1. Recursive(W, Nat, mu, c, b, d, g)
  <2>1. mu \in [W -> Nat] /\ \A x \in W : b[x] \in Nat
    OBVIOUS
  <2>2. ASSUME NEW x \in W, x \notin c PROVE d[x] \in W /\ mu[d[x]] < mu[x]
    BY <2>2
  <2>3. ASSUME NEW x \in W, NEW s \in Nat, x \notin c PROVE g[x][s] \in Nat
    <3>1. x \in 1..n
      BY <2>3
    <3>2. a[x] \in Nat
      BY <3>1
    <3> QED BY <3>2
  <2> HIDE DEF W, mu, c, b, d, g
  <2> QED BY <2>1, <2>2, <2>3 DEF Recursive
<1>2. PICK o \in [W -> Nat] : Solves(o, W, c, b, d, g)
  <2> HIDE DEF W, mu, c, b, d, g
  <2> QED BY <1>1, WellDefined
<1>3. \A x \in W : o[x] = IF x \in c THEN b[x] ELSE g[x][o[d[x]]]
  BY <1>2 DEF Solves
<1>4. o[0] = 0
  <2>1. 0 \in W /\ 0 \in c /\ b[0] = 0
    OBVIOUS
  <2>2. o[0] = b[0]
    <3> HIDE DEF W, c, b, d, g
    <3> QED BY <1>3, <2>1
  <2> QED BY <2>1, <2>2
<1>5. ASSUME NEW i \in 1..n PROVE o[i] = o[i - 1] + a[i]
  <2>1. i \in W /\ i \notin c /\ d[i] = i - 1 /\ i - 1 \in W
    OBVIOUS
  <2>2. o[i] = g[i][o[i - 1]]
    <3> HIDE DEF W, c, d, g
    <3> QED BY <1>3, <2>1
  <2>3. o[i - 1] \in Nat
    BY <2>1
  <2> QED BY <2>1, <2>2, <2>3
<1> QED BY <1>4, <1>5 DEF IsSum

\* A sequence has one sum.
LEMMA SumUnique ==
    ASSUME NEW n, NEW a, NEW o, IsSum(o, n, a), NEW f, f[0] = 0,
           \A i \in 1..n : f[i] = f[i - 1] + a[i]
    PROVE  \A k \in 0..n : f[k] = o[k]
<1> USE DEF IsSum
<1> DEFINE T == {k \in Nat : k <= n => f[k] = o[k]}
<1>1. 0 \in T
  OBVIOUS
<1>2. ASSUME NEW k \in Nat, k \in T PROVE k + 1 \in T
  <2> SUFFICES ASSUME k + 1 <= n PROVE f[k + 1] = o[k + 1]
    OBVIOUS
  <2>1. k + 1 \in 1..n /\ (k + 1) - 1 = k /\ f[k] = o[k]
    BY <1>2
  <2> QED BY <2>1
<1>3. \A k \in Nat : k \in T
  <2> HIDE DEF T
  <2> QED BY <1>1, <1>2, SetInduction
<1> QED BY <1>3

\* A sum only grows.
LEMMA SumGrows ==
    ASSUME NEW n, NEW a, NEW o, IsSum(o, n, a), \A i \in 1..n : a[i] \in Nat
    PROVE  \A k \in 0..n : \A j \in 0..k : o[j] <= o[k]
<1> DEFINE T == {k \in Nat : k <= n => \A j \in 0..k : o[j] <= o[k]}
<1>0. /\ n \in Nat /\ o \in [0..n -> Nat] /\ \A i \in 1..n : o[i] = o[i - 1] + a[i]
  BY DEF IsSum
<1>1. 0 \in T
  BY <1>0
<1>2. ASSUME NEW k \in Nat, k \in T PROVE k + 1 \in T
  <2> SUFFICES ASSUME k + 1 <= n, NEW j \in 0..(k + 1) PROVE o[j] <= o[k + 1]
    OBVIOUS
  <2>1. k + 1 \in 1..n /\ (k + 1) - 1 = k /\ k \in 0..n /\ k + 1 \in 0..n
    BY <1>0
  <2>2. o[k + 1] = o[k] + a[k + 1] /\ a[k + 1] \in Nat /\ o[k] \in Nat /\ o[k + 1] \in Nat
    BY <1>0, <2>1
  <2>3. CASE j = k + 1
    BY <2>2, <2>3
  <2>4. CASE j # k + 1
    <3>1. j \in 0..k /\ j \in 0..n
      BY <2>4, <1>0
    <3>2. o[j] <= o[k] /\ o[j] \in Nat
      BY <1>2, <3>1, <1>0, <2>1
    <3> QED BY <2>2, <3>2
  <2> QED BY <2>3, <2>4
<1>3. \A k \in Nat : k \in T
  <2> HIDE DEF T
  <2> QED BY <1>1, <1>2, SetInduction
<1> QED BY <1>0, <1>3

\* The pieces of a flattened sequence, one after another.
Pieces(o, ws, w) ==
    /\ IsSum(o, Len(ws), [i \in 1..Len(ws) |-> Len(ws[i])])
    /\ Len(w) = o[Len(ws)]
    /\ \A i \in 1..Len(ws) : At(w, o[i - 1], ws[i])

\* The pieces strung together are at the places the sums of their lengths give.
LEMMA FlattenPieces ==
    ASSUME NEW S, NEW ws \in Seq(Seq(S))
    PROVE  \E o : Pieces(o, ws, FlattenSeq(ws))
<1> DEFINE n == Len(ws)
           a == [i \in 1..n |-> Len(ws[i])]
<1>1. n \in Nat /\ \A i \in 1..n : ws[i] \in Seq(S) /\ a[i] = Len(ws[i]) /\ a[i] \in Nat
  <2>1. n \in Nat /\ \A i \in 1..n : ws[i] \in Seq(S)
    BY LenProperties, ElementOfSeq
  <2> QED BY <2>1, LenProperties
<1>2. PICK f \in [0..n -> Seq(S)] :
         /\ f[0] = <<>>
         /\ \A i \in 1..n : f[i] = f[i - 1] \o ws[i]
         /\ FlattenSeq(ws) = f[n]
  BY FlattenDef
<1> HIDE DEF a, n
<1> DEFINE o == [i \in 0..n |-> Len(f[i])]
<1>3. \A i \in 0..n : f[i] \in Seq(S) /\ Len(f[i]) \in Nat /\ o[i] = Len(f[i])
  BY <1>2, LenProperties
<1>4. ASSUME NEW i \in 1..n
      PROVE  /\ i \in 0..n /\ i - 1 \in 0..n /\ f[i] = f[i - 1] \o ws[i]
             /\ Len(f[i]) = Len(f[i - 1]) + Len(ws[i])
             /\ At(f[i], 0, f[i - 1]) /\ At(f[i], Len(f[i - 1]), ws[i])
  <2>1. i \in 0..n /\ i - 1 \in 0..n
    BY <1>1
  <2>2. f[i - 1] \in Seq(S) /\ ws[i] \in Seq(S) /\ f[i] = f[i - 1] \o ws[i]
    BY <1>1, <1>2, <1>3, <2>1
  <2> QED BY <2>1, <2>2, AtConcat
<1>5. IsSum(o, n, a)
  <2>1. o[0] = 0
    BY <1>1, <1>2, EmptySeq
  <2>2. ASSUME NEW i \in 1..n PROVE o[i] = o[i - 1] + a[i]
    BY <1>1, <1>3, <1>4
  <2>3. o \in [0..n -> Nat]
    BY <1>3
  <2> HIDE DEF o
  <2> QED BY <1>1, <2>1, <2>2, <2>3 DEF IsSum
<1> HIDE DEF o
<1> DEFINE T == {k \in Nat : k <= n => \A i \in 1..k : At(f[k], o[i - 1], ws[i])}
<1>6. 0 \in T
  BY <1>1
<1>7. ASSUME NEW k \in Nat, k \in T PROVE k + 1 \in T
  <2> SUFFICES ASSUME k + 1 <= n, NEW i \in 1..(k + 1) PROVE At(f[k + 1], o[i - 1], ws[i])
    OBVIOUS
  <2>1. k + 1 \in 1..n /\ (k + 1) - 1 = k /\ k \in 0..n /\ k + 1 \in 0..n
    BY <1>1
  <2>2. CASE i = k + 1
    <3>1. At(f[k + 1], Len(f[k]), ws[k + 1])
      BY <1>4, <2>1
    <3>2. o[i - 1] = Len(f[k])
      BY <1>3, <2>1, <2>2
    <3> QED BY <2>2, <3>1, <3>2
  <2>3. CASE i # k + 1
    <3>1. i \in 1..k /\ i \in 1..n /\ i - 1 \in 0..n
      BY <2>3, <1>1
    <3>2. At(f[k], o[i - 1], ws[i])
      BY <1>7, <3>1, <2>1
    <3>3. At(f[k + 1], 0, f[k])
      BY <1>4, <2>1
    <3>4. f[k] \in Seq(S) /\ f[k + 1] \in Seq(S) /\ ws[i] \in Seq(S) /\ o[i - 1] \in Nat
      BY <1>1, <1>3, <2>1, <3>1
    <3>5. At(f[k + 1], 0 + o[i - 1], ws[i])
      BY <3>2, <3>3, <3>4, AtTrans
    <3>6. 0 + o[i - 1] = o[i - 1]
      BY <3>4
    <3> QED BY <3>5, <3>6
  <2> QED BY <2>2, <2>3
<1>8. \A i \in 1..n : At(f[n], o[i - 1], ws[i])
  <2>1. n \in T
    <3> HIDE DEF T
    <3> QED BY <1>1, <1>6, <1>7, SetInduction
  <2> QED BY <2>1, <1>1
<1>9. Len(f[n]) = o[n]
  BY <1>1, <1>3
<1>10. Pieces(o, ws, f[n])
  BY <1>5, <1>8, <1>9 DEF Pieces, n, a
<1> QED BY <1>2, <1>10

\* The size of strings is the sum of what they take.
LEMMA SizeOfStrsSum ==
    ASSUME NEW ss, NEW o, IsSum(o, Len(ss), [i \in 1..Len(ss) |-> 2 + Len(ss[i])])
    PROVE  SizeOfStrs(ss) = o[Len(ss)]
<1> DEFINE n == Len(ss)
           a == [i \in 1..n |-> 2 + Len(ss[i])]
           F == CHOOSE size : size = [i \in 0..n |->
                   IF i = 0 THEN 0 ELSE size[i - 1] + mqtt_packed_cstrlen(ss[i])]
<1>1. /\ n \in Nat /\ o \in [0..n -> Nat] /\ o[0] = 0
      /\ \A i \in 1..n : o[i] = o[i - 1] + a[i]
  BY DEF IsSum
<1>2. \A i \in 1..n : a[i] = mqtt_packed_cstrlen(ss[i])
  BY DEF mqtt_packed_cstrlen
<1>3. IsSum(o, n, a)
  OBVIOUS
<1> HIDE DEF a
<1>4. o = [i \in 0..n |-> IF i = 0 THEN 0 ELSE o[i - 1] + mqtt_packed_cstrlen(ss[i])]
  <2>1. ASSUME NEW i \in 0..n
        PROVE o[i] = IF i = 0 THEN 0 ELSE o[i - 1] + mqtt_packed_cstrlen(ss[i])
    <3>1. CASE i = 0
      BY <3>1, <1>1
    <3>2. CASE i # 0
      <4>1. i \in 1..n
        BY <3>2, <1>1
      <4> QED BY <4>1, <3>2, <1>1, <1>2
    <3> QED BY <3>1, <3>2
  <2> QED BY <2>1, <1>1
<1>5. F = [i \in 0..n |-> IF i = 0 THEN 0 ELSE F[i - 1] + mqtt_packed_cstrlen(ss[i])]
  BY <1>4
<1>6. SizeOfStrs(ss) = F[n]
  BY DEF SizeOfStrs
<1> HIDE DEF F
<1>7. F[0] = 0 /\ \A i \in 1..n : F[i] = F[i - 1] + a[i]
  <2>1. ASSUME NEW i \in 0..n
        PROVE F[i] = IF i = 0 THEN 0 ELSE F[i - 1] + mqtt_packed_cstrlen(ss[i])
    BY <1>5
  <2>2. F[0] = 0
    BY <2>1, <1>1
  <2>3. ASSUME NEW i \in 1..n PROVE F[i] = F[i - 1] + a[i]
    <3>1. i \in 0..n /\ i # 0
      BY <1>1
    <3> QED BY <2>1, <3>1, <1>2
  <2> QED BY <2>2, <2>3
<1>8. n \in 0..n
  BY <1>1
<1>9. F[n] = o[n]
  <2> HIDE DEF n
  <2> QED BY <1>3, <1>7, <1>8, SumUnique
<1> QED BY <1>6, <1>9

\* Packed strings take as many bytes as is announced for them.
LEMMA PackStrsSize ==
    ASSUME NEW ss \in Seq(Seq(Byte)), \A i \in 1..Len(ss) : IsString(ss[i])
    PROVE  /\ PackStrs(ss) \in Seq(Byte) /\ Len(PackStrs(ss)) = SizeOfStrs(ss)
           /\ SizeOfStrs(ss) \in Nat
           /\ \E o : /\ IsSum(o, Len(ss), [i \in 1..Len(ss) |-> 2 + Len(ss[i])])
                     /\ o[Len(ss)] = SizeOfStrs(ss)
                     /\ \A i \in 1..Len(ss) : At(PackStrs(ss), o[i - 1], mqtt_pack_str(ss[i]))
<1> DEFINE n == Len(ss)
           ws == [i \in DOMAIN ss |-> mqtt_pack_str(ss[i])]
           a == [i \in 1..n |-> 2 + Len(ss[i])]
<1>1. n \in Nat /\ DOMAIN ss = 1..n
  BY LenProperties
<1>2. \A i \in 1..n :
         mqtt_pack_str(ss[i]) \in Seq(Byte) /\ Len(mqtt_pack_str(ss[i])) = 2 + Len(ss[i])
  BY PackStr
<1>3. ws \in Seq(Seq(Byte)) /\ Len(ws) = n /\ \A i \in 1..n : ws[i] = mqtt_pack_str(ss[i])
  BY <1>1, <1>2, IsASeq
<1>4. PackStrs(ss) = FlattenSeq(ws)
  BY DEF PackStrs
<1> HIDE DEF ws, n
<1>5. PICK o : Pieces(o, ws, FlattenSeq(ws))
  BY <1>3, FlattenPieces
<1>6. [i \in 1..Len(ws) |-> Len(ws[i])] = a
  BY <1>2, <1>3
<1> HIDE DEF a
<1>7. /\ IsSum(o, n, a) /\ Len(FlattenSeq(ws)) = o[n]
      /\ \A i \in 1..n : At(FlattenSeq(ws), o[i - 1], ws[i])
  BY <1>3, <1>5, <1>6 DEF Pieces
<1>8. SizeOfStrs(ss) = o[n]
  BY <1>7, SizeOfStrsSum DEF n, a
<1>9. o[n] \in Nat
  BY <1>1, <1>7 DEF IsSum
<1>10. \A i \in 1..n : At(PackStrs(ss), o[i - 1], mqtt_pack_str(ss[i]))
  BY <1>3, <1>4, <1>7
<1>11. FlattenSeq(ws) \in Seq(Byte)
  BY <1>3, FlattenType
<1> QED BY <1>4, <1>7, <1>8, <1>9, <1>10, <1>11 DEF n, a
=============================================================================
