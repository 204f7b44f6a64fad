-------------------------- MODULE SendStreamProofs --------------------------
(***************************************************************************)
(* Proofs about the send side: for every size of the buffer and of the      *)
(* socket, any requests, and any number of resends and connections, the     *)
(* broker understands what was sent, in order and with its meaning, and the *)
(* DUP flag is where it belongs.                                            *)
(***************************************************************************)
EXTENDS SendStream, MqttCodecProofs

-----------------------------------------------------------------------------
(* How the broker finds strings.                                            *)

\* b has the strings ss from byte first on, with gap bytes after each of them, to its
\* end; o[i] is what the first i of them take.
Strung(b, first, gap, ss, o) ==
    /\ IsSum(o, Len(ss), [i \in 1..Len(ss) |-> (2 + Len(ss[i])) + gap])
    /\ \A i \in 1..Len(ss) : At(b, (first - 1) + o[i - 1], mqtt_pack_str(ss[i]))
    /\ Len(b) = (first - 1) + o[Len(ss)]

\* What is at a place of a sequence is there when another one goes before it.
LEMMA AppendAt ==
    ASSUME NEW S, NEW h \in Seq(S), NEW w \in Seq(S), NEW o \in Nat, NEW t \in Seq(S), At(w, o, t)
    PROVE  At(h \o w, Len(h) + o, t)
<1> DEFINE b == h \o w
<1>1. b \in Seq(S) /\ At(b, Len(h), w) /\ Len(h) \in Nat
  BY AtConcat, LenProperties
<1> HIDE DEF b
<1>2. At(b, Len(h) + o, t)
  BY <1>1, AtTrans
<1> QED BY <1>2 DEF b

\* A byte has 8 bits.
LEMMA ByteMod ==
    ASSUME NEW x \in Byte
    PROVE  x % 256 = x
<1>1. ASSUME NEW y \in 0..255 PROVE y % 256 = y
  OBVIOUS
<1> QED BY <1>1 DEF Byte

\* Strings that are packed behind h.
LEMMA StrungAfter ==
    ASSUME NEW ss \in Seq(Seq(Byte)), \A i \in 1..Len(ss) : IsString(ss[i]), NEW h \in Seq(Byte)
    PROVE  \E o : Strung(h \o PackStrs(ss), Len(h) + 1, 0, ss, o)
<1> DEFINE n == Len(ss)
           a == [i \in 1..n |-> 2 + Len(ss[i])]
           c == [i \in 1..n |-> (2 + Len(ss[i])) + 0]
           w == PackStrs(ss)
           b == h \o w
<1>1. PICK o : /\ IsSum(o, n, a)
               /\ o[n] = SizeOfStrs(ss)
               /\ \A i \in 1..n : At(w, o[i - 1], mqtt_pack_str(ss[i]))
  BY PackStrsSize
<1>2. w \in Seq(Byte) /\ Len(w) = SizeOfStrs(ss)
  BY PackStrsSize
<1>3. \A i \in 1..n : ss[i] \in Seq(Byte)
  BY ElementOfSeq
<1>4. \A i \in 1..n : Len(ss[i]) \in Nat
  BY <1>3, LenProperties
<1>5. c = a
  BY <1>4
<1>6. n \in Nat /\ o \in [0..n -> Nat] /\ Len(h) \in Nat
  BY <1>1, LenProperties DEF IsSum
<1>7. \A i \in 1..n : mqtt_pack_str(ss[i]) \in Seq(Byte)
  BY PackStr
<1> HIDE DEF n, a, c, w
<1>8. b \in Seq(Byte) /\ Len(b) = Len(h) + Len(w)
  BY <1>2, AtConcat
<1>9. ASSUME NEW i \in 1..n PROVE At(b, Len(h) + o[i - 1], mqtt_pack_str(ss[i]))
  <2>1. o[i - 1] \in Nat
    BY <1>6
  <2> QED BY <1>1, <1>2, <1>7, <2>1, AppendAt
<1> HIDE DEF b
<1>10. ((Len(h) + 1) - 1) = Len(h)
  BY <1>6
<1>11. /\ IsSum(o, n, c) /\ Len(b) = ((Len(h) + 1) - 1) + o[n]
       /\ \A i \in 1..n : At(b, ((Len(h) + 1) - 1) + o[i - 1], mqtt_pack_str(ss[i]))
  BY <1>1, <1>2, <1>5, <1>8, <1>9, <1>10
<1>12. Strung(b, Len(h) + 1, 0, ss, o)
  BY <1>11 DEF Strung, n, c
<1> QED BY <1>12 DEF b, w

\* Topics, each with the byte of its maximum QoS.
LEMMA StrungTopics ==
    ASSUME NEW ss \in Seq(Seq(Byte)), \A i \in 1..Len(ss) : IsString(ss[i]),
           NEW q \in Seq(Byte), Len(q) = Len(ss), NEW h \in Seq(Byte)
    PROVE  LET ws == [i \in DOMAIN ss |-> mqtt_pack_str(ss[i]) \o <<q[i] % 256>>]
               b  == h \o FlattenSeq(ws)
           IN  /\ b \in Seq(Byte) /\ Len(b) = Len(h) + (SizeOfStrs(ss) + Len(ss))
               /\ \E o : /\ Strung(b, Len(h) + 1, 1, ss, o)
                         /\ \A i \in 1..Len(ss) : b[Len(h) + o[i]] = q[i]
<1> DEFINE n == Len(ss)
           ws == [i \in DOMAIN ss |-> mqtt_pack_str(ss[i]) \o <<q[i] % 256>>]
           w == FlattenSeq(ws)
           b == h \o w
           a == [i \in 1..n |-> 2 + Len(ss[i])]
           c == [i \in 1..n |-> (2 + Len(ss[i])) + 1]
<1>1. n \in Nat /\ DOMAIN ss = 1..n /\ Len(h) \in Nat
  BY LenProperties
<1>2. ASSUME NEW i \in 1..n PROVE Len(ss[i]) \in Nat /\ q[i] \in Byte /\ q[i] % 256 = q[i]
  <2>1. ss[i] \in Seq(Byte) /\ q[i] \in Byte
    BY ElementOfSeq
  <2>3. q[i] % 256 = q[i]
    BY <2>1, ByteMod
  <2> QED BY <2>1, <2>3, LenProperties
<1> HIDE DEF n
<1>3. ASSUME NEW i \in 1..n
      PROVE  /\ ws[i] \in Seq(Byte) /\ Len(ws[i]) = (2 + Len(ss[i])) + 1
             /\ At(ws[i], 0, mqtt_pack_str(ss[i])) /\ mqtt_pack_str(ss[i]) \in Seq(Byte)
             /\ ws[i][(2 + Len(ss[i])) + 1] = q[i]
  <2> DEFINE p == mqtt_pack_str(ss[i])
             e == <<q[i] % 256>>
             v == p \o e
  <2>1. p \in Seq(Byte) /\ Len(p) = 2 + Len(ss[i]) /\ Len(ss[i]) \in Nat
    BY <1>2, PackStr DEF n
  <2>2. e = <<q[i]>> /\ e \in Seq(Byte) /\ Len(e) = 1 /\ e[1] = q[i]
    BY <1>2
  <2>3. ws[i] = v
    BY <1>1
  <2> HIDE DEF p, e
  <2>4. v \in Seq(Byte) /\ Len(v) = Len(p) + Len(e) /\ At(v, 0, p) /\ At(v, Len(p), e)
    BY <2>1, <2>2, AtConcat
  <2> HIDE DEF v
  <2>5. v[Len(p) + 1] = q[i]
    <3>1. 1 \in 1..Len(e)
      BY <2>2
    <3> QED BY <3>1, <2>2, <2>4 DEF At
  <2> QED BY <2>1, <2>2, <2>3, <2>4, <2>5 DEF p
<1>4. ws \in Seq(Seq(Byte)) /\ Len(ws) = n
  <2>1. ws = [i \in 1..n |-> mqtt_pack_str(ss[i]) \o <<q[i] % 256>>]
    BY <1>1
  <2>2. \A i \in 1..n : mqtt_pack_str(ss[i]) \o <<q[i] % 256>> \in Seq(Byte)
    BY <1>1, <1>3
  <2> HIDE DEF ws
  <2> QED BY <1>1, <2>1, <2>2, IsASeq
<1> HIDE DEF ws
<1>5. PICK o : Pieces(o, ws, w)
  BY <1>4, FlattenPieces
<1>6. w \in Seq(Byte)
  BY <1>4, FlattenType
<1> HIDE DEF w
<1>7. [i \in 1..Len(ws) |-> Len(ws[i])] = c
  BY <1>3, <1>4
<1> HIDE DEF a, c
<1>8. /\ IsSum(o, n, c) /\ Len(w) = o[n] /\ \A i \in 1..n : At(w, o[i - 1], ws[i])
  BY <1>4, <1>5, <1>7 DEF Pieces
<1>9. /\ o \in [0..n -> Nat] /\ o[0] = 0
      /\ \A i \in 1..n : o[i] = o[i - 1] + c[i] /\ c[i] = (2 + Len(ss[i])) + 1
      /\ \A i \in 1..n : a[i] = 2 + Len(ss[i]) /\ a[i] \in Nat
  BY <1>2, <1>8 DEF IsSum, a, c
<1>10. o[n] = SizeOfStrs(ss) + n
  <2>1. PICK s : IsSum(s, n, a)
    BY <1>1, <1>9, SumExists
  <2>2. s \in [0..n -> Nat] /\ s[0] = 0 /\ \A i \in 1..n : s[i] = s[i - 1] + a[i]
    BY <2>1 DEF IsSum
  <2>3. SizeOfStrs(ss) = s[n]
    BY <2>1, SizeOfStrsSum DEF n, a
  <2> DEFINE f == [i \in 0..n |-> s[i] + i]
  <2>4. f[0] = 0
    BY <1>1, <2>2
  <2>5. ASSUME NEW i \in 1..n PROVE f[i] = f[i - 1] + c[i]
    <3>1. i \in 0..n /\ i - 1 \in 0..n /\ s[i] = s[i - 1] + a[i] /\ s[i - 1] \in Nat
      BY <1>1, <2>2
    <3>2. f[i] = s[i] + i /\ f[i - 1] = s[i - 1] + (i - 1)
      BY <3>1
    <3>3. a[i] \in Nat /\ c[i] = a[i] + 1
      BY <1>9
    <3> HIDE DEF f
    <3> QED BY <3>1, <3>2, <3>3
  <2>6. f[n] = s[n] + n /\ n \in 0..n
    BY <1>1
  <2> HIDE DEF f
  <2>7. f[n] = o[n]
    BY <1>8, <2>4, <2>5, <2>6, SumUnique
  <2> QED BY <2>3, <2>6, <2>7
<1>11. b \in Seq(Byte) /\ Len(b) = Len(h) + Len(w)
  BY <1>6, AtConcat
<1>12. ASSUME NEW i \in 1..n
       PROVE At(b, Len(h) + o[i - 1], mqtt_pack_str(ss[i])) /\ b[Len(h) + o[i]] = q[i]
  <2>1. /\ o[i - 1] \in Nat /\ ws[i] \in Seq(Byte) /\ At(w, o[i - 1], ws[i])
        /\ o[i] = o[i - 1] + ((2 + Len(ss[i])) + 1) /\ Len(ss[i]) \in Nat
    <3>1. i - 1 \in 0..n
      BY ONLY <1>1, i \in 1..n
    <3>2. o[i - 1] \in Nat
      BY ONLY <1>9, <3>1
    <3>3. o[i] = o[i - 1] + ((2 + Len(ss[i])) + 1)
      BY ONLY <1>9, i \in 1..n
    <3> QED BY <1>2, <1>3, <1>8, <3>2, <3>3
  <2>2. At(b, Len(h) + o[i - 1], ws[i])
    BY <1>6, <2>1, AppendAt
  <2> HIDE DEF b
  <2> DEFINE k == Len(h) + o[i - 1]
             m == (2 + Len(ss[i])) + 1
  <2>0. /\ Len(ws[i]) = m /\ Len(h) \in Nat
        /\ \A x, y, z \in Nat : (x + y) + ((2 + z) + 1) = x + (y + ((2 + z) + 1))
        /\ \A x, y, z \in Nat : x + y \in Nat /\ (2 + z) + 1 \in 1..((2 + z) + 1)
    BY <1>1, <1>3
  <2>3. k \in Nat /\ At(b, k, ws[i]) /\ m \in Nat /\ m \in 1..Len(ws[i]) /\ k + m = Len(h) + o[i]
    <3>1. k \in Nat /\ At(b, k, ws[i])
      BY ONLY <2>0, <2>1, <2>2
    <3>2. m \in 1..Len(ws[i]) /\ m \in Nat
      BY ONLY <2>0, <2>1
    <3>3. k + m = Len(h) + o[i]
      BY ONLY <2>0, <2>1
    <3> QED BY ONLY <3>1, <3>2, <3>3
  <2>4. ws[i][m] = q[i]
    BY <1>3
  <2> HIDE DEF k, m
  <2>5. b[k + m] = q[i]
    BY <2>3, <2>4 DEF At
  <2>6. At(b, k + 0, mqtt_pack_str(ss[i]))
    <3>1. /\ b \in Seq(Byte) /\ ws[i] \in Seq(Byte) /\ mqtt_pack_str(ss[i]) \in Seq(Byte)
          /\ At(ws[i], 0, mqtt_pack_str(ss[i])) /\ k \in Nat /\ At(b, k, ws[i]) /\ 0 \in Nat
      BY <1>3, <1>11, <2>3
    <3> QED BY ONLY <3>1, AtTrans
  <2>7. k + 0 = k
    BY <2>3
  <2> QED BY <2>3, <2>5, <2>6, <2>7 DEF k
<1> HIDE DEF b
<1>13. Strung(b, Len(h) + 1, 1, ss, o)
  <2>1. (Len(h) + 1) - 1 = Len(h)
    BY <1>1
  <2>2. /\ IsSum(o, n, c) /\ Len(b) = ((Len(h) + 1) - 1) + o[n]
        /\ \A i \in 1..n : At(b, ((Len(h) + 1) - 1) + o[i - 1], mqtt_pack_str(ss[i]))
    BY <1>8, <1>11, <1>12, <2>1
  <2> QED BY <2>2 DEF Strung, n, c
<1>14. Len(b) = Len(h) + (SizeOfStrs(ss) + n)
  BY <1>8, <1>10, <1>11
<1> QED BY <1>11, <1>12, <1>13, <1>14 DEF b, w, ws, n

\* The word at byte i.
LEMMA BitsOf ==
    ASSUME NEW b, NEW i, i + 1 <= Len(b)
    PROVE  Bits16(b, i) = 256 * b[i] + b[i + 1]
BY SMT DEF Bits16

\* Beyond the end there is no word.
LEMMA BitsBeyond ==
    ASSUME NEW b, NEW i, ~(i + 1 <= Len(b))
    PROVE  Bits16(b, i) \in Nat
<1>1. Bits16(b, i) = 65536
  BY SMT DEF Bits16
<1>2. 65536 \in Nat
  OBVIOUS
<1> QED BY ONLY <1>1, <1>2

\* A word is a natural.
LEMMA BitsType ==
    ASSUME NEW b \in Seq(Byte), NEW i \in Nat \ {0}
    PROVE  Bits16(b, i) \in Nat
<1>1. CASE i + 1 <= Len(b)
  <2>1. i \in 1..Len(b) /\ i + 1 \in 1..Len(b)
    BY <1>1, LenProperties
  <2>2. b[i] \in Byte /\ b[i + 1] \in Byte
    BY <2>1, ElementOfSeq
  <2>3. b[i] \in Nat /\ b[i + 1] \in Nat
    BY <2>2, ByteIsNat
  <2>4. Bits16(b, i) = 256 * b[i] + b[i + 1]
    BY <1>1, BitsOf
  <2> QED BY <2>3, <2>4
<1>2. CASE ~(i + 1 <= Len(b))
  BY <1>2, BitsBeyond
<1> QED BY <1>1, <1>2

\* A string ends after it begins.
LEMMA AfterType ==
    ASSUME NEW b \in Seq(Byte), NEW i \in Nat \ {0}
    PROVE  After(b, i) \in Nat /\ After(b, i) > i
<1>1. Bits16(b, i) \in Nat
  BY BitsType
<1> QED BY <1>1 DEF After

\* The 16 bits of n behind the first o bytes.
LEMMA BitsAt ==
    ASSUME NEW b \in Seq(Byte), NEW o \in Nat, NEW n, IsWord(n), At(b, o, mqtt_pack_uint16(n))
    PROVE  Bits16(b, o + 1) = n
<1> DEFINE h == mqtt_pack_uint16(n)
<1>1. Len(h) = 2 /\ 256 * h[1] + h[2] = n
  BY PackUint16
<1>2. At(b, o, h)
  OBVIOUS
<1> HIDE DEF h
<1>3. o + 2 <= Len(b) /\ b[o + 1] = h[1] /\ b[o + 2] = h[2]
  BY <1>1, <1>2 DEF At
<1>4. (o + 1) + 1 = o + 2
  OBVIOUS
<1>5. Bits16(b, o + 1) = 256 * b[o + 1] + b[o + 2]
  BY <1>3, <1>4, BitsOf
<1> QED BY <1>1, <1>3, <1>5

\* A string behind the first o bytes.
LEMMA StrThere ==
    ASSUME NEW b \in Seq(Byte), NEW o \in Nat, NEW s, IsString(s), At(b, o, mqtt_pack_str(s))
    PROVE  /\ Bits16(b, o + 1) = Len(s) /\ After(b, o + 1) = o + (2 + Len(s)) + 1
           /\ StrAt(b, o + 1) = s
<1> DEFINE p == mqtt_pack_str(s)
           u == mqtt_pack_uint16(Len(s))
<1>1. p \in Seq(Byte) /\ Len(p) = 2 + Len(s) /\ At(p, 0, u) /\ At(p, 2, s) /\ At(b, o, p)
  BY PackStr
<1>2. s \in Seq(Byte) /\ Len(s) \in Nat /\ IsWord(Len(s)) /\ Len(b) \in Nat
  BY LenProperties DEF IsString
<1>3. u \in Seq(Byte)
  BY <1>2, PackUint16
<1> HIDE DEF p
<1>4. At(b, o + 0, u) /\ At(b, o + 2, s)
  <2>1. At(b, o + 0, u)
    <3>1. 0 \in Nat
      OBVIOUS
    <3> QED BY <1>1, <1>3, <3>1, AtTrans
  <2>2. At(b, o + 2, s)
    <3>1. 2 \in Nat
      OBVIOUS
    <3> QED BY <1>1, <1>2, <3>1, AtTrans
  <2> QED BY <2>1, <2>2
<1>5. At(b, o, u)
  <2>1. o + 0 = o
    OBVIOUS
  <2> QED BY <1>4, <2>1
<1>6. Bits16(b, o + 1) = Len(s)
  BY <1>2, <1>5, BitsAt
<1>7. o + (2 + Len(s)) <= Len(b)
  BY <1>1 DEF At
<1> HIDE DEF u
<1>8. After(b, o + 1) = o + (2 + Len(s)) + 1
  <2>1. After(b, o + 1) = (o + 1) + 2 + Len(s)
    BY <1>6 DEF After
  <2> QED BY <1>2, <2>1
<1>9. StrAt(b, o + 1) = SubSeq(b, (o + 1) + 2, After(b, o + 1) - 1)
  <2>1. After(b, o + 1) <= Len(b) + 1
    BY <1>2, <1>7, <1>8
  <2> QED BY <2>1 DEF StrAt
<1>10. SubSeq(b, (o + 2) + 1, (o + 2) + Len(s)) = s
  <2>1. o + 2 \in Nat
    OBVIOUS
  <2> QED BY <1>2, <1>4, <2>1, AtSlice
<1>11. (o + 1) + 2 = (o + 2) + 1 /\ After(b, o + 1) - 1 = (o + 2) + Len(s)
  BY <1>2, <1>8
<1> QED BY <1>6, <1>8, <1>9, <1>10, <1>11

\* The recursion that finds the places of the strings ends.
LEMMA PlacesDef ==
    ASSUME NEW b \in Seq(Byte), NEW gap \in Nat
    PROVE  \E f \in [Nat \ {0} -> Seq(Nat)] :
              /\ \A i \in Nat \ {0} : f[i] = IF i > Len(b) THEN <<i>>
                                             ELSE <<i>> \o f[After(b, i) + gap]
              /\ \A first \in Nat \ {0} : Places(b, first, gap) = f[first]
<1> DEFINE W  == Nat \ {0}
           mu == [i \in W |-> IF i > Len(b) THEN 0 ELSE (Len(b) - i) + 1]
           c  == {i \in W : i > Len(b)}
           e  == [i \in W |-> <<i>>]
           d  == [i \in W |-> After(b, i) + gap]
           g  == [i \in W |-> [s \in Seq(Nat) |-> <<i>> \o s]]
<1>1. Len(b) \in Nat
  BY LenProperties
<1>2. ASSUME NEW i \in W
      PROVE  After(b, i) + gap \in W /\ After(b, i) + gap > i
  <2>1. After(b, i) \in Nat /\ After(b, i) > i
    BY AfterType
  <2> QED BY <2>1
<1>3. ASSUME NEW i \in W
      PROVE  <<i>> \in Seq(Nat) /\ \A s \in Seq(Nat) : <<i>> \o s \in Seq(Nat)
  <2>1. \A s \in Seq(Nat) : <<i>> \o s \in Seq(Nat)
    BY ConsByte
  <2>2. i \in Nat
    OBVIOUS
  <2> QED BY <2>1, <2>2
<1>4. Recursive(W, Seq(Nat), mu, c, e, d, g)
  <2>1. mu \in [W -> Nat]
    BY <1>1
  <2>2. \A i \in W : i \in c => e[i] \in Seq(Nat)
    BY <1>3
  <2>3. ASSUME NEW i \in W, i \notin c PROVE d[i] \in W /\ mu[d[i]] < mu[i]
    <3>1. d[i] = After(b, i) + gap /\ ~(i > Len(b))
      BY <2>3
    <3>2. d[i] \in W /\ d[i] > i
      BY <1>2, <3>1
    <3>3. mu[i] = (Len(b) - i) + 1 /\ mu[d[i]] = IF d[i] > Len(b) THEN 0 ELSE (Len(b) - d[i]) + 1
      BY <3>1, <3>2
    <3> HIDE DEF d, mu
    <3> QED BY <1>1, <3>1, <3>2, <3>3
  <2>4. \A i \in W : \A s \in Seq(Nat) : i \notin c => g[i][s] \in Seq(Nat)
    BY <1>3
  <2> HIDE DEF W, mu, c, e, d, g
  <2> QED BY <2>1, <2>2, <2>3, <2>4 DEF Recursive
<1>5. PICK f \in [W -> Seq(Nat)] : Solves(f, W, c, e, d, g)
  <2> HIDE DEF W, mu, c, e, d, g
  <2> QED BY <1>4, WellDefined
<1>6. ASSUME NEW i \in W
      PROVE f[i] = IF i > Len(b) THEN <<i>> ELSE <<i>> \o f[After(b, i) + gap]
  <2>1. f[i] = IF i \in c THEN e[i] ELSE g[i][f[d[i]]]
    BY <1>5 DEF Solves
  <2>2. i \in c <=> i > Len(b)
    OBVIOUS
  <2>3. e[i] = <<i>> /\ d[i] = After(b, i) + gap
    OBVIOUS
  <2>4. After(b, i) + gap \in W
    BY <1>2
  <2>5. f[After(b, i) + gap] \in Seq(Nat)
    BY <1>5, <2>4
  <2>6. g[i][f[After(b, i) + gap]] = <<i>> \o f[After(b, i) + gap]
    BY <2>5
  <2> HIDE DEF W, c, e, d, g
  <2> QED BY <2>1, <2>2, <2>3, <2>6
<1> DEFINE G == CHOOSE places : places = [i \in Nat \ {0} |->
                   IF i > Len(b) THEN <<i>> ELSE <<i>> \o places[After(b, i) + gap]]
<1>7. f = [i \in Nat \ {0} |-> IF i > Len(b) THEN <<i>> ELSE <<i>> \o f[After(b, i) + gap]]
  BY <1>5, <1>6
<1>8. G = [i \in Nat \ {0} |-> IF i > Len(b) THEN <<i>> ELSE <<i>> \o G[After(b, i) + gap]]
  BY <1>7
<1>9. \A first : Places(b, first, gap) = G[first]
  BY DEF Places
<1> HIDE DEF G, mu, c, e, d, g
<1>10. ASSUME NEW i \in W
       PROVE G[i] = IF i > Len(b) THEN <<i>> ELSE <<i>> \o G[After(b, i) + gap]
  BY <1>8
<1> DEFINE T == {k \in Nat : \A i \in W : i + k > Len(b) => G[i] = f[i]}
<1>11. 0 \in T
  <2> SUFFICES ASSUME NEW i \in W, i + 0 > Len(b) PROVE G[i] = f[i]
    OBVIOUS
  <2>1. i > Len(b)
    BY <1>1
  <2> QED BY <2>1, <1>6, <1>10
<1>12. ASSUME NEW k \in Nat, k \in T PROVE k + 1 \in T
  <2> SUFFICES ASSUME NEW i \in W, i + (k + 1) > Len(b) PROVE G[i] = f[i]
    OBVIOUS
  <2> DEFINE j == After(b, i) + gap
  <2>1. j \in W /\ j > i
    BY <1>2
  <2> HIDE DEF j
  <2>2. j + k > Len(b)
    BY <1>1, <2>1
  <2>3. G[j] = f[j]
    BY <1>12, <2>1, <2>2
  <2> QED BY <2>3, <1>6, <1>10 DEF j
<1>13. \A k \in Nat : k \in T
  <2> HIDE DEF T
  <2> QED BY <1>11, <1>12, SetInduction
<1>14. \A i \in W : G[i] = f[i]
  <2> SUFFICES ASSUME NEW i \in W PROVE G[i] = f[i]
    OBVIOUS
  <2>1. Len(b) \in T
    BY <1>1, <1>13
  <2>2. i + Len(b) > Len(b)
    BY <1>1
  <2> QED BY <2>1, <2>2
<1> QED BY <1>5, <1>6, <1>9, <1>14

\* Sums lie between 0 and the whole.
LEMMA SumRange ==
    ASSUME NEW n, NEW a, NEW o, IsSum(o, n, a), \A i \in 1..n : a[i] \in Nat
    PROVE  \A k \in 0..n : o[k] \in Nat /\ o[k] <= o[n]
<1>1. n \in Nat /\ \A k \in 0..n : o[k] \in Nat
  BY DEF IsSum
<1>2. \A k \in 0..n : \A j \in 0..k : o[j] <= o[k]
  BY SumGrows
<1>3. n \in 0..n
  BY <1>1
<1> QED BY <1>1, <1>2, <1>3

\* Bits of Places: the strings of b are at first + o[0], first + o[1], ..., and the byte
\* after them at first + o[n].
LEMMA PlacesStrung ==
    ASSUME NEW b \in Seq(Byte), NEW first \in Nat \ {0}, NEW gap \in Nat, NEW ss, NEW o,
           IsStrings(ss), Strung(b, first, gap, ss, o)
    PROVE  Places(b, first, gap) = [k \in 1..(Len(ss) + 1) |-> first + o[k - 1]]
<1> DEFINE n == Len(ss)
           c == [i \in 1..n |-> (2 + Len(ss[i])) + gap]
<1>1. n \in Nat /\ Len(b) \in Nat /\ \A i \in 1..n : IsString(ss[i])
  BY LenProperties DEF IsStrings
<1>2. \A i \in 1..n : Len(ss[i]) \in Nat
  BY <1>1, LenProperties DEF IsString
<1>3. IsSum(o, n, c) /\ Len(b) = (first - 1) + o[n]
  BY DEF Strung
<1>4. \A i \in 1..n : At(b, (first - 1) + o[i - 1], mqtt_pack_str(ss[i]))
  BY DEF Strung
<1>5. \A i \in 1..n : c[i] = (2 + Len(ss[i])) + gap /\ c[i] \in Nat
  BY <1>2
<1> HIDE DEF n, c
<1>6. \A k \in 0..n : o[k] \in Nat /\ o[k] <= o[n]
  BY <1>3, <1>5, SumRange
<1>7. \A i \in 1..n : o[i] = o[i - 1] + c[i]
  BY <1>3 DEF IsSum
<1>8. PICK f \in [Nat \ {0} -> Seq(Nat)] :
         /\ \A i \in Nat \ {0} : f[i] = IF i > Len(b) THEN <<i>>
                                        ELSE <<i>> \o f[After(b, i) + gap]
         /\ \A x \in Nat \ {0} : Places(b, x, gap) = f[x]
  BY PlacesDef
<1> DEFINE S(m) == [k \in 1..(m + 1) |-> first + o[(n - m) + (k - 1)]]
           T == {m \in Nat : m <= n => f[first + o[n - m]] = S(m)}
<1>9. 0 \in T
  <2>1. n \in 0..n /\ o[n] \in Nat /\ n - 0 = n
    BY <1>1, <1>6
  <2>2. first + o[n] \in Nat \ {0} /\ first + o[n] > Len(b)
    BY <1>3, <2>1
  <2>3. f[first + o[n]] = <<first + o[n]>>
    BY <1>8, <2>2
  <2>4. S(0) = <<first + o[n]>>
    <3>1. S(0) = [k \in 1..1 |-> first + o[n]]
      BY <1>1
    <3> QED BY <3>1
  <2> HIDE DEF S
  <2> QED BY <2>1, <2>3, <2>4
<1>10. ASSUME NEW m \in Nat, m \in T PROVE m + 1 \in T
  <2> SUFFICES ASSUME m + 1 <= n PROVE f[first + o[n - (m + 1)]] = S(m + 1)
    OBVIOUS
  <2> DEFINE j == n - m
             x == (first - 1) + o[j - 1]
  <2>1. j \in 1..n /\ j \in 0..n /\ j - 1 \in 0..n /\ n - (m + 1) = j - 1 /\ m <= n
    BY <1>1
  <2>2. f[first + o[j]] = S(m)
    BY <1>10, <2>1
  <2>3. /\ o[j] \in Nat /\ o[j - 1] \in Nat /\ o[j - 1] + c[j] = o[j] /\ o[j] <= o[n]
        /\ o[n] \in Nat /\ c[j] = (2 + Len(ss[j])) + gap /\ Len(ss[j]) \in Nat
        /\ IsString(ss[j]) /\ At(b, x, mqtt_pack_str(ss[j]))
    <3>1. n \in 0..n
      BY <1>1
    <3>2. o[j] \in Nat /\ o[j - 1] \in Nat /\ o[n] \in Nat /\ o[j] <= o[n]
      BY ONLY <2>1, <3>1, <1>6
    <3>3. o[j - 1] + c[j] = o[j] /\ c[j] = (2 + Len(ss[j])) + gap
      BY ONLY <2>1, <1>5, <1>7
    <3>4. Len(ss[j]) \in Nat /\ IsString(ss[j]) /\ At(b, x, mqtt_pack_str(ss[j]))
      BY ONLY <2>1, <1>1, <1>2, <1>4
    <3> QED BY ONLY <3>2, <3>3, <3>4
  <2> HIDE DEF j
  <2>4. x \in Nat /\ x + 1 = first + o[j - 1] /\ first + o[j - 1] \in Nat \ {0}
    <3>1. \A y \in Nat : (first - 1) + y \in Nat /\ ((first - 1) + y) + 1 = first + y
                            /\ first + y \in Nat \ {0}
      OBVIOUS
    <3> QED BY ONLY <2>3, <3>1
  <2> HIDE DEF x
  <2>5. After(b, x + 1) = x + (2 + Len(ss[j])) + 1
    BY <2>3, <2>4, StrThere
  <2>6. After(b, first + o[j - 1]) + gap = first + o[j]
    <3>1. /\ first \in Nat /\ o[j - 1] \in Nat /\ Len(ss[j]) \in Nat /\ gap \in Nat
          /\ o[j] = o[j - 1] + ((2 + Len(ss[j])) + gap)
          /\ x + 1 = first + o[j - 1] /\ x \in Nat
          /\ After(b, first + o[j - 1]) = x + (2 + Len(ss[j])) + 1
      <4>1. o[j] = o[j - 1] + ((2 + Len(ss[j])) + gap)
        BY ONLY <2>3
      <4> QED BY ONLY <2>3, <2>4, <2>5, <4>1, first \in Nat, gap \in Nat
    <3>2. (x + (2 + Len(ss[j])) + 1) + gap = first + (o[j - 1] + ((2 + Len(ss[j])) + gap))
      <4> HIDE DEF S, T
      <4> DEFINE q == o[j - 1]
                 g == Len(ss[j])
      <4>1. first \in Nat /\ q \in Nat /\ g \in Nat /\ gap \in Nat /\ x \in Nat
        BY ONLY <3>1
      <4>2. x + 1 = first + q
        BY ONLY <3>1
      <4> HIDE DEF q, g
      <4>3. (x + (2 + g) + 1) + gap = first + (q + ((2 + g) + gap))
        BY ONLY <4>1, <4>2
      <4> QED BY ONLY <4>3 DEF q, g
    <3> QED BY ONLY <3>1, <3>2
  <2>7. ~(first + o[j - 1] > Len(b))
    <3>1. o[j - 1] + 2 <= o[j]
      BY ONLY <2>3, gap \in Nat
    <3>2. \A p, q, l \in Nat : p + 2 <= q /\ q <= l => ~(first + p > (first - 1) + l)
      OBVIOUS
    <3>3. o[j - 1] \in Nat /\ o[j] \in Nat /\ o[n] \in Nat /\ o[j] <= o[n]
      BY ONLY <2>3
    <3>4. Len(b) = (first - 1) + o[n]
      BY ONLY <1>3
    <3> QED BY ONLY <3>1, <3>2, <3>3, <3>4
  <2>8. f[first + o[j - 1]] = <<first + o[j - 1]>> \o S(m)
    <3>1. f[first + o[j - 1]] = IF first + o[j - 1] > Len(b) THEN <<first + o[j - 1]>>
                      ELSE <<first + o[j - 1]>> \o f[After(b, first + o[j - 1]) + gap]
      BY ONLY <1>8, <2>4
    <3> QED BY ONLY <3>1, <2>2, <2>6, <2>7
  <2>9. <<first + o[j - 1]>> \o S(m) = S(m + 1)
    <3> DEFINE s == S(m)
               t == <<first + o[j - 1]>> \o s
               u == S(m + 1)
    <3>1. \A k \in 1..(m + 1) : (n - m) + (k - 1) \in 0..n
      BY <2>1, <1>1
    <3>2. s \in Seq(Nat) /\ Len(s) = m + 1
      <4>1. \A k \in 1..(m + 1) : first + o[(n - m) + (k - 1)] \in Nat
        BY <3>1, <1>6
      <4> QED BY <4>1, IsASeq
    <3>3. \A k \in 1..(m + 1) : s[k] = first + o[(n - m) + (k - 1)]
      OBVIOUS
    <3>4. \A k \in 1..(m + 2) : (n - (m + 1)) + (k - 1) \in 0..n
      BY <2>1, <1>1
    <3>5. u \in Seq(Nat) /\ Len(u) = m + 2
      <4>1. \A k \in 1..(m + 2) : first + o[(n - (m + 1)) + (k - 1)] \in Nat
        BY <3>4, <1>6
      <4>2. (m + 1) + 1 = m + 2
        OBVIOUS
      <4> QED BY <4>1, <4>2, IsASeq
    <3>6. \A k \in 1..(m + 2) : u[k] = first + o[(n - (m + 1)) + (k - 1)]
      OBVIOUS
    <3> HIDE DEF s, u
    <3>7. /\ t \in Seq(Nat) /\ Len(t) = m + 2 /\ t[1] = first + o[j - 1]
          /\ \A k \in 1..(m + 1) : t[k + 1] = s[k]
      <4>1. /\ t \in Seq(Nat) /\ Len(t) = Len(s) + 1 /\ t[1] = first + o[j - 1]
            /\ \A k \in 1..Len(s) : t[k + 1] = s[k]
        BY <2>4, <3>2, ConsByte
      <4>2. (m + 1) + 1 = m + 2
        OBVIOUS
      <4> QED BY <4>1, <4>2, <3>2
    <3> HIDE DEF t
    <3>8. ASSUME NEW k \in 1..Len(t) PROVE t[k] = u[k]
      <4>1. CASE k = 1
        <5>1. (n - (m + 1)) + (1 - 1) = j - 1 /\ 1 \in 1..(m + 2)
          BY <1>1 DEF j
        <5> QED BY <4>1, <5>1, <3>6, <3>7
      <4>2. CASE k # 1
        <5> DEFINE i == k - 1
        <5>1. i \in 1..(m + 1) /\ i + 1 = k /\ k \in 1..(m + 2)
          BY <4>2, <3>7
        <5>2. (n - (m + 1)) + (k - 1) = (n - m) + (i - 1)
          BY <1>1, <3>7
        <5> HIDE DEF i
        <5>3. t[k] = s[i]
          BY <5>1, <3>7
        <5> QED BY <5>1, <5>2, <5>3, <3>3, <3>6
      <4> QED BY <4>1, <4>2
    <3>9. t = u
      BY <3>2, <3>5, <3>7, <3>8, SeqEqual
    <3> QED BY <3>9 DEF t, s, u
  <2> HIDE DEF S
  <2> QED BY <2>1, <2>8, <2>9
<1>11. n \in T
  <2> HIDE DEF T
  <2> QED BY <1>1, <1>9, <1>10, SetInduction
<1>12. f[first + o[n - n]] = S(n)
  BY <1>1, <1>11
<1>13. first + o[n - n] = first
  <2>1. n - n = 0 /\ o[0] = 0
    BY <1>1, <1>3 DEF IsSum
  <2> QED BY <2>1
<1>14. S(n) = [k \in 1..(n + 1) |-> first + o[k - 1]]
  <2>1. \A k \in 1..(n + 1) : (n - n) + (k - 1) = k - 1
    BY <1>1
  <2> QED BY <2>1
<1> QED BY <1>8, <1>12, <1>13, <1>14 DEF n

-----------------------------------------------------------------------------
(* What the broker understands of a packed request.                         *)

Qos1(r) == r.type = PUBLISH /\ QosOf(r.flags) = 1

\* A request is packed into the flags f and the n bytes of body, which the broker reads
\* as what the request means, with the DUP flag of a QoS 1 PUBLISH too.
Says(r, f, n, body) ==
    /\ Packs(r, f, n, body) /\ r.type \in 0..15 /\ f \in 0..15
    /\ BrokerReadsAs(r.type, f, body) = Meaning(r)
    /\ Qos1(r) => f < 8 /\ BrokerReadsAs(r.type, f + 8, body) = Meaning(r)

\* A PINGREQ or DISCONNECT.
LEMMA SaysShort ==
    ASSUME NEW r, r.type \in {PINGREQ, DISCONNECT}
    PROVE  Says(r, 0, 0, <<>>)
<1> USE DEF PINGREQ, DISCONNECT
<1>1. Packing(r) = Parts(0, 0, <<>>)
  BY DEF Packing, CONNECT, PUBLISH, PUBXXX, SUBSCRIBE, UNSUBSCRIBE, mqtt_pack_ping_request,
         mqtt_pack_disconnect
<1>2. <<>> \in Seq(Byte) /\ Len(<<>>) = 0
  BY EmptySeq
<1>3. Packs(r, 0, 0, <<>>)
  BY <1>1, <1>2 DEF Packs
<1>4. BrokerReadsAs(r.type, 0, <<>>) = [type |-> r.type]
  BY DEF BrokerReadsAs, CONNECT, PUBLISH, PUBXXX, SUBSCRIBE, UNSUBSCRIBE
<1>5. Meaning(r) = [type |-> r.type]
  BY DEF Meaning, CONNECT, PUBLISH, PUBXXX, SUBSCRIBE, UNSUBSCRIBE
<1> QED BY <1>3, <1>4, <1>5 DEF Says, Qos1, PUBLISH

\* A PUBACK, PUBREC, PUBREL or PUBCOMP.
LEMMA SaysPubxxx ==
    ASSUME NEW r, r.type \in PUBXXX, IsWord(r.pid)
    PROVE  \E f, n, body : Says(r, f, n, body)
<1> DEFINE f == IF r.type = PUBREL THEN 2 ELSE 0
           body == mqtt_pack_uint16(r.pid)
<1>1. Packing(r) = Parts(f, 2, body)
  BY DEF Packing, CONNECT, PUBLISH, PUBXXX, SUBSCRIBE, UNSUBSCRIBE, PINGREQ, DISCONNECT,
         mqtt_pack_pubxxx_request
<1>2. body \in Seq(Byte) /\ Len(body) = 2
  BY PackUint16
<1>3. Bits16(body, 1) = r.pid
  <2>1. At(body, 0, body) /\ 0 \in Nat
    BY <1>2, PrefixSelf
  <2>2. Bits16(body, 0 + 1) = r.pid
    BY <1>2, <2>1, BitsAt
  <2> QED BY <2>2
<1>4. f \in 0..15 /\ r.type \in 4..7
  BY DEF PUBXXX
<1> HIDE DEF body
<1>5. BrokerReadsAs(r.type, f, body) = [type |-> r.type, pid |-> r.pid]
  <2>1. f = (IF r.type = PUBREL THEN 2 ELSE 0) /\ r.type \in PUBXXX
    OBVIOUS
  <2>2. r.type \notin {CONNECT, PUBLISH, SUBSCRIBE, UNSUBSCRIBE, PINGREQ, DISCONNECT}
    BY <1>4 DEF CONNECT, PUBLISH, SUBSCRIBE, UNSUBSCRIBE, PINGREQ, DISCONNECT
  <2> HIDE DEF f
  <2> QED BY <1>2, <1>3, <2>1, <2>2 DEF BrokerReadsAs
<1>6. Meaning(r) = [type |-> r.type, pid |-> r.pid]
  BY <1>4 DEF Meaning, CONNECT, PUBLISH, PUBXXX, SUBSCRIBE, UNSUBSCRIBE
<1>7. Packs(r, f, 2, body)
  BY <1>1, <1>2 DEF Packs
<1>8. ~Qos1(r)
  BY <1>4 DEF Qos1, PUBLISH
<1> HIDE DEF f
<1>9. Says(r, f, 2, body)
  BY <1>4, <1>5, <1>6, <1>7, <1>8 DEF Says
<1> QED BY <1>9

\* What the flags of a PUBLISH tell, with and without the DUP flag.
LEMMA FlagParts ==
    ASSUME NEW f \in 0..15
    PROVE  /\ (f % 8) % 8 = f % 8 /\ f % 8 \in 0..7 /\ QosOf(f % 8) = QosOf(f)
           /\ (f < 8 => f % 8 = f /\ (f + 8) % 8 = f /\ QosOf(f + 8) = QosOf(f))
<1>1. (f % 8) % 8 = f % 8 /\ f % 8 \in 0..7
  OBVIOUS
<1>2. ((f % 8) \div 2) % 4 = (f \div 2) % 4
  OBVIOUS
<1>3. f < 8 => f % 8 = f /\ (f + 8) % 8 = f
  OBVIOUS
<1>4. f < 8 => ((f + 8) \div 2) % 4 = (f \div 2) % 4
  OBVIOUS
<1> QED BY <1>1, <1>2, <1>3, <1>4 DEF QosOf

\* The broker reads the body of a PUBLISH.
LEMMA ReadsPublish ==
    ASSUME NEW p, IsPublish(p), NEW pid, NEW n, NEW body \in Seq(Byte), Len(body) = n,
           PublishBody(p, pid, n, body), NEW f \in 0..15, QosOf(f) = QosOf(p.flags),
           QosOf(f) = 0 => f < 8, f % 8 = p.flags % 8
    PROVE  BrokerReadsAs(PUBLISH, f, body) = Meaning(p)
<1> DEFINE s == p.topic
           q == IF QosOf(p.flags) > 0 THEN 2 ELSE 0
<1>1. /\ IsString(s) /\ s \in Seq(Byte) /\ p.data \in Seq(Byte) /\ IsWord(p.pid)
      /\ Len(s) \in Nat /\ Len(p.data) \in Nat /\ p.type = PUBLISH /\ QosOf(p.flags) # 3
  BY LenProperties DEF IsPublish, IsString
<1>2. /\ At(body, 0, mqtt_pack_str(s)) /\ At(body, 2 + Len(s), pid) /\ Len(pid) = q
      /\ At(body, 2 + Len(s) + q, p.data) /\ n = 2 + Len(s) + q + Len(p.data)
      /\ QosOf(p.flags) > 0 => pid = mqtt_pack_uint16(p.pid)
  BY DEF PublishBody
<1> HIDE DEF s
<1>3. After(body, 1) = 3 + Len(s) /\ StrAt(body, 1) = s
  <2>1. 0 \in Nat
    OBVIOUS
  <2>2. After(body, 0 + 1) = 0 + (2 + Len(s)) + 1 /\ StrAt(body, 0 + 1) = s
    BY <1>1, <1>2, <2>1, StrThere
  <2>3. 0 + 1 = 1 /\ 0 + (2 + Len(s)) + 1 = 3 + Len(s)
    BY <1>1
  <2> QED BY <2>2, <2>3
<1>4. q \in Nat
  OBVIOUS
<1>5. QosOf(p.flags) > 0 => Bits16(body, After(body, 1)) = p.pid
  <2> SUFFICES ASSUME QosOf(p.flags) > 0 PROVE Bits16(body, After(body, 1)) = p.pid
    OBVIOUS
  <2>1. At(body, 2 + Len(s), mqtt_pack_uint16(p.pid)) /\ 2 + Len(s) \in Nat
    BY <1>1, <1>2
  <2>2. Bits16(body, (2 + Len(s)) + 1) = p.pid
    BY <1>1, <2>1, BitsAt
  <2>3. (2 + Len(s)) + 1 = 3 + Len(s)
    BY <1>1
  <2> QED BY <1>3, <2>2, <2>3
<1> DEFINE data == After(body, 1) + q
<1>6. data = (2 + Len(s) + q) + 1 /\ n = (2 + Len(s) + q) + Len(p.data) /\ 2 + Len(s) + q \in Nat
  <2> HIDE DEF q
  <2> QED BY <1>1, <1>2, <1>3, <1>4
<1>7. SubSeq(body, (2 + Len(s) + q) + 1, (2 + Len(s) + q) + Len(p.data)) = p.data
  BY <1>1, <1>2, <1>6, AtSlice
<1>8. SubSeq(body, data, Len(body)) = p.data
  BY <1>6, <1>7
<1>9. ~(data > Len(body) + 1)
  <2> DEFINE m == 2 + Len(s) + q
  <2>1. data = m + 1 /\ n = m + Len(p.data) /\ m \in Nat
    BY <1>6
  <2> HIDE DEF data, m
  <2> QED BY <1>1, <2>1
<1>10. BrokerReadsAs(PUBLISH, f, body) = BrokerPublish(f, body)
  BY DEF BrokerReadsAs, CONNECT, PUBLISH, PUBXXX, SUBSCRIBE, UNSUBSCRIBE, PINGREQ, DISCONNECT
<1>11. BrokerPublish(f, body) =
          [type |-> PUBLISH, flags |-> f % 8, topic |-> StrAt(body, 1),
           pid |-> IF QosOf(f) > 0 THEN Bits16(body, After(body, 1)) ELSE 0,
           data |-> SubSeq(body, data, Len(body))]
  <2>1. /\ ~(After(body, 1) + (IF QosOf(f) > 0 THEN 2 ELSE 0) > Len(body) + 1)
        /\ ~(QosOf(f) = 3) /\ ~(QosOf(f) = 0 /\ f > 7)
    BY <1>1, <1>9
  <2>2. data = After(body, 1) + (IF QosOf(f) > 0 THEN 2 ELSE 0)
    OBVIOUS
  <2> HIDE DEF data, q
  <2> QED BY <2>1, <2>2 DEF BrokerPublish
<1>12. Meaning(p) = [type |-> PUBLISH, flags |-> p.flags % 8, topic |-> p.topic,
                     pid |-> IF QosOf(p.flags) > 0 THEN p.pid ELSE 0, data |-> p.data]
  BY <1>1 DEF Meaning, CONNECT, PUBLISH, PUBXXX, SUBSCRIBE, UNSUBSCRIBE
<1> HIDE DEF data, q
<1>13. (IF QosOf(f) > 0 THEN Bits16(body, After(body, 1)) ELSE 0)
         = IF QosOf(p.flags) > 0 THEN p.pid ELSE 0
  BY <1>5
<1> QED BY <1>3, <1>8, <1>10, <1>11, <1>12, <1>13 DEF s

\* A PUBLISH.
LEMMA SaysPublish ==
    ASSUME NEW p, IsPublish(p), QosOf(p.flags) = 1 => p.flags < 8
    PROVE  \E f, n, body : Says(p, f, n, body)
<1> DEFINE f == IF QosOf(p.flags) = 0 THEN p.flags % 8 ELSE p.flags
<1>1. PICK pid, n, body : Packs(p, f, n, body) /\ PublishBody(p, pid, n, body)
  BY PacksPublish
<1>2. body \in Seq(Byte) /\ Len(body) = n
  BY <1>1 DEF Packs
<1>3. p.flags \in 0..15 /\ p.type = PUBLISH
  BY DEF IsPublish
<1>4. /\ f \in 0..15 /\ QosOf(f) = QosOf(p.flags) /\ f % 8 = p.flags % 8
      /\ QosOf(f) = 0 => f < 8
  <2>1. /\ (p.flags % 8) % 8 = p.flags % 8 /\ p.flags % 8 \in 0..7
        /\ QosOf(p.flags % 8) = QosOf(p.flags)
    BY <1>3, FlagParts
  <2>2. CASE QosOf(p.flags) = 0
    <3> DEFINE g == p.flags % 8
    <3>1. f = g
      BY <2>2
    <3>2. g \in 0..15 /\ QosOf(g) = QosOf(p.flags) /\ g % 8 = g /\ g < 8
      <4> HIDE DEF f
      <4>1. g \in 0..7 /\ QosOf(g) = QosOf(p.flags) /\ g % 8 = g
        BY <2>1
      <4> HIDE DEF g
      <4> QED BY <4>1
    <3> QED BY <3>1, <3>2
  <2>3. CASE QosOf(p.flags) # 0
    BY <2>3, <1>3
  <2> QED BY <2>2, <2>3
<1> HIDE DEF f
<1>5. BrokerReadsAs(p.type, f, body) = Meaning(p)
  BY <1>1, <1>2, <1>3, <1>4, ReadsPublish
<1>6. ASSUME Qos1(p) PROVE f < 8 /\ BrokerReadsAs(p.type, f + 8, body) = Meaning(p)
  <2>1. p.flags < 8 /\ f = p.flags /\ QosOf(f) = 1
    BY <1>6, <1>4 DEF Qos1, f
  <2>2. (f + 8) % 8 = f /\ QosOf(f + 8) = QosOf(f) /\ f % 8 = f
    BY <1>4, <2>1, FlagParts
  <2>3. f + 8 \in 0..15 /\ QosOf(f + 8) = QosOf(p.flags) /\ (f + 8) % 8 = p.flags % 8
        /\ QosOf(f + 8) # 0
    BY <1>4, <2>1, <2>2
  <2> DEFINE g == f + 8
  <2>4. g \in 0..15 /\ QosOf(g) = QosOf(p.flags) /\ g % 8 = p.flags % 8 /\ (QosOf(g) = 0 => g < 8)
    BY <2>3
  <2> HIDE DEF g
  <2>5. BrokerReadsAs(p.type, g, body) = Meaning(p)
    BY <1>1, <1>2, <1>3, <2>4, ReadsPublish
  <2> QED BY <2>1, <2>5, <1>4 DEF g
<1>7. p.type \in 0..15
  BY <1>3 DEF PUBLISH
<1>8. Says(p, f, n, body)
  BY <1>1, <1>4, <1>5, <1>6, <1>7 DEF Says
<1> QED BY <1>8

\* The broker finds the strings that are strung in b, and that they end where b ends.
Found(b, first, gap, ss, o, all) ==
    /\ all = Places(b, first, gap) /\ Len(all) = Len(ss) + 1
    /\ Len(all) - 1 = Len(ss) /\ all[Len(ss) + 1] = Len(b) + 1
    /\ \A i \in 1..Len(ss) : StrAt(b, all[i]) = ss[i]
    /\ \A i \in 0..Len(ss) : all[i + 1] = first + o[i]

\* The broker finds the strings, and where they begin.
LEMMA FindStrings ==
    ASSUME NEW b \in Seq(Byte), NEW first \in Nat \ {0}, NEW gap \in Nat, NEW ss, NEW o,
           IsStrings(ss), Strung(b, first, gap, ss, o)
    PROVE  Found(b, first, gap, ss, o, Places(b, first, gap))
<1> DEFINE n == Len(ss)
           all == Places(b, first, gap)
<1>1. n \in Nat /\ Len(b) \in Nat /\ \A i \in 1..n : IsString(ss[i])
  BY LenProperties DEF IsStrings
<1>2. /\ o \in [0..n -> Nat] /\ Len(b) = (first - 1) + o[n]
      /\ \A i \in 1..n : At(b, (first - 1) + o[i - 1], mqtt_pack_str(ss[i]))
  BY DEF Strung, IsSum
<1>3. all = [k \in 1..(n + 1) |-> first + o[k - 1]]
  BY PlacesStrung
<1> HIDE DEF all
<1>4. Len(all) = n + 1
  <2>1. \A k \in 1..(n + 1) : first + o[k - 1] \in Nat
    <3> SUFFICES ASSUME NEW k \in 1..(n + 1) PROVE first + o[k - 1] \in Nat
      OBVIOUS
    <3>1. k - 1 \in 0..n
      BY <1>1
    <3>2. o[k - 1] \in Nat
      BY <1>2, <3>1
    <3> QED BY <3>2
  <2> QED BY <1>1, <1>3, <2>1, IsASeq
<1>5. \A i \in 0..n : all[i + 1] = first + o[i]
  BY <1>1, <1>3
<1> HIDE DEF n
<1>6. all[n + 1] = Len(b) + 1
  <2>1. n \in 0..n /\ o[n] \in Nat
    BY <1>1, <1>2
  <2>2. all[n + 1] = first + o[n]
    BY <1>5, <2>1
  <2> QED BY <1>2, <2>1, <2>2
<1>7. ASSUME NEW i \in 1..n PROVE StrAt(b, all[i]) = ss[i]
  <2> DEFINE x == (first - 1) + o[i - 1]
  <2>1. i - 1 \in 0..n /\ (i - 1) + 1 = i
    BY <1>1
  <2>2. o[i - 1] \in Nat
    BY <1>2, <2>1
  <2>3. all[i] = first + o[i - 1]
    BY <1>5, <2>1
  <2>4. x \in Nat /\ x + 1 = all[i]
    <3>1. \A y \in Nat : (first - 1) + y \in Nat /\ ((first - 1) + y) + 1 = first + y
      OBVIOUS
    <3> QED BY <3>1, <2>2, <2>3
  <2>5. At(b, x, mqtt_pack_str(ss[i])) /\ IsString(ss[i])
    BY <1>1, <1>2
  <2> HIDE DEF x
  <2>6. StrAt(b, x + 1) = ss[i]
    BY <2>4, <2>5, StrThere
  <2> QED BY <2>4, <2>6
<1>8. Len(all) - 1 = n
  BY <1>1, <1>4
<1> QED BY <1>4, <1>5, <1>6, <1>7, <1>8 DEF Found, n, all

\* The body of a SUBSCRIBE (gap = 1) or an UNSUBSCRIBE (gap = 0) with the topics ss.
Listed(b, gap, ss, o, pid, q) ==
    /\ b \in Seq(Byte) /\ gap \in {0, 1}
    /\ IsStrings(ss) /\ ss # <<>> /\ Strung(b, 3, gap, ss, o)
    /\ IsWord(pid) /\ At(b, 0, mqtt_pack_uint16(pid))
    /\ gap = 1 => q \in Seq(Byte) /\ Len(q) = Len(ss)
                  /\ \A i \in 1..Len(ss) : b[2 + o[i]] = q[i]
    /\ gap = 0 => q = [i \in DOMAIN ss |-> 0]

\* The broker reads the identifier, the topics and the QoS of a SUBSCRIBE or UNSUBSCRIBE.
LEMMA ReadsTopics ==
    ASSUME NEW b, NEW gap, NEW ss, NEW o, NEW pid, NEW q, NEW type, Listed(b, gap, ss, o, pid, q)
    PROVE  BrokerTopics(type, b, gap) =
              [type |-> type, pid |-> pid, topics |-> ss, max_qos |-> q]
<1> USE DEF Listed
<1> DEFINE n == Len(ss)
           all == Places(b, 3, gap)
<1>0. 3 \in Nat \ {0} /\ gap \in Nat
  OBVIOUS
<1>1. Found(b, 3, gap, ss, o, all)
  BY <1>0, FindStrings
<1>2. /\ Len(all) - 1 = n /\ all[n + 1] = Len(b) + 1
      /\ \A i \in 1..n : StrAt(b, all[i]) = ss[i]
      /\ \A i \in 0..n : all[i + 1] = 3 + o[i]
  BY <1>1 DEF Found
<1>3. ss \in Seq(Seq(Byte)) /\ n \in Nat /\ ss = [i \in 1..n |-> ss[i]] /\ DOMAIN ss = 1..n
  BY LenProperties DEF IsStrings
<1>4. n # 0
  BY <1>3, EmptySeq
<1>5. Bits16(b, 1) = pid
  <2>1. 0 \in Nat /\ 0 + 1 = 1
    OBVIOUS
  <2>2. Bits16(b, 0 + 1) = pid
    BY <2>1, BitsAt
  <2> QED BY <2>1, <2>2
<1>6. o \in [0..n -> Nat]
  BY DEF Strung, IsSum
<1> HIDE DEF all, n
<1>7. [i \in 1..n |-> StrAt(b, all[i])] = ss
  BY <1>2, <1>3
<1>8. [i \in 1..n |-> IF gap = 1 THEN b[all[i + 1] - 1] ELSE 0] = q
  <2>1. CASE gap = 1
    <3>1. q = [i \in 1..n |-> q[i]]
      BY <2>1, LenProperties DEF n
    <3>2. ASSUME NEW i \in 1..n PROVE b[all[i + 1] - 1] = q[i]
      <4>1. i \in 0..n /\ o[i] \in Nat
        BY <1>3, <1>6
      <4>2. all[i + 1] - 1 = 2 + o[i]
        <5>1. all[i + 1] = 3 + o[i]
          BY <1>2, <4>1
        <5> QED BY <4>1, <5>1
      <4>3. b[2 + o[i]] = q[i]
        BY <2>1 DEF n
      <4> QED BY <4>2, <4>3
    <3>3. [i \in 1..n |-> IF gap = 1 THEN b[all[i + 1] - 1] ELSE 0] = [i \in 1..n |-> q[i]]
      BY <2>1, <3>2
    <3> QED BY <3>1, <3>3
  <2>2. CASE gap = 0
    BY <2>2, <1>3
  <2> QED BY <2>1, <2>2
<1>9. BrokerTopics(type, b, gap) =
         [type |-> type, pid |-> Bits16(b, 1), topics |-> [i \in 1..n |-> StrAt(b, all[i])],
          max_qos |-> [i \in 1..n |-> IF gap = 1 THEN b[all[i + 1] - 1] ELSE 0]]
  <2>1. BrokerTopics(type, b, gap) =
           IF all[(Len(all) - 1) + 1] # Len(b) + 1 \/ Len(all) - 1 = 0 THEN Malformed
           ELSE [type |-> type, pid |-> Bits16(b, 1),
                 topics |-> [i \in 1..(Len(all) - 1) |-> StrAt(b, all[i])],
                 max_qos |-> [i \in 1..(Len(all) - 1) |->
                                 IF gap = 1 THEN b[all[i + 1] - 1] ELSE 0]]
    BY DEF BrokerTopics, all
  <2> QED BY <1>2, <1>4, <2>1
<1> QED BY <1>5, <1>7, <1>8, <1>9

\* A SUBSCRIBE of less topics than the client takes.
LEMMA SaysSubscribe ==
    ASSUME NEW r, r.type = SUBSCRIBE, IsWord(r.pid), IsStrings(r.topics), r.topics # <<>>,
           r.max_qos \in Seq(Byte), Len(r.max_qos) = Len(r.topics), PackError(r) = "MQTT_OK"
    PROVE  \E f, n, body : Says(r, f, n, body)
<1> DEFINE ss == r.topics
           q == r.max_qos
           h == mqtt_pack_uint16(r.pid)
           ws == [i \in DOMAIN ss |-> mqtt_pack_str(ss[i]) \o <<q[i] % 256>>]
           body == h \o FlattenSeq(ws)
           n == 2 + SizeOfStrs(ss) + Len(ss)
<1>1. ss \in Seq(Seq(Byte)) /\ \A i \in 1..Len(ss) : IsString(ss[i])
  BY DEF IsStrings
<1>2. h \in Seq(Byte) /\ Len(h) = 2
  BY PackUint16
<1>3. Packing(r) = mqtt_pack_subscribe_request(r)
  BY DEF Packing, CONNECT, PUBLISH, PUBXXX, SUBSCRIBE, UNSUBSCRIBE, PINGREQ, DISCONNECT
<1>4. Packing(r) = Parts(2, n, body)
  <2>1. Len(ss) >= MaxTopics =>
           mqtt_pack_subscribe_request(r).error = "SUBSCRIBE_TOO_MANY_TOPICS"
    BY DEF mqtt_pack_subscribe_request, Forbidden
  <2>2. ~(Len(ss) >= MaxTopics)
    BY <1>3, <2>1 DEF PackError
  <2>3. mqtt_pack_subscribe_request(r) = Parts(2, n, body)
    BY <2>2 DEF mqtt_pack_subscribe_request
  <2> QED BY <1>3, <2>3
<1> HIDE DEF h
<1>5. /\ body \in Seq(Byte) /\ Len(body) = Len(h) + (SizeOfStrs(ss) + Len(ss))
      /\ \E o : /\ Strung(body, Len(h) + 1, 1, ss, o)
                /\ \A i \in 1..Len(ss) : body[Len(h) + o[i]] = q[i]
  BY <1>1, <1>2, StrungTopics
<1>6. PICK o : /\ Strung(body, Len(h) + 1, 1, ss, o)
               /\ \A i \in 1..Len(ss) : body[Len(h) + o[i]] = q[i]
  BY <1>5
<1>7. FlattenSeq(ws) \in Seq(Byte)
  <2>1. \A i \in 1..Len(ss) : ws[i] \in Seq(Byte)
    <3> SUFFICES ASSUME NEW i \in 1..Len(ss) PROVE ws[i] \in Seq(Byte)
      OBVIOUS
    <3>1. mqtt_pack_str(ss[i]) \in Seq(Byte)
      BY <1>1, PackStr
    <3>2. q[i] \in Byte
      BY ElementOfSeq
    <3>3. q[i] % 256 = q[i]
      BY <3>2, ByteMod
    <3>4. <<q[i] % 256>> \in Seq(Byte)
      BY <3>2, <3>3
    <3>5. mqtt_pack_str(ss[i]) \o <<q[i] % 256>> \in Seq(Byte)
      BY <3>1, <3>4, AtConcat
    <3>6. i \in DOMAIN ss
      BY <1>1
    <3> QED BY <3>5, <3>6
  <2>2. Len(ss) \in Nat /\ DOMAIN ss = 1..Len(ss)
    BY <1>1, LenProperties
  <2>3. ws \in Seq(Seq(Byte))
    <3>1. ws = [i \in 1..Len(ss) |-> mqtt_pack_str(ss[i]) \o <<q[i] % 256>>]
      BY <2>2
    <3>2. \A i \in 1..Len(ss) : mqtt_pack_str(ss[i]) \o <<q[i] % 256>> \in Seq(Byte)
      BY <2>1, <2>2
    <3> HIDE DEF ws
    <3> QED BY <2>2, <3>1, <3>2, IsASeq
  <2> QED BY <2>3, FlattenType
<1> HIDE DEF ws
<1>8. At(body, 0, h)
  BY <1>2, <1>7, AtConcat
<1> HIDE DEF body
<1>9. SizeOfStrs(ss) \in Nat /\ Len(ss) \in Nat
  BY <1>1, PackStrsSize, LenProperties
<1>10. n \in Nat /\ Len(body) = n
  BY <1>2, <1>5, <1>9
<1>11. Packs(r, 2, n, body)
  BY <1>4, <1>5, <1>10 DEF Packs
<1>12. Strung(body, 3, 1, ss, o) /\ \A i \in 1..Len(ss) : body[2 + o[i]] = q[i]
  <2>1. Len(h) + 1 = 3
    BY <1>2
  <2> QED BY <1>2, <1>6, <2>1
<1>13. BrokerTopics(SUBSCRIBE, body, 1) =
          [type |-> SUBSCRIBE, pid |-> r.pid, topics |-> ss, max_qos |-> q]
  <2>1. At(body, 0, mqtt_pack_uint16(r.pid))
    BY <1>8 DEF h
  <2>2. 1 \in {0, 1} /\ ~(1 = 0)
    OBVIOUS
  <2> HIDE DEF n
  <2>3. q \in Seq(Byte) /\ Len(q) = Len(ss) /\ ss # <<>> /\ IsStrings(ss) /\ IsWord(r.pid)
    OBVIOUS
  <2> HIDE DEF q, ss
  <2>4. Listed(body, 1, ss, o, r.pid, q)
    BY <1>5, <1>12, <2>1, <2>2, <2>3 DEF Listed
  <2> QED BY <2>4, ReadsTopics
<1> HIDE DEF n
<1>14. BrokerReadsAs(r.type, 2, body) = BrokerTopics(SUBSCRIBE, body, 1)
  BY DEF BrokerReadsAs, CONNECT, PUBLISH, PUBXXX, SUBSCRIBE, UNSUBSCRIBE, PINGREQ, DISCONNECT
<1>15. Meaning(r) = [type |-> SUBSCRIBE, pid |-> r.pid, topics |-> ss, max_qos |-> q]
  BY DEF Meaning, CONNECT, PUBLISH, PUBXXX, SUBSCRIBE, UNSUBSCRIBE
<1>16. ~Qos1(r) /\ r.type \in 0..15 /\ 2 \in 0..15
  BY DEF Qos1, PUBLISH, SUBSCRIBE
<1>17. Says(r, 2, n, body)
  BY <1>11, <1>13, <1>14, <1>15, <1>16 DEF Says
<1> QED BY <1>17

\* An UNSUBSCRIBE of less topics than the client takes.
LEMMA SaysUnsubscribe ==
    ASSUME NEW r, r.type = UNSUBSCRIBE, IsWord(r.pid), IsStrings(r.topics), r.topics # <<>>,
           PackError(r) = "MQTT_OK"
    PROVE  \E f, n, body : Says(r, f, n, body)
<1> DEFINE ss == r.topics
           q == [i \in DOMAIN ss |-> 0]
           h == mqtt_pack_uint16(r.pid)
           body == h \o PackStrs(ss)
           n == 2 + SizeOfStrs(ss)
<1>1. ss \in Seq(Seq(Byte)) /\ \A i \in 1..Len(ss) : IsString(ss[i])
  BY DEF IsStrings
<1>2. h \in Seq(Byte) /\ Len(h) = 2
  BY PackUint16
<1>3. Packing(r) = mqtt_pack_unsubscribe_request(r)
  BY DEF Packing, CONNECT, PUBLISH, PUBXXX, SUBSCRIBE, UNSUBSCRIBE, PINGREQ, DISCONNECT
<1>4. Packing(r) = Parts(2, n, body)
  <2>1. Len(ss) >= MaxTopics =>
           mqtt_pack_unsubscribe_request(r).error = "UNSUBSCRIBE_TOO_MANY_TOPICS"
    BY DEF mqtt_pack_unsubscribe_request, Forbidden
  <2>2. ~(Len(ss) >= MaxTopics)
    BY <1>3, <2>1 DEF PackError
  <2>3. mqtt_pack_unsubscribe_request(r) = Parts(2, n, body)
    BY <2>2 DEF mqtt_pack_unsubscribe_request
  <2> QED BY <1>3, <2>3
<1> HIDE DEF h
<1>5. PICK o : Strung(body, Len(h) + 1, 0, ss, o)
  BY <1>1, <1>2, StrungAfter
<1>6. PackStrs(ss) \in Seq(Byte) /\ Len(PackStrs(ss)) = SizeOfStrs(ss) /\ SizeOfStrs(ss) \in Nat
  BY <1>1, PackStrsSize
<1>7. body \in Seq(Byte) /\ Len(body) = Len(h) + SizeOfStrs(ss) /\ At(body, 0, h)
  BY <1>2, <1>6, AtConcat
<1> HIDE DEF body
<1>8. n \in Nat /\ Len(body) = n
  BY <1>2, <1>6, <1>7
<1>9. Packs(r, 2, n, body)
  BY <1>4, <1>7, <1>8 DEF Packs
<1>10. Strung(body, 3, 0, ss, o)
  <2>1. Len(h) + 1 = 3
    BY <1>2
  <2> QED BY <1>5, <2>1
<1> HIDE DEF n
<1>11. BrokerTopics(UNSUBSCRIBE, body, 0) =
          [type |-> UNSUBSCRIBE, pid |-> r.pid, topics |-> ss, max_qos |-> q]
  <2>1. At(body, 0, mqtt_pack_uint16(r.pid))
    BY <1>7 DEF h
  <2>2. 0 \in {0, 1} /\ ~(0 = 1)
    OBVIOUS
  <2> HIDE DEF q
  <2>3. q = [i \in DOMAIN ss |-> 0]
    BY DEF q
  <2>4. Listed(body, 0, ss, o, r.pid, q)
    BY <1>7, <1>10, <2>1, <2>2, <2>3 DEF Listed
  <2> QED BY <2>4, ReadsTopics
<1>12. BrokerReadsAs(r.type, 2, body) = BrokerTopics(UNSUBSCRIBE, body, 0)
  BY DEF BrokerReadsAs, CONNECT, PUBLISH, PUBXXX, SUBSCRIBE, UNSUBSCRIBE, PINGREQ, DISCONNECT
<1>13. Meaning(r) = [type |-> UNSUBSCRIBE, pid |-> r.pid, topics |-> ss, max_qos |-> q]
  BY DEF Meaning, CONNECT, PUBLISH, PUBXXX, SUBSCRIBE, UNSUBSCRIBE
<1>14. ~Qos1(r) /\ r.type \in 0..15 /\ 2 \in 0..15
  BY DEF Qos1, PUBLISH, UNSUBSCRIBE
<1> HIDE DEF q
<1>15. Says(r, 2, n, body)
  BY <1>9, <1>11, <1>12, <1>13, <1>14 DEF Says
<1> QED BY <1>15

\* The pieces s, t, u and v one after another.
LEMMA Four ==
    ASSUME NEW S, NEW s \in Seq(S), NEW t \in Seq(S), NEW u \in Seq(S), NEW v \in Seq(S)
    PROVE  /\ s \o t \o u \o v \in Seq(S)
           /\ Len(s \o t \o u \o v) = Len(s) + Len(t) + Len(u) + Len(v)
           /\ At(s \o t \o u \o v, 0, s) /\ At(s \o t \o u \o v, Len(s), t)
           /\ At(s \o t \o u \o v, Len(s) + Len(t), u)
           /\ At(s \o t \o u \o v, Len(s) + Len(t) + Len(u), v)
<1> DEFINE x == s \o t \o u
           w == x \o v
<1>1. /\ x \in Seq(S) /\ Len(x) = Len(s) + Len(t) + Len(u)
      /\ At(x, 0, s) /\ At(x, Len(s), t) /\ At(x, Len(s) + Len(t), u)
  BY Three
<1>2. Len(s) \in Nat /\ Len(t) \in Nat /\ Len(u) \in Nat /\ Len(s) + Len(t) \in Nat /\ 0 \in Nat
  BY LenProperties
<1> HIDE DEF x
<1>3. w \in Seq(S) /\ Len(w) = Len(x) + Len(v) /\ At(w, 0, x) /\ At(w, Len(x), v)
  BY <1>1, AtConcat
<1> HIDE DEF w
<1>4. At(w, 0 + 0, s) /\ At(w, 0 + Len(s), t) /\ At(w, 0 + (Len(s) + Len(t)), u)
  <2>1. At(w, 0 + 0, s)
    BY <1>1, <1>2, <1>3, AtTrans
  <2>2. At(w, 0 + Len(s), t)
    BY <1>1, <1>2, <1>3, AtTrans
  <2>3. At(w, 0 + (Len(s) + Len(t)), u)
    BY <1>1, <1>2, <1>3, AtTrans
  <2> QED BY <2>1, <2>2, <2>3
<1>5. 0 + 0 = 0 /\ 0 + Len(s) = Len(s) /\ 0 + (Len(s) + Len(t)) = Len(s) + Len(t)
  BY <1>2
<1>6. /\ w \in Seq(S) /\ Len(w) = Len(s) + Len(t) + Len(u) + Len(v)
      /\ At(w, 0, s) /\ At(w, Len(s), t) /\ At(w, Len(s) + Len(t), u)
      /\ At(w, Len(s) + Len(t) + Len(u), v)
  BY <1>1, <1>3, <1>4, <1>5
<1> QED BY <1>6 DEF w, x

\* Members one after the other are a part.
LEMMA Slice ==
    ASSUME NEW S, NEW t \in Seq(S), NEW s, NEW o, At(s, o, t)
    PROVE  [j \in 1..Len(t) |-> s[o + j]] = t
<1>1. t = [j \in 1..Len(t) |-> t[j]]
  BY LenProperties
<1>2. \A j \in 1..Len(t) : s[o + j] = t[j]
  BY DEF At
<1> QED BY <1>1, <1>2

\* The flags of a CONNECT, bit by bit.
LEMMA ConnectBits ==
    ASSUME NEW a \in 0..1, NEW w \in 0..1, NEW q \in 0..3, NEW r \in 0..1, NEW p \in 0..1,
           NEW u \in 0..1, NEW f, f = 2 * a + (4 * w + 8 * q + 32 * r) + 64 * p + 128 * u
    PROVE  /\ f \in 0..255 /\ (f \div 1) % 2 = 0 /\ (f \div 2) % 2 = a /\ (f \div 4) % 2 = w
           /\ (f \div 8) % 8 = q + 4 * r /\ (f \div 64) % 2 = p /\ (f \div 128) % 2 = u
<1>1. f \in 0..255
  OBVIOUS
<1>2. (f \div 1) % 2 = 0
  OBVIOUS
<1>3. (f \div 2) % 2 = a
  OBVIOUS
<1>4. (f \div 4) % 2 = w
  OBVIOUS
<1>5. (f \div 8) % 8 = q + 4 * r
  OBVIOUS
<1>6. (f \div 64) % 2 = p
  OBVIOUS
<1>7. (f \div 128) % 2 = u
  OBVIOUS
<1> QED BY <1>1, <1>2, <1>3, <1>4, <1>5, <1>6, <1>7

\* The bits of the flags that an application gives.
LEMMA GivenBits ==
    ASSUME NEW f \in Byte
    PROVE  /\ (f \div 8) % 4 \in 0..3 /\ (f \div 32) % 2 \in 0..1 /\ f % 4 \in 0..3
           /\ (f \div 8) % 8 = ((f \div 8) % 4) + 4 * ((f \div 32) % 2)
           /\ (f % 4 > 1 <=> (f \div 2) % 2 = 1)
<1>1. ASSUME NEW g \in 0..255
      PROVE  /\ (g \div 8) % 4 \in 0..3 /\ (g \div 32) % 2 \in 0..1 /\ g % 4 \in 0..3
             /\ (g % 4 > 1 <=> (g \div 2) % 2 = 1)
  OBVIOUS
<1>2. ASSUME NEW g \in 0..255
      PROVE (g \div 8) % 8 = ((g \div 8) % 4) + 4 * ((g \div 32) % 2)
  OBVIOUS
<1> QED BY <1>1, <1>2 DEF Byte

\* The will of a CONNECT request, and all its strings.
Will(c)    == IF c.will_topic # <<>> THEN c.will_topic \o c.will_message ELSE <<>>
Strings(c) == <<c.client_id>> \o Will(c) \o c.user_name \o c.password
NWill(c)   == IF c.will_topic # <<>> THEN 2 ELSE 0
NUser(c)   == IF c.user_name # <<>> THEN 1 ELSE 0
NPass(c)   == IF c.password # <<>> THEN 1 ELSE 0

\* The fixed part of the variable header of a CONNECT.
Protocol(c) == mqtt_pack_str(<<77, 81, 84, 84>>) \o <<4, ConnectFlags(c)>>
                 \o mqtt_pack_uint16(c.keep_alive)

\* At most one, and not none.
LEMMA One == \A n \in Nat : n <= 1 /\ n # 0 => n = 1
OBVIOUS

\* What may be there is there once or not at all.
LEMMA OptionalLen ==
    ASSUME NEW s, Optional(s)
    PROVE  s \in Seq(Seq(Byte)) /\ Len(s) = IF s # <<>> THEN 1 ELSE 0
<1>1. s \in Seq(Seq(Byte)) /\ Len(s) <= 1 /\ Len(s) \in Nat
  BY LenProperties DEF Optional, IsStrings
<1>2. CASE s = <<>>
  BY <1>1, <1>2, EmptySeq
<1>3. CASE s # <<>>
  <2>1. Len(s) # 0
    BY <1>1, <1>3, EmptySeq
  <2>2. Len(s) = 1
    BY <1>1, <2>1, One
  <2> QED BY <1>1, <1>3, <2>2
<1> QED BY <1>2, <1>3

\* Strings and more strings.
LEMMA StringsAre ==
    ASSUME NEW x, NEW y, IsStrings(x), IsStrings(y)
    PROVE  IsStrings(x \o y)
<1> DEFINE w == x \o y
<1>1. /\ x \in Seq(Seq(Byte)) /\ y \in Seq(Seq(Byte)) /\ Len(x) \in Nat /\ Len(y) \in Nat
      /\ \A i \in 1..Len(x) : IsString(x[i])
      /\ \A i \in 1..Len(y) : IsString(y[i])
  BY LenProperties DEF IsStrings
<1>2. /\ w \in Seq(Seq(Byte)) /\ Len(w) = Len(x) + Len(y)
      /\ At(w, 0, x) /\ At(w, Len(x), y)
  BY <1>1, AtConcat
<1> HIDE DEF w
<1>3. ASSUME NEW i \in 1..Len(w) PROVE IsString(w[i])
  <2>1. CASE i <= Len(x)
    <3>1. i \in 1..Len(x) /\ 0 + i = i
      BY <2>1, <1>2
    <3>2. w[0 + i] = x[i]
      BY <3>1, <1>2 DEF At
    <3> QED BY <3>1, <3>2, <1>1
  <2>2. CASE ~(i <= Len(x))
    <3> DEFINE j == i - Len(x)
    <3>1. j \in 1..Len(y) /\ Len(x) + j = i
      BY <2>2, <1>1, <1>2
    <3> HIDE DEF j
    <3>2. w[Len(x) + j] = y[j]
      BY <3>1, <1>2 DEF At
    <3> QED BY <3>1, <3>2, <1>1
  <2> QED BY <2>1, <2>2
<1> QED BY <1>2, <1>3 DEF IsStrings, w

\* The strings of a CONNECT that the packing function does not refuse.
Parted(c, n) ==
    LET ss == Strings(c) IN
    /\ IsStrings(ss) /\ Len(ss) = n /\ n = 1 + NWill(c) + NUser(c) + NPass(c)
    /\ ss[1] = c.client_id
    /\ [j \in 1..NWill(c) |-> ss[1 + j]] = Will(c)
    /\ [j \in 1..NUser(c) |-> ss[1 + NWill(c) + j]] = c.user_name
    /\ [j \in 1..NPass(c) |-> ss[1 + NWill(c) + NUser(c) + j]] = c.password

\* The strings of a CONNECT are the client id, the will, the user name and the password,
\* of which only the first one must be there.
LEMMA StringsParted ==
    ASSUME NEW c, IsConnect(c), c.will_topic # <<>> => c.will_message # <<>>
    PROVE  Parted(c, 1 + NWill(c) + NUser(c) + NPass(c))
<1> DEFINE i == <<c.client_id>>
           w == Will(c)
           u == c.user_name
           p == c.password
           ss == i \o w \o u \o p
<1>1. /\ IsString(c.client_id) /\ Optional(c.will_topic) /\ Optional(c.will_message)
      /\ Optional(u) /\ Optional(p)
  BY DEF IsConnect
<1>2. IsStrings(i) /\ i \in Seq(Seq(Byte)) /\ Len(i) = 1 /\ i[1] = c.client_id
  BY <1>1 DEF IsStrings, IsString
<1>3. IsStrings(w) /\ Len(w) = NWill(c)
  <2>1. CASE c.will_topic # <<>>
    <3>1. c.will_topic \in Seq(Seq(Byte)) /\ Len(c.will_topic) = 1
      BY <1>1, <2>1, OptionalLen
    <3>2. c.will_message \in Seq(Seq(Byte)) /\ Len(c.will_message) = 1
      BY <1>1, <2>1, OptionalLen
    <3>3. IsStrings(c.will_topic) /\ IsStrings(c.will_message)
      BY <1>1 DEF Optional
    <3>4. w = c.will_topic \o c.will_message /\ NWill(c) = 2
      BY <2>1 DEF Will, NWill
    <3>5. IsStrings(c.will_topic \o c.will_message)
      BY <3>3, StringsAre
    <3>6. Len(c.will_topic \o c.will_message) = Len(c.will_topic) + Len(c.will_message)
      BY <3>1, <3>2, AtConcat
    <3> QED BY <3>1, <3>2, <3>4, <3>5, <3>6
  <2>2. CASE c.will_topic = <<>>
    <3>1. w = <<>> /\ NWill(c) = 0
      BY <2>2 DEF Will, NWill
    <3>2. <<>> \in Seq(Seq(Byte)) /\ Len(<<>>) = 0
      BY EmptySeq
    <3>3. IsStrings(<<>>)
      BY <3>2 DEF IsStrings
    <3> QED BY <3>1, <3>2, <3>3
  <2> QED BY <2>1, <2>2
<1>4. IsStrings(u) /\ Len(u) = NUser(c) /\ IsStrings(p) /\ Len(p) = NPass(c)
  <2>1. IsStrings(u) /\ IsStrings(p)
    BY <1>1 DEF Optional
  <2>2. Len(u) = NUser(c)
    BY <1>1, OptionalLen DEF NUser
  <2>3. Len(p) = NPass(c)
    BY <1>1, OptionalLen DEF NPass
  <2> QED BY <2>1, <2>2, <2>3
<1> HIDE DEF i, w
<1>5. w \in Seq(Seq(Byte)) /\ u \in Seq(Seq(Byte)) /\ p \in Seq(Seq(Byte))
  BY <1>3, <1>4 DEF IsStrings
<1> HIDE DEF u, p
<1>6. /\ ss \in Seq(Seq(Byte)) /\ Len(ss) = Len(i) + Len(w) + Len(u) + Len(p)
      /\ At(ss, 0, i) /\ At(ss, Len(i), w) /\ At(ss, Len(i) + Len(w), u)
      /\ At(ss, Len(i) + Len(w) + Len(u), p)
  <2>1. i \in Seq(Seq(Byte)) /\ w \in Seq(Seq(Byte)) /\ u \in Seq(Seq(Byte)) /\ p \in Seq(Seq(Byte))
    BY ONLY <1>2, <1>5
  <2> QED BY ONLY <2>1, Four
<1>7. IsStrings(ss)
  <2>1. IsStrings(i \o w)
    BY <1>2, <1>3, StringsAre
  <2>2. IsStrings((i \o w) \o u)
    BY <2>1, <1>4, StringsAre
  <2> QED BY <2>2, <1>4, StringsAre
<1>8. ss = Strings(c)
  BY DEF Strings, i, w, u, p
<1> HIDE DEF ss
<1>9. ss[1] = c.client_id
  <2>1. ss[0 + 1] = i[1]
    BY <1>2, <1>6 DEF At
  <2> QED BY <2>1, <1>2
<1>10. [j \in 1..Len(w) |-> ss[Len(i) + j]] = w
  <2>1. At(ss, Len(i), w)
    BY ONLY <1>6
  <2>2. w \in Seq(Seq(Byte))
    BY ONLY <1>5
  <2> QED BY ONLY <2>1, <2>2, Slice
<1>11. [j \in 1..Len(u) |-> ss[Len(i) + Len(w) + j]] = u
  <2>1. At(ss, Len(i) + Len(w), u)
    BY ONLY <1>6
  <2>2. u \in Seq(Seq(Byte))
    BY ONLY <1>5
  <2> QED BY ONLY <2>1, <2>2, Slice
<1>12. [j \in 1..Len(p) |-> ss[Len(i) + Len(w) + Len(u) + j]] = p
  <2>1. At(ss, Len(i) + Len(w) + Len(u), p)
    BY ONLY <1>6
  <2>2. p \in Seq(Seq(Byte))
    BY ONLY <1>5
  <2> QED BY ONLY <2>1, <2>2, Slice
<1>13. /\ [j \in 1..NWill(c) |-> ss[1 + j]] = w
       /\ [j \in 1..NUser(c) |-> ss[1 + NWill(c) + j]] = u
       /\ [j \in 1..NPass(c) |-> ss[1 + NWill(c) + NUser(c) + j]] = p
       /\ Len(ss) = 1 + NWill(c) + NUser(c) + NPass(c)
  BY ONLY <1>2, <1>3, <1>4, <1>6, <1>10, <1>11, <1>12
<1> QED BY <1>7, <1>8, <1>9, <1>13 DEF Parted, w, u, p

\* What the broker finds in the fixed part: the name and the level of the protocol, the
\* flags and the keep-alive time.
LEMMA ProtocolRead ==
    ASSUME NEW c, IsWord(c.keep_alive), ConnectFlags(c) \in Byte
    PROVE  /\ Protocol(c) \in Seq(Byte) /\ Len(Protocol(c)) = 10
           /\ \A b \in Seq(Byte) : At(b, 0, Protocol(c)) =>
                 /\ SubSeq(b, 1, 7) = <<0, 4, 77, 81, 84, 84, 4>>
                 /\ b[8] = ConnectFlags(c) /\ Bits16(b, 9) = c.keep_alive
<1> DEFINE m == <<77, 81, 84, 84>>
           s == mqtt_pack_str(m)
           z == ConnectFlags(c)
           t == <<4, z>>
           u == mqtt_pack_uint16(c.keep_alive)
           h == s \o t \o u
<1>0. {0, 4, 77, 81, 84} \subseteq Byte
  BY DEF Byte
<1>1. m \in Seq(Byte) /\ Len(m) = 4 /\ m[1] = 77 /\ m[2] = 81 /\ m[3] = 84 /\ m[4] = 84
  BY <1>0
<1>2. IsWord(4)
  BY DEF IsWord
<1> HIDE DEF m
<1>3. IsString(m)
  BY <1>1, <1>2 DEF IsString
<1>4. s \in Seq(Byte) /\ Len(s) = 6 /\ At(s, 0, mqtt_pack_uint16(4)) /\ At(s, 2, m)
  <2>1. /\ s \in Seq(Byte) /\ Len(s) = 2 + Len(m) /\ At(s, 0, mqtt_pack_uint16(Len(m)))
        /\ At(s, 2, m)
    BY <1>3, PackStr
  <2> HIDE DEF s
  <2> QED BY <1>1, <2>1
<1>5. mqtt_pack_uint16(4) = <<0, 4>>
  BY DEF mqtt_pack_uint16
<1> HIDE DEF s, z
<1>6. s[1] = 0 /\ s[2] = 4 /\ s[3] = 77 /\ s[4] = 81 /\ s[5] = 84 /\ s[6] = 84
  <2>1. At(s, 0, <<0, 4>>)
    BY <1>4, <1>5
  <2>2. s[0 + 1] = 0 /\ s[0 + 2] = 4
    BY <2>1 DEF At
  <2>3. s[2 + 1] = m[1] /\ s[2 + 2] = m[2] /\ s[2 + 3] = m[3] /\ s[2 + 4] = m[4]
    BY <1>1, <1>4 DEF At
  <2> QED BY <1>1, <2>2, <2>3
<1>7. t \in Seq(Byte) /\ Len(t) = 2 /\ t[1] = 4 /\ t[2] = z
  BY <1>0 DEF z
<1>8. u \in Seq(Byte) /\ Len(u) = 2
  BY PackUint16
<1> HIDE DEF t, u
<1>9. /\ h \in Seq(Byte) /\ Len(h) = 10
      /\ At(h, 0, s) /\ At(h, 6, t) /\ At(h, 8, u)
  <2>1. /\ h \in Seq(Byte) /\ Len(h) = Len(s) + Len(t) + Len(u)
        /\ At(h, 0, s) /\ At(h, Len(s), t) /\ At(h, Len(s) + Len(t), u)
    BY <1>4, <1>7, <1>8, Three
  <2> QED BY <2>1, <1>4, <1>7, <1>8
<1>10. h = Protocol(c)
  BY DEF Protocol, s, t, u, m, z
<1> HIDE DEF h
<1>11. ASSUME NEW b \in Seq(Byte), At(b, 0, h)
       PROVE  /\ SubSeq(b, 1, 7) = <<0, 4, 77, 81, 84, 84, 4>>
              /\ b[8] = z /\ Bits16(b, 9) = c.keep_alive
  <2>0. 0 \in Nat /\ 6 \in Nat /\ 8 \in Nat /\ 7 \in Nat
    OBVIOUS
  <2>1. At(b, 0 + 0, s) /\ At(b, 0 + 6, t) /\ At(b, 0 + 8, u)
    <3>1. At(b, 0 + 0, s)
      BY <1>4, <1>9, <1>11, <2>0, AtTrans
    <3>2. At(b, 0 + 6, t)
      BY <1>7, <1>9, <1>11, <2>0, AtTrans
    <3>3. At(b, 0 + 8, u)
      BY <1>8, <1>9, <1>11, <2>0, AtTrans
    <3> QED BY <3>1, <3>2, <3>3
  <2>2. At(b, 0, s) /\ At(b, 6, t) /\ At(b, 8, u)
    BY <2>1
  <2>3. Bits16(b, 9) = c.keep_alive
    <3>1. At(b, 8, mqtt_pack_uint16(c.keep_alive))
      BY <2>2 DEF u
    <3>2. Bits16(b, 8 + 1) = c.keep_alive
      BY <3>1, <2>0, BitsAt
    <3> QED BY <3>2
  <2>4. b[7] = 4 /\ b[8] = z
    <3>1. b[6 + 1] = t[1] /\ b[6 + 2] = t[2]
      BY <2>2, <1>7 DEF At
    <3> QED BY <3>1, <1>7
  <2>5. b[1] = 0 /\ b[2] = 4 /\ b[3] = 77 /\ b[4] = 81 /\ b[5] = 84 /\ b[6] = 84
    <3>1. \A i \in 1..6 : b[0 + i] = s[i]
      BY <2>2, <1>4 DEF At
    <3>2. /\ b[0 + 1] = s[1] /\ b[0 + 2] = s[2] /\ b[0 + 3] = s[3]
          /\ b[0 + 4] = s[4] /\ b[0 + 5] = s[5] /\ b[0 + 6] = s[6]
      BY <3>1
    <3> QED BY <3>2, <1>6
  <2>6. 7 <= Len(b)
    <3>1. 0 + Len(h) <= Len(b) /\ Len(b) \in Nat
      BY <1>11, LenProperties DEF At
    <3> QED BY <3>1, <1>9
  <2>7. /\ SubSeq(b, 1, 7) \in Seq(Byte) /\ Len(SubSeq(b, 1, 7)) = 7
        /\ \A i \in 1..7 : SubSeq(b, 1, 7)[i] = b[i]
    BY <2>0, <2>6, Split
  <2> DEFINE x == SubSeq(b, 1, 7)
             y == <<0, 4, 77, 81, 84, 84, 4>>
  <2>8. y \in Seq(Byte) /\ Len(y) = 7
    BY <1>0
  <2>9. /\ x[1] = 0 /\ x[2] = 4 /\ x[3] = 77 /\ x[4] = 81 /\ x[5] = 84 /\ x[6] = 84 /\ x[7] = 4
    BY <2>4, <2>5, <2>7
  <2>10. /\ y[1] = 0 /\ y[2] = 4 /\ y[3] = 77 /\ y[4] = 81 /\ y[5] = 84 /\ y[6] = 84 /\ y[7] = 4
    OBVIOUS
  <2>11. x \in Seq(Byte) /\ Len(x) = 7
    BY <2>7
  <2> HIDE DEF x, y
  <2>12. ASSUME NEW i \in 1..7 PROVE x[i] = y[i]
    <3>1. i \in {1, 2, 3, 4, 5, 6, 7}
      BY <2>12
    <3> QED BY ONLY <3>1, <2>9, <2>10
  <2>13. x = y
    BY <2>8, <2>11, <2>12, SeqEqual
  <2> QED BY <2>3, <2>4, <2>13 DEF x, y
<1> QED BY <1>9, <1>10, <1>11 DEF z

\* The flags that are packed tell which strings follow.
Flagged(c, f) ==
    /\ f \in Byte /\ ~Bit(f, 1) /\ (Bit(f, 2) <=> Bit(c.connect_flags, 2))
    /\ (Bit(f, 4) <=> c.will_topic # <<>>) /\ (Bit(f, 64) <=> c.password # <<>>)
    /\ (Bit(f, 128) <=> c.user_name # <<>>)
    /\ (f \div 8) % 8 = IF c.will_topic # <<>> THEN (c.connect_flags \div 8) % 8 ELSE 0

\* The flags tell which of them are there, and the will QoS and retain flag only with a will.
LEMMA FlagsTell ==
    ASSUME NEW c, c.connect_flags \in Byte
    PROVE  Flagged(c, ConnectFlags(c))
<1> DEFINE g == c.connect_flags
           x == (g \div 8) % 4
           y == (g \div 32) % 2
           a == IF g % 4 > 1 THEN 1 ELSE 0
           w == IF c.will_topic # <<>> THEN 1 ELSE 0
           q == IF c.will_topic # <<>> THEN x ELSE 0
           r == IF c.will_topic # <<>> THEN y ELSE 0
           p == IF c.password # <<>> THEN 1 ELSE 0
           u == IF c.user_name # <<>> THEN 1 ELSE 0
           f == 2 * a + (4 * w + 8 * q + 32 * r) + 64 * p + 128 * u
<1>1. /\ x \in 0..3 /\ y \in 0..1 /\ (g \div 8) % 8 = x + 4 * y
      /\ (g % 4 > 1 <=> (g \div 2) % 2 = 1)
  BY GivenBits
<1>2. ConnectFlags(c) = When(g % 4 > 1, 2)
        + When(c.will_topic # <<>>, 4 + 8 * x + 32 * y)
        + When(c.password # <<>>, 64) + When(c.user_name # <<>>, 128)
  BY DEF ConnectFlags
<1>3. (a = 1 <=> (g \div 2) % 2 = 1) /\ (a = 1 <=> g % 4 > 1)
  BY <1>1
<1> DEFINE z == (g \div 8) % 8
           e == (g \div 2) % 2
           k == g % 4 > 1
<1>4. k <=> a = 1
  BY <1>3
<1>5. z = x + 4 * y /\ (a = 1 <=> e = 1)
  BY <1>1, <1>3
<1>6. a \in 0..1 /\ w \in 0..1 /\ p \in 0..1 /\ u \in 0..1
  OBVIOUS
<1>7. Bit(g, 2) <=> e = 1
  BY DEF Bit
<1> HIDE DEF x, y, a, z, e
<1>8. q \in 0..3 /\ r \in 0..1
  BY <1>1
<1>9. When(k, 2) = 2 * a
  BY <1>4, <1>6 DEF When
<1>10. When(c.will_topic # <<>>, 4 + 8 * x + 32 * y) = 4 * w + 8 * q + 32 * r
  <2>1. x \in Nat /\ y \in Nat
    BY <1>1
  <2>2. CASE c.will_topic # <<>>
    BY <2>1, <2>2 DEF When
  <2>3. CASE ~(c.will_topic # <<>>)
    <3>1. w = 0 /\ q = 0 /\ r = 0
      BY <2>3
    <3>2. When(c.will_topic # <<>>, 4 + 8 * x + 32 * y) = 0
      BY <2>3 DEF When
    <3> HIDE DEF w, q, r
    <3> QED BY <3>1, <3>2
  <2> QED BY <2>2, <2>3
<1>11. When(c.password # <<>>, 64) = 64 * p
  BY DEF When
<1>12. When(c.user_name # <<>>, 128) = 128 * u
  BY DEF When
<1>13. ConnectFlags(c) = f
  BY ONLY <1>2, <1>9, <1>10, <1>11, <1>12
<1>14. w = 1 <=> c.will_topic # <<>>
  OBVIOUS
<1>15. p = 1 <=> c.password # <<>>
  OBVIOUS
<1>16. u = 1 <=> c.user_name # <<>>
  OBVIOUS
<1>17. q + 4 * r = IF c.will_topic # <<>> THEN z ELSE 0
  <2>1. x \in Nat /\ y \in Nat
    BY <1>1
  <2>2. CASE c.will_topic # <<>>
    BY <2>1, <2>2, <1>5
  <2>3. CASE ~(c.will_topic # <<>>)
    <3>1. q = 0 /\ r = 0
      BY <2>3
    <3> HIDE DEF q, r
    <3> QED BY <2>3, <3>1
  <2> QED BY <2>2, <2>3
<1> HIDE DEF w, q, r, p, u, k
<1>18. /\ f \in 0..255 /\ (f \div 1) % 2 = 0 /\ (f \div 2) % 2 = a /\ (f \div 4) % 2 = w
       /\ (f \div 8) % 8 = q + 4 * r /\ (f \div 64) % 2 = p /\ (f \div 128) % 2 = u
  <2>1. \A v : v = f =>
       /\ v \in 0..255 /\ (v \div 1) % 2 = 0 /\ (v \div 2) % 2 = a /\ (v \div 4) % 2 = w
       /\ (v \div 8) % 8 = q + 4 * r /\ (v \div 64) % 2 = p /\ (v \div 128) % 2 = u
    BY <1>6, <1>8, ConnectBits
  <2> HIDE DEF f
  <2> QED BY <2>1
<1> HIDE DEF f
<1>19. f \in Byte
  BY <1>18 DEF Byte
<1>20. /\ ~Bit(f, 1) /\ (Bit(f, 2) <=> Bit(g, 2)) /\ (Bit(f, 4) <=> c.will_topic # <<>>)
       /\ (Bit(f, 64) <=> c.password # <<>>) /\ (Bit(f, 128) <=> c.user_name # <<>>)
  <2>1. ~Bit(f, 1)
    BY <1>18 DEF Bit
  <2>2. Bit(f, 2) <=> Bit(g, 2)
    <3>1. Bit(f, 2) <=> (f \div 2) % 2 = 1
      BY DEF Bit
    <3> HIDE DEF g
    <3> QED BY ONLY <3>1, <1>5, <1>7, <1>18
  <2>3. Bit(f, 4) <=> c.will_topic # <<>>
    BY <1>14, <1>18 DEF Bit
  <2>4. Bit(f, 64) <=> c.password # <<>>
    BY <1>15, <1>18 DEF Bit
  <2>5. Bit(f, 128) <=> c.user_name # <<>>
    BY <1>16, <1>18 DEF Bit
  <2> QED BY <2>1, <2>2, <2>3, <2>4, <2>5
<1>21. (f \div 8) % 8 = IF c.will_topic # <<>> THEN z ELSE 0
  BY ONLY <1>17, <1>18
<1> QED BY <1>13, <1>19, <1>20, <1>21 DEF Flagged, z, g

\* The broker reads the body of a CONNECT.
LEMMA ReadsConnect ==
    ASSUME NEW c, IsConnect(c), NEW n, Parted(c, n), NEW o,
           NEW b \in Seq(Byte), At(b, 0, Protocol(c)), Strung(b, 11, 0, Strings(c), o)
    PROVE  BrokerConnect(b) = Meaning(c)
<1> DEFINE ss == Strings(c)
           all == Places(b, 11, 0)
           f == b[8]
           will == IF Bit(f, 4) THEN 2 ELSE 0
           user == IF Bit(f, 128) THEN 1 ELSE 0
           pass == IF Bit(f, 64) THEN 1 ELSE 0
           Strs(i, k) == [j \in 1..k |-> StrAt(b, all[i + j])]
<1>1. /\ IsStrings(ss) /\ Len(ss) = n /\ n = 1 + NWill(c) + NUser(c) + NPass(c)
      /\ ss[1] = c.client_id
      /\ [j \in 1..NWill(c) |-> ss[1 + j]] = Will(c)
      /\ [j \in 1..NUser(c) |-> ss[1 + NWill(c) + j]] = c.user_name
      /\ [j \in 1..NPass(c) |-> ss[1 + NWill(c) + NUser(c) + j]] = c.password
  BY DEF Parted
<1>2. Found(b, 11, 0, ss, o, all)
  <2>1. 11 \in Nat \ {0} /\ 0 \in Nat
    OBVIOUS
  <2> HIDE DEF ss
  <2> QED BY <1>1, <2>1, FindStrings DEF ss
<1> HIDE DEF ss, all
<1>3. /\ Len(all) - 1 = n /\ all[n + 1] = Len(b) + 1
      /\ \A i \in 1..n : StrAt(b, all[i]) = ss[i]
      /\ \A i \in 0..n : all[i + 1] = 11 + o[i]
  BY <1>1, <1>2 DEF Found
<1>4. IsWord(c.keep_alive) /\ c.connect_flags \in Byte /\ c.type = CONNECT
  BY DEF IsConnect
<1>5. Flagged(c, ConnectFlags(c))
  BY <1>4, FlagsTell
<1>6. ConnectFlags(c) \in Byte
  BY <1>5 DEF Flagged
<1>7. /\ SubSeq(b, 1, 7) = <<0, 4, 77, 81, 84, 84, 4>> /\ f = ConnectFlags(c)
      /\ Bits16(b, 9) = c.keep_alive
  BY <1>4, <1>6, ProtocolRead
<1>8. Flagged(c, f)
  BY <1>5, <1>7
<1>9. will = NWill(c) /\ user = NUser(c) /\ pass = NPass(c)
  BY <1>8 DEF Flagged, NWill, NUser, NPass
<1>10. NWill(c) \in Nat /\ NUser(c) \in Nat /\ NPass(c) \in Nat /\ n \in Nat
  <2>1. NWill(c) \in Nat /\ NUser(c) \in Nat /\ NPass(c) \in Nat
    BY DEF NWill, NUser, NPass
  <2> QED BY <1>1, <2>1
<1>11. StrAt(b, 11) = c.client_id
  <2>1. 1 \in 1..n /\ 0 \in 0..n /\ 0 + 1 = 1
    BY <1>1, <1>10
  <2>2. o[0] = 0
    BY DEF Strung, IsSum
  <2>3. all[0 + 1] = 11 + o[0]
    BY <1>3, <2>1
  <2>4. all[1] = 11
    BY <2>1, <2>2, <2>3
  <2> QED BY <1>1, <1>3, <2>1, <2>4
<1>12. ASSUME NEW i \in Nat, NEW k \in Nat, i + k <= n
       PROVE  Strs(i, k) = [j \in 1..k |-> ss[i + j]]
  <2>1. \A j \in 1..k : i + j \in 1..n
    BY <1>10, <1>12
  <2> QED BY <1>3, <2>1
<1> HIDE DEF Strs
<1>13. Strs(1, NWill(c)) = Will(c)
  <2>1. 1 \in Nat /\ 1 + NWill(c) <= n
    BY <1>1, <1>10
  <2>2. Strs(1, NWill(c)) = [j \in 1..NWill(c) |-> ss[1 + j]]
    BY <1>10, <1>12, <2>1
  <2> QED BY <1>1, <2>2
<1>14. Strs(1 + NWill(c), NUser(c)) = c.user_name
  <2>1. 1 + NWill(c) \in Nat /\ (1 + NWill(c)) + NUser(c) <= n
    BY <1>1, <1>10
  <2>2. Strs(1 + NWill(c), NUser(c)) = [j \in 1..NUser(c) |-> ss[1 + NWill(c) + j]]
    BY <1>10, <1>12, <2>1
  <2> QED BY <1>1, <2>2
<1>15. Strs(1 + NWill(c) + NUser(c), NPass(c)) = c.password
  <2>1. 1 + NWill(c) + NUser(c) \in Nat /\ (1 + NWill(c) + NUser(c)) + NPass(c) <= n
    BY <1>1, <1>10
  <2>2. Strs(1 + NWill(c) + NUser(c), NPass(c))
          = [j \in 1..NPass(c) |-> ss[1 + NWill(c) + NUser(c) + j]]
    BY <1>10, <1>12, <2>1
  <2> QED BY <1>1, <2>2
<1> HIDE DEF f, will, user, pass
<1>16. BrokerConnect(b) =
          IF \/ all[(Len(all) - 1) + 1] # Len(b) + 1 \/ Len(all) - 1 # 1 + will + user + pass
             \/ SubSeq(b, 1, 7) # <<0, 4, 77, 81, 84, 84, 4>> \/ Bit(f, 1)
             \/ will = 0 /\ (f \div 8) % 8 # 0
          THEN Malformed
          ELSE [type |-> CONNECT, clean |-> Bit(f, 2), keep_alive |-> Bits16(b, 9),
                client_id |-> StrAt(b, 11), will |-> Strs(1, will),
                will_flags |-> (f \div 8) % 8,
                user_name |-> Strs(1 + will, user), password |-> Strs(1 + will + user, pass)]
  BY DEF BrokerConnect, all, f, will, user, pass, Strs
<1>17. ~(will = 0 /\ (f \div 8) % 8 # 0)
  <2>1. will = 0 => c.will_topic = <<>>
    BY <1>9 DEF NWill
  <2>2. c.will_topic = <<>> => (f \div 8) % 8 = 0
    BY <1>8 DEF Flagged
  <2> QED BY <2>1, <2>2
<1>18. ~Bit(f, 1) /\ (Bit(f, 2) <=> Bit(c.connect_flags, 2))
  BY <1>8 DEF Flagged
<1>19. Bit(f, 2) = Bit(c.connect_flags, 2)
  BY <1>18 DEF Bit
<1>20. BrokerConnect(b) =
          [type |-> CONNECT, clean |-> Bit(f, 2), keep_alive |-> Bits16(b, 9),
           client_id |-> StrAt(b, 11), will |-> Strs(1, will),
           will_flags |-> (f \div 8) % 8,
           user_name |-> Strs(1 + will, user), password |-> Strs(1 + will + user, pass)]
  <2>1. Len(all) - 1 = n /\ all[(Len(all) - 1) + 1] = Len(b) + 1
    BY <1>3
  <2>2. Len(all) - 1 = 1 + will + user + pass
    BY <1>1, <1>9, <2>1
  <2> QED BY ONLY <1>7, <1>16, <1>17, <1>18, <2>1, <2>2
<1>21. (f \div 8) % 8 = IF c.will_topic # <<>> THEN (c.connect_flags \div 8) % 8 ELSE 0
  BY <1>8 DEF Flagged
<1>22. Meaning(c) =
            [type |-> CONNECT, clean |-> Bit(c.connect_flags, 2), keep_alive |-> c.keep_alive,
             client_id |-> c.client_id, will |-> Will(c),
             will_flags |-> IF c.will_topic # <<>> THEN (c.connect_flags \div 8) % 8 ELSE 0,
             user_name |-> c.user_name, password |-> c.password]
  BY <1>4 DEF Meaning, Will, CONNECT, PUBLISH, PUBXXX, SUBSCRIBE, UNSUBSCRIBE
<1>23. /\ Strs(1, will) = Will(c) /\ Strs(1 + will, user) = c.user_name
       /\ Strs(1 + will + user, pass) = c.password
  BY ONLY <1>9, <1>13, <1>14, <1>15
<1> QED BY ONLY <1>7, <1>11, <1>19, <1>20, <1>21, <1>22, <1>23

\* A CONNECT.
LEMMA SaysConnect ==
    ASSUME NEW c, IsConnect(c), PackError(c) = "MQTT_OK"
    PROVE  \E f, n, body : Says(c, f, n, body)
<1> DEFINE ss == Strings(c)
           h == Protocol(c)
           w == PackStrs(ss)
           body == h \o w
           n == 10 + SizeOfStrs(ss)
<1>1. c.type = CONNECT /\ IsWord(c.keep_alive) /\ c.connect_flags \in Byte
  BY DEF IsConnect
<1>2. Packing(c) = mqtt_pack_connection_request(c)
  BY <1>1 DEF Packing, CONNECT, PUBLISH, PUBXXX, SUBSCRIBE, UNSUBSCRIBE, PINGREQ, DISCONNECT
<1>3. Packing(c).error = "MQTT_OK"
  BY DEF PackError
<1>4. ss = <<c.client_id>> \o (IF c.will_topic # <<>> THEN c.will_topic \o c.will_message ELSE <<>>)
             \o c.user_name \o c.password
  BY DEF Strings, Will
<1>5. body = mqtt_pack_str(<<77, 81, 84, 84>>) \o <<4, ConnectFlags(c)>>
               \o mqtt_pack_uint16(c.keep_alive) \o PackStrs(ss)
  BY DEF Protocol
<1> DEFINE A == c.client_id = <<>> /\ c.connect_flags % 4 < 2
           B == c.will_topic # <<>> /\ c.will_message = <<>>
           C == c.will_topic # <<>> /\ (c.connect_flags \div 8) % 4 = 3
<1>6. mqtt_pack_connection_request(c) =
         CASE A -> Forbidden("CLEAN_SESSION_IS_REQUIRED")
           [] B -> Forbidden("CONNECT_NULL_WILL_MESSAGE")
           [] C -> Forbidden("CONNECT_FORBIDDEN_WILL_QOS")
           [] OTHER -> Parts(0, n, body)
  BY <1>4, <1>5 DEF mqtt_pack_connection_request
<1> HIDE DEF A, B, C, n, body
<1>7. ~(A \/ B \/ C)
  <2> SUFFICES ASSUME A \/ B \/ C PROVE mqtt_pack_connection_request(c).error # "MQTT_OK"
    BY <1>2, <1>3
  <2>1. mqtt_pack_connection_request(c) \in {Forbidden("CLEAN_SESSION_IS_REQUIRED"),
           Forbidden("CONNECT_NULL_WILL_MESSAGE"), Forbidden("CONNECT_FORBIDDEN_WILL_QOS")}
    BY ONLY <1>6, A \/ B \/ C
  <2> QED BY <2>1 DEF Forbidden
<1>8. Packing(c) = Parts(0, n, body)
  BY <1>2, <1>6, <1>7
<1>9. c.will_topic # <<>> => c.will_message # <<>>
  BY <1>7 DEF B
<1>10. Parted(c, 1 + NWill(c) + NUser(c) + NPass(c))
  BY <1>9, StringsParted
<1>11. IsStrings(ss) /\ Len(ss) = 1 + NWill(c) + NUser(c) + NPass(c)
  BY <1>10 DEF Parted
<1>12. ConnectFlags(c) \in Byte
  BY <1>1, FlagsTell DEF Flagged
<1>13. h \in Seq(Byte) /\ Len(h) = 10
  BY <1>1, <1>12, ProtocolRead
<1>14. w \in Seq(Byte) /\ Len(w) = SizeOfStrs(ss) /\ SizeOfStrs(ss) \in Nat
  BY <1>11, PackStrsSize DEF IsStrings
<1> HIDE DEF h, ss
<1>15. PICK o : Strung(h \o w, Len(h) + 1, 0, ss, o)
  BY <1>11, <1>13, StrungAfter DEF IsStrings
<1>16. Strung(body, 11, 0, ss, o)
  <2>1. Len(h) + 1 = 11
    BY <1>13
  <2> QED BY <1>15, <2>1 DEF body
<1> HIDE DEF w
<1>17. body \in Seq(Byte) /\ Len(body) = Len(h) + Len(w) /\ At(body, 0, h)
  BY <1>13, <1>14, AtConcat DEF body
<1>18. Packs(c, 0, n, body)
  BY <1>8, <1>13, <1>14, <1>17 DEF Packs, n
<1>19. BrokerConnect(body) = Meaning(c)
  BY <1>10, <1>16, <1>17, ReadsConnect DEF h, ss
<1>20. Len(body) > 11
  <2>1. SizeOfStrs(ss) >= 2
    <3> DEFINE m == Len(ss)
               a == [i \in 1..m |-> 2 + Len(ss[i])]
    <3>1. PICK s : IsSum(s, m, a) /\ s[m] = SizeOfStrs(ss)
      BY <1>11, PackStrsSize DEF IsStrings
    <3>2. m \in Nat /\ m >= 1
      <4>1. NWill(c) \in Nat /\ NUser(c) \in Nat /\ NPass(c) \in Nat
        BY DEF NWill, NUser, NPass
      <4> QED BY <1>11, <4>1
    <3>3. \A i \in 1..m : Len(ss[i]) \in Nat /\ a[i] = 2 + Len(ss[i])
      BY <1>11, LenProperties DEF IsStrings, IsString
    <3>4. \A i \in 1..m : a[i] \in Nat
      BY <3>3
    <3> HIDE DEF a, m
    <3>5. s[1] <= s[m] /\ s[1] \in Nat
      <4>1. 1 \in 0..m
        BY <3>2
      <4> QED BY <3>1, <3>4, <4>1, SumRange
    <3>6. s[1] = s[0] + a[1] /\ s[0] = 0
      <4>1. 1 \in 1..m /\ 1 - 1 = 0
        BY <3>2
      <4> QED BY <3>1, <4>1 DEF IsSum
    <3>7. a[1] = 2 + Len(ss[1]) /\ Len(ss[1]) \in Nat
      BY <3>2, <3>3
    <3> QED BY <3>1, <3>5, <3>6, <3>7, <1>14
  <2> QED BY <1>13, <1>14, <1>17, <2>1
<1>21. BrokerReadsAs(c.type, 0, body) = BrokerConnect(body)
  BY <1>1, <1>20 DEF BrokerReadsAs, CONNECT, PUBLISH, PUBXXX, SUBSCRIBE, UNSUBSCRIBE, PINGREQ,
                     DISCONNECT
<1>22. ~Qos1(c) /\ c.type \in 0..15 /\ 0 \in 0..15
  BY <1>1 DEF Qos1, PUBLISH, CONNECT
<1>23. Says(c, 0, n, body)
  BY <1>18, <1>19, <1>21, <1>22 DEF Says
<1> QED BY <1>23

\* Whatever request is packed, the broker reads from it what the request means.
THEOREM PackedSays ==
    ASSUME NEW r, IsRequest(r) \/ IsConnect(r), PackError(r) = "MQTT_OK"
    PROVE  \E f, n, body : Says(r, f, n, body) /\ n < Weight[MaxLenBytes]
<1>1. \E f, n, body : Says(r, f, n, body)
  <2>1. CASE IsConnect(r)
    BY <2>1, SaysConnect
  <2>2. CASE IsRequest(r)
    <3>1. CASE r.type = PUBLISH
      <4>1. /\ r.flags \in 0..15 /\ (QosOf(r.flags) = 1 => r.flags < 8)
            /\ IsWord(r.pid) /\ IsString(r.topic) /\ r.data \in Seq(Byte)
        BY <2>2, <3>1 DEF IsRequest, PUBLISH, PUBXXX, SUBSCRIBE, UNSUBSCRIBE, PINGREQ, DISCONNECT
      <4>2. QosOf(r.flags) # 3
        <5> SUFFICES ASSUME QosOf(r.flags) = 3 PROVE FALSE
          OBVIOUS
        <5>1. Packing(r) = mqtt_pack_publish_request(r)
          BY <3>1 DEF Packing, CONNECT, PUBLISH, PUBXXX, SUBSCRIBE, UNSUBSCRIBE, PINGREQ, DISCONNECT
        <5>2. mqtt_pack_publish_request(r) = Forbidden("PUBLISH_FORBIDDEN_QOS")
          BY DEF mqtt_pack_publish_request
        <5> QED BY <5>1, <5>2 DEF PackError, Forbidden
      <4>3. IsPublish(r)
        BY <3>1, <4>1, <4>2 DEF IsPublish
      <4> QED BY <4>1, <4>3, SaysPublish
    <3>2. CASE r.type \in PUBXXX
      <4>1. IsWord(r.pid)
        BY <2>2, <3>2 DEF IsRequest, PUBLISH, PUBXXX, SUBSCRIBE, UNSUBSCRIBE, PINGREQ, DISCONNECT
      <4> QED BY <3>2, <4>1, SaysPubxxx
    <3>3. CASE r.type = SUBSCRIBE
      <4>1. /\ IsWord(r.pid) /\ IsStrings(r.topics) /\ r.topics # <<>>
            /\ r.max_qos \in Seq(Byte) /\ Len(r.max_qos) = Len(r.topics)
        BY <2>2, <3>3 DEF IsRequest, PUBLISH, PUBXXX, SUBSCRIBE, UNSUBSCRIBE, PINGREQ, DISCONNECT
      <4> QED BY <3>3, <4>1, SaysSubscribe
    <3>4. CASE r.type = UNSUBSCRIBE
      <4>1. /\ IsWord(r.pid) /\ IsStrings(r.topics) /\ r.topics # <<>>
        BY <2>2, <3>4 DEF IsRequest, PUBLISH, PUBXXX, SUBSCRIBE, UNSUBSCRIBE, PINGREQ, DISCONNECT
      <4> QED BY <3>4, <4>1, SaysUnsubscribe
    <3>5. CASE r.type \in {PINGREQ, DISCONNECT}
      BY <3>5, SaysShort
    <3> QED BY <2>2, <3>1, <3>2, <3>3, <3>4, <3>5 DEF IsRequest
  <2> QED BY <2>1, <2>2
<1>2. PICK f, n, body : Says(r, f, n, body)
  BY <1>1
<1>3. n < Weight[MaxLenBytes]
  <2>1. PackError(r) = IF n >= Weight[MaxLenBytes] THEN "INVALID_REMAINING_LENGTH" ELSE "MQTT_OK"
    BY <1>2, PacksFrame DEF Says
  <2>2. n \in Nat /\ Weight[MaxLenBytes] \in Nat
    <3>1. MaxLenBytes \in Nat
      BY CodecAssumption
    <3> QED BY <1>2, <3>1, WeightDef DEF Says, Packs
  <2> QED BY <2>1, <2>2
<1> QED BY <1>2, <1>3

-----------------------------------------------------------------------------
(* How the broker finds the packets.                                        *)

\* Bytes below two times Base: those below Base end a remaining length.
Digits == {b \in Byte : b < Base <=> ~Continues(b)}

\* The bytes of a remaining length are digits, with or without a mark.
LEMMA LengthDigits == \A n \in Nat : LengthBytes[n] \in Seq(Digits)
<1> DEFINE T == {n \in Nat : LengthBytes[n] \in Seq(Digits)}
<1>0. ASSUME NEW n \in Nat, n < Base PROVE n \in Digits /\ n + Base \in Digits
  <2>1. /\ n \in Byte /\ ~Continues(n) /\ n + Base \in Byte /\ Continues(n + Base)
    BY <1>0, Digit
  <2>2. ~(n + Base < Base)
    BY BaseType
  <2> QED BY <1>0, <2>1, <2>2 DEF Digits
<1>1. ASSUME NEW n \in Nat, \A m \in 0..(n - 1) : m \in T PROVE n \in T
  <2>1. CASE n < Base
    <3>1. n \in Digits
      BY <1>0, <2>1
    <3>2. LengthBytes[n] = <<n>>
      BY <2>1, LengthBytesDef
    <3>3. <<n>> \in Seq(Digits)
      BY <3>1
    <3> QED BY <3>2, <3>3
  <2>2. CASE n >= Base
    <3>1. n \div Base \in 0..(n - 1) /\ n % Base \in Nat /\ n % Base < Base
      BY <2>2, Division
    <3>2. LengthBytes[n \div Base] \in Seq(Digits)
      BY <3>1, <1>1
    <3>3. (n % Base) + Base \in Digits
      BY <1>0, <3>1
    <3>4. <<(n % Base) + Base>> \o LengthBytes[n \div Base] \in Seq(Digits)
      BY <3>2, <3>3, ConsByte
    <3> QED BY <2>2, <3>4, LengthBytesDef
  <2> QED BY <2>1, <2>2, BaseType
<1> HIDE DEF T
<1>2. \A n \in Nat : n \in T
  BY <1>1, StrongInduction
<1> QED BY <1>2 DEF T

\* The broker finds the fixed header when it is there as a whole, and not before.
LEMMA HeaderFound ==
    ASSUME NEW t, NEW f, NEW n \in Nat, n < Weight[MaxLenBytes], got \in Seq(Byte),
           Starts(got, t, f, LengthBytes[n])
    PROVE  HeaderLen = IF Len(got) > Len(LengthBytes[n]) THEN Len(LengthBytes[n]) + 1 ELSE 0
<1> DEFINE l == LengthBytes[n]
           ends == {k \in 2..(MaxLenBytes + 1) : k <= Len(got) /\ got[k] < Base}
<1>1. /\ Len(l) \in Nat /\ Len(l) >= 1 /\ Len(l) <= MaxLenBytes /\ MaxLenBytes \in Nat
      /\ Len(got) \in Nat
  BY LengthFits, CodecAssumption, LenProperties
<1>2. \A i \in 1..Len(l) : l[i] < Base <=> i = Len(l)
  <2> SUFFICES ASSUME NEW i \in 1..Len(l) PROVE l[i] < Base <=> i = Len(l)
    OBVIOUS
  <2>1. l[i] \in Digits
    <3>1. l \in Seq(Digits)
      BY LengthDigits
    <3> QED BY <3>1, ElementOfSeq
  <2>2. Continues(l[i]) <=> i < Len(l)
    BY LengthEncoded DEF Encodes
  <2>3. i < Len(l) <=> ~(i = Len(l))
    BY <1>1
  <2> QED BY <2>1, <2>2, <2>3 DEF Digits
<1>3. \A i \in 1..Len(l) : i < Len(got) => got[i + 1] = l[i]
  BY DEF Starts
<1> HIDE DEF l
<1>4. ASSUME NEW k \in ends PROVE k >= Len(l) + 1 /\ k <= Len(got)
  <2> SUFFICES ASSUME ~(k >= Len(l) + 1) PROVE FALSE
    BY <1>4
  <2> DEFINE i == k - 1
  <2>1. i \in 1..Len(l) /\ i < Len(l) /\ i + 1 = k /\ i < Len(got)
    BY <1>1
  <2>2. got[k] < Base
    OBVIOUS
  <2> HIDE DEF i
  <2>3. got[k] = l[i]
    BY <2>1, <1>3
  <2>4. i = Len(l)
    BY <1>2, <2>1, <2>2, <2>3
  <2> QED BY <2>1, <2>4, <1>1
<1>5. HeaderLen = IF ends = {} THEN 0 ELSE Min(ends)
  BY DEF HeaderLen
<1>6. CASE Len(got) > Len(l)
  <2>1. Len(l) + 1 \in ends
    <3>1. Len(l) \in 1..Len(l) /\ Len(l) < Len(got) /\ Len(l) + 1 \in 2..(MaxLenBytes + 1)
      BY <1>1, <1>6
    <3>2. got[Len(l) + 1] = l[Len(l)] /\ l[Len(l)] < Base
      BY <1>2, <1>3, <3>1
    <3> QED BY <3>1, <3>2, <1>1
  <2>2. \A k \in ends : k \in Nat /\ Len(l) + 1 <= k
    BY <1>1, <1>4
  <2> HIDE DEF ends
  <2>3. Min(ends) = Len(l) + 1
    <3> DEFINE x == Len(l) + 1
    <3>1. x \in ends /\ \A k \in ends : k \in Nat /\ x <= k
      BY <2>1, <2>2
    <3> HIDE DEF x
    <3>2. \A y \in ends : (\A k \in ends : y <= k) => y = x
      BY <3>1
    <3>3. Min(ends) = CHOOSE y \in ends : \A k \in ends : y <= k
      BY DEF Min
    <3> QED BY <3>1, <3>2, <3>3 DEF x
  <2> QED BY <1>5, <1>6, <2>1, <2>3 DEF l
<1>7. CASE ~(Len(got) > Len(l))
  <2>1. ends = {}
    <3> SUFFICES ASSUME NEW k \in ends PROVE FALSE
      OBVIOUS
    <3>1. k \in Nat
      BY <1>1
    <3> HIDE DEF ends
    <3>2. k >= Len(l) + 1 /\ k <= Len(got)
      BY <1>4
    <3> QED BY <1>1, <1>7, <3>1, <3>2
  <2> QED BY <1>5, <1>7, <2>1 DEF l
<1> QED BY <1>6, <1>7

\* The arithmetic of one digit more.
LEMMA ValueStep ==
    ASSUME NEW v \in Nat, NEW d \in Nat, NEW w \in Nat, NEW b \in Nat, NEW r \in Nat
    PROVE  v + w * (d + b * r) = (v + d * w) + (b * w) * r
OBVIOUS

\* The broker finds the length of a packet whose fixed header is there.
LEMMA LengthFound ==
    ASSUME NEW t, NEW f, NEW n \in Nat, n < Weight[MaxLenBytes], got \in Seq(Byte),
           Starts(got, t, f, LengthBytes[n]), Len(got) > Len(LengthBytes[n])
    PROVE  FrameLen = (Len(LengthBytes[n]) + 1) + n
<1> DEFINE l == LengthBytes[n]
           m == Len(l)
           H == m + 1
           W == 2..H
           mu == [k \in W |-> H - k]
           c == {H}
           b == [k \in W |-> (got[k] % Base)]
           d == [k \in W |-> k + 1]
           g == [k \in W |-> [s \in Nat |-> (got[k] % Base) + Base * s]]
<1>1. m \in Nat /\ m >= 1 /\ Len(got) \in Nat /\ m < Len(got)
  BY LengthFits, LenProperties
<1>2. HeaderLen = H
  BY HeaderFound
<1>3. Encodes(l, n)
  BY LengthEncoded
<1>4. PICK v : IsValue(v, l) /\ v[m] = n
  BY <1>3 DEF Encodes
<1>5. l \in Seq(Byte) /\ \A i \in 1..m : got[i + 1] = l[i]
  BY <1>1, <1>3 DEF Starts, Encodes
<1>6. /\ v \in [0..m -> Nat] /\ v[0] = 0
      /\ \A j \in 1..m : v[j] = v[j - 1] + (l[j] % Base) * Weight[j - 1]
  BY <1>4 DEF IsValue
<1> HIDE DEF l, m
<1>7. ASSUME NEW k \in W PROVE got[k] % Base \in Nat
  <2>1. k \in 1..Len(got)
    BY <1>1
  <2>2. got[k] \in Nat
    BY <2>1, ElementOfSeq, ByteIsNat
  <2> QED BY <2>2, Division
<1>8. Recursive(W, Nat, mu, c, b, d, g)
  <2>1. mu \in [W -> Nat]
    BY <1>1
  <2>2. \A k \in W : k \in c => b[k] \in Nat
    BY <1>7
  <2>3. \A k \in W : k \notin c => d[k] \in W /\ mu[d[k]] < mu[k]
    BY <1>1
  <2>4. \A k \in W : \A s \in Nat : k \notin c => g[k][s] \in Nat
    <3> SUFFICES ASSUME NEW k \in W, NEW s \in Nat PROVE g[k][s] \in Nat
      OBVIOUS
    <3>1. got[k] % Base \in Nat /\ Base * s \in Nat
      BY <1>7, BaseType
    <3>2. g[k][s] = (got[k] % Base) + Base * s
      OBVIOUS
    <3> HIDE DEF g
    <3> QED BY <3>1, <3>2
  <2> HIDE DEF W, mu, c, b, d, g
  <2> QED BY <2>1, <2>2, <2>3, <2>4 DEF Recursive
<1>9. PICK u \in [W -> Nat] : Solves(u, W, c, b, d, g)
  <2> HIDE DEF W, mu, c, b, d, g
  <2> QED BY <1>8, WellDefined
<1> DEFINE R(z, k) == (got[k] % Base) + (IF k = H THEN 0 ELSE Base * z[k + 1])
<1>10. ASSUME NEW k \in W PROVE u[k] = R(u, k)
  <2>1. u[k] = IF k \in c THEN b[k] ELSE g[k][u[d[k]]]
    BY <1>9 DEF Solves
  <2>2. CASE k = H
    <3>1. u[k] = got[k] % Base
      BY <2>1, <2>2
    <3>2. R(u, k) = (got[k] % Base) + 0
      BY <2>2
    <3> HIDE DEF R
    <3> QED BY <1>7, <3>1, <3>2
  <2>3. CASE k # H
    <3>1. d[k] = k + 1 /\ k + 1 \in W
      BY <2>3, <1>1
    <3>2. u[k + 1] \in Nat
      BY <3>1
    <3>3. g[k][u[k + 1]] = (got[k] % Base) + Base * u[k + 1]
      BY <3>2
    <3>4. u[k] = g[k][u[k + 1]]
      BY <2>1, <2>3, <3>1
    <3> QED BY <2>3, <3>3, <3>4
  <2> QED BY <2>2, <2>3
<1> DEFINE F == CHOOSE value : value = [k \in 2..HeaderLen |->
                   (got[k] % Base) + (IF k = HeaderLen THEN 0 ELSE Base * value[k + 1])]
<1>11. u = [k \in 2..HeaderLen |->
               (got[k] % Base) + (IF k = HeaderLen THEN 0 ELSE Base * u[k + 1])]
  BY <1>2, <1>9, <1>10
<1>12. F = [k \in 2..HeaderLen |->
               (got[k] % Base) + (IF k = HeaderLen THEN 0 ELSE Base * F[k + 1])]
  BY <1>11
<1>13. FrameLen = HeaderLen + F[2]
  BY DEF FrameLen
<1> HIDE DEF F
<1>14. ASSUME NEW k \in W PROVE F[k] = R(F, k)
  BY <1>2, <1>12
<1> HIDE DEF mu, c, b, d, g, R
<1> DEFINE Claim(j) == /\ F[j + 2] \in Nat /\ v[j] + Weight[j] * F[j + 2] = n
           T == {x \in Nat : x <= m - 1 => Claim((m - 1) - x)}
<1>15. \A j \in 0..m : Weight[j] \in Nat /\ v[j] \in Nat
  <2> SUFFICES ASSUME NEW j \in 0..m PROVE Weight[j] \in Nat /\ v[j] \in Nat
    OBVIOUS
  <2>1. j \in Nat
    BY <1>1
  <2> QED BY <2>1, <1>6, WeightDef
<1>16. \A j \in 0..(m - 1) : j + 2 \in W /\ got[j + 2] = l[j + 1] /\ l[j + 1] % Base \in Nat
  <2> SUFFICES ASSUME NEW j \in 0..(m - 1)
               PROVE j + 2 \in W /\ got[j + 2] = l[j + 1] /\ l[j + 1] % Base \in Nat
    OBVIOUS
  <2>1. j + 1 \in 1..m /\ (j + 1) + 1 = j + 2 /\ j + 2 \in W
    BY <1>1
  <2>2. got[j + 2] = l[j + 1]
    BY <1>5, <2>1
  <2> QED BY <1>7, <2>1, <2>2
<1>17. 0 \in T
  <2> DEFINE j == m - 1
  <2>1. j \in 0..(m - 1) /\ j \in 0..m /\ j + 1 = m /\ j + 2 = H /\ m \in 1..m /\ m - 1 = j
    BY <1>1
  <2>2. F[j + 2] = (got[j + 2] % Base) + 0
    BY <1>14, <1>16, <2>1 DEF R
  <2>3. F[j + 2] = l[m] % Base /\ l[m] % Base \in Nat
    BY <1>16, <2>1, <2>2
  <2>4. v[m] = v[j] + (l[m] % Base) * Weight[j]
    BY <1>6, <2>1
  <2> DEFINE z == l[m] % Base
  <2>5. z \in Nat /\ F[j + 2] = z /\ v[m] = v[j] + z * Weight[j] /\ Weight[j] \in Nat
    BY <2>1, <2>3, <2>4, <1>15
  <2> HIDE DEF z, j
  <2>6. v[j] + Weight[j] * z = v[m]
    BY <2>5
  <2>7. Claim(j)
    BY <1>4, <2>5, <2>6
  <2>8. (m - 1) - 0 = j
    BY <2>1
  <2> QED BY <2>7, <2>8
<1>18. ASSUME NEW x \in Nat, x \in T PROVE x + 1 \in T
  <2> SUFFICES ASSUME x + 1 <= m - 1 PROVE Claim((m - 1) - (x + 1))
    OBVIOUS
  <2> DEFINE i == (m - 1) - (x + 1)
             j == (m - 1) - x
  <2>1. /\ i \in 0..(m - 1) /\ i \in 0..m /\ j = i + 1 /\ j \in 1..m /\ j - 1 = i
        /\ x <= m - 1 /\ i + 2 # H /\ (i + 2) + 1 = j + 2 /\ i \in Nat /\ i + 2 = j + 1
    BY <1>1
  <2>2. Claim(j)
    BY <1>18, <2>1
  <2> HIDE DEF i, j
  <2> DEFINE z == l[j] % Base
             r == F[j + 2]
  <2>3. i + 2 \in W /\ got[i + 2] % Base = z /\ z \in Nat
    BY <1>16, <2>1
  <2>4. F[i + 2] = z + Base * r
    BY <1>14, <2>1, <2>3 DEF R
  <2>5. v[j] = v[i] + z * Weight[i]
    BY <1>6, <2>1
  <2>6. Weight[j] = Base * Weight[i] /\ Weight[i] \in Nat /\ v[i] \in Nat
    BY <1>15, <2>1, WeightDef
  <2>7. r \in Nat /\ v[j] + Weight[j] * r = n
    BY <2>2
  <2> HIDE DEF z, r, Claim
  <2>8. v[i] + Weight[i] * (z + Base * r) = (v[i] + z * Weight[i]) + (Base * Weight[i]) * r
    BY <2>3, <2>6, <2>7, BaseType, ValueStep
  <2>9. v[i] + Weight[i] * F[i + 2] = n
    BY ONLY <2>4, <2>5, <2>6, <2>7, <2>8
  <2>10. F[i + 2] \in Nat
    <3>1. Base * r \in Nat
      BY ONLY <2>7, BaseType
    <3>2. z + Base * r \in Nat
      BY ONLY <2>3, <3>1
    <3> QED BY ONLY <2>4, <3>2
  <2> QED BY <2>9, <2>10 DEF Claim, i
<1>19. m - 1 \in T
  <2>1. m - 1 \in Nat
    BY <1>1
  <2> HIDE DEF T
  <2> QED BY <2>1, <1>17, <1>18, SetInduction
<1>20. F[2] = n
  <2>1. Claim(0)
    <3>1. (m - 1) - (m - 1) = 0 /\ m - 1 <= m - 1
      BY <1>1
    <3> HIDE DEF Claim
    <3> QED BY <1>19, <3>1
  <2>2. F[2] \in Nat /\ v[0] + Weight[0] * F[2] = n
    BY <2>1
  <2>3. v[0] = 0 /\ Weight[0] = 1
    BY <1>6, WeightDef
  <2> QED BY <2>2, <2>3
<1> QED BY <1>2, <1>13, <1>20 DEF m, l

-----------------------------------------------------------------------------
(* The room in the buffer.                                                  *)

All    == Requests \cup Connections
States == {"UNSENT", "AWAITING_ACK", "COMPLETE"}
Msg    == [req : All, bytes : Seq(Byte), state : States]

\* What a message and its record take.
Takes(q) == [i \in 1..Len(q) |-> Len(q[i].bytes) + RecSize]

\* The sizes are naturals.
LEMMA SizesType ==
    SendSize \in Nat /\ RecSize \in Nat /\ SockSize \in Nat /\ SockSize > 0
BY SendAssumption

\* The messages of a queue and what they take.
LEMMA MsgFields ==
    ASSUME NEW q \in Seq(Msg), NEW i \in 1..Len(q)
    PROVE  /\ q[i] \in Msg /\ q[i].req \in All /\ q[i].bytes \in Seq(Byte) /\ q[i].state \in States
           /\ Len(q[i].bytes) \in Nat /\ Takes(q)[i] = Len(q[i].bytes) + RecSize
           /\ Takes(q)[i] \in Nat
<1>1. q[i] \in Msg
  BY ElementOfSeq
<1>2. q[i].req \in All /\ q[i].bytes \in Seq(Byte) /\ q[i].state \in States
  BY <1>1 DEF Msg
<1>3. Len(q[i].bytes) \in Nat
  BY <1>2, LenProperties
<1> QED BY <1>1, <1>2, <1>3, SizesType DEF Takes

\* What is used is the sum of what the messages take.
LEMMA UsedIs ==
    ASSUME NEW q \in Seq(Msg), NEW o, IsSum(o, Len(q), Takes(q))
    PROVE  Used(q) = o[Len(q)]
<1> DEFINE n == Len(q)
           a == Takes(q)
           R(z, i) == IF i = 0 THEN 0 ELSE z[i - 1] + Len(q[i].bytes) + RecSize
           F == CHOOSE used : used = [i \in 0..n |->
                   IF i = 0 THEN 0 ELSE used[i - 1] + Len(q[i].bytes) + RecSize]
<1>1. /\ n \in Nat /\ o \in [0..n -> Nat] /\ o[0] = 0
      /\ \A i \in 1..n : o[i] = o[i - 1] + a[i]
  BY DEF IsSum
<1>2. \A i \in 1..n : Len(q[i].bytes) \in Nat /\ a[i] = Len(q[i].bytes) + RecSize /\ RecSize \in Nat
  BY MsgFields, SizesType
<1>3. IsSum(o, n, a)
  OBVIOUS
<1> HIDE DEF a, n
<1>4. ASSUME NEW i \in 0..n PROVE o[i] = R(o, i)
  <2>1. CASE i = 0
    BY <2>1, <1>1
  <2>2. CASE i # 0
    <3>1. i \in 1..n /\ i - 1 \in 0..n
      BY <2>2, <1>1
    <3>2. o[i] = o[i - 1] + (Len(q[i].bytes) + RecSize) /\ o[i - 1] \in Nat
      BY <3>1, <1>1, <1>2
    <3>3. o[i] = o[i - 1] + Len(q[i].bytes) + RecSize
      BY <3>1, <3>2, <1>2
    <3> QED BY <2>2, <3>3
  <2> QED BY <2>1, <2>2
<1>5. o = [i \in 0..n |-> IF i = 0 THEN 0 ELSE o[i - 1] + Len(q[i].bytes) + RecSize]
  BY <1>1, <1>4
<1>6. F = [i \in 0..n |-> IF i = 0 THEN 0 ELSE F[i - 1] + Len(q[i].bytes) + RecSize]
  BY <1>5
<1>7. Used(q) = F[n]
  BY DEF Used, n
<1> HIDE DEF F
<1>8. ASSUME NEW i \in 0..n PROVE F[i] = R(F, i)
  BY <1>6
<1> DEFINE T == {k \in Nat : k <= n => F[k] = o[k]}
<1>9. 0 \in T
  BY <1>1, <1>8
<1>10. ASSUME NEW k \in Nat, k \in T PROVE k + 1 \in T
  <2> SUFFICES ASSUME k + 1 <= n PROVE F[k + 1] = o[k + 1]
    OBVIOUS
  <2>1. k + 1 \in 0..n /\ k + 1 # 0 /\ (k + 1) - 1 = k /\ F[k] = o[k]
    BY <1>10, <1>1
  <2>2. F[k + 1] = R(F, k + 1) /\ o[k + 1] = R(o, k + 1)
    BY <1>4, <1>8, <2>1
  <2>3. R(F, k + 1) = F[k] + Len(q[k + 1].bytes) + RecSize
    BY <2>1
  <2>4. R(o, k + 1) = o[k] + Len(q[k + 1].bytes) + RecSize
    BY <2>1
  <2> HIDE DEF R
  <2> QED BY <2>1, <2>2, <2>3, <2>4
<1>11. n \in T
  <2> HIDE DEF T
  <2> QED BY <1>1, <1>9, <1>10, SetInduction
<1> QED BY <1>7, <1>11 DEF n

\* There is one.
LEMMA UsedSum ==
    ASSUME NEW q \in Seq(Msg)
    PROVE  \E o : IsSum(o, Len(q), Takes(q)) /\ Used(q) = o[Len(q)] /\ Used(q) \in Nat
<1>1. Len(q) \in Nat
  BY LenProperties
<1>2. \A i \in 1..Len(q) : Takes(q)[i] \in Nat
  BY MsgFields
<1>3. PICK o : IsSum(o, Len(q), Takes(q))
  BY <1>1, <1>2, SumExists
<1>4. Used(q) = o[Len(q)]
  BY <1>3, UsedIs
<1>5. o[Len(q)] \in Nat
  BY <1>1, <1>3 DEF IsSum
<1> QED BY <1>3, <1>4, <1>5

\* Messages of the same sizes use the same room.
LEMMA UsedSame ==
    ASSUME NEW q \in Seq(Msg), NEW p \in Seq(Msg), Len(p) = Len(q),
           \A i \in 1..Len(q) : Len(p[i].bytes) = Len(q[i].bytes)
    PROVE  Used(p) = Used(q)
<1>1. PICK o : IsSum(o, Len(q), Takes(q)) /\ Used(q) = o[Len(q)]
  BY UsedSum
<1>2. Takes(p) = Takes(q)
  BY DEF Takes
<1>3. IsSum(o, Len(p), Takes(p))
  BY <1>1, <1>2
<1>4. Used(p) = o[Len(p)]
  BY <1>3, UsedIs
<1> QED BY <1>1, <1>4

\* A message takes its bytes and a record.
LEMMA UsedAppend ==
    ASSUME NEW q \in Seq(Msg), NEW m \in Msg
    PROVE  Used(Append(q, m)) = Used(q) + (Len(m.bytes) + RecSize)
<1> DEFINE n == Len(q)
           p == Append(q, m)
           z == Len(m.bytes) + RecSize
<1>1. PICK o : IsSum(o, n, Takes(q)) /\ Used(q) = o[n] /\ Used(q) \in Nat
  BY UsedSum
<1>2. /\ n \in Nat /\ o \in [0..n -> Nat] /\ o[0] = 0
      /\ \A i \in 1..n : o[i] = o[i - 1] + Takes(q)[i]
  BY <1>1 DEF IsSum
<1>3. p \in Seq(Msg) /\ Len(p) = n + 1 /\ p[n + 1] = m /\ \A i \in 1..n : p[i] = q[i]
  BY LenProperties, AppendProperties
<1>4. z \in Nat
  <2>1. m.bytes \in Seq(Byte)
    BY DEF Msg
  <2> QED BY <2>1, LenProperties, SizesType
<1> HIDE DEF n, p
<1>5. Takes(p)[n + 1] = z
  BY <1>2, <1>3 DEF Takes
<1>6. \A i \in 1..n : Takes(p)[i] = Takes(q)[i]
  <2> SUFFICES ASSUME NEW i \in 1..n PROVE Takes(p)[i] = Takes(q)[i]
    OBVIOUS
  <2>1. i \in 1..(n + 1)
    BY <1>2
  <2> QED BY <1>3, <2>1 DEF Takes, n
<1> HIDE DEF z
<1> DEFINE f == [i \in 0..(n + 1) |-> IF i = n + 1 THEN o[n] + z ELSE o[i]]
<1>7. IsSum(f, n + 1, Takes(p))
  <2>1. f \in [0..(n + 1) -> Nat]
    <3>1. n \in 0..n
      BY <1>2
    <3>2. o[n] + z \in Nat
      BY <1>2, <1>4, <3>1
    <3> QED BY <1>2, <3>2
  <2>2. f[0] = 0
    BY <1>2
  <2>3. ASSUME NEW i \in 1..(n + 1) PROVE f[i] = f[i - 1] + Takes(p)[i]
    <3>1. CASE i = n + 1
      <4>1. f[i] = o[n] + z /\ f[i - 1] = o[n]
        BY <3>1, <1>2
      <4> QED BY <3>1, <4>1, <1>5
    <3>2. CASE i # n + 1
      <4>1. i \in 1..n /\ i - 1 \in 0..(n + 1) /\ i - 1 # n + 1 /\ i \in 0..(n + 1)
        BY <3>2, <1>2
      <4>2. f[i] = o[i] /\ f[i - 1] = o[i - 1]
        BY <3>2, <4>1
      <4>3. o[i] = o[i - 1] + Takes(q)[i] /\ Takes(p)[i] = Takes(q)[i]
        BY <4>1, <1>2, <1>6
      <4> QED BY <4>2, <4>3
    <3> QED BY <3>1, <3>2
  <2>4. n + 1 \in Nat
    BY <1>2
  <2> HIDE DEF f
  <2> QED BY <2>1, <2>2, <2>3, <2>4 DEF IsSum
<1>8. Used(p) = f[n + 1]
  <2> HIDE DEF f
  <2> QED BY <1>3, <1>7, UsedIs
<1>9. f[n + 1] = o[n] + z
  BY <1>2
<1> QED BY <1>1, <1>8, <1>9 DEF p, z

\* Without its first k messages the queue uses no more room.
LEMMA UsedTail ==
    ASSUME NEW q \in Seq(Msg), NEW k \in 0..Len(q)
    PROVE  Used(SubSeq(q, k + 1, Len(q))) <= Used(q)
<1> DEFINE n == Len(q)
           p == SubSeq(q, k + 1, Len(q))
<1>1. PICK o : IsSum(o, n, Takes(q)) /\ Used(q) = o[n] /\ Used(q) \in Nat
  BY UsedSum
<1>2. /\ n \in Nat /\ o \in [0..n -> Nat] /\ o[0] = 0
      /\ \A i \in 1..n : o[i] = o[i - 1] + Takes(q)[i]
  BY <1>1 DEF IsSum
<1>3. p \in Seq(Msg) /\ Len(p) = n - k /\ At(q, k, p) /\ k \in Nat /\ k <= n
  BY <1>2, Dropped
<1> DEFINE m == n - k
<1>4. m \in Nat /\ k + m = n
  BY <1>2, <1>3
<1> HIDE DEF n, p, m
<1>5. Len(p) = m
  BY <1>3 DEF m
<1>6. ASSUME NEW i \in 1..m
      PROVE  k + i \in 1..n /\ (k + i) - 1 = k + (i - 1) /\ Takes(p)[i] = Takes(q)[k + i]
  <2>1. k + i \in 1..n /\ (k + i) - 1 = k + (i - 1)
    BY <1>2, <1>3, <1>4
  <2>2. q[k + i] = p[i]
    BY <1>3, <1>5 DEF At
  <2> QED BY <2>1, <2>2, <1>5 DEF Takes, n
<1>7. \A i \in 0..n : o[i] \in Nat /\ o[i] <= o[n]
  <2>1. \A i \in 1..n : Takes(q)[i] \in Nat
    BY MsgFields DEF n
  <2> QED BY <1>1, <2>1, SumRange
<1>8. \A i \in 1..n : Takes(q)[i] \in Nat
  BY MsgFields DEF n
<1>9. \A i \in 0..n : \A j \in 0..i : o[j] <= o[i]
  BY <1>1, <1>8, SumGrows
<1> DEFINE f == [i \in 0..m |-> o[k + i] - o[k]]
<1>10. k \in 0..n /\ o[k] \in Nat
  BY <1>2, <1>3, <1>7
<1>11. ASSUME NEW i \in 0..m PROVE k + i \in 0..n /\ o[k + i] \in Nat /\ o[k] <= o[k + i]
  <2>1. k + i \in 0..n /\ k \in 0..(k + i)
    BY <1>2, <1>3, <1>4
  <2> QED BY <2>1, <1>7, <1>9
<1>12. IsSum(f, m, Takes(p))
  <2>1. f \in [0..m -> Nat]
    BY <1>10, <1>11
  <2>2. f[0] = 0
    <3>1. f[0] = o[k + 0] - o[k] /\ k + 0 = k
      BY <1>3, <1>4
    <3> HIDE DEF f
    <3> QED BY <1>10, <3>1
  <2>3. ASSUME NEW i \in 1..m PROVE f[i] = f[i - 1] + Takes(p)[i]
    <3>1. i \in 0..m /\ i - 1 \in 0..m
      BY <1>4
    <3>2. f[i] = o[k + i] - o[k] /\ f[i - 1] = o[k + (i - 1)] - o[k]
      BY <3>1
    <3>3. k + i \in 1..n /\ (k + i) - 1 = k + (i - 1) /\ Takes(p)[i] = Takes(q)[k + i]
      BY <1>6
    <3>4. o[k + i] = o[k + (i - 1)] + Takes(q)[k + i] /\ Takes(q)[k + i] \in Nat
      BY <1>2, <1>8, <3>3
    <3>5. o[k + i] \in Nat /\ o[k + (i - 1)] \in Nat
      BY <1>11, <3>1
    <3> DEFINE x == o[k + (i - 1)]
               y == Takes(q)[k + i]
    <3>6. f[i] = (x + y) - o[k] /\ f[i - 1] = x - o[k] /\ x \in Nat /\ y \in Nat /\ Takes(p)[i] = y
      BY <3>2, <3>3, <3>4, <3>5
    <3> HIDE DEF f, x, y
    <3> QED BY <1>10, <3>6
  <2> HIDE DEF f
  <2> QED BY <1>4, <2>1, <2>2, <2>3 DEF IsSum
<1>13. Used(p) = f[m]
  <2> HIDE DEF f
  <2> QED BY <1>3, <1>5, <1>12, UsedIs
<1>14. f[m] = o[n] - o[k] /\ o[n] \in Nat
  <2>1. m \in 0..m /\ n \in 0..n
    BY <1>2, <1>4
  <2> QED BY <2>1, <1>4, <1>7
<1> HIDE DEF f
<1>15. Used(p) <= o[n]
  BY <1>10, <1>13, <1>14
<1> QED BY <1>1, <1>15 DEF p

\* mqtt_mq_clean drops messages from the front.
LEMMA CleanDrops ==
    ASSUME NEW q \in Seq(Msg)
    PROVE  \E k \in 0..Len(q) : mqtt_mq_clean(q) = SubSeq(q, k + 1, Len(q))
<1> DEFINE open == {i \in DOMAIN q : q[i].state # "COMPLETE"}
<1>1. Len(q) \in Nat /\ DOMAIN q = 1..Len(q)
  BY LenProperties
<1>2. CASE open = {}
  <2>1. mqtt_mq_clean(q) = <<>>
    BY <1>2 DEF mqtt_mq_clean
  <2>2. SubSeq(q, Len(q) + 1, Len(q)) = <<>>
    <3>1. Len(q) + 1 > Len(q)
      BY <1>1
    <3> DEFINE x == SubSeq(q, Len(q) + 1, Len(q))
    <3>2. x \in Seq(Msg) /\ Len(x) = Len(q) - Len(q)
      BY <1>1, Dropped
    <3> HIDE DEF x
    <3>3. Len(x) = 0
      BY <1>1, <3>2
    <3>4. x = <<>>
      BY <3>2, <3>3, EmptySeq
    <3> QED BY <3>4 DEF x
  <2>3. Len(q) \in 0..Len(q)
    BY <1>1
  <2> QED BY <2>1, <2>2, <2>3
<1>3. CASE open # {}
  <2>1. mqtt_mq_clean(q) = SubSeq(q, Min(open), Len(q))
    BY <1>3 DEF mqtt_mq_clean
  <2>2. open \subseteq Nat /\ open \subseteq 1..Len(q)
    BY <1>1
  <2> HIDE DEF open
  <2>3. Min(open) \in open
    <3>1. \E x \in open : \A y \in open : x <= y
      BY <1>3, <2>2, LeastExists
    <3> QED BY <3>1 DEF Min
  <2> DEFINE k == Min(open) - 1
  <2>4. k \in 0..Len(q) /\ k + 1 = Min(open)
    <3>1. \A n \in Nat : \A x \in 1..n : x - 1 \in 0..n /\ (x - 1) + 1 = x
      OBVIOUS
    <3>2. Min(open) \in 1..Len(q)
      BY <2>2, <2>3
    <3> QED BY ONLY <1>1, <3>1, <3>2
  <2> HIDE DEF k
  <2> QED BY <2>1, <2>4
<1> QED BY <1>2, <1>3

-----------------------------------------------------------------------------
(* Sequences that grow and shrink.                                          *)

\* A sequence without its first m members begins with the next one.
LEMMA TailFirst ==
    ASSUME NEW S, NEW s \in Seq(S), NEW m \in Nat, m < Len(s)
    PROVE  SubSeq(s, m + 1, Len(s)) = <<s[m + 1]>> \o SubSeq(s, (m + 1) + 1, Len(s))
<1>1. Len(s) \in Nat
  BY LenProperties
<1>2. m + 1 \in 1..Len(s) /\ Len(s) \in (m + 1)..Len(s)
  BY <1>1
<1> QED BY <1>2, SubSeqRecursiveFirst

\* A member added to the end is added to the end of what is left, too.
LEMMA TailLast ==
    ASSUME NEW S, NEW s \in Seq(S), NEW a \in S, NEW m \in Nat, m <= Len(s)
    PROVE  SubSeq(Append(s, a), m + 1, Len(Append(s, a)))
              = Append(SubSeq(s, m + 1, Len(s)), a)
<1> DEFINE n == Len(s)
           c == Append(s, a)
           x == SubSeq(c, m + 1, Len(c))
           y == SubSeq(s, m + 1, Len(s))
           z == Append(y, a)
<1>1. /\ n \in Nat /\ c \in Seq(S) /\ Len(c) = n + 1 /\ c[n + 1] = a
      /\ \A i \in 1..n : c[i] = s[i]
  BY LenProperties, AppendProperties
<1>2. y \in Seq(S) /\ Len(y) = n - m /\ At(s, m, y)
  BY Dropped
<1> HIDE DEF c
<1>3. x \in Seq(S) /\ Len(x) = Len(c) - m /\ At(c, m, x)
  <2>1. m <= Len(c)
    BY <1>1
  <2> QED BY <1>1, <2>1, Dropped
<1> HIDE DEF x, y
<1>4. /\ z \in Seq(S) /\ Len(z) = Len(y) + 1 /\ z[Len(y) + 1] = a
      /\ \A i \in 1..Len(y) : z[i] = y[i]
  BY <1>2, AppendProperties
<1> HIDE DEF z, n
<1>5. ASSUME NEW i \in 1..Len(x) PROVE x[i] = z[i]
  <2>1. c[m + i] = x[i]
    BY <1>3 DEF At
  <2>2. CASE i = Len(y) + 1
    <3>1. m + i = n + 1
      BY <1>1, <1>2, <2>2
    <3> QED BY <1>1, <1>4, <2>1, <2>2, <3>1
  <2>3. CASE i # Len(y) + 1
    <3>1. i \in 1..Len(y) /\ m + i \in 1..n
      BY <1>1, <1>2, <1>3, <2>3
    <3>2. s[m + i] = y[i]
      BY <1>2, <3>1 DEF At
    <3> QED BY <1>1, <1>4, <2>1, <3>1, <3>2
  <2> QED BY <2>2, <2>3
<1>6. Len(x) = Len(z)
  BY <1>1, <1>2, <1>3, <1>4
<1>7. x = z
  BY <1>3, <1>4, <1>5, <1>6, SeqEqual
<1> QED BY <1>7 DEF x, y, z, c

\* What is added to the end of the pieces is added to the end of the whole.
LEMMA FlattenSnoc ==
    ASSUME NEW S, NEW ws \in Seq(Seq(S)), NEW w \in Seq(S)
    PROVE  FlattenSeq(Append(ws, w)) = FlattenSeq(ws) \o w
<1> DEFINE n == Len(ws)
           p == Append(ws, w)
<1>1. /\ n \in Nat /\ p \in Seq(Seq(S)) /\ Len(p) = n + 1 /\ p[n + 1] = w
      /\ \A i \in 1..n : p[i] = ws[i]
  BY LenProperties, AppendProperties
<1> HIDE DEF p
<1>2. PICK f \in [0..n -> Seq(S)] :
         /\ f[0] = <<>> /\ \A i \in 1..n : f[i] = f[i - 1] \o ws[i]
         /\ FlattenSeq(ws) = f[n]
  BY FlattenDef
<1>3. PICK g \in [0..Len(p) -> Seq(S)] :
         /\ g[0] = <<>> /\ \A i \in 1..Len(p) : g[i] = g[i - 1] \o p[i]
         /\ FlattenSeq(p) = g[Len(p)]
  BY <1>1, FlattenDef
<1> HIDE DEF n
<1> DEFINE T == {i \in Nat : i <= n => g[i] = f[i]}
<1>4. 0 \in T
  BY <1>1, <1>2, <1>3
<1>5. ASSUME NEW i \in Nat, i \in T PROVE i + 1 \in T
  <2> SUFFICES ASSUME i + 1 <= n PROVE g[i + 1] = f[i + 1]
    OBVIOUS
  <2>0. i <= n /\ n \in Nat /\ Len(p) = n + 1
    BY <1>1
  <2>1. i + 1 \in 1..n /\ i + 1 \in 1..Len(p) /\ (i + 1) - 1 = i /\ g[i] = f[i]
    <3>1. g[i] = f[i]
      BY <1>5, <2>0
    <3> HIDE DEF T
    <3> QED BY <2>0, <3>1
  <2>2. f[i + 1] = f[(i + 1) - 1] \o ws[i + 1] /\ g[i + 1] = g[(i + 1) - 1] \o p[i + 1]
    BY <1>2, <1>3, <2>1
  <2>3. p[i + 1] = ws[i + 1]
    BY <1>1, <2>1
  <2> QED BY ONLY <2>1, <2>2, <2>3
<1>6. n \in T
  <2> HIDE DEF T
  <2> QED BY <1>1, <1>4, <1>5, SetInduction
<1>7. g[n] = f[n]
  BY <1>1, <1>6
<1>8. n + 1 \in 1..Len(p) /\ (n + 1) - 1 = n
  BY <1>1
<1>9. g[n + 1] = g[(n + 1) - 1] \o p[n + 1]
  BY <1>3, <1>8
<1>10. g[n + 1] = f[n] \o w
  BY ONLY <1>1, <1>7, <1>8, <1>9
<1> QED BY <1>1, <1>2, <1>3, <1>10 DEF p

\* The DUP flag changes the first byte of a packet and nothing else.
LEMMA FrameDup ==
    ASSUME NEW t \in 0..15, NEW f \in 0..15, NEW n \in Nat, NEW body \in Seq(Byte),
           Len(body) = n
    PROVE  WithDup(Frame(t, f, n, body)) = Frame(t, IF f < 8 THEN f + 8 ELSE f, n, body)
<1> DEFINE e == IF f < 8 THEN f + 8 ELSE f
           w == Frame(t, f, n, body)
           z == Frame(t, e, n, body)
           l == LengthBytes[n]
           d == WithDup(w)
<1>e. e \in 0..15
  OBVIOUS
<1>d. (16 * t + f) % 16 = f /\ (IF f < 8 THEN (16 * t + f) + 8 ELSE 16 * t + f) = 16 * t + e
  OBVIOUS
<1> HIDE DEF e
<1>0. l \in Seq(Byte) /\ Len(l) \in Nat
  BY LengthEncoded, LenProperties DEF Encodes
<1>1. Framed(w, l, t, f, n, body)
  BY FrameShape
<1>2. Framed(z, l, t, e, n, body)
  BY <1>e, FrameShape
<1> HIDE DEF w, z, l
<1>3. w \in Seq(Byte) /\ Len(w) = 1 + Len(l) + n /\ At(w, 1, l) /\ At(w, 1 + Len(l), body)
  BY <1>1 DEF Framed
<1>4. z \in Seq(Byte) /\ Len(z) = 1 + Len(l) + n /\ At(z, 1, l) /\ At(z, 1 + Len(l), body)
  BY <1>2 DEF Framed
<1>5. w[1] = 16 * t + f /\ z[1] = 16 * t + e
  BY <1>1, <1>2 DEF Framed
<1>6. w \in [1..Len(w) -> Byte] /\ Len(w) \in Nat /\ 1 \in 1..Len(w)
  BY <1>0, <1>3, LenProperties
<1>7. (IF w[1] % 16 < 8 THEN w[1] + 8 ELSE w[1]) = z[1]
  BY ONLY <1>5, <1>d
<1>8. z[1] \in Byte
  <2>1. 1 \in 1..Len(z)
    BY <1>0, <1>4
  <2> QED BY <1>4, <2>1, ElementOfSeq
<1>9. d \in [1..Len(w) -> Byte] /\ d[1] = z[1] /\ \A i \in 1..Len(w) : i # 1 => d[i] = w[i]
  BY <1>6, <1>7, <1>8 DEF WithDup
<1>10. z \in [1..Len(w) -> Byte]
  <2>1. z \in [1..Len(z) -> Byte]
    BY <1>4, LenProperties
  <2> QED BY <2>1, <1>3, <1>4
<1> HIDE DEF d
<1>11. ASSUME NEW i \in 1..Len(w) PROVE d[i] = z[i]
  <2>1. CASE i = 1
    BY <1>9, <2>1
  <2>2. CASE i # 1 /\ i <= 1 + Len(l)
    <3>1. i - 1 \in 1..Len(l) /\ 1 + (i - 1) = i
      BY <1>0, <1>6, <2>2
    <3>2. w[1 + (i - 1)] = l[i - 1] /\ z[1 + (i - 1)] = l[i - 1]
      BY <1>3, <1>4, <3>1 DEF At
    <3> QED BY <1>9, <2>2, <3>1, <3>2
  <2>3. CASE i > 1 + Len(l)
    <3> DEFINE j == i - (1 + Len(l))
    <3>1. j \in 1..Len(body) /\ (1 + Len(l)) + j = i /\ i # 1
      BY <1>0, <1>3, <2>3
    <3> HIDE DEF j
    <3>2. w[(1 + Len(l)) + j] = body[j] /\ z[(1 + Len(l)) + j] = body[j]
      BY <1>3, <1>4, <3>1 DEF At
    <3> QED BY <1>9, <3>1, <3>2
  <2> QED BY <1>0, <1>6, <2>1, <2>2, <2>3
<1>12. d = z
  BY <1>9, <1>10, <1>11
<1> QED BY <1>12 DEF d, w, z, e

-----------------------------------------------------------------------------
(* The bytes of a request, for the first time and again.                    *)

\* A request of the application that fits in the protocol.
Accepted(r) == r \in All /\ PackError(r) = "MQTT_OK"

\* The bytes of a request: a QoS 1 PUBLISH that is in S was sent before, and has the DUP
\* flag.
Form(r, S) == IF Qos1(r) /\ r \in S THEN WithDup(Pack(r)) ELSE Pack(r)

\* These bytes are one packet, with the flags g and the n bytes of body after the header.
Carries(r, S, g, n, body) ==
    /\ Form(r, S) = Frame(r.type, g, n, body)
    /\ n \in Nat /\ n < Weight[MaxLenBytes] /\ body \in Seq(Byte) /\ Len(body) = n
    /\ r.type \in 0..15 /\ g \in 0..15
    /\ BrokerReadsAs(r.type, g, body) = Meaning(r)
    /\ PackedSize(r) = 1 + Len(LengthBytes[n]) + n
    /\ Qos1(r) => (g > 7 <=> r \in S)

\* The requests of the application.
LEMMA AllRequests == \A r \in All : IsRequest(r) \/ IsConnect(r)
BY SendAssumption DEF All

\* The packed bytes of a request are one packet that says what the request means, with the
\* DUP flag if and only if it is a QoS 1 PUBLISH that was sent before.
LEMMA FormCarries ==
    ASSUME NEW r, Accepted(r), NEW S
    PROVE  \E g, n, body : Carries(r, S, g, n, body)
<1>1. IsRequest(r) \/ IsConnect(r)
  BY AllRequests DEF Accepted
<1>2. PICK f, n, body : Says(r, f, n, body) /\ n < Weight[MaxLenBytes]
  BY <1>1, PackedSays DEF Accepted
<1>3. /\ Packs(r, f, n, body) /\ r.type \in 0..15 /\ f \in 0..15
      /\ BrokerReadsAs(r.type, f, body) = Meaning(r)
      /\ Qos1(r) => f < 8 /\ BrokerReadsAs(r.type, f + 8, body) = Meaning(r)
  BY <1>2 DEF Says
<1>4. n \in Nat /\ body \in Seq(Byte) /\ Len(body) = n
  BY <1>3 DEF Packs
<1>5. Pack(r) = Frame(r.type, f, n, body) /\ PackedSize(r) = 1 + Len(LengthBytes[n]) + n
  BY <1>3, PacksFrame
<1>6. CASE Qos1(r) /\ r \in S
  <2>1. f \in 0..7 /\ f + 8 \in 0..15 /\ f + 8 > 7
    <3>1. f < 8
      BY <1>3, <1>6
    <3> QED BY ONLY <1>3, <3>1
  <2>2. WithDup(Frame(r.type, f, n, body)) = Frame(r.type, f + 8, n, body)
    <3>1. f < 8
      BY <1>3, <1>6
    <3> DEFINE e == r.type
    <3>2. e \in 0..15 /\ f \in 0..15 /\ n \in Nat /\ body \in Seq(Byte) /\ Len(body) = n
      BY <1>3, <1>4
    <3> HIDE DEF e
    <3>3. WithDup(Frame(e, f, n, body)) = Frame(e, IF f < 8 THEN f + 8 ELSE f, n, body)
      BY ONLY <3>2, FrameDup
    <3>4. (IF f < 8 THEN f + 8 ELSE f) = f + 8
      BY ONLY <3>1
    <3>5. WithDup(Frame(e, f, n, body)) = Frame(e, f + 8, n, body)
      BY ONLY <3>3, <3>4
    <3> QED BY <3>5 DEF e
  <2>3. Form(r, S) = Frame(r.type, f + 8, n, body)
    BY <1>5, <1>6, <2>2 DEF Form
  <2>4. Carries(r, S, f + 8, n, body)
    BY <1>2, <1>3, <1>4, <1>5, <1>6, <2>1, <2>3 DEF Carries
  <2> QED BY <2>4
<1>7. CASE ~(Qos1(r) /\ r \in S)
  <2>1. Form(r, S) = Frame(r.type, f, n, body)
    BY <1>5, <1>7 DEF Form
  <2>2. Qos1(r) => (f > 7 <=> r \in S)
    <3>1. f < 8 => ~(f > 7)
      BY ONLY <1>3
    <3> QED BY <1>3, <1>7, <3>1
  <2>3. Carries(r, S, f, n, body)
    BY <1>2, <1>3, <1>4, <1>5, <2>1, <2>2 DEF Carries
  <2> QED BY <2>3
<1> QED BY <1>6, <1>7

\* What Carries says of the bytes.
LEMMA CarriesShape ==
    ASSUME NEW r, NEW S, NEW g, NEW n, NEW body, Carries(r, S, g, n, body)
    PROVE  /\ Form(r, S) \in Seq(Byte) /\ Len(Form(r, S)) = PackedSize(r)
           /\ Len(Form(r, S)) = 1 + Len(LengthBytes[n]) + n
           /\ Len(LengthBytes[n]) \in Nat /\ Len(Form(r, S)) \in Nat /\ Len(Form(r, S)) > 0
           /\ Form(r, S)[1] = 16 * r.type + g
           /\ At(Form(r, S), 1 + Len(LengthBytes[n]), body)
<1> DEFINE w == Form(r, S)
           l == LengthBytes[n]
<1>1. /\ w = Frame(r.type, g, n, body) /\ n \in Nat /\ body \in Seq(Byte) /\ Len(body) = n
      /\ r.type \in 0..15 /\ g \in 0..15 /\ PackedSize(r) = 1 + Len(l) + n
  BY DEF Carries
<1>2. Framed(w, l, r.type, g, n, body)
  BY <1>1, FrameShape
<1>3. l \in Seq(Byte) /\ Len(l) \in Nat
  BY <1>1, LengthEncoded, LenProperties DEF Encodes
<1> HIDE DEF w, l
<1>4. /\ w \in Seq(Byte) /\ Len(w) = 1 + Len(l) + n /\ At(w, 1 + Len(l), body)
      /\ w[1] = 16 * r.type + g
  BY <1>2 DEF Framed
<1>5. Len(w) \in Nat /\ Len(w) > 0
  BY <1>1, <1>3, <1>4
<1> QED BY <1>1, <1>3, <1>4, <1>5 DEF w, l

\* They have the size that was announced.
LEMMA FormShape ==
    ASSUME NEW r, Accepted(r), NEW S
    PROVE  /\ Form(r, S) \in Seq(Byte) /\ Len(Form(r, S)) = PackedSize(r)
           /\ Len(Form(r, S)) \in Nat /\ Len(Form(r, S)) > 0
<1>1. PICK g, n, body : Carries(r, S, g, n, body)
  BY FormCarries
<1> QED BY <1>1, CarriesShape

\* The first byte of a packet has its type and its flags.
LEMMA HeadByte ==
    ASSUME NEW t \in 0..15, NEW g \in 0..15
    PROVE  (16 * t + g) \div 16 = t /\ (16 * t + g) % 16 = g
OBVIOUS

\* Sent leaves a message as it will be sent the next time.
LEMMA FormSent ==
    ASSUME NEW m \in Msg, Accepted(m.req), NEW S, m.bytes = Form(m.req, S)
    PROVE  /\ Sent(m) \in Msg /\ Sent(m).req = m.req
           /\ Sent(m).bytes = Form(m.req, S \cup {m.req})
           /\ Len(Sent(m).bytes) = Len(m.bytes)
<1> DEFINE r == m.req
           b == IF IsQos(m, 1) THEN WithDup(m.bytes) ELSE m.bytes
           s == IF m.req.type \in {4, 7, DISCONNECT} \/ IsQos(m, 0)
                THEN "COMPLETE" ELSE "AWAITING_ACK"
           x == [m EXCEPT !.state = s, !.bytes = b]
<1>1. Sent(m) = x
  BY DEF Sent
<1>3. b = Form(r, S \cup {r})
  <2>1. CASE Qos1(r)
    <3>0. IsQos(m, 1)
      BY <2>1 DEF IsQos, Qos1
    <3>6. CASE r \in S
      <4>1. PICK g, n, body : Carries(r, S, g, n, body)
        BY FormCarries
      <4>2. m.bytes = Frame(r.type, g, n, body)
        BY <4>1 DEF Carries
      <4>3. /\ r.type \in 0..15 /\ g \in 0..15 /\ g > 7 /\ n \in Nat /\ body \in Seq(Byte)
            /\ Len(body) = n
        BY <2>1, <3>6, <4>1 DEF Carries
      <4>4. ~(g < 8)
        BY ONLY <4>3
      <4>5. WithDup(Frame(r.type, g, n, body))
               = Frame(r.type, IF g < 8 THEN g + 8 ELSE g, n, body)
        <5> DEFINE e == r.type
        <5>1. e \in 0..15 /\ g \in 0..15 /\ n \in Nat /\ body \in Seq(Byte) /\ Len(body) = n
          BY <4>3
        <5> HIDE DEF e
        <5>2. WithDup(Frame(e, g, n, body)) = Frame(e, IF g < 8 THEN g + 8 ELSE g, n, body)
          BY ONLY <5>1, FrameDup
        <5> QED BY <5>2 DEF e
      <4>6. (IF g < 8 THEN g + 8 ELSE g) = g
        BY ONLY <4>4
      <4>7. WithDup(m.bytes) = m.bytes
        BY ONLY <4>2, <4>5, <4>6
      <4> QED BY <2>1, <3>0, <3>6, <4>7 DEF Form
    <3>7. CASE r \notin S
      BY <2>1, <3>0, <3>7 DEF Form
    <3> QED BY <3>6, <3>7
  <2>2. CASE ~Qos1(r)
    <3>0. ~IsQos(m, 1)
      BY <2>2 DEF IsQos, Qos1
    <3> QED BY <2>2, <3>0 DEF Form
  <2> QED BY <2>1, <2>2
<1> HIDE DEF b
<1>4. s \in States
  BY DEF States
<1> HIDE DEF s
<1>5. b \in Seq(Byte) /\ Len(b) = Len(m.bytes)
  BY <1>3, FormShape
<1>6. r \in All
  BY DEF Accepted
<1>7. x \in Msg /\ x.req = r /\ x.bytes = b
  BY <1>4, <1>5, <1>6 DEF Msg
<1> QED BY <1>1, <1>3, <1>5, <1>7

\* The bytes depend on S only for the request itself.
LEMMA FormSame ==
    ASSUME NEW r, NEW S, NEW T, r \in S <=> r \in T
    PROVE  Form(r, S) = Form(r, T)
BY DEF Form

-----------------------------------------------------------------------------
(* What the broker makes of the bytes it has.                               *)

\* The broker has the whole packet: it finds where it ends, and what it says.
LEMMA BrokerSees ==
    ASSUME got \in Seq(Byte), NEW r, NEW S, NEW g, NEW n, NEW body, Carries(r, S, g, n, body),
           At(got, 0, Form(r, S))
    PROVE  /\ Whole /\ FrameLen = Len(Form(r, S))
           /\ got[1] \div 16 = r.type /\ got[1] % 16 = g
           /\ SubSeq(got, HeaderLen + 1, FrameLen) = body
<1> DEFINE w == Form(r, S)
           l == LengthBytes[n]
<1>1. /\ w = Frame(r.type, g, n, body) /\ n \in Nat /\ n < Weight[MaxLenBytes]
      /\ body \in Seq(Byte) /\ Len(body) = n /\ r.type \in 0..15 /\ g \in 0..15
  BY DEF Carries
<1>2. /\ w \in Seq(Byte) /\ Len(w) = 1 + Len(l) + n /\ Len(l) \in Nat /\ Len(w) \in Nat
      /\ Len(w) > 0 /\ w[1] = 16 * r.type + g /\ At(w, 1 + Len(l), body)
  BY CarriesShape
<1>3. Len(got) \in Nat
  BY LenProperties
<1>4. At(got, 0, w)
  OBVIOUS
<1> HIDE DEF w
<1>5. 0 + Len(w) <= Len(got) /\ \A i \in 1..Len(w) : got[0 + i] = w[i]
  BY <1>4 DEF At
<1>6. Starts(got, r.type, g, l)
  <2>1. ASSUME NEW i \in Nat \ {0}, i <= Len(got) /\ i <= 1 + Len(l) + n
        PROVE  got[i] = Frame(r.type, g, n, body)[i]
    <3>1. i \in 1..Len(w) /\ 0 + i = i
      BY <1>2, <2>1
    <3> QED BY <1>1, <1>5, <3>1
  <2> QED BY <1>1, <2>1, FrameStarts
<1> HIDE DEF l
<1>7. Len(got) > Len(l)
  BY <1>1, <1>2, <1>3, <1>5
<1>8. HeaderLen = Len(l) + 1
  BY <1>1, <1>6, <1>7, HeaderFound DEF l
<1>9. FrameLen = (Len(l) + 1) + n
  BY <1>1, <1>6, <1>7, LengthFound DEF l
<1>10. FrameLen = Len(w) /\ HeaderLen > 0 /\ Len(got) >= FrameLen
  BY <1>1, <1>2, <1>3, <1>5, <1>8, <1>9
<1>11. got[1] = 16 * r.type + g
  <2>1. 1 \in 1..Len(w) /\ 0 + 1 = 1
    BY <1>2
  <2> QED BY <1>2, <1>5, <2>1
<1>12. got[1] \div 16 = r.type /\ got[1] % 16 = g
  BY <1>1, <1>11, HeadByte
<1>13. SubSeq(got, HeaderLen + 1, FrameLen) = body
  <2> DEFINE o == 1 + Len(l)
  <2>1. o \in Nat /\ 0 + o = o /\ HeaderLen + 1 = o + 1 /\ FrameLen = o + Len(body)
    BY <1>1, <1>2, <1>8, <1>9
  <2>2. At(w, o, body)
    BY <1>2
  <2> HIDE DEF o
  <2>3. At(got, 0 + o, body)
    BY <1>1, <1>2, <1>4, <2>1, <2>2, AtTrans
  <2>4. At(got, o, body)
    BY <2>1, <2>3
  <2>5. SubSeq(got, o + 1, o + Len(body)) = body
    BY <1>1, <2>1, <2>4, AtSlice
  <2> QED BY <2>1, <2>5
<1> QED BY <1>10, <1>12, <1>13 DEF w, Whole

\* The broker has a part of the packet: it goes on reading.
LEMMA BrokerAwaits ==
    ASSUME got \in Seq(Byte), NEW r, NEW S, Accepted(r),
           At(Form(r, S), 0, got), Len(got) < Len(Form(r, S))
    PROVE  ~Whole
<1>0. PICK g, n, body : Carries(r, S, g, n, body)
  BY FormCarries
<1> DEFINE w == Form(r, S)
           l == LengthBytes[n]
<1>1. /\ w = Frame(r.type, g, n, body) /\ n \in Nat /\ n < Weight[MaxLenBytes]
      /\ body \in Seq(Byte) /\ Len(body) = n /\ r.type \in 0..15 /\ g \in 0..15
  BY <1>0 DEF Carries
<1>2. Len(w) = 1 + Len(l) + n /\ Len(l) \in Nat /\ Len(w) \in Nat
  BY <1>0, CarriesShape
<1>3. Len(got) \in Nat
  BY LenProperties
<1>4. At(w, 0, got) /\ Len(got) < Len(w)
  OBVIOUS
<1> HIDE DEF w
<1>5. \A i \in 1..Len(got) : w[0 + i] = got[i]
  BY <1>4 DEF At
<1>6. Starts(got, r.type, g, l)
  <2>1. ASSUME NEW i \in Nat \ {0}, i <= Len(got) /\ i <= 1 + Len(l) + n
        PROVE  got[i] = Frame(r.type, g, n, body)[i]
    <3>1. i \in 1..Len(got) /\ 0 + i = i
      BY <1>3, <2>1
    <3> QED BY <1>1, <1>5, <3>1
  <2> QED BY <1>1, <2>1, FrameStarts
<1> HIDE DEF l
<1>7. CASE Len(got) > Len(l)
  <2>1. FrameLen = (Len(l) + 1) + n
    BY <1>1, <1>6, <1>7, LengthFound DEF l
  <2>2. ~(Len(got) >= FrameLen)
    BY <1>1, <1>2, <1>3, <1>4, <2>1
  <2> QED BY <2>2 DEF Whole
<1>8. CASE ~(Len(got) > Len(l))
  <2>1. HeaderLen = 0
    BY <1>1, <1>6, <1>8, HeaderFound DEF l
  <2> QED BY <2>1 DEF Whole
<1> QED BY <1>7, <1>8

\* The broker has nothing.
LEMMA BrokerIdle ==
    ASSUME got = <<>>
    PROVE  ~Whole
<1> DEFINE ends == {k \in 2..(MaxLenBytes + 1) : k <= Len(got) /\ got[k] < Base}
<1>1. Len(got) = 0
  OBVIOUS
<1>2. ends = {}
  <2> SUFFICES ASSUME NEW k \in 2..(MaxLenBytes + 1), k <= Len(got) PROVE FALSE
    OBVIOUS
  <2>1. MaxLenBytes + 1 \in Nat
    BY CodecAssumption
  <2> QED BY <1>1, <2>1
<1> HIDE DEF ends
<1>3. HeaderLen = 0
  BY <1>2 DEF HeaderLen, ends
<1> QED BY <1>3 DEF Whole

-----------------------------------------------------------------------------
(* The queue.                                                               *)

\* The queue q while the requests of R may still be made and those of SS were sent: the
\* messages fit in the buffer, are of different requests, and hold their packets as they
\* will be sent the next time.
Queueing(q, R, SS) ==
    /\ q \in Seq(Msg) /\ Used(q) <= SendSize
    /\ \A i \in 1..Len(q) :
          q[i].req \notin R /\ Accepted(q[i].req) /\ q[i].bytes = Form(q[i].req, SS)
    /\ \A i, j \in 1..Len(q) : q[i].req = q[j].req => i = j

\* The queue without its first messages.
LEMMA QueueTail ==
    ASSUME NEW q, NEW R, NEW SS, Queueing(q, R, SS), NEW k \in 0..Len(q)
    PROVE  Queueing(SubSeq(q, k + 1, Len(q)), R, SS)
<1> DEFINE p == SubSeq(q, k + 1, Len(q))
<1>1. q \in Seq(Msg) /\ Used(q) <= SendSize /\ Len(q) \in Nat
  BY LenProperties DEF Queueing
<1>2. p \in Seq(Msg) /\ Len(p) = Len(q) - k /\ At(q, k, p)
  <2>1. k \in Nat /\ k <= Len(q)
    BY <1>1
  <2> QED BY <1>1, <2>1, Dropped
<1>3. Used(p) <= Used(q)
  BY <1>1, UsedTail
<1>4. Used(p) \in Nat /\ Used(q) \in Nat
  BY <1>1, <1>2, UsedSum
<1> HIDE DEF p
<1>5. Used(p) <= SendSize
  BY <1>1, <1>3, <1>4, SizesType
<1>6. ASSUME NEW i \in 1..Len(p) PROVE k + i \in 1..Len(q) /\ p[i] = q[k + i]
  <2>1. k + i \in 1..Len(q)
    BY <1>1, <1>2
  <2> QED BY <1>2, <2>1 DEF At
<1>7. ASSUME NEW i \in 1..Len(p), NEW j \in 1..Len(p), p[i].req = p[j].req PROVE i = j
  <2>1. k + i \in 1..Len(q) /\ p[i] = q[k + i] /\ k + j \in 1..Len(q) /\ p[j] = q[k + j]
    BY <1>6
  <2>2. k + i = k + j
    BY <1>7, <2>1 DEF Queueing
  <2> QED BY <1>1, <2>2
<1>8. \A i \in 1..Len(p) :
         p[i].req \notin R /\ Accepted(p[i].req) /\ p[i].bytes = Form(p[i].req, SS)
  BY <1>6 DEF Queueing
<1> QED BY <1>2, <1>5, <1>7, <1>8 DEF Queueing, p

\* With fewer requests to come.
LEMMA QueueFewer ==
    ASSUME NEW q, NEW R, NEW SS, NEW T, Queueing(q, R, SS), T \subseteq R
    PROVE  Queueing(q, T, SS)
BY DEF Queueing

\* mqtt_mq_currsz leaves room for the record.
LEMMA RoomFor ==
    ASSUME NEW u \in Nat, NEW s \in Nat, NEW t \in Nat, NEW c \in Nat, s > 0,
           s <= (IF u + c >= t THEN 0 ELSE t - u - c)
    PROVE  u + (s + c) <= t
OBVIOUS

\* The queue with one more message, for which there is room.
LEMMA QueueAppend ==
    ASSUME NEW q, NEW R, NEW SS, Queueing(q, R, SS), NEW r \in R, Accepted(r), r \notin SS,
           NEW m, m = [req |-> r, bytes |-> Pack(r), state |-> "UNSENT"],
           PackedSize(r) <= curr_sz(q)
    PROVE  Queueing(Append(q, m), R \ {r}, SS)
<1> DEFINE p == Append(q, m)
           n == Len(q)
<1>1. q \in Seq(Msg) /\ Used(q) <= SendSize /\ n \in Nat /\ Used(q) \in Nat
  BY LenProperties, UsedSum DEF Queueing
<1>2. Pack(r) = Form(r, SS)
  BY DEF Form
<1>3. /\ Pack(r) \in Seq(Byte) /\ Len(Pack(r)) = PackedSize(r)
      /\ PackedSize(r) \in Nat /\ PackedSize(r) > 0
  BY <1>2, FormShape
<1>4. m \in Msg /\ m.req = r /\ m.bytes = Pack(r) /\ Len(m.bytes) = PackedSize(r)
  BY <1>3 DEF Msg, States, Accepted
<1>5. /\ p \in Seq(Msg) /\ Len(p) = n + 1 /\ p[n + 1] = m
      /\ \A i \in 1..n : p[i] = q[i]
  BY <1>1, <1>4, AppendProperties
<1>6. Used(p) = Used(q) + (Len(m.bytes) + RecSize)
  BY <1>1, <1>4, UsedAppend
<1>7. Used(q) + (PackedSize(r) + RecSize) <= SendSize
  <2>1. PackedSize(r) <= (IF Used(q) + RecSize >= SendSize THEN 0 ELSE SendSize - Used(q) - RecSize)
    BY DEF curr_sz
  <2> QED BY <1>1, <1>3, <2>1, SizesType, RoomFor
<1> HIDE DEF p, n
<1>8. Used(p) <= SendSize
  BY <1>4, <1>6, <1>7
<1>9. \A i \in 1..n : q[i].req \notin R /\ Accepted(q[i].req) /\ q[i].bytes = Form(q[i].req, SS)
  BY DEF Queueing, n
<1>10. \A i \in 1..n : \A j \in 1..n : q[i].req = q[j].req => i = j
  BY DEF Queueing, n
<1>11. \A i \in 1..Len(p) : i = n + 1 \/ i \in 1..n
  BY <1>1, <1>5
<1>12. ASSUME NEW i \in 1..Len(p)
       PROVE  p[i].req \notin R \ {r} /\ Accepted(p[i].req) /\ p[i].bytes = Form(p[i].req, SS)
  BY <1>2, <1>4, <1>5, <1>9, <1>11
<1>13. ASSUME NEW i \in 1..Len(p), NEW j \in 1..Len(p), p[i].req = p[j].req PROVE i = j
  <2>1. CASE i \in 1..n /\ j \in 1..n
    BY <1>5, <1>10, <1>13, <2>1
  <2>2. CASE i \in 1..n /\ j = n + 1
    BY <1>4, <1>5, <1>9, <1>13, <2>2
  <2>3. CASE i = n + 1 /\ j \in 1..n
    BY <1>4, <1>5, <1>9, <1>13, <2>3
  <2> QED BY <1>11, <2>1, <2>2, <2>3
<1>14. Queueing(p, R \ {r}, SS)
  BY <1>5, <1>8, <1>12, <1>13 DEF Queueing
<1> QED BY <1>14 DEF p

\* MQTT_CLIENT_TRY_PACK keeps it.
LEMMA TryPackKeeps ==
    ASSUME NEW q, NEW R, NEW SS, Queueing(q, R, SS), NEW r \in R, r \in All, r \notin SS
    PROVE  Queueing(TryPack(q, r).queue, R \ {r}, SS)
<1> DEFINE m == [req |-> r, bytes |-> Pack(r), state |-> "UNSENT"]
           c == IF PackedSize(r) <= curr_sz(q) THEN q ELSE mqtt_mq_clean(q)
           d == R \ {r}
<1>1. Packed[r].error = PackError(r) /\ Packed[r].bytes = Pack(r) /\ Packed[r].size = PackedSize(r)
  BY DEF Packed, All
<1>2. q \in Seq(Msg)
  BY DEF Queueing
<1>3. Queueing(c, R, SS)
  <2>1. PICK k \in 0..Len(q) : mqtt_mq_clean(q) = SubSeq(q, k + 1, Len(q))
    BY <1>2, CleanDrops
  <2>2. Queueing(mqtt_mq_clean(q), R, SS)
    BY <2>1, QueueTail
  <2> QED BY <2>2
<1>4. d \subseteq R
  OBVIOUS
<1>5. /\ PackError(r) # "MQTT_OK" => TryPack(q, r).queue = q
      /\ PackError(r) = "MQTT_OK" =>
            TryPack(q, r).queue = IF PackedSize(r) <= curr_sz(c) THEN Append(c, m) ELSE c
  BY <1>1 DEF TryPack
<1> HIDE DEF m, c, d
<1>6. CASE PackError(r) # "MQTT_OK"
  BY <1>4, <1>5, <1>6, QueueFewer DEF d
<1>7. CASE PackError(r) = "MQTT_OK" /\ PackedSize(r) <= curr_sz(c)
  <2>1. Accepted(r)
    BY <1>7 DEF Accepted
  <2>2. Queueing(Append(c, m), R \ {r}, SS)
    BY <1>3, <1>7, <2>1, QueueAppend DEF m
  <2> QED BY <1>5, <1>7, <2>2
<1>8. CASE PackError(r) = "MQTT_OK" /\ ~(PackedSize(r) <= curr_sz(c))
  BY <1>3, <1>4, <1>5, <1>8, QueueFewer DEF d
<1> QED BY <1>6, <1>7, <1>8

\* A message that was sent as a whole.
LEMMA QueueSent ==
    ASSUME NEW q, NEW R, NEW SS, Queueing(q, R, SS), NEW i \in 1..Len(q)
    PROVE  Queueing([q EXCEPT ![i] = Sent(q[i])], R, SS \cup {q[i].req})
<1> DEFINE m == q[i]
           p == [q EXCEPT ![i] = Sent(m)]
           T == SS \cup {m.req}
<1>1. q \in Seq(Msg) /\ Len(q) \in Nat /\ q \in [1..Len(q) -> Msg] /\ Used(q) <= SendSize
  BY LenProperties DEF Queueing
<1>2. m \in Msg
  BY <1>1
<1>3. m.req \notin R /\ Accepted(m.req) /\ m.bytes = Form(m.req, SS)
  BY DEF Queueing
<1> HIDE DEF m
<1>4. /\ Sent(m) \in Msg /\ Sent(m).req = m.req /\ Sent(m).bytes = Form(m.req, T)
      /\ Len(Sent(m).bytes) = Len(m.bytes)
  BY <1>2, <1>3, FormSent
<1>5. /\ p \in [1..Len(q) -> Msg] /\ p[i] = Sent(m)
      /\ \A j \in 1..Len(q) : j # i => p[j] = q[j]
  BY <1>1, <1>4
<1> HIDE DEF p
<1>6. p \in Seq(Msg) /\ Len(p) = Len(q)
  BY <1>1, <1>5
<1>7. Used(p) = Used(q)
  <2>1. \A j \in 1..Len(q) : Len(p[j].bytes) = Len(q[j].bytes)
    BY <1>4, <1>5 DEF m
  <2> QED BY <1>1, <1>6, <2>1, UsedSame
<1>8. \A j \in 1..Len(q) : p[j].req = q[j].req
  BY <1>4, <1>5 DEF m
<1>9. \A j, k \in 1..Len(q) : q[j].req = q[k].req => j = k
  BY DEF Queueing
<1>10. ASSUME NEW j \in 1..Len(q)
       PROVE  p[j].req \notin R /\ Accepted(p[j].req) /\ p[j].bytes = Form(p[j].req, T)
  <2>1. q[j].req \notin R /\ Accepted(q[j].req) /\ q[j].bytes = Form(q[j].req, SS)
    BY DEF Queueing
  <2>2. CASE j = i
    BY <1>3, <1>4, <1>5, <2>2
  <2>3. CASE j # i
    <3>1. q[j].req # m.req
      BY <1>9, <2>3 DEF m
    <3>2. Form(q[j].req, SS) = Form(q[j].req, T)
      BY <3>1, FormSame
    <3> QED BY <1>5, <2>1, <2>3, <3>2
  <2> QED BY <2>2, <2>3
<1>11. Queueing(p, R, T)
  <2> HIDE DEF T
  <2> QED BY <1>1, <1>6, <1>7, <1>8, <1>9, <1>10 DEF Queueing
<1> QED BY <1>11 DEF p, T, m

\* An answered message.
LEMMA QueueAnswered ==
    ASSUME NEW q, NEW R, NEW SS, Queueing(q, R, SS), NEW i \in 1..Len(q)
    PROVE  /\ Queueing([q EXCEPT ![i].state = "COMPLETE"], R, SS)
           /\ Len([q EXCEPT ![i].state = "COMPLETE"]) = Len(q)
<1> DEFINE m == q[i]
           a == [m EXCEPT !.state = "COMPLETE"]
           p == [q EXCEPT ![i].state = "COMPLETE"]
<1>1. q \in Seq(Msg) /\ Len(q) \in Nat /\ q \in [1..Len(q) -> Msg] /\ Used(q) <= SendSize
  BY LenProperties DEF Queueing
<1>2. m \in Msg
  BY <1>1
<1>3. a \in Msg /\ a.req = m.req /\ a.bytes = m.bytes
  <2> HIDE DEF m
  <2> QED BY <1>2 DEF Msg, States
<1>4. /\ p \in [1..Len(q) -> Msg] /\ p[i] = a
      /\ \A j \in 1..Len(q) : j # i => p[j] = q[j]
  BY <1>1, <1>3
<1> HIDE DEF p, a
<1>5. p \in Seq(Msg) /\ Len(p) = Len(q)
  BY <1>1, <1>4
<1>6. \A j \in 1..Len(q) : p[j].req = q[j].req /\ p[j].bytes = q[j].bytes
  BY <1>3, <1>4
<1>7. Used(p) = Used(q)
  BY <1>1, <1>5, <1>6, UsedSame
<1>8. Queueing(p, R, SS)
  BY <1>1, <1>5, <1>6, <1>7 DEF Queueing
<1> QED BY <1>5, <1>8 DEF p

-----------------------------------------------------------------------------
(* What was sent.                                                           *)

\* The requests s were sent, in this order.
Sendings(s) == s \in Seq(All) /\ \A k \in 1..Len(s) : Accepted(s[k])

\* The requests among the first k - 1 of s, and those of s.
Before(s, k) == {s[j] : j \in 1..(k - 1)}
SetOf(s)     == {s[j] : j \in 1..Len(s)}

\* What was written for each of them.
Log(s) == [k \in 1..Len(s) |-> Form(s[k], Before(s, k))]

\* The bytes of all but the first m of them.
Flight(s, m) == FlattenSeq(SubSeq(Log(s), m + 1, Len(Log(s))))

\* What was written, packet by packet.
LEMMA LogShape ==
    ASSUME NEW s, Sendings(s)
    PROVE  /\ Len(s) \in Nat /\ Log(s) \in Seq(Seq(Byte)) /\ Len(Log(s)) = Len(s)
           /\ \A k \in 1..Len(s) : Log(s)[k] = Form(s[k], Before(s, k))
<1>1. Len(s) \in Nat
  BY LenProperties DEF Sendings
<1>2. \A k \in 1..Len(s) : Form(s[k], Before(s, k)) \in Seq(Byte)
  BY FormShape DEF Sendings
<1>3. [k \in 1..Len(s) |-> Form(s[k], Before(s, k))] \in Seq(Seq(Byte))
  BY <1>1, <1>2, IsASeq
<1>4. Log(s) \in Seq(Seq(Byte))
  BY <1>3 DEF Log
<1>5. Len(Log(s)) = Len(s)
  <2>1. DOMAIN Log(s) = 1..Len(s)
    BY DEF Log
  <2>2. DOMAIN Log(s) = 1..Len(Log(s)) /\ Len(Log(s)) \in Nat
    BY <1>4, LenProperties
  <2> HIDE DEF Log
  <2> QED BY <1>1, <2>1, <2>2
<1> QED BY <1>1, <1>4, <1>5 DEF Log

\* One more request was sent.
LEMMA SendingsAppend ==
    ASSUME NEW s, Sendings(s), NEW r, Accepted(r)
    PROVE  /\ Sendings(Append(s, r)) /\ Len(Append(s, r)) = Len(s) + 1
           /\ \A k \in 1..Len(s) : Append(s, r)[k] = s[k]
           /\ Append(s, r)[Len(s) + 1] = r
           /\ SetOf(Append(s, r)) = SetOf(s) \cup {r}
           /\ \A k \in 1..Len(s) : Before(Append(s, r), k) = Before(s, k)
           /\ Before(Append(s, r), Len(s) + 1) = SetOf(s)
<1> DEFINE t == Append(s, r)
           n == Len(s)
<1>1. /\ n \in Nat /\ t \in Seq(All) /\ Len(t) = n + 1 /\ t[n + 1] = r
      /\ \A k \in 1..n : t[k] = s[k]
  <2>1. s \in Seq(All) /\ r \in All
    BY DEF Sendings, Accepted
  <2> QED BY <2>1, LenProperties, AppendProperties
<1> HIDE DEF t
<1>2. \A k \in 1..Len(t) : k = n + 1 \/ k \in 1..n
  BY <1>1
<1>3. Sendings(t)
  BY <1>1, <1>2 DEF Sendings
<1>4. SetOf(t) = SetOf(s) \cup {r}
  <2>1. \A k \in 1..n : k \in 1..Len(t)
    BY <1>1
  <2>2. n + 1 \in 1..Len(t)
    BY <1>1
  <2> QED BY <1>1, <1>2, <2>1, <2>2 DEF SetOf
<1>5. ASSUME NEW k \in 1..n PROVE Before(t, k) = Before(s, k)
  <2>1. \A j \in 1..(k - 1) : j \in 1..n
    BY <1>1
  <2>2. \A j \in 1..(k - 1) : t[j] = s[j]
    BY <1>1, <2>1
  <2> QED BY <2>2 DEF Before
<1>6. Before(t, n + 1) = SetOf(s)
  <2>1. (n + 1) - 1 = n
    BY <1>1
  <2>2. Before(t, n + 1) = {t[j] : j \in 1..n}
    BY <2>1 DEF Before
  <2> QED BY <1>1, <2>2 DEF SetOf
<1> QED BY <1>1, <1>3, <1>4, <1>5, <1>6 DEF t

\* One more packet was written.
LEMMA LogAppend ==
    ASSUME NEW s, Sendings(s), NEW r, Accepted(r)
    PROVE  Log(Append(s, r)) = Append(Log(s), Form(r, SetOf(s)))
<1> DEFINE t == Append(s, r)
           n == Len(s)
           w == Form(r, SetOf(s))
           x == Append(Log(s), w)
<1>1. /\ Sendings(t) /\ Len(t) = n + 1 /\ t[n + 1] = r
      /\ \A k \in 1..n : t[k] = s[k] /\ Before(t, k) = Before(s, k)
      /\ Before(t, n + 1) = SetOf(s)
  BY SendingsAppend
<1>2. /\ n \in Nat /\ Log(s) \in Seq(Seq(Byte)) /\ Len(Log(s)) = n
      /\ \A k \in 1..n : Log(s)[k] = Form(s[k], Before(s, k))
  BY LogShape
<1>3. /\ Log(t) \in Seq(Seq(Byte)) /\ Len(Log(t)) = n + 1
      /\ \A k \in 1..(n + 1) : Log(t)[k] = Form(t[k], Before(t, k))
  BY <1>1, LogShape
<1>4. w \in Seq(Byte)
  BY FormShape
<1> HIDE DEF t, w
<1>5. /\ x \in Seq(Seq(Byte)) /\ Len(x) = n + 1 /\ x[n + 1] = w
      /\ \A k \in 1..n : x[k] = Log(s)[k]
  BY <1>2, <1>4, AppendProperties
<1> HIDE DEF x, n
<1>6. ASSUME NEW k \in 1..(n + 1) PROVE Log(t)[k] = x[k]
  <2>1. CASE k = n + 1
    BY <1>1, <1>3, <1>5, <2>1 DEF w
  <2>2. CASE k # n + 1
    <3>1. k \in 1..n
      BY <1>2, <2>2
    <3> QED BY <1>1, <1>2, <1>3, <1>5, <3>1
  <2> QED BY <2>1, <2>2
<1>7. Log(t) = x
  BY <1>3, <1>5, <1>6, SeqEqual
<1> QED BY <1>7 DEF x, t, w

\* What is under way is bytes.
LEMMA FlightType ==
    ASSUME NEW s, Sendings(s), NEW m \in 0..Len(s)
    PROVE  Flight(s, m) \in Seq(Byte)
<1>1. Len(s) \in Nat /\ Log(s) \in Seq(Seq(Byte)) /\ Len(Log(s)) = Len(s)
  BY LogShape
<1>2. SubSeq(Log(s), m + 1, Len(Log(s))) \in Seq(Seq(Byte))
  <2>1. m \in Nat /\ m <= Len(Log(s))
    BY <1>1
  <2> QED BY <1>1, <2>1, Dropped
<1> QED BY <1>2, FlattenType DEF Flight

\* The front of what is under way is the next packet.
LEMMA FlightNext ==
    ASSUME NEW s, Sendings(s), NEW m \in Nat, m < Len(s)
    PROVE  /\ m + 1 \in 1..Len(s) /\ Flight(s, m + 1) \in Seq(Byte)
           /\ Flight(s, m) = Form(s[m + 1], Before(s, m + 1)) \o Flight(s, m + 1)
<1> DEFINE w == Form(s[m + 1], Before(s, m + 1))
           ws == SubSeq(Log(s), (m + 1) + 1, Len(Log(s)))
<1>1. /\ Len(s) \in Nat /\ Log(s) \in Seq(Seq(Byte)) /\ Len(Log(s)) = Len(s)
      /\ \A k \in 1..Len(s) : Log(s)[k] = Form(s[k], Before(s, k))
  BY LogShape
<1>2. m + 1 \in 1..Len(s) /\ m + 1 \in 0..Len(s)
  BY <1>1
<1>3. Flight(s, m + 1) \in Seq(Byte)
  BY <1>2, FlightType
<1>4. Log(s)[m + 1] = w
  BY <1>1, <1>2
<1>5. SubSeq(Log(s), m + 1, Len(Log(s))) = <<w>> \o ws
  <2>1. m < Len(Log(s))
    BY <1>1
  <2> QED BY <1>1, <1>4, <2>1, TailFirst
<1>6. ws \in Seq(Seq(Byte))
  <2>1. m + 1 \in Nat /\ m + 1 <= Len(Log(s))
    BY <1>1, <1>2
  <2> QED BY <1>1, <2>1, Dropped
<1>7. w \in Seq(Byte)
  BY <1>2, FormShape DEF Sendings
<1> HIDE DEF w
<1>8. FlattenSeq(<<w>> \o ws) = w \o FlattenSeq(ws)
  <2> HIDE DEF ws
  <2> QED BY <1>6, <1>7, FlattenCons
<1>9. Flight(s, m) = w \o Flight(s, m + 1)
  <2>1. FlattenSeq(ws) = Flight(s, m + 1)
    BY DEF Flight
  <2> QED BY <1>5, <1>8, <2>1 DEF Flight
<1> QED BY <1>2, <1>3, <1>9 DEF w

\* When all packets are understood no whole packet is under way.
LEMMA FlightNone ==
    ASSUME NEW s, Sendings(s)
    PROVE  Flight(s, Len(s)) = <<>>
<1>1. Len(s) \in Nat /\ Len(Log(s)) = Len(s)
  BY LogShape
<1>2. SubSeq(Log(s), Len(s) + 1, Len(Log(s))) = <<>>
  BY <1>1, SubSeqEmpty
<1> QED BY <1>2, FlattenEmpty DEF Flight

\* One more packet was written.
LEMMA FlightLast ==
    ASSUME NEW s, Sendings(s), NEW r, Accepted(r), NEW m \in 0..Len(s)
    PROVE  Flight(Append(s, r), m) = Flight(s, m) \o Form(r, SetOf(s))
<1> DEFINE w == Form(r, SetOf(s))
           l == Log(s)
           ws == SubSeq(l, m + 1, Len(l))
<1>1. Len(s) \in Nat /\ l \in Seq(Seq(Byte)) /\ Len(l) = Len(s)
  BY LogShape
<1>2. Log(Append(s, r)) = Append(l, w)
  BY LogAppend
<1>3. w \in Seq(Byte)
  BY FormShape
<1>4. m \in Nat /\ m <= Len(l)
  BY <1>1
<1> HIDE DEF w, l
<1>5. SubSeq(Append(l, w), m + 1, Len(Append(l, w))) = Append(ws, w)
  BY <1>1, <1>3, <1>4, TailLast
<1>6. ws \in Seq(Seq(Byte))
  BY <1>1, <1>4, Dropped
<1> HIDE DEF ws
<1>7. FlattenSeq(Append(ws, w)) = FlattenSeq(ws) \o w
  BY <1>3, <1>6, FlattenSnoc
<1>8. Flight(Append(s, r), m) = FlattenSeq(Append(ws, w))
  BY <1>2, <1>5 DEF Flight
<1>9. Flight(s, m) = FlattenSeq(ws)
  BY DEF Flight, ws, l
<1> QED BY <1>7, <1>8, <1>9 DEF w

-----------------------------------------------------------------------------
(* The invariant, and the steps.                                            *)

\* The bytes of the message in hand that are written.
Partial(q, p) == IF p.at = "send" THEN SubSeq(q[p.i].bytes, 1, p.off) ELSE <<>>

Understandings == [dup : BOOLEAN, what : {Meaning(r) : r \in All}]

\* __mqtt_send is at a message of the queue that it has not written to the end.
PcOK(q, p) ==
    /\ p \in [at : {"rest", "send"}, i : Nat, off : Nat]
    /\ p.at = "rest" => p.i = 0 /\ p.off = 0
    /\ p.at = "send" => p.i \in 1..Len(q) /\ p.off < Len(q[p.i].bytes)

Types ==
    /\ PcOK(queue, pc)
    /\ sock \in Seq(Byte) /\ Len(sock) <= SockSize /\ got \in Seq(Byte)
    /\ received \in Seq(Understandings) /\ link \in BOOLEAN
    /\ left \in [requests : SUBSET Requests, resends : 0..MaxResends, conns : Nat]

\* What was sent is not to be requested again in this connection.
Unsent(s, R) == \A k \in 1..Len(s) : s[k] \notin R

\* While the connection stands, the bytes the broker has and those in the socket are the
\* packets sent and not yet understood, and the front of the one in hand.
UnderWay == link => got \o sock = Flight(sent, Len(received)) \o Partial(queue, pc)

\* The broker has understood the first Len(rs) of the requests s, each with its DUP flag.
Heard(rs, s) ==
    /\ Len(rs) <= Len(s)
    /\ \A k \in 1..Len(rs) :
          /\ rs[k].what = Meaning(s[k])
          /\ Qos1(s[k]) => (rs[k].dup <=> s[k] \in Before(s, k))

IInv ==
    /\ Types
    /\ Queueing(queue, left.requests, SetOf(sent)) /\ Sendings(sent)
    /\ Unsent(sent, left.requests) /\ UnderWay /\ Heard(received, sent)

AtRest == [at |-> "rest", i |-> 0, off |-> 0]

\* At rest nothing is half written.
LEMMA RestOK == ASSUME NEW q PROVE PcOK(q, AtRest) /\ Partial(q, AtRest) = <<>>
BY DEF PcOK, Partial, AtRest

\* Before the first byte of a message nothing is half written.
LEMMA FrontOK ==
    ASSUME NEW q, NEW R, NEW SS, Queueing(q, R, SS), NEW i \in 1..Len(q)
    PROVE  LET p == [at |-> "send", i |-> i, off |-> 0] IN PcOK(q, p) /\ Partial(q, p) = <<>>
<1> DEFINE p == [at |-> "send", i |-> i, off |-> 0]
<1>1. p.at = "send" /\ p.i = i /\ p.off = 0
  OBVIOUS
<1>2. Len(q) \in Nat
  BY LenProperties DEF Queueing
<1>3. p \in [at : {"rest", "send"}, i : Nat, off : Nat]
  BY <1>2
<1>4. Accepted(q[i].req) /\ q[i].bytes = Form(q[i].req, SS)
  BY DEF Queueing
<1>5. 0 < Len(q[i].bytes)
  BY <1>4, FormShape
<1>6. SubSeq(q[i].bytes, 1, 0) = <<>>
  BY SubSeqEmpty
<1> HIDE DEF p
<1>7. PcOK(q, p)
  BY <1>1, <1>3, <1>5 DEF PcOK
<1>8. Partial(q, p) = <<>>
  BY <1>1, <1>6 DEF Partial
<1> QED BY <1>7, <1>8 DEF p

\* After a message __mqtt_send is at the next one, or done.
LEMMA FollowingOK ==
    ASSUME NEW q, NEW R, NEW SS, Queueing(q, R, SS), Len(q) = Len(queue), NEW i \in 1..Len(q)
    PROVE  PcOK(q, Following(i)) /\ Partial(q, Following(i)) = <<>>
<1>1. Len(q) \in Nat
  BY LenProperties DEF Queueing
<1>2. CASE i = Len(queue)
  BY <1>2, RestOK DEF Following, AtRest
<1>3. CASE i # Len(queue)
  <2>1. i + 1 \in 1..Len(q)
    BY <1>1, <1>3
  <2> QED BY <1>3, <2>1, FrontOK DEF Following
<1> QED BY <1>2, <1>3

\* A step that moves __mqtt_send between messages.
LEMMA MoveKeeps ==
    ASSUME IInv, UNCHANGED <<queue, sock, got, received, sent, link, left>>,
           PcOK(queue, pc'), Partial(queue, pc) = Partial(queue, pc')
    PROVE  IInv'
<1>1. Types'
  BY DEF IInv, Types
<1>2. UnderWay'
  BY DEF IInv, UnderWay
<1> QED BY <1>1, <1>2 DEF IInv

\* A request is staged, or refused.
LEMMA StageKeeps ==
    ASSUME IInv, NEW r \in Requests, Stage(r)
    PROVE  IInv'
<1> DEFINE R == left.requests
           d == R \ {r}
<1>1. /\ pc.at = "rest" /\ r \in R /\ queue' = TryPack(queue, r).queue
      /\ left' = [left EXCEPT !.requests = @ \ {r}]
      /\ UNCHANGED <<pc, sock, got, received, sent, link>>
  BY DEF Stage
<1>2. /\ left' \in [requests : SUBSET Requests, resends : 0..MaxResends, conns : Nat]
      /\ left'.requests = d
  BY <1>1 DEF IInv, Types
<1>3. r \in All
  BY DEF All
<1>4. r \notin SetOf(sent)
  BY <1>1 DEF IInv, Unsent, SetOf
<1>5. Queueing(queue', d, SetOf(sent))
  BY <1>1, <1>3, <1>4, TryPackKeeps DEF IInv
<1>6. pc = AtRest
  BY <1>1 DEF IInv, Types, PcOK, AtRest
<1>7. PcOK(queue', pc') /\ Partial(queue', pc') = Partial(queue, pc)
  BY <1>1, <1>6, RestOK
<1>8. Types'
  BY <1>1, <1>2, <1>7 DEF IInv, Types
<1>9. UnderWay'
  BY <1>1, <1>7 DEF IInv, UnderWay
<1>10. Unsent(sent, d)
  BY DEF IInv, Unsent
<1> HIDE DEF d
<1> QED BY <1>1, <1>2, <1>5, <1>8, <1>9, <1>10 DEF IInv

\* A new connection: nothing is queued, sent or understood.
LEMMA NothingSent ==
    /\ Sendings(<<>>) /\ SetOf(<<>>) = {} /\ Flight(<<>>, 0) = <<>>
    /\ \A R : Unsent(<<>>, R) /\ Queueing(<<>>, R, {})
    /\ Heard(<<>>, <<>>)
<1>1. Len(<<>>) = 0 /\ <<>> \in Seq(All) /\ <<>> \in Seq(Msg)
  BY EmptySeq
<1>2. Sendings(<<>>) /\ SetOf(<<>>) = {}
  BY <1>1 DEF Sendings, SetOf
<1>3. Flight(<<>>, 0) = <<>>
  BY <1>1, <1>2, FlightNone
<1>4. Used(<<>>) = 0
  <2> DEFINE z == [i \in 0..0 |-> 0]
             q == <<>>
  <2>1. IsSum(z, Len(q), Takes(q))
    BY <1>1 DEF IsSum
  <2>2. q \in Seq(Msg) /\ z[Len(q)] = 0
    BY <1>1
  <2> HIDE DEF z, q
  <2>3. Used(q) = 0
    BY <2>1, <2>2, UsedIs
  <2> QED BY <2>3 DEF q
<1>5. \A R : Unsent(<<>>, R) /\ Queueing(<<>>, R, {})
  BY <1>1, <1>4, SizesType DEF Unsent, Queueing
<1>6. Heard(<<>>, <<>>)
  BY <1>1 DEF Heard
<1> QED BY <1>2, <1>3, <1>5, <1>6

\* A CONNECT is not one of the other requests.
LEMMA Apart == \A c \in Connections : c \notin Requests
<1> SUFFICES ASSUME NEW c \in Connections, c \in Requests PROVE FALSE
  OBVIOUS
<1>1. IsConnect(c) /\ IsRequest(c)
  BY SendAssumption
<1> QED BY <1>1 DEF IsConnect, IsRequest, CONNECT, PUBLISH, PUBXXX, SUBSCRIBE, UNSUBSCRIBE,
                    PINGREQ, DISCONNECT

\* The client connects: a new socket and an empty queue with a CONNECT.
LEMMA ConnectKeeps ==
    ASSUME IInv, NEW c \in Connections, Connect(c)
    PROVE  IInv'
<1>1. /\ left.conns > 0 /\ queue' = TryPack(<<>>, c).queue /\ pc' = AtRest
      /\ sock' = <<>> /\ got' = <<>> /\ received' = <<>> /\ sent' = <<>> /\ link' = TRUE
      /\ left' = [requests |-> Requests, resends |-> MaxResends, conns |-> left.conns - 1]
  BY DEF Connect, AtRest
<1> DEFINE R == Requests \cup {c}
<1>2. R \ {c} = Requests
  BY Apart
<1>3. Queueing(queue', Requests, {})
  <2>1. Queueing(<<>>, R, {}) /\ c \in R /\ c \in All /\ c \notin {}
    BY NothingSent DEF All
  <2> HIDE DEF R
  <2>2. Queueing(TryPack(<<>>, c).queue, R \ {c}, {})
    BY <2>1, TryPackKeeps
  <2> QED BY <1>1, <1>2, <2>2
<1>4. left' \in [requests : SUBSET Requests, resends : 0..MaxResends, conns : Nat]
  <2>1. left.conns - 1 \in Nat
    BY <1>1 DEF IInv, Types
  <2>2. MaxResends \in 0..MaxResends
    BY SendAssumption
  <2> QED BY <1>1, <2>1, <2>2
<1>5. PcOK(queue', pc') /\ Partial(queue', pc') = <<>>
  BY <1>1, RestOK
<1>6. /\ sock' \in Seq(Byte) /\ Len(sock') <= SockSize /\ got' \in Seq(Byte)
      /\ received' \in Seq(Understandings) /\ Len(received') = 0
  <2>1. <<>> \in Seq(Byte) /\ <<>> \in Seq(Understandings) /\ Len(<<>>) = 0
    BY EmptySeq
  <2> QED BY <1>1, <2>1, SizesType
<1>7. Types'
  BY <1>1, <1>4, <1>5, <1>6 DEF Types
<1>8. UnderWay'
  <2>1. got' \o sock' = Flight(sent', Len(received')) \o Partial(queue', pc')
    BY <1>1, <1>5, <1>6, NothingSent
  <2> QED BY <2>1 DEF UnderWay
<1>9. left'.requests = Requests
  BY <1>1
<1>10. Queueing(queue', left'.requests, SetOf(sent'))
  BY <1>1, <1>3, <1>9, NothingSent
<1>11. Sendings(sent') /\ Unsent(sent', left'.requests) /\ Heard(received', sent')
  BY <1>1, NothingSent
<1> QED BY <1>7, <1>8, <1>10, <1>11 DEF IInv

\* The invariant holds at the start.
LEMMA InitKeeps == Init => IInv
<1> SUFFICES ASSUME Init PROVE IInv
  OBVIOUS
<1>1. /\ queue = <<>> /\ pc = AtRest
      /\ sock = <<>> /\ got = <<>> /\ received = <<>> /\ sent = <<>> /\ link = FALSE
      /\ left = [requests |-> {}, resends |-> 0, conns |-> MaxConn]
  BY DEF Init, AtRest
<1>2. left \in [requests : SUBSET Requests, resends : 0..MaxResends, conns : Nat]
  <2>1. MaxConn \in Nat /\ 0 \in 0..MaxResends
    BY SendAssumption
  <2> QED BY <1>1, <2>1
<1>3. /\ sock \in Seq(Byte) /\ Len(sock) <= SockSize /\ got \in Seq(Byte)
      /\ received \in Seq(Understandings)
  <2>1. <<>> \in Seq(Byte) /\ <<>> \in Seq(Understandings) /\ Len(<<>>) = 0
    BY EmptySeq
  <2> QED BY <1>1, <2>1, SizesType
<1>4. Types
  BY <1>1, <1>2, <1>3, RestOK DEF Types
<1>5. UnderWay
  BY <1>1 DEF UnderWay
<1> QED BY <1>1, <1>4, <1>5, NothingSent DEF IInv

\* mqtt_sync starts.
LEMMA SyncStartKeeps ==
    ASSUME IInv, SyncStart
    PROVE  IInv'
<1>1. /\ pc.at = "rest" /\ queue # <<>> /\ pc' = [at |-> "send", i |-> 1, off |-> 0]
      /\ UNCHANGED <<queue, sock, got, received, sent, link, left>>
  BY DEF SyncStart
<1>2. Queueing(queue, left.requests, SetOf(sent))
  BY DEF IInv
<1>3. 1 \in 1..Len(queue)
  BY <1>1, <1>2, EmptySeq DEF Queueing
<1>4. pc = AtRest
  BY <1>1 DEF IInv, Types, PcOK, AtRest
<1>5. PcOK(queue, pc') /\ Partial(queue, pc') = <<>>
  BY <1>1, <1>2, <1>3, FrontOK
<1> QED BY <1>1, <1>4, <1>5, RestOK, MoveKeeps

\* A message is not to be sent.
LEMMA SkipKeeps ==
    ASSUME IInv, Skip
    PROVE  IInv'
<1>1. /\ pc.at = "send" /\ pc.off = 0 /\ pc' = Following(pc.i)
      /\ UNCHANGED <<queue, sock, got, received, sent, link, left>>
  BY DEF Skip
<1>2. Queueing(queue, left.requests, SetOf(sent)) /\ pc.i \in 1..Len(queue)
  BY <1>1 DEF IInv, Types, PcOK
<1>3. PcOK(queue, pc') /\ Partial(queue, pc') = <<>>
  BY <1>1, <1>2, FollowingOK
<1>4. Partial(queue, pc) = <<>>
  <2>1. SubSeq(queue[pc.i].bytes, 1, 0) = <<>>
    BY SubSeqEmpty
  <2> QED BY <1>1, <2>1 DEF Partial
<1> QED BY <1>1, <1>3, <1>4, MoveKeeps

\* A broken connection: only the types of what is under way matter.
LEMMA BrokenKeeps ==
    ASSUME IInv, UNCHANGED <<queue, received, sent, left>>, link' = FALSE,
           PcOK(queue, pc'), sock' \in Seq(Byte), Len(sock') <= SockSize, got' \in Seq(Byte)
    PROVE  IInv'
<1>1. Types'
  BY DEF IInv, Types
<1>2. UnderWay'
  BY DEF UnderWay
<1> QED BY <1>1, <1>2 DEF IInv

\* A write fails.
LEMMA WriteFailsKeeps ==
    ASSUME IInv, WriteFails
    PROVE  IInv'
<1>1. /\ ~link /\ pc' = AtRest /\ UNCHANGED <<queue, sock, got, received, sent, link, left>>
  BY DEF WriteFails, AtRest
<1>2. sock' \in Seq(Byte) /\ Len(sock') <= SockSize /\ got' \in Seq(Byte) /\ link' = FALSE
  BY <1>1 DEF IInv, Types
<1> QED BY <1>1, <1>2, RestOK, BrokenKeeps

\* The broker hangs up.
LEMMA HangUpKeeps ==
    ASSUME IInv, HangUp
    PROVE  IInv'
<1>1. /\ link' = FALSE /\ sock' = <<>> /\ got' = <<>>
      /\ UNCHANGED <<queue, pc, received, sent, left>>
  BY DEF HangUp
<1>2. sock' \in Seq(Byte) /\ Len(sock') <= SockSize /\ got' \in Seq(Byte)
  <2>1. <<>> \in Seq(Byte) /\ Len(<<>>) = 0
    BY EmptySeq
  <2> QED BY <1>1, <2>1, SizesType
<1>3. PcOK(queue, pc')
  BY <1>1 DEF IInv, Types
<1> QED BY <1>1, <1>2, <1>3, BrokenKeeps

\* A message is answered.
LEMMA AnsweredKeeps ==
    ASSUME IInv, NEW i \in DOMAIN queue, Answered(i)
    PROVE  IInv'
<1>1. /\ pc.at = "rest" /\ queue' = [queue EXCEPT ![i].state = "COMPLETE"]
      /\ UNCHANGED <<pc, sock, got, received, sent, link, left>>
  BY DEF Answered
<1>2. Queueing(queue, left.requests, SetOf(sent))
  BY DEF IInv
<1>3. i \in 1..Len(queue)
  BY <1>2, LenProperties DEF Queueing
<1>4. Queueing(queue', left.requests, SetOf(sent))
  BY <1>1, <1>2, <1>3, QueueAnswered
<1>5. pc = AtRest
  BY <1>1 DEF IInv, Types, PcOK, AtRest
<1>6. PcOK(queue', pc') /\ Partial(queue', pc') = Partial(queue, pc)
  BY <1>1, <1>5, RestOK
<1>7. Types'
  BY <1>1, <1>6 DEF IInv, Types
<1>8. UnderWay'
  BY <1>1, <1>6 DEF IInv, UnderWay
<1> QED BY <1>1, <1>4, <1>7, <1>8 DEF IInv

\* The broker reads from the socket.
LEMMA BrokerReadsKeeps ==
    ASSUME IInv, BrokerReads
    PROVE  IInv'
<1>1. /\ link /\ got' = got \o sock /\ sock' = <<>>
      /\ UNCHANGED <<queue, pc, received, sent, link, left>>
  BY DEF BrokerReads
<1>2. sock \in Seq(Byte) /\ got \in Seq(Byte)
  BY DEF IInv, Types
<1>3. got \o sock \in Seq(Byte) /\ (got \o sock) \o <<>> = got \o sock
  BY <1>2, ConcatProperties, ConcatEmptySeq
<1>4. <<>> \in Seq(Byte) /\ Len(<<>>) <= SockSize
  BY EmptySeq, SizesType
<1>5. Types'
  BY <1>1, <1>3, <1>4 DEF IInv, Types
<1>6. UnderWay'
  BY <1>1, <1>3 DEF IInv, UnderWay
<1> QED BY <1>1, <1>5, <1>6 DEF IInv

\* The next n bytes after the first k ones.
LEMMA ChunkJoins ==
    ASSUME NEW w \in Seq(Byte), NEW k \in Nat, NEW n \in Nat, k + n <= Len(w)
    PROVE  /\ SubSeq(w, k + 1, k + n) \in Seq(Byte) /\ Len(SubSeq(w, k + 1, k + n)) = n
           /\ SubSeq(w, 1, k) \in Seq(Byte)
           /\ SubSeq(w, 1, k) \o SubSeq(w, k + 1, k + n) = SubSeq(w, 1, k + n)
<1> DEFINE x == SubSeq(w, 1, k)
           y == SubSeq(w, k + 1, k + n)
           z == SubSeq(w, 1, k + n)
<1>1. Len(w) \in Nat
  BY LenProperties
<1>2. x \in Seq(Byte) /\ Len(x) = k /\ \A i \in 1..k : x[i] = w[i]
  <2>1. k <= Len(w)
    BY <1>1
  <2> QED BY <2>1, Split
<1>3. z \in Seq(Byte) /\ Len(z) = k + n /\ \A i \in 1..(k + n) : z[i] = w[i]
  <2>1. k + n \in Nat
    OBVIOUS
  <2> QED BY <2>1, Split
<1>4. y \in Seq(Byte) /\ Len(y) = n /\ \A i \in 1..n : y[i] = w[k + i]
  <2>1. \A i \in (k + 1)..(k + n) : w[i] \in Byte
    <3> SUFFICES ASSUME NEW i \in (k + 1)..(k + n) PROVE w[i] \in Byte
      OBVIOUS
    <3>1. i \in 1..Len(w)
      BY <1>1
    <3> QED BY <3>1, ElementOfSeq
  <2>2. /\ y \in Seq(Byte) /\ Len(y) = (IF k + 1 <= k + n THEN (k + n) - (k + 1) + 1 ELSE 0)
        /\ \A i \in 1..((k + n) - (k + 1) + 1) : y[i] = w[(k + 1) + i - 1]
    BY <2>1, SubSeqProperties
  <2> HIDE DEF y
  <2>3. Len(y) = n
    BY <2>2
  <2>4. \A i \in 1..n : i \in 1..((k + n) - (k + 1) + 1) /\ (k + 1) + i - 1 = k + i
    OBVIOUS
  <2> QED BY <2>2, <2>3, <2>4
<1> HIDE DEF x, y, z
<1>5. /\ x \o y \in Seq(Byte) /\ Len(x \o y) = k + n
      /\ \A i \in 1..(k + n) : (x \o y)[i] = IF i <= k THEN x[i] ELSE y[i - k]
  BY <1>2, <1>4, ConcatProperties
<1>6. ASSUME NEW i \in 1..(k + n) PROVE (x \o y)[i] = z[i]
  <2>1. CASE i <= k
    <3>1. i \in 1..k
      BY <2>1
    <3>2. (x \o y)[i] = x[i]
      BY <1>5, <2>1
    <3> QED BY ONLY <1>2, <1>3, <3>1, <3>2
  <2>2. CASE ~(i <= k)
    <3>1. i - k \in 1..n /\ k + (i - k) = i
      BY <2>2
    <3>2. y[i - k] = w[k + (i - k)]
      BY <1>4, <3>1
    <3> QED BY <1>3, <1>5, <2>2, <3>1, <3>2
  <2> QED BY <2>1, <2>2
<1>7. x \o y = z
  BY <1>3, <1>5, <1>6, SeqEqual
<1> QED BY <1>2, <1>4, <1>7 DEF x, y, z

\* One more request was sent: what was understood stays so.
LEMMA HeardMore ==
    ASSUME NEW rs, NEW s, Heard(rs, s), Sendings(s), NEW r, Accepted(r), Len(rs) \in Nat
    PROVE  Heard(rs, Append(s, r))
<1> DEFINE t == Append(s, r)
<1>1. /\ Len(t) = Len(s) + 1 /\ Len(s) \in Nat
      /\ \A k \in 1..Len(s) : t[k] = s[k] /\ Before(t, k) = Before(s, k)
  BY SendingsAppend, LogShape
<1> HIDE DEF t
<1>2. Len(rs) <= Len(t) /\ \A k \in 1..Len(rs) : k \in 1..Len(s)
  BY <1>1 DEF Heard
<1> QED BY <1>1, <1>2 DEF Heard, t

\* The parts of a write: m is the message in hand, w its bytes, F what was under way
\* before it.
LEMMA WriteKeeps ==
    ASSUME IInv, NEW n \in 1..SockSize, Write(n)
    PROVE  IInv'
<1> DEFINE i == pc.i
           m == queue[i]
           w == m.bytes
           k == pc.off
           c == SubSeq(w, k + 1, k + n)
           r == m.req
           F == Flight(sent, Len(received))
           R == left.requests
<1>1. /\ pc.at = "send" /\ ToSend /\ n <= Len(w) - k /\ n <= SockSize - Len(sock)
      /\ sock' = sock \o c
      /\ left' = [left EXCEPT !.resends = IF m.state = "UNSENT" \/ k > 0 THEN @ ELSE @ - 1]
      /\ UNCHANGED <<got, received, link>>
  BY DEF Write, Chunk
<1>2. /\ k + n = Len(w) => /\ pc' = Following(i) /\ queue' = [queue EXCEPT ![i] = Sent(m)]
                           /\ sent' = Append(sent, r)
      /\ k + n # Len(w) => /\ pc' = [pc EXCEPT !.off = @ + n] /\ queue' = queue
                           /\ sent' = sent
  BY DEF Write
<1>3. Queueing(queue, R, SetOf(sent)) /\ Sendings(sent) /\ Unsent(sent, R) /\ Heard(received, sent)
  BY DEF IInv
<1>4. /\ pc \in [at : {"rest", "send"}, i : Nat, off : Nat] /\ i \in 1..Len(queue)
      /\ k \in Nat /\ k < Len(w)
  BY <1>1 DEF IInv, Types, PcOK
<1>5. m \in Msg /\ r \notin R /\ Accepted(r) /\ w = Form(r, SetOf(sent))
  <2>1. queue \in Seq(Msg)
    BY <1>3 DEF Queueing
  <2> QED BY <1>3, <1>4, <2>1, ElementOfSeq DEF Queueing
<1>6. w \in Seq(Byte) /\ Len(w) \in Nat
  BY <1>5, FormShape
<1>7. /\ sock \in Seq(Byte) /\ Len(sock) <= SockSize /\ got \in Seq(Byte) /\ Len(sock) \in Nat
      /\ received \in Seq(Understandings) /\ Len(received) \in Nat /\ link \in BOOLEAN
      /\ left \in [requests : SUBSET Requests, resends : 0..MaxResends, conns : Nat]
  BY LenProperties DEF IInv, Types
<1>8. link => got \o sock = F \o SubSeq(w, 1, k)
  <2>1. Partial(queue, pc) = SubSeq(w, 1, k)
    BY <1>1 DEF Partial
  <2> QED BY <2>1 DEF IInv, UnderWay
<1>9. F \in Seq(Byte) /\ Len(received) \in 0..Len(sent)
  <2>1. Len(received) \in 0..Len(sent)
    BY <1>3, <1>7, LogShape DEF Heard
  <2> QED BY <1>3, <2>1, FlightType
<1>10. ToSend => pc.off > 0 \/ queue[pc.i].state = "UNSENT" \/ left.resends > 0
  BY DEF ToSend
<1>11. k > 0 \/ m.state = "UNSENT" \/ left.resends > 0
  BY <1>1, <1>10
<1> HIDE DEF m, F
<1>12. k + n <= Len(w) /\ n \in Nat /\ k + n \in Nat
  <2>1. n <= Len(w) - k /\ k \in Nat /\ Len(w) \in Nat /\ n \in Nat
    BY <1>1, <1>4, <1>6, SizesType
  <2> DEFINE z == Len(w)
  <2> HIDE DEF k, w, z
  <2>2. k + n <= z
    BY ONLY <2>1 DEF z
  <2> QED BY ONLY <2>1, <2>2 DEF z
<1>13. /\ c \in Seq(Byte) /\ Len(c) = n /\ SubSeq(w, 1, k) \in Seq(Byte)
       /\ SubSeq(w, 1, k) \o c = SubSeq(w, 1, k + n)
  BY <1>4, <1>6, <1>12, ChunkJoins
<1> HIDE DEF c, k, w
<1>14. /\ left' \in [requests : SUBSET Requests, resends : 0..MaxResends, conns : Nat]
       /\ left'.requests = R
  <2> DEFINE e == IF m.state = "UNSENT" \/ k > 0 THEN left.resends ELSE left.resends - 1
  <2>1. left.resends \in 0..MaxResends /\ MaxResends \in Nat
    BY <1>7, SendAssumption
  <2>2. e \in 0..MaxResends
    <3>1. CASE m.state = "UNSENT" \/ k > 0
      BY <2>1, <3>1
    <3>2. CASE ~(m.state = "UNSENT" \/ k > 0)
      <4>1. left.resends > 0
        BY <1>11, <3>2
      <4>2. left.resends - 1 \in 0..MaxResends
        BY ONLY <2>1, <4>1
      <4> QED BY <3>2, <4>2
    <3> QED BY <3>1, <3>2
  <2>3. left' = [left EXCEPT !.resends = e]
    BY <1>1
  <2> HIDE DEF e
  <2> QED BY <1>7, <2>2, <2>3
<1>15. sock' \in Seq(Byte) /\ Len(sock') <= SockSize
  <2>1. sock' \in Seq(Byte) /\ Len(sock') = Len(sock) + n
    BY <1>1, <1>7, <1>13, ConcatProperties
  <2> QED BY <1>1, <1>7, <1>12, <2>1, SizesType
<1>16. link => got \o sock' = F \o SubSeq(w, 1, k + n)
  <2> SUFFICES ASSUME link PROVE got \o sock' = F \o SubSeq(w, 1, k + n)
    OBVIOUS
  <2> DEFINE x == SubSeq(w, 1, k)
  <2>1. x \in Seq(Byte) /\ got \o sock = F \o x /\ x \o c = SubSeq(w, 1, k + n)
    BY <1>8, <1>13
  <2> HIDE DEF x
  <2>2. (got \o sock) \o c = got \o (sock \o c) /\ (F \o x) \o c = F \o (x \o c)
    BY <1>7, <1>9, <1>13, <2>1, ByteAssoc
  <2> QED BY ONLY <1>1, <2>1, <2>2
<1>17. CASE k + n = Len(w)
  <2>1. /\ pc' = Following(i) /\ queue' = [queue EXCEPT ![i] = Sent(queue[i])]
        /\ sent' = Append(sent, r)
    BY <1>2, <1>17 DEF m
  <2>2. Queueing(queue', R, SetOf(sent) \cup {queue[i].req})
    BY <1>3, <1>4, <2>1, QueueSent
  <2>3. /\ Sendings(sent') /\ Len(sent') = Len(sent) + 1 /\ SetOf(sent') = SetOf(sent) \cup {r}
        /\ \A j \in 1..Len(sent) : sent'[j] = sent[j]
        /\ sent'[Len(sent) + 1] = r
    BY <1>3, <1>5, <2>1, SendingsAppend
  <2>4. Queueing(queue', R, SetOf(sent'))
    BY <2>2, <2>3 DEF m
  <2>5. Len(queue') = Len(queue)
    <3>1. queue \in Seq(Msg) /\ queue' \in Seq(Msg)
      BY <1>3, <2>2 DEF Queueing
    <3>2. DOMAIN queue' = DOMAIN queue
      BY <2>1
    <3> QED BY <3>1, <3>2, LenProperties
  <2>6. PcOK(queue', pc') /\ Partial(queue', pc') = <<>>
    BY <1>4, <2>1, <2>4, <2>5, FollowingOK
  <2>7. Types'
    BY <1>1, <1>7, <1>14, <1>15, <2>6 DEF Types
  <2>8. Unsent(sent', R)
    <3>1. \A j \in 1..Len(sent') : j = Len(sent) + 1 \/ j \in 1..Len(sent)
      BY <1>3, <2>3, LogShape
    <3> QED BY <1>3, <1>5, <2>3, <3>1 DEF Unsent
  <2>9. Heard(received, sent')
    BY <1>3, <1>5, <1>7, <2>1, HeardMore
  <2>10. Flight(sent', Len(received)) = F \o w
    BY <1>3, <1>5, <1>9, <2>1, FlightLast DEF F
  <2>11. SubSeq(w, 1, k + n) = w
    BY <1>6, <1>17, SubSeqFull
  <2>12. (F \o w) \o <<>> = F \o w
    BY <1>6, <1>9, ConcatProperties, ConcatEmptySeq
  <2>13. UnderWay'
    BY <1>1, <1>16, <2>6, <2>10, <2>11, <2>12 DEF UnderWay
  <2> QED BY <1>1, <1>14, <2>3, <2>4, <2>7, <2>8, <2>9, <2>13 DEF IInv
<1>18. CASE k + n # Len(w)
  <2>1. pc' = [pc EXCEPT !.off = @ + n] /\ queue' = queue /\ sent' = sent
    BY <1>2, <1>18
  <2>2. pc' = [pc EXCEPT !.off = k + n]
    BY <2>1 DEF k
  <2>3. /\ pc' \in [at : {"rest", "send"}, i : Nat, off : Nat]
        /\ pc'.at = "send" /\ pc'.i = i /\ pc'.off = k + n
    BY <1>1, <1>4, <1>12, <2>2
  <2>4. k + n < Len(w)
    BY <1>6, <1>12, <1>18
  <2>5. PcOK(queue', pc')
    BY <1>4, <2>1, <2>3, <2>4 DEF PcOK, w, m
  <2>6. Partial(queue', pc') = SubSeq(w, 1, k + n)
    BY <2>1, <2>3 DEF Partial, w, m
  <2>7. Types'
    BY <1>1, <1>7, <1>14, <1>15, <2>5 DEF Types
  <2>8. UnderWay'
    BY <1>1, <1>16, <2>1, <2>6 DEF UnderWay, F
  <2> QED BY <1>1, <1>3, <1>14, <2>1, <2>7, <2>8 DEF IInv
<1> QED BY <1>17, <1>18

\* The broker takes only a packet that was sent as a whole.
LEMMA TakesNext ==
    ASSUME IInv, link, Whole
    PROVE  /\ Len(received) < Len(sent)
           /\ At(got, 0, Form(sent[Len(received) + 1], Before(sent, Len(received) + 1)))
<1> DEFINE m == Len(received)
           F == Flight(sent, m)
           P == Partial(queue, pc)
           x == got \o sock
<1>1. Sendings(sent) /\ Heard(received, sent) /\ Queueing(queue, left.requests, SetOf(sent))
  BY DEF IInv
<1>2. /\ sock \in Seq(Byte) /\ got \in Seq(Byte) /\ m \in Nat /\ Len(sent) \in Nat
      /\ m <= Len(sent)
  BY <1>1, LenProperties, LogShape DEF IInv, Types, Heard
<1>3. x = F \o P
  BY DEF IInv, UnderWay
<1>4. x \in Seq(Byte) /\ At(x, 0, got)
  BY <1>2, AtConcat
<1>5. F \in Seq(Byte)
  <2>1. m \in 0..Len(sent)
    BY <1>2
  <2> QED BY <1>1, <2>1, FlightType
<1>6. \/ P = <<>>
      \/ \E r : /\ Accepted(r) /\ P \in Seq(Byte) /\ At(Form(r, SetOf(sent)), 0, P)
                /\ Len(P) < Len(Form(r, SetOf(sent)))
  <2>1. CASE pc.at # "send"
    BY <2>1 DEF Partial
  <2>2. CASE pc.at = "send"
    <3> DEFINE r == queue[pc.i].req
               w == Form(r, SetOf(sent))
               k == pc.off
    <3>1. /\ pc.i \in 1..Len(queue) /\ k \in Nat /\ k < Len(queue[pc.i].bytes)
      BY <2>2 DEF IInv, Types, PcOK
    <3>2. Accepted(r) /\ queue[pc.i].bytes = w
      BY <1>1, <3>1 DEF Queueing
    <3>3. w \in Seq(Byte) /\ Len(w) \in Nat
      BY <3>2, FormShape
    <3>4. P = SubSeq(w, 1, k) /\ k < Len(w)
      BY <2>2, <3>1, <3>2 DEF Partial
    <3> HIDE DEF w, k, r, P
    <3>5. P \in Seq(Byte) /\ Len(P) = k /\ \A i \in 1..k : P[i] = w[i]
      <4>1. k <= Len(w)
        BY <3>1, <3>3, <3>4
      <4> QED BY <3>1, <3>3, <3>4, <4>1, Split
    <3>6. At(w, 0, P)
      <4>1. 0 + Len(P) <= Len(w)
        BY <3>1, <3>3, <3>4, <3>5
      <4>2. \A i \in 1..Len(P) : w[0 + i] = P[i]
        <5> SUFFICES ASSUME NEW i \in 1..Len(P) PROVE w[0 + i] = P[i]
          OBVIOUS
        <5>1. 0 + i = i /\ i \in 1..k
          BY <3>5
        <5> QED BY <3>5, <5>1
      <4> QED BY <4>1, <4>2 DEF At
    <3> QED BY <3>2, <3>4, <3>5, <3>6 DEF w
  <2> QED BY <2>1, <2>2
<1>7. P \in Seq(Byte)
  BY <1>6, EmptySeq
<1> HIDE DEF F, P, x
<1>8. ASSUME m = Len(sent) PROVE FALSE
  <2>1. F = <<>>
    BY <1>1, <1>8, FlightNone DEF F
  <2>2. x = P
    BY <1>3, <1>7, <2>1, ConcatEmptySeq
  <2>3. At(P, 0, got)
    BY <1>4, <2>2
  <2>4. CASE P = <<>>
    <3>1. Len(got) <= Len(P) /\ Len(P) = 0 /\ Len(got) \in Nat
      BY <1>2, <2>3, <2>4, EmptySeq, LenProperties DEF At
    <3>2. Len(got) = 0
      BY <3>1
    <3>3. got = <<>>
      BY <1>2, <3>2, EmptySeq
    <3> QED BY <3>3, BrokerIdle
  <2>5. CASE P # <<>>
    <3>1. PICK r : /\ Accepted(r) /\ At(Form(r, SetOf(sent)), 0, P)
                   /\ Len(P) < Len(Form(r, SetOf(sent)))
      BY <1>6, <2>5
    <3> DEFINE w == Form(r, SetOf(sent))
    <3>2. w \in Seq(Byte) /\ Len(w) \in Nat
      BY <3>1, FormShape
    <3>3. At(w, 0, P) /\ Len(P) < Len(w)
      BY <3>1
    <3> HIDE DEF w
    <3>4. Len(got) <= Len(P) /\ Len(got) \in Nat /\ Len(P) \in Nat
      BY <1>2, <1>7, <2>3, LenProperties DEF At
    <3>5. At(w, 0 + 0, got)
      <4>1. 0 \in Nat
        OBVIOUS
      <4> QED BY <1>2, <1>7, <2>3, <3>2, <3>3, <4>1, AtTrans
    <3>6. 0 + 0 = 0
      OBVIOUS
    <3>7. At(w, 0, got) /\ Len(got) < Len(w)
      BY <3>2, <3>3, <3>4, <3>5, <3>6
    <3> QED BY <1>2, <3>1, <3>7, BrokerAwaits DEF w
  <2> QED BY <2>4, <2>5
<1>9. m < Len(sent)
  BY <1>2, <1>8
<1> DEFINE r == sent[m + 1]
           w == Form(r, Before(sent, m + 1))
           G == Flight(sent, m + 1)
<1>10. m + 1 \in 1..Len(sent) /\ G \in Seq(Byte) /\ F = w \o G
  BY <1>1, <1>2, <1>9, FlightNext DEF F
<1>11. Accepted(r)
  BY <1>1, <1>10 DEF Sendings
<1>12. w \in Seq(Byte) /\ Len(w) \in Nat
  BY <1>11, FormShape
<1> HIDE DEF w, G
<1>13. x = w \o (G \o P) /\ G \o P \in Seq(Byte)
  <2>1. (w \o G) \o P = w \o (G \o P)
    BY <1>7, <1>10, <1>12, ByteAssoc
  <2>2. G \o P \in Seq(Byte)
    BY <1>7, <1>10, ConcatProperties
  <2> QED BY ONLY <1>3, <1>10, <2>1, <2>2
<1>14. At(x, 0, w)
  <2> DEFINE z == G \o P
  <2>1. z \in Seq(Byte) /\ x = w \o z
    BY <1>13
  <2> HIDE DEF z
  <2> QED BY <1>12, <2>1, AtConcat
<1>15. CASE Len(w) <= Len(got)
  <2>1. At(got, 0, w)
    BY <1>2, <1>4, <1>12, <1>14, <1>15, PrefixOrder
  <2> QED BY <1>9, <2>1 DEF w
<1>16. CASE ~(Len(w) <= Len(got))
  <2>1. Len(got) \in Nat
    BY <1>2, LenProperties
  <2>2. Len(got) < Len(w) /\ Len(got) <= Len(w)
    BY <1>12, <1>16, <2>1
  <2>3. At(w, 0, got)
    BY <1>2, <1>4, <1>12, <1>14, <2>2, PrefixOrder
  <2>4. ~Whole
    BY <1>2, <1>11, <2>2, <2>3, BrokerAwaits DEF w
  <2> QED BY <2>4
<1> QED BY <1>15, <1>16

\* The broker has understood the next request.
LEMMA HeardNext ==
    ASSUME NEW rs \in Seq(Understandings), NEW s, Heard(rs, s), Sendings(s), Len(rs) < Len(s),
           NEW u \in Understandings, u.what = Meaning(s[Len(rs) + 1]),
           Qos1(s[Len(rs) + 1]) =>
              (u.dup <=> s[Len(rs) + 1] \in Before(s, Len(rs) + 1))
    PROVE  Heard(Append(rs, u), s)
<1> DEFINE t == Append(rs, u)
           m == Len(rs)
<1>1. m \in Nat /\ Len(s) \in Nat
  BY LenProperties, LogShape
<1>2. Len(t) = m + 1 /\ t[m + 1] = u /\ \A k \in 1..m : t[k] = rs[k]
  BY AppendProperties
<1> HIDE DEF t
<1>3. Len(t) <= Len(s)
  BY <1>1, <1>2
<1>4. \A k \in 1..Len(t) : k = m + 1 \/ k \in 1..m
  BY <1>1, <1>2
<1>5. ASSUME NEW k \in 1..Len(t)
      PROVE  /\ t[k].what = Meaning(s[k])
             /\ Qos1(s[k]) => (t[k].dup <=> s[k] \in Before(s, k))
  <2>1. CASE k = m + 1
    BY <1>2, <2>1
  <2>2. CASE k \in 1..m
    <3>1. t[k] = rs[k]
      BY <1>2, <2>2
    <3> QED BY <2>2, <3>1 DEF Heard
  <2> QED BY <1>4, <2>1, <2>2
<1>6. Heard(t, s)
  BY <1>3, <1>5 DEF Heard
<1> QED BY <1>6 DEF t

\* The broker takes the packet at the front of what it has.
LEMMA BrokerTakesKeeps ==
    ASSUME IInv, BrokerTakes
    PROVE  IInv'
<1> DEFINE m == Len(received)
           r == sent[m + 1]
           S == Before(sent, m + 1)
           w == Form(r, S)
           G == Flight(sent, m + 1)
           P == Partial(queue, pc)
           b == SubSeq(got, Len(w) + 1, Len(got))
           u == [dup |-> got[1] \div 16 = PUBLISH /\ got[1] % 16 > 7,
                 what |-> BrokerReadsAs(got[1] \div 16, got[1] % 16,
                                        SubSeq(got, HeaderLen + 1, FrameLen))]
<1>1. /\ link /\ Whole /\ received' = Append(received, u)
      /\ got' = SubSeq(got, FrameLen + 1, Len(got))
      /\ UNCHANGED <<queue, pc, sock, sent, link, left>>
  BY DEF BrokerTakes, TakesFrame
<1>2. m < Len(sent) /\ At(got, 0, w)
  BY <1>1, TakesNext
<1>3. Sendings(sent) /\ Heard(received, sent)
  BY DEF IInv
<1>4. /\ sock \in Seq(Byte) /\ got \in Seq(Byte) /\ m \in Nat /\ Len(got) \in Nat
      /\ received \in Seq(Understandings)
  BY LenProperties DEF IInv, Types
<1>5. m + 1 \in 1..Len(sent) /\ G \in Seq(Byte) /\ Flight(sent, m) = w \o G
  BY <1>2, <1>3, <1>4, FlightNext
<1>6. Accepted(r)
  BY <1>3, <1>5 DEF Sendings
<1>7. PICK g, n, body : Carries(r, S, g, n, body)
  BY <1>6, FormCarries
<1>8. /\ FrameLen = Len(w) /\ got[1] \div 16 = r.type /\ got[1] % 16 = g
      /\ SubSeq(got, HeaderLen + 1, FrameLen) = body
  BY <1>2, <1>4, <1>7, BrokerSees
<1>9. /\ BrokerReadsAs(r.type, g, body) = Meaning(r) /\ (Qos1(r) => (g > 7 <=> r \in S))
  BY <1>7 DEF Carries
<1>10. u.what = Meaning(r) /\ (Qos1(r) => (u.dup <=> r \in S)) /\ u \in Understandings
  <2>1. u.what = Meaning(r)
    BY <1>8, <1>9
  <2>2. u.dup <=> (r.type = PUBLISH /\ g > 7)
    BY <1>8
  <2>3. Qos1(r) => (u.dup <=> r \in S)
    BY <1>9, <2>2 DEF Qos1
  <2>4. u \in Understandings
    <3>1. r \in All
      BY <1>6 DEF Accepted
    <3>2. u.dup \in BOOLEAN
      OBVIOUS
    <3>3. u = [dup |-> u.dup, what |-> u.what]
      OBVIOUS
    <3> HIDE DEF u
    <3> QED BY <2>1, <3>1, <3>2, <3>3 DEF Understandings
  <2> QED BY <2>1, <2>3, <2>4
<1> HIDE DEF u
<1>11. Heard(received', sent)
  BY <1>1, <1>2, <1>3, <1>4, <1>10, HeardNext
<1>12. received' \in Seq(Understandings) /\ Len(received') = m + 1
  BY <1>1, <1>4, <1>10, AppendProperties
<1>13. w \in Seq(Byte) /\ Len(w) \in Nat
  BY <1>6, FormShape
<1>14. got' = b
  BY <1>1, <1>8
<1>15. P \in Seq(Byte)
  <2>1. CASE pc.at # "send"
    BY <2>1, EmptySeq DEF Partial
  <2>2. CASE pc.at = "send"
    <3>1. pc.i \in 1..Len(queue) /\ pc.off \in Nat /\ pc.off < Len(queue[pc.i].bytes)
      BY <2>2 DEF IInv, Types, PcOK
    <3>2. queue[pc.i].bytes \in Seq(Byte)
      <4>1. queue \in Seq(Msg)
        BY DEF IInv, Queueing
      <4> QED BY <3>1, <4>1, MsgFields
    <3> DEFINE v == queue[pc.i].bytes
               k == pc.off
    <3>3. k <= Len(v) /\ k \in Nat /\ v \in Seq(Byte)
      BY <3>1, <3>2, LenProperties
    <3>4. P = SubSeq(v, 1, k)
      BY <2>2 DEF Partial
    <3> HIDE DEF v, k, P
    <3> QED BY <3>3, <3>4, Split
  <2> QED BY <2>1, <2>2
<1>16. got \o sock = (w \o G) \o P
  BY <1>1, <1>5 DEF IInv, UnderWay
<1> HIDE DEF w, G, P
<1>17. 0 + Len(w) <= Len(got)
  BY <1>2 DEF At
<1>18. b \in Seq(Byte) /\ b \o sock = G \o P
  <2> DEFINE c == G \o P
             y == b \o sock
             z == got \o sock
  <2>1. Len(w) <= Len(got)
    BY <1>4, <1>13, <1>17
  <2>2. b \in Seq(Byte)
    BY <1>4, <1>13, <2>1, Dropped
  <2>3. c \in Seq(Byte) /\ z \in Seq(Byte) /\ y \in Seq(Byte)
    BY <1>4, <1>5, <1>15, <2>2, ConcatProperties
  <2>4. z = w \o c
    <3>1. (w \o G) \o P = w \o (G \o P)
      BY <1>5, <1>13, <1>15, ByteAssoc
    <3> QED BY ONLY <1>16, <3>1
  <2>5. At(w \o c, 0, got \o sock)
    <3>1. At(z, 0, z)
      BY <2>3, PrefixSelf
    <3> QED BY ONLY <2>4, <3>1
  <2> HIDE DEF c
  <2>6. /\ At(c, 0, SubSeq(got, Len(w) + 1, Len(got)) \o sock)
        /\ Len(SubSeq(got, Len(w) + 1, Len(got)) \o sock) = Len(got \o sock) - Len(w)
        /\ Len(c) = Len(w \o c) - Len(w)
    BY <1>4, <1>13, <2>1, <2>3, <2>5, Advance
  <2>7. At(c, 0, y) /\ Len(y) = Len(z) - Len(w) /\ Len(c) = Len(w \o c) - Len(w)
    BY <2>6
  <2> HIDE DEF y, z, b
  <2>8. Len(y) = Len(c)
    BY ONLY <2>4, <2>7
  <2>9. y = c
    BY <2>3, <2>7, <2>8, PrefixEqual
  <2> QED BY <2>2, <2>9 DEF c, y
<1>19. Types'
  BY <1>1, <1>12, <1>14, <1>18 DEF IInv, Types
<1>20. UnderWay'
  <2>1. got' \o sock' = Flight(sent', Len(received')) \o Partial(queue', pc')
    BY <1>1, <1>12, <1>14, <1>18 DEF G, P
  <2> QED BY <2>1 DEF UnderWay
<1> QED BY <1>1, <1>11, <1>19, <1>20 DEF IInv

\* Every step keeps the invariant.
LEMMA NextKeeps == IInv /\ [Next]_vars => IInv'
<1> SUFFICES ASSUME IInv, [Next]_vars PROVE IInv'
  OBVIOUS
<1>1. ASSUME NEW c \in Connections, Connect(c) PROVE IInv'
  BY <1>1, ConnectKeeps
<1>2. ASSUME NEW r \in Requests, Stage(r) PROVE IInv'
  BY <1>2, StageKeeps
<1>3. CASE SyncStart
  BY <1>3, SyncStartKeeps
<1>4. CASE Skip
  BY <1>4, SkipKeeps
<1>5. CASE WriteFails
  BY <1>5, WriteFailsKeeps
<1>6. ASSUME NEW n \in 1..SockSize, Write(n) PROVE IInv'
  BY <1>6, WriteKeeps
<1>7. ASSUME NEW i \in DOMAIN queue, Answered(i) PROVE IInv'
  BY <1>7, AnsweredKeeps
<1>8. CASE RecvFails
  BY <1>8 DEF RecvFails, IInv, Types, UnderWay
<1>9. CASE BrokerReads
  BY <1>9, BrokerReadsKeeps
<1>10. CASE BrokerTakes
  BY <1>10, BrokerTakesKeeps
<1>11. CASE HangUp
  BY <1>11, HangUpKeeps
<1>12. CASE UNCHANGED vars
  BY <1>12 DEF vars, IInv, Types, UnderWay
<1> QED BY <1>1, <1>2, <1>3, <1>4, <1>5, <1>6, <1>7, <1>8, <1>9, <1>10, <1>11, <1>12
        DEF Next, __mqtt_send, Broker

\* The inductive invariant: while a connection stands, the bytes the broker has and those in
\* the socket are the packets that were sent as a whole and are not understood yet, and the
\* front of the one in hand; and every queued message holds its packet as it will be sent
\* the next time.
THEOREM SendInductive == Spec => []IInv
BY InitKeeps, NextKeeps, PTL DEF Spec

-----------------------------------------------------------------------------
(* The properties.                                                          *)

\* The invariant gives the types.
LEMMA InductiveTypes == IInv => TypeOK
<1> SUFFICES ASSUME IInv PROVE TypeOK
  OBVIOUS
<1>1. /\ Queueing(queue, left.requests, SetOf(sent)) /\ PcOK(queue, pc)
      /\ sock \in Seq(Byte) /\ Len(sock) <= SockSize /\ got \in Seq(Byte) /\ link \in BOOLEAN
      /\ left \in [requests : SUBSET Requests, resends : 0..MaxResends, conns : Nat]
  BY DEF IInv, Types
<1>2. queue \in Seq(Msg) /\ Used(queue) <= SendSize
  BY <1>1 DEF Queueing
<1>3. Len(queue) \in Nat /\ DOMAIN queue = 1..Len(queue)
  BY <1>2, LenProperties
<1>4. ASSUME NEW i \in 1..Len(queue)
      PROVE  /\ queue[i].req \in Requests \cup Connections /\ queue[i].bytes \in Seq(Byte)
             /\ queue[i].state \in {"UNSENT", "AWAITING_ACK", "COMPLETE"}
             /\ Len(queue[i].bytes) = Packed[queue[i].req].size
  <2>1. queue[i].req \in All /\ queue[i].bytes \in Seq(Byte) /\ queue[i].state \in States
    BY <1>2, MsgFields
  <2>2. Accepted(queue[i].req) /\ queue[i].bytes = Form(queue[i].req, SetOf(sent))
    BY <1>1 DEF Queueing
  <2>3. Len(queue[i].bytes) = PackedSize(queue[i].req)
    BY <2>2, FormShape
  <2>4. Packed[queue[i].req].size = PackedSize(queue[i].req)
    BY <2>1 DEF Packed, All
  <2> QED BY <2>1, <2>3, <2>4 DEF All, States
<1>5. pc.at \in {"rest", "send"} /\ pc.i \in 0..Len(queue)
  <2>1. pc \in [at : {"rest", "send"}, i : Nat, off : Nat]
    BY <1>1 DEF PcOK
  <2>2. pc.at = "rest" => pc.i = 0
    BY <1>1 DEF PcOK
  <2>3. pc.at = "send" => pc.i \in 1..Len(queue)
    BY <1>1 DEF PcOK
  <2> QED BY <1>3, <2>1, <2>2, <2>3
<1> QED BY <1>1, <1>2, <1>3, <1>4, <1>5 DEF TypeOK

\* It gives what the broker has understood.
LEMMA InductiveUnderstood == IInv => Understood
<1> SUFFICES ASSUME IInv PROVE Understood
  OBVIOUS
<1>1. Heard(received, sent) /\ received \in Seq(Understandings)
  BY DEF IInv, Types
<1>2. DOMAIN received = 1..Len(received)
  BY <1>1, LenProperties
<1> QED BY <1>1, <1>2 DEF Heard, Understood

\* The meaning of a request tells its type.
LEMMA MeaningType == \A r : Meaning(r).type = r.type
BY DEF Meaning, CONNECT, PUBLISH, PUBXXX, SUBSCRIBE, UNSUBSCRIBE

\* The meaning of a PUBLISH.
LEMMA MeaningPublish ==
    ASSUME NEW r, r.type = PUBLISH
    PROVE  Meaning(r) = [type |-> PUBLISH, flags |-> r.flags % 8, topic |-> r.topic,
                         pid |-> IF QosOf(r.flags) > 0 THEN r.pid ELSE 0, data |-> r.data]
BY DEF Meaning, CONNECT, PUBLISH, PUBXXX, SUBSCRIBE, UNSUBSCRIBE

\* A PUBLISH of the application: a QoS 1 message is given without the DUP flag.
LEMMA PublishRequest ==
    ASSUME NEW r \in All, r.type = PUBLISH
    PROVE  /\ r = Packet(PUBLISH, r.flags, r.pid, r.topic, r.data) /\ r.flags \in 0..15
           /\ (QosOf(r.flags) = 1 => r.flags < 8)
BY AllRequests DEF IsRequest, IsConnect, CONNECT, PUBLISH, PUBXXX, SUBSCRIBE, UNSUBSCRIBE,
                   PINGREQ, DISCONNECT

\* The meaning of a QoS 1 PUBLISH tells the request.
LEMMA MeaningTells ==
    ASSUME NEW a \in All, NEW b \in All, Meaning(a) = Meaning(b), Qos1(a)
    PROVE  a = b
<1>1. a.type = PUBLISH /\ QosOf(a.flags) = 1
  BY DEF Qos1
<1>2. b.type = PUBLISH
  BY <1>1, MeaningType
<1>3. /\ a = Packet(PUBLISH, a.flags, a.pid, a.topic, a.data) /\ a.flags \in 0..15 /\ a.flags < 8
      /\ b = Packet(PUBLISH, b.flags, b.pid, b.topic, b.data) /\ b.flags \in 0..15
      /\ (QosOf(b.flags) = 1 => b.flags < 8)
  BY <1>1, <1>2, PublishRequest
<1>4. /\ a.flags % 8 = b.flags % 8 /\ a.topic = b.topic /\ a.data = b.data
      /\ (IF QosOf(a.flags) > 0 THEN a.pid ELSE 0) = (IF QosOf(b.flags) > 0 THEN b.pid ELSE 0)
  <2> DEFINE x == [type |-> PUBLISH, flags |-> a.flags % 8, topic |-> a.topic,
                   pid |-> IF QosOf(a.flags) > 0 THEN a.pid ELSE 0, data |-> a.data]
             y == [type |-> PUBLISH, flags |-> b.flags % 8, topic |-> b.topic,
                   pid |-> IF QosOf(b.flags) > 0 THEN b.pid ELSE 0, data |-> b.data]
  <2>1. x = y
    BY <1>1, <1>2, MeaningPublish
  <2>2. /\ x.flags = a.flags % 8 /\ x.topic = a.topic /\ x.data = a.data
        /\ x.pid = (IF QosOf(a.flags) > 0 THEN a.pid ELSE 0)
    OBVIOUS
  <2>3. /\ y.flags = b.flags % 8 /\ y.topic = b.topic /\ y.data = b.data
        /\ y.pid = (IF QosOf(b.flags) > 0 THEN b.pid ELSE 0)
    OBVIOUS
  <2> HIDE DEF x, y
  <2> QED BY ONLY <2>1, <2>2, <2>3
<1>5. QosOf(b.flags) = 1
  BY ONLY <1>1, <1>3, <1>4, FlagParts
<1>6. a.flags = b.flags
  <2>1. b.flags < 8
    BY <1>3, <1>5
  <2> QED BY ONLY <1>3, <1>4, <2>1
<1>7. a.pid = b.pid
  <2>1. 1 > 0
    OBVIOUS
  <2> QED BY ONLY <1>1, <1>4, <1>5, <2>1
<1> QED BY ONLY <1>3, <1>4, <1>6, <1>7

\* It gives the DUP flags.
LEMMA InductiveDup == IInv => DupMarked
<1> SUFFICES ASSUME IInv PROVE DupMarked
  OBVIOUS
<1>1. Heard(received, sent) /\ received \in Seq(Understandings) /\ Sendings(sent)
  BY DEF IInv, Types
<1>2. /\ DOMAIN received = 1..Len(received) /\ Len(received) \in Nat /\ Len(sent) \in Nat
      /\ Len(received) <= Len(sent)
  BY <1>1, LenProperties, LogShape DEF Heard
<1> SUFFICES ASSUME NEW k \in 1..Len(received), received[k].what.type = PUBLISH,
                    QosOf(received[k].what.flags) = 1
             PROVE  received[k].dup <=>
                       \E j \in 1..(k - 1) : received[j].what = received[k].what
  BY <1>2 DEF DupMarked
<1>3. ASSUME NEW j \in 1..k
      PROVE  j \in 1..Len(received) /\ sent[j] \in All /\ received[j].what = Meaning(sent[j])
  <2>1. j \in 1..Len(received) /\ j \in 1..Len(sent)
    BY <1>2
  <2> QED BY <1>1, <2>1 DEF Heard, Sendings, Accepted
<1>4. k \in 1..k /\ \A j \in 1..(k - 1) : j \in 1..k
  BY <1>2
<1>5. sent[k].type = PUBLISH
  BY <1>3, <1>4, MeaningType
<1>6. Qos1(sent[k])
  <2>1. received[k].what.flags = sent[k].flags % 8
    BY <1>3, <1>4, <1>5, MeaningPublish
  <2>2. sent[k].flags \in 0..15
    BY <1>3, <1>4, <1>5, PublishRequest
  <2>3. QosOf(sent[k].flags % 8) = QosOf(sent[k].flags)
    BY <2>2, FlagParts
  <2> QED BY <1>5, <2>1, <2>3 DEF Qos1
<1>7. received[k].dup <=> sent[k] \in Before(sent, k)
  BY <1>1, <1>6 DEF Heard
<1>8. sent[k] \in Before(sent, k) <=> \E j \in 1..(k - 1) : sent[j] = sent[k]
  BY DEF Before
<1>9. ASSUME NEW j \in 1..(k - 1)
      PROVE  sent[j] = sent[k] <=> received[j].what = received[k].what
  <2>1. /\ sent[j] \in All /\ received[j].what = Meaning(sent[j])
        /\ sent[k] \in All /\ received[k].what = Meaning(sent[k])
    BY <1>3, <1>4
  <2> QED BY <1>6, <2>1, MeaningTells
<1> QED BY <1>7, <1>8, <1>9

\* The values of the state; the packed messages and their records never take more than the
\* send buffer, and each packing function writes exactly the bytes it has announced.
THEOREM SendTypes == Spec => []TypeOK
BY SendInductive, InductiveTypes, PTL

\* The broker understands exactly the requests that __mqtt_send has sent, in order and with
\* their meaning, however the socket cuts the packets and wherever connections break off.
THEOREM BrokerUnderstands == Spec => []Understood
BY SendInductive, InductiveUnderstood, PTL

\* A QoS 1 PUBLISH has the DUP flag in every transmission but its first one.
THEOREM DupIsMarked == Spec => []DupMarked
BY SendInductive, InductiveDup, PTL
=============================================================================
