----------------------------- MODULE WireProofs -----------------------------
(***************************************************************************)
(* The framing of messages and the bit field, proved: whatever TCP makes   *)
(* of the bytes and however the connection ends, what is received is what  *)
(* was sent, and the bit field has the pieces that were announced, for     *)
(* bytes and numbers of any width, any pieces and any messages.            *)
(*                                                                         *)
(* Numbers in bytes, bytes of bits and powers of two are computed by       *)
(* recursion.  Induction goes through sets here: InductionOn says which    *)
(* sets have all numbers, Recursion that what a recursive definition       *)
(* describes exists, so that CHOOSE finds it.                              *)
(***************************************************************************)
EXTENDS Wire, SequenceTheorems, WellFoundedInduction, TLAPS

-----------------------------------------------------------------------------
(* Induction and recursion.                                                *)

(* A set of natural numbers has a least element.                           *)
LEMMA LeastNat ==
    ASSUME NEW S \in SUBSET Nat, S # {}
    PROVE  \E n \in S : \A m \in S : n <= m
<1>1. \E n \in S : \A m \in S : ~ (<<m, n>> \in OpToRel(<, Nat))
  BY NatLessThanWellFounded, WFMin
<1>2. \A m, n \in S : m < n => <<m, n>> \in OpToRel(<, Nat)
  <2> SUFFICES ASSUME NEW m \in S, NEW n \in S, m < n
               PROVE  <<m, n>> \in OpToRel(<, Nat)
    OBVIOUS
  <2>1. <<m, n>> \in Nat \X Nat /\ <<m, n>>[1] < <<m, n>>[2]
    OBVIOUS
  <2> QED
    BY <2>1, Zenon DEF OpToRel
<1>3. \A m, n \in S : ~ (m < n) => n <= m
  OBVIOUS
<1> QED
  BY <1>1, <1>2, <1>3, Zenon

(* The numbers from 0, all of them or up to one.                           *)
Initial(D) == D \subseteq Nat /\ \A n \in D : n # 0 => n - 1 \in D

(* Induction.                                                              *)
LEMMA InductionOn ==
    ASSUME NEW D, Initial(D), NEW S,
           0 \in D => 0 \in S,
           \A n \in D : n # 0 /\ n - 1 \in S => n \in S
    PROVE  D \subseteq S
<1> SUFFICES ASSUME D \ S # {}
             PROVE  FALSE
  OBVIOUS
<1>1. PICK n \in D \ S : \A m \in D \ S : n <= m
  <2>1. D \ S \in SUBSET Nat
    BY DEF Initial
  <2> QED
    BY <2>1, LeastNat
<1>2. n \in Nat /\ n # 0 /\ n - 1 \in D
  BY <1>1 DEF Initial
<1>3. n - 1 \in S
  BY <1>1, <1>2
<1> QED
  BY <1>1, <1>2, <1>3

(* On D, f has the value base at 0 and then follows step.                  *)
Follows(f, D, base, step) ==
    \A k \in D : f[k] = IF k = 0 THEN base ELSE step[k, f[k - 1]]

(* There is a function that is defined by recursion.                       *)
LEMMA Recursion ==
    ASSUME NEW D, Initial(D), NEW V, NEW base \in V, NEW step \in [D \X V -> V]
    PROVE  \E f \in [D -> V] : Follows(f, D, base, step)
<1> DEFINE Good(f, n) == f \in [0 .. n -> V] /\ Follows(f, 0 .. n, base, step)
           S == {n \in D : \E f : Good(f, n)}
           a(n) == CHOOSE f : Good(f, n)
           g == [n \in D |-> a(n)[n]]
<1>0. D \subseteq Nat /\ \A n \in D : n # 0 => n - 1 \in D
  BY DEF Initial
<1>1. D \subseteq S
  <2>1. 0 \in D => 0 \in S
    <3> SUFFICES ASSUME 0 \in D PROVE \E f : Good(f, 0)
      OBVIOUS
    <3> DEFINE f == [k \in 0 .. 0 |-> base]
    <3>1. Good(f, 0)
      BY DEF Follows
    <3> QED
      BY <3>1
  <2>2. ASSUME NEW n \in D, n # 0, n - 1 \in S
        PROVE  n \in S
    <3>1. PICK f : Good(f, n - 1)
      BY <2>2
    <3>2. n \in Nat /\ n - 1 \in 0 .. n - 1
      BY <1>0, <2>2
    <3> DEFINE h == [k \in 0 .. n |-> IF k = n THEN step[n, f[n - 1]] ELSE f[k]]
    <3>3. f[n - 1] \in V /\ step[n, f[n - 1]] \in V
      BY <3>1, <3>2, <2>2
    <3>3a. \A k \in 0 .. n : k # n => k \in 0 .. n - 1 /\ f[k] \in V
      BY <3>1, <3>2
    <3>4. h \in [0 .. n -> V]
      BY <3>3, <3>3a
    <3>4a. \A k \in 0 .. n : h[k] = IF k = n THEN step[n, f[n - 1]] ELSE f[k]
      OBVIOUS
    <3> HIDE DEF h
    <3>5. ASSUME NEW k \in 0 .. n
          PROVE  h[k] = IF k = 0 THEN base ELSE step[k, h[k - 1]]
      <4>1. CASE k = n
        <5>1. n - 1 \in 0 .. n /\ n - 1 # n
          BY <3>2
        <5>2. h[n - 1] = f[n - 1] /\ h[n] = step[n, f[n - 1]]
          BY <5>1, <3>4a, <4>1
        <5> QED
          BY <4>1, <5>2, <2>2
      <4>2. CASE k # n
        <5>1. k \in 0 .. n - 1 /\ h[k] = f[k]
          BY <3>3a, <3>4a, <4>2
        <5>2. f[k] = IF k = 0 THEN base ELSE step[k, f[k - 1]]
          BY <3>1, <5>1 DEF Follows
        <5>3. k # 0 => h[k - 1] = f[k - 1]
          <6>1. k # 0 => k - 1 \in 0 .. n /\ k - 1 # n
            BY <3>2, <5>1
          <6> QED
            BY <6>1, <3>4a
        <5> QED
          BY <5>1, <5>2, <5>3
      <4> QED
        BY <4>1, <4>2
    <3>6. Good(h, n)
      BY <3>4, <3>5 DEF Follows
    <3> QED
      BY <3>6
  <2> HIDE DEF S
  <2> QED
    BY <2>1, <2>2, InductionOn
<1>2. ASSUME NEW n \in D
      PROVE  a(n) \in [0 .. n -> V] /\ Follows(a(n), 0 .. n, base, step) /\ n \in Nat
  <2>1. \E f : Good(f, n)
    BY <1>1
  <2>2. Good(a(n), n)
    BY <2>1, Zenon
  <2> QED
    BY <2>2, <1>0
<1> HIDE DEF a
(* Two of them agree.                                                      *)
<1>3. ASSUME NEW m \in D, NEW n \in D, m <= n
      PROVE  a(m)[m] = a(n)[m]
  <2>0. m \in Nat /\ n \in Nat
    BY <1>0
  <2> DEFINE E == {k \in 0 .. m : a(m)[k] = a(n)[k]}
             I == 0 .. m
  <2>1. Initial(I) /\ m \in I
    BY <2>0 DEF Initial
  <2>2. 0 \in I => 0 \in E
    <3>1. 0 \in 0 .. m /\ 0 \in 0 .. n
      BY <2>0
    <3>2. a(m)[0] = base /\ a(n)[0] = base
      BY <1>2, <3>1 DEF Follows
    <3> QED
      BY <3>1, <3>2
  <2>3. ASSUME NEW k \in I, k # 0, k - 1 \in E
        PROVE  k \in E
    <3>1. k \in 0 .. m /\ k \in 0 .. n
      BY <2>0, <1>3
    <3>2. a(m)[k] = step[k, a(m)[k - 1]] /\ a(n)[k] = step[k, a(n)[k - 1]]
      BY <1>2, <2>3, <3>1 DEF Follows
    <3> QED
      BY <2>3, <3>1, <3>2
  <2>4. I \subseteq E
    <3> HIDE DEF I, E
    <3> QED
      BY <2>1, <2>2, <2>3, InductionOn
  <2> QED
    BY <2>1, <2>4
<1>4. g \in [D -> V]
  BY <1>2
<1>5. ASSUME NEW n \in D
      PROVE  g[n] = IF n = 0 THEN base ELSE step[n, g[n - 1]]
  <2>1. a(n)[n] = IF n = 0 THEN base ELSE step[n, a(n)[n - 1]]
    <3>1. n \in 0 .. n
      BY <1>2
    <3> QED
      BY <1>2, <3>1 DEF Follows
  <2>2. n # 0 => a(n)[n - 1] = a(n - 1)[n - 1]
    <3> SUFFICES ASSUME n # 0 PROVE a(n)[n - 1] = a(n - 1)[n - 1]
      OBVIOUS
    <3>1. n - 1 \in D /\ n - 1 <= n
      BY <1>0
    <3> QED
      BY <1>3, <3>1
  <2> QED
    BY <1>0, <2>1, <2>2
<1> QED
  BY <1>4, <1>5 DEF Follows

(* Power2 is what its definition says.                                     *)
LEMMA PowerDef ==
    /\ Power2 \in [Nat -> Nat \ {0}]
    /\ Power2[0] = 1
    /\ \A n \in Nat : Power2[n + 1] = 2 * Power2[n]
<1> DEFINE V == Nat \ {0}
           step == [p \in Nat \X V |-> 2 * p[2]]
           Is(f) == f = [n \in Nat |-> IF n = 0 THEN 1 ELSE 2 * f[n - 1]]
<1>1. Initial(Nat) /\ 1 \in V /\ step \in [Nat \X V -> V]
  BY DEF Initial
<1> HIDE DEF step, V
<1>2. PICK f \in [Nat -> V] : Follows(f, Nat, 1, step)
  BY <1>1, Recursion
<1> USE DEF step, V
<1>3. Is(f)
  <2>1. ASSUME NEW n \in Nat, n # 0
        PROVE  step[n, f[n - 1]] = 2 * f[n - 1]
    <3>0. n - 1 \in Nat
      BY <2>1
    <3>1. f[n - 1] \in V
      BY <3>0
    <3> QED
      BY <3>1
  <2> QED
    BY <1>2, <2>1 DEF Follows
<1>4. Power2 = CHOOSE h : Is(h)
  BY DEF Power2
<1>5. Is(Power2)
  BY <1>3, <1>4, Zenon
<1>6. \A n \in Nat : Power2[n] = IF n = 0 THEN 1 ELSE 2 * Power2[n - 1]
  BY <1>5
<1>7. Power2[0] = 1 /\ \A n \in Nat : Power2[n + 1] = 2 * Power2[n]
  <2>1. ASSUME NEW n \in Nat
        PROVE  Power2[n + 1] = 2 * Power2[n]
    <3>1. n + 1 \in Nat /\ n + 1 # 0 /\ (n + 1) - 1 = n
      OBVIOUS
    <3> QED
      BY <1>6, <3>1
  <2> QED
    BY <1>6, <2>1
<1>8. Power2 \in [Nat -> Nat \ {0}]
  <2> DEFINE S == {n \in Nat : Power2[n] \in Nat \ {0}}
  <2>1. 0 \in S
    BY <1>7
  <2>2. ASSUME NEW n \in Nat, n # 0, n - 1 \in S
        PROVE  n \in S
    BY <1>6, <2>2
  <2>3. Nat \subseteq S
    <3> HIDE DEF S
    <3> QED
      BY <1>1, <2>1, <2>2, InductionOn
  <2> QED
    BY <1>5, <2>3
<1> QED
  BY <1>7, <1>8

-----------------------------------------------------------------------------
(* Sums and products of powers, and division.                              *)

(* The power of a sum.                                                     *)
LEMMA PowerSum ==
    ASSUME NEW a \in Nat, NEW b \in Nat
    PROVE  Power2[a + b] = Power2[a] * Power2[b]
<1> DEFINE S == {n \in Nat : Power2[a + n] = Power2[a] * Power2[n]}
<1>1. 0 \in S
  BY PowerDef
<1>2. ASSUME NEW n \in Nat, n # 0, n - 1 \in S
      PROVE  n \in S
  <2>1. /\ n - 1 \in Nat /\ a + (n - 1) \in Nat /\ (a + (n - 1)) + 1 = a + n
        /\ (n - 1) + 1 = n
    BY <1>2
  <2>2. Power2[a + n] = 2 * Power2[a + (n - 1)] /\ Power2[n] = 2 * Power2[n - 1]
    BY <2>1, PowerDef
  <2>3. Power2[a + (n - 1)] = Power2[a] * Power2[n - 1]
    BY <1>2
  <2>4. Power2[a] \in Nat /\ Power2[n - 1] \in Nat
    BY <2>1, PowerDef
  <2>5. 2 * (Power2[a] * Power2[n - 1]) = Power2[a] * (2 * Power2[n - 1])
    BY <2>4
  <2> QED
    BY <2>2, <2>3, <2>5
<1>3. Nat \subseteq S
  <2>1. Initial(Nat)
    BY DEF Initial
  <2> HIDE DEF S
  <2> QED
    BY <1>1, <1>2, <2>1, InductionOn
<1> QED
  BY <1>3

(* Division determines the quotient and the remainder.                     *)
LEMMA Quotient ==
    ASSUME NEW a \in Nat, NEW b \in Nat \ {0}, NEW q \in Nat, NEW r \in 0 .. b - 1,
           a = q * b + r
    PROVE  a \div b = q /\ a % b = r
OBVIOUS

(* What is left over after whole quotients is less than the divisor.       *)
LEMMA Division ==
    ASSUME NEW a \in Nat, NEW b \in Nat \ {0}
    PROVE  /\ a \div b \in Nat /\ a % b \in 0 .. b - 1
           /\ a = (a \div b) * b + (a % b)
OBVIOUS

(* A product grows with its factors.                                       *)
LEMMA Product ==
    ASSUME NEW a \in Nat, NEW b \in Nat, NEW c \in Nat, a <= b
    PROVE  a * c \in Nat /\ b * c \in Nat /\ a * c <= b * c
OBVIOUS

(* The product of two divisors.                                            *)
LEMMA DivisorProduct ==
    ASSUME NEW b \in Nat \ {0}, NEW c \in Nat \ {0}
    PROVE  b * c \in Nat \ {0}
<1>1. b * c >= b
  <2>1. 1 * b <= c * b
    BY Product
  <2> QED
    BY <2>1
<1> QED
  BY <1>1

(* Dividing twice is dividing by the product.                              *)
LEMMA DivideTwice ==
    ASSUME NEW a \in Nat, NEW b \in Nat \ {0}, NEW c \in Nat \ {0}
    PROVE  (a \div b) \div c = a \div (b * c)
<1> DEFINE q == a \div b
           r == a % b
           p == q \div c
           t == q % c
<1>1. q \in Nat /\ r \in 0 .. b - 1 /\ a = q * b + r
  BY Division
<1>2. p \in Nat /\ t \in 0 .. c - 1 /\ q = p * c + t
  <2> HIDE DEF q
  <2> QED
    BY <1>1, Division
<1> HIDE DEF q, r, p, t
<1>3. a = p * (b * c) + (t * b + r)
  <2>1. a = (p * c + t) * b + r
    BY <1>1, <1>2
  <2>2. (p * c + t) * b = (p * c) * b + t * b
    BY <1>2
  <2>3. (p * c) * b = p * (b * c)
    BY <1>2
  <2>4. (p * c) * b \in Nat /\ t * b \in Nat /\ r \in Nat
    BY <1>1, <1>2
  <2> QED
    BY <2>1, <2>2, <2>3, <2>4
<1>4. t * b + r \in 0 .. b * c - 1
  <2>1. t \in Nat /\ t <= c - 1 /\ c - 1 \in Nat
    BY <1>2
  <2>2. t * b <= (c - 1) * b /\ t * b \in Nat
    BY <2>1, Product
  <2>3. (c - 1) * b = b * c - b /\ b * c \in Nat
    OBVIOUS
  <2> QED
    BY <1>1, <2>2, <2>3
<1>5. a \div (b * c) = p
  <2>1. b * c \in Nat \ {0}
    BY DivisorProduct
  <2> DEFINE d == b * c
             e == t * b + r
  <2> HIDE DEF d, e
  <2>2. d \in Nat \ {0} /\ e \in 0 .. d - 1 /\ a = p * d + e
    BY <1>3, <1>4, <2>1 DEF d, e
  <2>3. a \div d = p
    BY <1>2, <2>2, Quotient
  <2> QED
    BY <2>3 DEF d
<1> QED
  BY <1>5 DEF p, q

-----------------------------------------------------------------------------
(* Numbers in bytes.                                                       *)

(* The widths, and what fits in a byte.                                    *)
LEMMA ByteFacts ==
    /\ ByteBits \in Nat \ {0} /\ IntBytes \in Nat \ {0}
    /\ Base \in Nat \ {0} /\ Base > MaxId + 1
    /\ Byte \subseteq Nat /\ {0, 1, 2, have, bitField, keepAlive} \subseteq Byte
<1>1. ByteBits \in Nat \ {0} /\ IntBytes \in Nat \ {0} /\ Base > MaxId + 1 /\ Base \in Nat \ {0}
  BY WidthAssumption, PowerDef DEF keepAlive, MaxId, Base
<1> QED
  BY <1>1 DEF Byte, MaxId, have, bitField, keepAlive

(* The value of a number, byte by byte.                                    *)
LEMMA ValueOfBytes ==
    ASSUME NEW b \in Seq(Byte)
    PROVE  \E value \in [0 .. Len(b) -> Nat] :
              /\ value[0] = 0
              /\ \A k \in 1 .. Len(b) : value[k] = value[k - 1] * Base + b[k]
              /\ ToInt(b) = value[Len(b)]
<1> DEFINE D == 0 .. Len(b)
           step == [p \in D \X Nat |-> IF p[1] = 0 THEN 0 ELSE p[2] * Base + b[p[1]]]
           Is(f) == f = [k \in 0 .. Len(b) |-> IF k = 0 THEN 0 ELSE f[k - 1] * Base + b[k]]
           value == CHOOSE f : Is(f)
<1>1. Len(b) \in Nat /\ Base \in Nat /\ \A k \in 1 .. Len(b) : b[k] \in Nat
  BY ByteFacts, LenProperties, ElementOfSeq
<1>2. Initial(D) /\ 0 \in D
  BY <1>1 DEF Initial
<1>3. step \in [D \X Nat -> Nat]
  <2> SUFFICES ASSUME NEW k \in D, NEW v \in Nat
               PROVE  (IF k = 0 THEN 0 ELSE v * Base + b[k]) \in Nat
    OBVIOUS
  <2>1. k # 0 => k \in 1 .. Len(b)
    BY <1>1
  <2>2. k # 0 => b[k] \in Nat
    BY <1>1, <2>1
  <2>3. v * Base \in Nat
    BY <1>1
  <2> QED
    BY <2>2, <2>3
<1>4. \E f : Is(f)
  <2> HIDE DEF step, D
  <2>1. PICK f \in [D -> Nat] : Follows(f, D, 0, step)
    BY <1>2, <1>3, Recursion
  <2> USE DEF step, D
  <2>2. ASSUME NEW k \in D
        PROVE  f[k] = IF k = 0 THEN 0 ELSE f[k - 1] * Base + b[k]
    <3>1. k # 0 => k - 1 \in D
      BY <1>1
    <3>2. k # 0 => f[k - 1] \in Nat
      BY <3>1
    <3>3. k # 0 => step[k, f[k - 1]] = f[k - 1] * Base + b[k]
      BY <3>2
    <3> QED
      BY <2>1, <3>3 DEF Follows
  <2>3. Is(f)
    BY <2>2
  <2> QED
    BY <2>3
<1>5. Is(value)
  <2> HIDE DEF Is
  <2> QED
    BY <1>4
<1>6. ToInt(b) = value[Len(b)]
  BY DEF ToInt
<1> HIDE DEF value
<1>7. value[0] = 0 /\ \A k \in 1 .. Len(b) : value[k] = value[k - 1] * Base + b[k]
  <2>1. 0 \in 0 .. Len(b) /\ \A k \in 1 .. Len(b) : k \in 0 .. Len(b) /\ k # 0
    BY <1>1
  <2> QED
    BY <1>5, <2>1
<1>8. value \in [0 .. Len(b) -> Nat]
  <2> DEFINE S == {k \in 0 .. Len(b) : value[k] \in Nat}
  <2>1. 0 \in S
    BY <1>1, <1>7
  <2>2. ASSUME NEW k \in D, k # 0, k - 1 \in S
        PROVE  k \in S
    <3>1. k \in 1 .. Len(b) /\ value[k - 1] \in Nat
      BY <1>1, <2>2
    <3>2. value[k - 1] * Base \in Nat /\ b[k] \in Nat
      BY <1>1, <3>1
    <3> QED
      BY <1>7, <3>1, <3>2
  <2>3. D \subseteq S
    <3> HIDE DEF S, D
    <3> QED
      BY <1>2, <2>1, <2>2, InductionOn
  <2>4. \A k \in 0 .. Len(b) : value[k] \in Nat
    BY <2>3
  <2> QED
    BY <1>5, <2>4
<1> QED
  BY <1>6, <1>7, <1>8

(* The value of bytes is a number.                                         *)
LEMMA ToIntIsNat ==
    ASSUME NEW b \in Seq(Byte)
    PROVE  ToInt(b) \in Nat
<1>1. PICK value \in [0 .. Len(b) -> Nat] : ToInt(b) = value[Len(b)]
  BY ValueOfBytes
<1>2. Len(b) \in 0 .. Len(b)
  BY LenProperties
<1> QED
  BY <1>1, <1>2

(* A function on 1 .. n is a sequence of that length.                      *)
LEMMA FunctionIsSeq ==
    ASSUME NEW S, NEW n \in Nat, NEW f \in [1 .. n -> S]
    PROVE  f \in Seq(S) /\ Len(f) = n
<1>1. f \in Seq(S)
  BY SeqDef
<1>2. Len(f) \in Nat /\ DOMAIN f = 1 .. Len(f)
  BY <1>1, LenProperties
<1> QED
  BY <1>1, <1>2

(* A number has IntBytes bytes.                                            *)
LEMMA PrefixIsSeq ==
    ASSUME NEW n \in Nat
    PROVE  ToBytes(n) \in Seq(Byte) /\ Len(ToBytes(n)) = IntBytes
<1>1. IntBytes \in Nat /\ ByteBits \in Nat /\ Base \in Nat \ {0}
  BY ByteFacts
<1>2. ASSUME NEW i \in 1 .. IntBytes
      PROVE  (n \div Power2[ByteBits * (IntBytes - i)]) % Base \in Byte
  <2>1. ByteBits * (IntBytes - i) \in Nat
    <3>1. IntBytes - i \in Nat
      BY <1>1
    <3> QED
      BY <1>1, <3>1
  <2>2. Power2[ByteBits * (IntBytes - i)] \in Nat \ {0}
    BY <2>1, PowerDef
  <2>3. n \div Power2[ByteBits * (IntBytes - i)] \in Nat
    BY <2>2, Division
  <2> QED
    BY <1>1, <2>3, Division DEF Byte
<1>3. ToBytes(n) \in [1 .. IntBytes -> Byte]
  BY <1>2 DEF ToBytes
<1> QED
  BY <1>1, <1>3, FunctionIsSeq

(* What is written in bytes is read back.                                  *)
LEMMA ReadsBack ==
    ASSUME NEW n \in Numbers
    PROVE  ToInt(ToBytes(n)) = n
<1> DEFINE b == ToBytes(n)
           P(k) == Power2[ByteBits * (IntBytes - k)]
           D == 0 .. IntBytes
<1>1. /\ IntBytes \in Nat /\ ByteBits \in Nat /\ Base \in Nat \ {0} /\ n \in Nat
      /\ n < Power2[ByteBits * IntBytes]
  <2>1. IntBytes \in Nat /\ ByteBits \in Nat /\ Base \in Nat \ {0}
    BY ByteFacts
  <2>2. ByteBits * IntBytes \in Nat
    BY <2>1
  <2> QED
    BY <2>1, <2>2, PowerDef DEF Numbers
<1>2. b \in Seq(Byte) /\ Len(b) = IntBytes
  BY <1>1, PrefixIsSeq
<1>3. PICK value \in [0 .. IntBytes -> Nat] :
          /\ value[0] = 0
          /\ \A k \in 1 .. IntBytes : value[k] = value[k - 1] * Base + b[k]
          /\ ToInt(b) = value[IntBytes]
  BY <1>2, ValueOfBytes
<1>4. \A k \in 1 .. IntBytes : b[k] = (n \div P(k)) % Base
  BY DEF ToBytes
<1>5. \A k \in D : P(k) \in Nat \ {0}
  <2> SUFFICES ASSUME NEW k \in D
               PROVE  ByteBits * (IntBytes - k) \in Nat
    BY PowerDef
  <2>1. IntBytes - k \in Nat
    BY <1>1
  <2> QED
    BY <1>1, <2>1
<1>6. ASSUME NEW k \in D, k # 0
      PROVE  P(k - 1) = P(k) * Base
  <2>1. IntBytes - k \in Nat /\ IntBytes - (k - 1) = (IntBytes - k) + 1
    BY <1>1, <1>6
  <2>2. ByteBits * (IntBytes - k) \in Nat
    BY <1>1, <2>1
  <2>3. ByteBits * ((IntBytes - k) + 1) = ByteBits * (IntBytes - k) + ByteBits
    BY <1>1, <2>1
  <2>4. Power2[ByteBits * (IntBytes - k) + ByteBits] = Power2[ByteBits * (IntBytes - k)] * Power2[ByteBits]
    BY <1>1, <2>2, PowerSum
  <2> QED
    BY <2>1, <2>3, <2>4 DEF Base
<1> DEFINE S == {k \in D : value[k] = n \div P(k)}
<1>7. 0 \in S
  <2>1. P(0) = Power2[ByteBits * IntBytes]
    BY <1>1
  <2>2. 0 \in D /\ P(0) \in Nat \ {0}
    <3>1. 0 \in D
      BY <1>1
    <3> HIDE DEF P, D
    <3> QED
      BY <1>5, <3>1
  <2>3. n < P(0)
    BY <1>1, <2>1
  <2>4. n = 0 * P(0) + n /\ n \in 0 .. P(0) - 1
    <3> HIDE DEF P
    <3> QED
      BY <1>1, <2>2, <2>3
  <2>5. n \div P(0) = 0
    <3> HIDE DEF P
    <3> QED
      BY <1>1, <2>2, <2>4, Quotient
  <2> QED
    BY <1>3, <2>2, <2>5
<1>8. ASSUME NEW k \in D, k # 0, k - 1 \in S
      PROVE  k \in S
  <2>1. k \in 1 .. IntBytes
    BY <1>1, <1>8
  <2>2. value[k] = value[k - 1] * Base + b[k] /\ value[k - 1] = n \div P(k - 1)
    BY <1>3, <1>8, <2>1
  <2>3. P(k - 1) = P(k) * Base /\ P(k) \in Nat \ {0}
    BY <1>5, <1>6, <1>8
  <2>4. b[k] = (n \div P(k)) % Base
    BY <1>4, <2>1
  <2> HIDE DEF b, P
  <2>5. n \div P(k - 1) = (n \div P(k)) \div Base
    BY <1>1, <2>3, DivideTwice
  <2>6. n \div P(k) = ((n \div P(k)) \div Base) * Base + ((n \div P(k)) % Base)
    <3>1. n \div P(k) \in Nat
      BY <1>1, <2>3, Division
    <3> QED
      BY <1>1, <3>1, Division
  <2> QED
    BY <2>2, <2>4, <2>5, <2>6
<1>9. D \subseteq S
  <2>1. Initial(D)
    BY <1>1 DEF Initial
  <2> HIDE DEF D, S
  <2> QED
    BY <1>7, <1>8, <2>1, InductionOn
<1>10. value[IntBytes] = n \div P(IntBytes)
  BY <1>1, <1>9
<1>11. P(IntBytes) = 1
  BY <1>1, PowerDef
<1>12. n \div 1 = n
  BY <1>1
<1> QED
  BY <1>3, <1>10, <1>11, <1>12

-----------------------------------------------------------------------------
(* Bits.                                                                   *)

(* A byte of a bit field, bit by bit.                                      *)
LEMMA BitsOfField ==
    ASSUME NEW pieces, NEW k \in Nat
    PROVE  \E bits \in [0 .. ByteBits -> Nat] :
              /\ bits[0] = 0
              /\ \A i \in 1 .. ByteBits :
                    bits[i] = 2 * bits[i - 1] + IF k * ByteBits + i - 1 \in pieces THEN 1 ELSE 0
              /\ FieldByte(pieces, k) = bits[ByteBits]
<1> DEFINE D == 0 .. ByteBits
           c(i) == IF k * ByteBits + i - 1 \in pieces THEN 1 ELSE 0
           step == [p \in D \X Nat |-> IF p[1] = 0 THEN 0 ELSE 2 * p[2] + c(p[1])]
           Is(f) == f = [i \in 0 .. ByteBits |->
                            IF i = 0 THEN 0
                            ELSE 2 * f[i - 1] + IF k * ByteBits + i - 1 \in pieces THEN 1 ELSE 0]
           bits == CHOOSE f : Is(f)
<1>1. ByteBits \in Nat /\ \A i : c(i) \in Nat
  BY ByteFacts
<1>2. Initial(D) /\ 0 \in D
  BY <1>1 DEF Initial
<1>3. FieldByte(pieces, k) = bits[ByteBits]
  BY DEF FieldByte
<1>4. \A f : Is(f) <=> f = [i \in D |-> IF i = 0 THEN 0 ELSE 2 * f[i - 1] + c(i)]
  OBVIOUS
<1> HIDE DEF c, Is
<1>5. step \in [D \X Nat -> Nat]
  BY <1>1
<1>6. \E f : Is(f)
  <2> HIDE DEF step, D
  <2>1. PICK f \in [D -> Nat] : Follows(f, D, 0, step)
    BY <1>2, <1>5, Recursion
  <2> USE DEF step, D
  <2>2. ASSUME NEW i \in D
        PROVE  f[i] = IF i = 0 THEN 0 ELSE 2 * f[i - 1] + c(i)
    <3>1. i # 0 => i - 1 \in D
      BY <1>1
    <3>2. i # 0 => f[i - 1] \in Nat
      BY <3>1
    <3>3. i # 0 => step[i, f[i - 1]] = 2 * f[i - 1] + c(i)
      BY <3>2
    <3> QED
      BY <2>1, <3>3 DEF Follows
  <2>3. f = [i \in D |-> IF i = 0 THEN 0 ELSE 2 * f[i - 1] + c(i)]
    BY <2>2
  <2> QED
    BY <1>4, <2>3
<1>7. Is(bits)
  BY <1>6
<1> HIDE DEF bits
<1>8. bits[0] = 0 /\ \A i \in 1 .. ByteBits : bits[i] = 2 * bits[i - 1] + c(i)
  <2>1. bits = [i \in D |-> IF i = 0 THEN 0 ELSE 2 * bits[i - 1] + c(i)]
    BY <1>4, <1>7
  <2>2. \A i \in 1 .. ByteBits : i \in D /\ i # 0
    BY <1>1
  <2> QED
    BY <1>2, <2>1, <2>2
<1>9. bits \in [0 .. ByteBits -> Nat]
  <2> DEFINE S == {i \in D : bits[i] \in Nat}
  <2>1. 0 \in S
    BY <1>2, <1>8
  <2>2. ASSUME NEW i \in D, i # 0, i - 1 \in S
        PROVE  i \in S
    <3>1. i \in 1 .. ByteBits /\ bits[i - 1] \in Nat
      BY <1>1, <2>2
    <3> QED
      BY <1>1, <1>8, <3>1
  <2>3. D \subseteq S
    <3> HIDE DEF S, D
    <3> QED
      BY <1>2, <2>1, <2>2, InductionOn
  <2>4. bits = [i \in D |-> IF i = 0 THEN 0 ELSE 2 * bits[i - 1] + c(i)]
    BY <1>4, <1>7
  <2> QED
    BY <2>3, <2>4
<1> QED
  BY <1>3, <1>8, <1>9 DEF c

(* A byte of a bit field is a byte, and has the bits of the pieces.        *)
LEMMA FieldByteBits ==
    ASSUME NEW pieces, NEW k \in Nat
    PROVE  /\ FieldByte(pieces, k) \in Byte
           /\ \A o \in 0 .. ByteBits - 1 :
                 Bit(FieldByte(pieces, k), o) = 1 <=> k * ByteBits + o \in pieces
<1> DEFINE c(i) == IF k * ByteBits + i - 1 \in pieces THEN 1 ELSE 0
<1>1. PICK bits \in [0 .. ByteBits -> Nat] :
          /\ bits[0] = 0
          /\ \A i \in 1 .. ByteBits : bits[i] = 2 * bits[i - 1] + c(i)
          /\ FieldByte(pieces, k) = bits[ByteBits]
  BY BitsOfField
<1>2. ByteBits \in Nat /\ \A i : c(i) \in {0, 1}
  BY ByteFacts
<1> HIDE DEF c
<1>3. Initial(0 .. ByteBits)
  BY <1>2 DEF Initial
<1>4. FieldByte(pieces, k) \in Byte
  <2> DEFINE S == {i \in 0 .. ByteBits : bits[i] < Power2[i]}
             D == 0 .. ByteBits
  <2>1. 0 \in S
    BY <1>1, <1>2, PowerDef
  <2>2. ASSUME NEW i \in D, i # 0, i - 1 \in S
        PROVE  i \in S
    <3>1. i \in 1 .. ByteBits /\ i - 1 \in 0 .. ByteBits /\ i - 1 \in Nat /\ (i - 1) + 1 = i
      BY <1>2, <2>2
    <3>2. bits[i] = 2 * bits[i - 1] + c(i) /\ bits[i - 1] < Power2[i - 1]
      BY <1>1, <2>2, <3>1
    <3>3. Power2[i] = 2 * Power2[i - 1] /\ Power2[i - 1] \in Nat
      BY <3>1, PowerDef
    <3>4. bits[i - 1] \in Nat /\ c(i) \in {0, 1}
      BY <1>1, <1>2, <3>1
    <3> QED
      BY <3>2, <3>3, <3>4
  <2>3. D \subseteq S
    <3> HIDE DEF S
    <3> QED
      BY <1>3, <2>1, <2>2, InductionOn
  <2>4. bits[ByteBits] < Power2[ByteBits] /\ bits[ByteBits] \in Nat
    BY <1>1, <1>2, <2>3
  <2> QED
    BY <1>1, <2>4, ByteFacts DEF Byte, Base
<1>5. ASSUME NEW j \in 0 .. ByteBits
      PROVE  bits[ByteBits] \div Power2[ByteBits - j] = bits[j]
  <2> DEFINE D == 0 .. ByteBits - j
             S == {d \in D : bits[j + d] \div Power2[d] = bits[j]}
  <2>1. Initial(D) /\ ByteBits - j \in D /\ 0 \in D
    BY <1>2 DEF Initial
  <2>2. 0 \in S
    <3>1. bits[j] \in Nat /\ j + 0 = j
      BY <1>1, <1>2
    <3> QED
      BY <2>1, <3>1, PowerDef
  <2>3. ASSUME NEW d \in D, d # 0, d - 1 \in S
        PROVE  d \in S
    <3>1. /\ j + d \in 1 .. ByteBits /\ (j + d) - 1 = j + (d - 1) /\ d - 1 \in Nat
          /\ j + (d - 1) \in 0 .. ByteBits /\ (d - 1) + 1 = d
      BY <1>2, <2>3
    <3>2. /\ bits[j + d] = 2 * bits[j + (d - 1)] + c(j + d)
          /\ bits[j + (d - 1)] \div Power2[d - 1] = bits[j]
          /\ bits[j + (d - 1)] \in Nat /\ c(j + d) \in {0, 1}
      BY <1>1, <1>2, <2>3, <3>1
    <3>3. bits[j + d] \div 2 = bits[j + (d - 1)] /\ bits[j + d] \in Nat
      BY <3>2
    <3>4. Power2[d] = 2 * Power2[d - 1] /\ Power2[d - 1] \in Nat \ {0}
      BY <3>1, PowerDef
    <3>5. bits[j + d] \div Power2[d] = (bits[j + d] \div 2) \div Power2[d - 1]
      BY <3>3, <3>4, DivideTwice
    <3> QED
      BY <3>2, <3>3, <3>5
  <2>4. D \subseteq S
    <3> HIDE DEF S, D
    <3> QED
      BY <2>1, <2>2, <2>3, InductionOn
  <2>5. j + (ByteBits - j) = ByteBits
    BY <1>2
  <2> QED
    BY <2>1, <2>4, <2>5
<1>6. ASSUME NEW o \in 0 .. ByteBits - 1
      PROVE  Bit(FieldByte(pieces, k), o) = 1 <=> k * ByteBits + o \in pieces
  <2>1. o + 1 \in 0 .. ByteBits /\ ByteBits - (o + 1) = ByteBits - 1 - o /\ o + 1 \in 1 .. ByteBits
        /\ (o + 1) - 1 = o /\ o \in 0 .. ByteBits
    BY <1>2
  <2>2. bits[ByteBits] \div Power2[ByteBits - 1 - o] = bits[o + 1]
    BY <1>5, <2>1
  <2>3. bits[o + 1] = 2 * bits[o] + c(o + 1) /\ bits[o] \in Nat /\ c(o + 1) \in {0, 1}
    BY <1>1, <1>2, <2>1
  <2>4. bits[o + 1] % 2 = c(o + 1)
    BY <2>3
  <2>5. Bit(FieldByte(pieces, k), o) = c(o + 1)
    BY <1>1, <2>2, <2>4 DEF Bit
  <2>6. k * ByteBits + (o + 1) - 1 = k * ByteBits + o
    <3>1. k * ByteBits \in Nat
      BY <1>2
    <3> QED
      BY <2>1, <3>1
  <2> QED
    BY <2>5, <2>6 DEF c
<1> QED
  BY <1>4, <1>6

(* What adding a power of two does to a number that lacks it.              *)
LEMMA SetBit ==
    ASSUME NEW x \in Nat, NEW p \in Nat, (x \div Power2[p]) % 2 = 0
    PROVE  LET y == x + Power2[p] IN
           /\ y \in Nat
           /\ (y \div Power2[p]) % 2 = 1
           /\ \A q \in Nat : q > p => y \div Power2[q] = x \div Power2[q]
           /\ \A q \in Nat : q < p => (y \div Power2[q]) % 2 = (x \div Power2[q]) % 2
<1> DEFINE P == Power2[p]
           h == x \div P
           l == x % P
           g == h \div 2
           y == x + P
<1>1. P \in Nat \ {0}
  BY PowerDef
<1>2. h \in Nat /\ l \in 0 .. P - 1 /\ x = h * P + l /\ h % 2 = 0
  <2> HIDE DEF P
  <2>1. h \in Nat /\ l \in 0 .. P - 1 /\ x = h * P + l
    BY <1>1, Division
  <2> QED
    BY <2>1 DEF P
<1>3. g \in Nat /\ h = 2 * g
  <2> HIDE DEF h
  <2> QED
    BY <1>2
<1> HIDE DEF P, h, l, g
<1>4. y \in Nat /\ y = (h + 1) * P + l
  BY <1>1, <1>2
<1> HIDE DEF y
<1>5. y \div P = h + 1 /\ x \div P = h
  <2>1. h + 1 \in Nat
    BY <1>2
  <2>2. y \div P = h + 1
    BY <1>1, <1>2, <1>4, <2>1, Quotient
  <2> QED
    BY <2>2 DEF h
<1>6. (y \div P) % 2 = 1
  BY <1>3, <1>5
<1>7. ASSUME NEW q \in Nat, q > p
      PROVE  y \div Power2[q] = x \div Power2[q]
  <2> DEFINE R == Power2[q - p - 1]
  <2>1. q - p - 1 \in Nat /\ p + 1 \in Nat /\ (p + 1) + (q - p - 1) = q
    BY <1>7
  <2>2. Power2[q] = (P * 2) * R /\ R \in Nat \ {0} /\ P * 2 \in Nat \ {0}
    <3>1. Power2[q] = Power2[p + 1] * R
      BY <2>1, PowerSum
    <3>2. Power2[p + 1] = 2 * P
      BY PowerDef DEF P
    <3> QED
      BY <1>1, <2>1, <3>1, <3>2, PowerDef
  <2> HIDE DEF R
  <2>3. \A z \in Nat : z \div Power2[q] = ((z \div P) \div 2) \div R
    <3> SUFFICES ASSUME NEW z \in Nat
                 PROVE  z \div Power2[q] = ((z \div P) \div 2) \div R
      OBVIOUS
    <3>1. (z \div P) \div 2 = z \div (P * 2)
      BY <1>1, DivideTwice
    <3>2. (z \div (P * 2)) \div R = z \div ((P * 2) * R)
      <4> DEFINE d == P * 2
      <4> HIDE DEF d
      <4>1. d \in Nat \ {0}
        BY <2>2 DEF d
      <4>2. (z \div d) \div R = z \div (d * R)
        BY <2>2, <4>1, DivideTwice
      <4> QED
        BY <4>2 DEF d
    <3> QED
      BY <2>2, <3>1, <3>2
  <2>4. (h + 1) \div 2 = h \div 2
    BY <1>2, <1>3
  <2> QED
    BY <1>4, <1>5, <2>3, <2>4
<1>8. ASSUME NEW q \in Nat, q < p
      PROVE  (y \div Power2[q]) % 2 = (x \div Power2[q]) % 2
  <2> DEFINE Q == Power2[q]
             R == Power2[p - q - 1]
             a == x \div Q
             c == x % Q
  <2>1. p - q - 1 \in Nat /\ q + 1 \in Nat /\ (q + 1) + (p - q - 1) = p
    BY <1>8
  <2>2. P = (2 * Q) * R /\ R \in Nat \ {0} /\ Q \in Nat \ {0}
    <3>1. P = Power2[q + 1] * R
      BY <2>1, PowerSum DEF P
    <3>2. Power2[q + 1] = 2 * Q
      BY PowerDef
    <3> QED
      BY <2>1, <3>1, <3>2, PowerDef
  <2> HIDE DEF R, Q
  <2>3. a \in Nat /\ c \in 0 .. Q - 1 /\ x = a * Q + c
    BY <2>2, Division
  <2> HIDE DEF a, c
  <2>4. y = (a + 2 * R) * Q + c
    <3>1. y = x + P
      BY DEF y
    <3>2. (2 * Q) * R = (2 * R) * Q /\ (2 * R) * Q \in Nat
      BY <2>2
    <3>3. (a + 2 * R) * Q = a * Q + (2 * R) * Q /\ a * Q \in Nat
      BY <2>2, <2>3
    <3> QED
      BY <2>2, <2>3, <3>1, <3>2, <3>3
  <2>5. y \div Q = a + 2 * R
    <3>1. a + 2 * R \in Nat
      BY <2>2, <2>3
    <3> QED
      BY <1>4, <2>2, <2>3, <2>4, <3>1, Quotient
  <2>6. (a + 2 * R) % 2 = a % 2
    BY <2>2, <2>3
  <2> QED
    BY <2>5, <2>6 DEF Q, a
<1> QED
  BY <1>4, <1>6, <1>7, <1>8 DEF P, y

(* A byte with one more bit is a byte.                                     *)
LEMMA SetBitIsByte ==
    ASSUME NEW x \in Byte, NEW p \in 0 .. ByteBits - 1, (x \div Power2[p]) % 2 = 0
    PROVE  x + Power2[p] \in Byte
<1> DEFINE y == x + Power2[p]
<1>1. x \in Nat /\ p \in Nat /\ ByteBits \in Nat /\ ByteBits > p /\ Base \in Nat \ {0} /\ x < Base
  BY ByteFacts DEF Byte
<1>2. y \in Nat /\ y \div Base = x \div Base
  BY <1>1, SetBit DEF Base
<1> HIDE DEF y
<1>3. x \div Base = 0
  BY <1>1
<1>4. y = (y \div Base) * Base + (y % Base) /\ y % Base \in 0 .. Base - 1
  BY <1>1, <1>2, Division
<1>5. y < Base
  BY <1>1, <1>2, <1>3, <1>4
<1> QED
  BY <1>1, <1>2, <1>5 DEF Byte, y

(* The place of a piece in a bit field is its own.                         *)
LEMMA PlaceOfPiece ==
    ASSUME NEW i \in Nat
    PROVE  /\ i \div ByteBits \in Nat /\ i % ByteBits \in 0 .. ByteBits - 1
           /\ i = (i \div ByteBits) * ByteBits + (i % ByteBits)
           /\ ByteBits - 1 - (i % ByteBits) \in 0 .. ByteBits - 1
<1>1. ByteBits \in Nat \ {0}
  BY ByteFacts
<1>2. i \div ByteBits \in Nat /\ i % ByteBits \in 0 .. ByteBits - 1
      /\ i = (i \div ByteBits) * ByteBits + (i % ByteBits)
  BY <1>1, Division
<1> QED
  BY <1>1, <1>2

(* setPiece adds the piece and changes nothing else.                       *)
LEMMA SetPieceAdds ==
    ASSUME NEW f \in Seq(Byte), NEW index \in Nat, ~OutOfField(f, index)
    PROVE  /\ setPiece(f, index) \in Seq(Byte)
           /\ \A i \in Nat : hasPiece(setPiece(f, index), i) <=> hasPiece(f, i) \/ i = index
<1> DEFINE k == index \div ByteBits + 1
           p == ByteBits - 1 - (index % ByteBits)
           x == f[k]
           y == IF Bit(x, index % ByteBits) = 1 THEN x ELSE x + Power2[p]
           new == setPiece(f, index)
<1>1. /\ ByteBits \in Nat \ {0} /\ Len(f) \in Nat /\ f \in [1 .. Len(f) -> Byte]
      /\ k \in 1 .. Len(f) /\ index % ByteBits \in 0 .. ByteBits - 1
      /\ p \in 0 .. ByteBits - 1 /\ p \in Nat /\ x \in Byte /\ x \in Nat
  <2>1. ByteBits \in Nat \ {0} /\ Len(f) \in Nat /\ f \in [1 .. Len(f) -> Byte]
    BY ByteFacts, LenProperties, ElementOfSeq
  <2>2. /\ index \div ByteBits \in Nat /\ index % ByteBits \in 0 .. ByteBits - 1
        /\ p \in 0 .. ByteBits - 1
    BY PlaceOfPiece
  <2>3. k \in 1 .. Len(f)
    BY <2>1, <2>2 DEF OutOfField
  <2> HIDE DEF k, p
  <2>4. x \in Byte
    BY <2>1, <2>3
  <2>5. p \in Nat
    BY <2>1, <2>2
  <2>6. x \in Nat
    BY <2>4, ByteFacts
  <2> QED
    BY <2>1, <2>2, <2>3, <2>4, <2>5, <2>6
<1>2. new = [f EXCEPT ![k] = y]
  BY DEF setPiece
<1>3. Bit(x, index % ByteBits) \in {0, 1}
  <2>1. x \div Power2[p] \in Nat
    BY <1>1, PowerDef, Division
  <2> QED
    BY <2>1 DEF Bit
<1>4. /\ y \in Byte /\ Bit(y, index % ByteBits) = 1
      /\ \A o \in 0 .. ByteBits - 1 : o # index % ByteBits => Bit(y, o) = Bit(x, o)
  <2>1. CASE Bit(x, index % ByteBits) = 1
    BY <1>1, <2>1
  <2>2. CASE Bit(x, index % ByteBits) = 0
    <3>1. y = x + Power2[p] /\ (x \div Power2[p]) % 2 = 0
      BY <2>2 DEF Bit
    <3> HIDE DEF p, y, x
    <3>2. y \in Byte
      BY <1>1, <3>1, SetBitIsByte
    <3>3. /\ (y \div Power2[p]) % 2 = 1
          /\ \A q \in Nat : q > p => y \div Power2[q] = x \div Power2[q]
          /\ \A q \in Nat : q < p => (y \div Power2[q]) % 2 = (x \div Power2[q]) % 2
      BY <1>1, <3>1, SetBit
    <3>4. Bit(y, index % ByteBits) = 1
      BY <3>3 DEF Bit, p
    <3>5. ASSUME NEW o \in 0 .. ByteBits - 1, o # index % ByteBits
          PROVE  Bit(y, o) = Bit(x, o)
      <4>1. ByteBits - 1 - o \in Nat /\ ByteBits - 1 - o # p
        BY <1>1, <3>5 DEF p
      <4>2. ByteBits - 1 - o > p \/ ByteBits - 1 - o < p
        BY <1>1, <4>1
      <4> QED
        BY <3>3, <4>1, <4>2 DEF Bit
    <3> QED
      BY <3>2, <3>4, <3>5
  <2> QED
    BY <1>3, <2>1, <2>2
<1> HIDE DEF y, x, k, new
<1>5. new \in [1 .. Len(f) -> Byte] /\ new[k] = y /\ \A j \in 1 .. Len(f) : j # k => new[j] = f[j]
  BY <1>1, <1>2, <1>4
<1>6. new \in Seq(Byte) /\ Len(new) = Len(f)
  BY <1>1, <1>5, FunctionIsSeq
<1>7. ASSUME NEW i \in Nat
      PROVE  hasPiece(new, i) <=> hasPiece(f, i) \/ i = index
  <2> DEFINE j == i \div ByteBits
             o == i % ByteBits
  <2>1. j \in Nat /\ o \in 0 .. ByteBits - 1 /\ i = j * ByteBits + o
    BY PlaceOfPiece
  <2>2. /\ hasPiece(new, i) <=> j < Len(f) /\ Bit(new[j + 1], o) = 1
        /\ hasPiece(f, i) <=> j < Len(f) /\ Bit(f[j + 1], o) = 1
    BY <1>6 DEF hasPiece
  <2>3. index \div ByteBits \in Nat /\ index = (index \div ByteBits) * ByteBits + (index % ByteBits)
    BY PlaceOfPiece
  <2> HIDE DEF j, o
  <2>4. CASE j + 1 # k
    <3>1. i # index
      BY <2>4 DEF j, k
    <3>2. j < Len(f) => new[j + 1] = f[j + 1]
      BY <1>1, <1>5, <2>1, <2>4
    <3> QED
      BY <2>2, <3>1, <3>2
  <2>5. CASE j + 1 = k /\ o # index % ByteBits
    <3>1. i # index
      BY <2>5 DEF o
    <3>2. new[j + 1] = y /\ f[j + 1] = x
      BY <1>5, <2>5 DEF x
    <3>3. Bit(y, o) = Bit(x, o)
      BY <1>4, <2>1, <2>5
    <3> QED
      BY <2>2, <3>1, <3>2, <3>3
  <2>6. CASE j + 1 = k /\ o = index % ByteBits
    <3>1. j = index \div ByteBits
      BY <2>1, <2>3, <2>6 DEF k
    <3>2. i = index
      BY <2>1, <2>3, <2>6, <3>1
    <3>3. new[j + 1] = y /\ j < Len(f)
      BY <1>1, <1>5, <2>1, <2>6
    <3>4. Bit(y, o) = 1
      BY <1>4, <2>6
    <3> QED
      BY <2>2, <3>2, <3>3, <3>4
  <2> QED
    BY <2>4, <2>5, <2>6
<1> QED
  BY <1>6, <1>7 DEF new

-----------------------------------------------------------------------------
(* The bytes of a message.                                                 *)

(* What receiveMessage returns.                                            *)
Delivery == [id : Byte, payload : Seq(Byte)]

LEMMA PayloadIsSeq ==
    ASSUME NEW m \in Messages
    PROVE  Payload(m) \in Seq(Byte) /\ Len(Payload(m)) \in Nat
<1>1. Payload(m) \in Seq(Byte)
  <2>1. CASE m.id = bitField
    <3>1. m.size \in Nat
      BY MessagesAssumption
    <3>2. Payload(m) = [k \in 1 .. m.size |-> FieldByte(m.pieces, k - 1)]
      BY <2>1 DEF Payload, bitField, have
    <3>3. \A k \in 1 .. m.size : k - 1 \in Nat
      BY <3>1
    <3>4. Payload(m) \in [1 .. m.size -> Byte]
      BY <3>2, <3>3, FieldByteBits
    <3> QED
      BY <3>1, <3>4, FunctionIsSeq
  <2>2. CASE m.id = have
    <3>1. Payload(m) = ToBytes(CHOOSE i \in m.pieces : TRUE)
      BY <2>2 DEF Payload, bitField, have
    <3>2. PICK i \in Piece : m.pieces = {i}
      BY <2>2, MessagesAssumption
    <3>3. (CHOOSE j \in m.pieces : TRUE) = i /\ i \in Nat
      BY <3>2, PiecesAssumption DEF Piece
    <3> QED
      BY <3>1, <3>3, PrefixIsSeq
  <2>3. CASE m.id # bitField /\ m.id # have
    <3>1. Payload(m) = <<>>
      BY <2>3 DEF Payload
    <3> QED
      BY <3>1, EmptySeq
  <2> QED
    BY <2>1, <2>2, <2>3
<1> QED
  BY <1>1, LenProperties

(* A bit field says of each piece whether it is one of the message's.      *)
LEMMA FieldHasPieces ==
    ASSUME NEW m \in Messages, m.id = bitField, NEW i \in Piece
    PROVE  hasPiece(Payload(m), i) <=> i \in m.pieces
<1> DEFINE j == i \div ByteBits
           o == i % ByteBits
<1>1. /\ m.size \in Nat /\ \A p \in m.pieces : p \div ByteBits < m.size
      /\ Payload(m) = [k \in 1 .. m.size |-> FieldByte(m.pieces, k - 1)]
  <2>1. m.size \in Nat /\ \A p \in m.pieces : p \div ByteBits < m.size
    BY MessagesAssumption
  <2> QED
    BY <2>1 DEF Payload, bitField, have
<1>2. i \in Nat
  BY PiecesAssumption DEF Piece
<1>3. j \in Nat /\ o \in 0 .. ByteBits - 1 /\ i = j * ByteBits + o
  BY <1>2, PlaceOfPiece
<1>4. Len(Payload(m)) = m.size
  <2>1. Payload(m) \in Seq(Byte) /\ DOMAIN Payload(m) = 1 .. Len(Payload(m)) /\ Len(Payload(m)) \in Nat
    BY PayloadIsSeq, LenProperties
  <2> QED
    BY <1>1, <2>1
<1>5. hasPiece(Payload(m), i) <=> j < m.size /\ Bit(Payload(m)[j + 1], o) = 1
  BY <1>4 DEF hasPiece
<1>6. i \in m.pieces => j < m.size
  BY <1>1
<1> HIDE DEF j, o
<1>7. ASSUME j < m.size
      PROVE  Bit(Payload(m)[j + 1], o) = 1 <=> i \in m.pieces
  <2>1. j + 1 \in 1 .. m.size /\ (j + 1) - 1 = j
    BY <1>1, <1>3, <1>7
  <2>2. Payload(m)[j + 1] = FieldByte(m.pieces, j)
    BY <1>1, <2>1
  <2> QED
    BY <1>3, <2>2, FieldByteBits
<1> QED
  BY <1>5, <1>6, <1>7

(* A have message brings the number of its one piece.                      *)
LEMMA HaveHasNumber ==
    ASSUME NEW m \in Messages, m.id = have
    PROVE  \E i \in Piece : m.pieces = {i} /\ ToInt(Payload(m)) = i
<1>1. PICK i \in Piece : m.pieces = {i}
  BY MessagesAssumption
<1>2. i \in Numbers
  BY PiecesAssumption
<1>3. Payload(m) = ToBytes(i)
  BY <1>1 DEF Payload, have, bitField
<1> QED
  BY <1>1, <1>2, <1>3, ReadsBack

(* The number in the prefix.                                               *)
Size(m) == IF m.id = keepAlive THEN 0 ELSE Len(Payload(m)) + 1

(* A frame is the prefix, and the identifier and the payload after it.     *)
LEMMA FrameShape ==
    ASSUME NEW m \in Messages
    PROVE  /\ Size(m) \in Nat /\ ToInt(ToBytes(Size(m))) = Size(m)
           /\ Frame(m) \in Seq(Byte) /\ Len(Frame(m)) = IntBytes + Size(m)
           /\ \A j \in 1 .. IntBytes : Frame(m)[j] = ToBytes(Size(m))[j]
           /\ m.id = keepAlive => Payload(m) = <<>>
           /\ m.id # keepAlive =>
                 /\ Frame(m)[IntBytes + 1] = m.id
                 /\ \A j \in 1 .. Len(Payload(m)) : Frame(m)[IntBytes + 1 + j] = Payload(m)[j]
<1> DEFINE pay == Payload(m)
           n == Size(m)
<1>0. /\ IntBytes \in Nat /\ IntBytes > 0 /\ m.id \in Byte
      /\ pay \in Seq(Byte) /\ Len(pay) \in Nat
  <2>1. IntBytes \in Nat /\ IntBytes > 0
    BY WidthAssumption
  <2>2. m.id \in Byte
    BY MessagesAssumption
  <2> QED
    BY <2>1, <2>2, PayloadIsSeq
<1>1. n \in Nat
  BY <1>0 DEF Size
<1>2. ToInt(ToBytes(n)) = n
  <2>1. Len(pay) + 1 \in Numbers
    BY PrefixAssumption, Zenon
  <2>2. n \in Numbers
    <3>1. 0 \in Numbers
      <4>1. Power2[ByteBits * IntBytes] \in Nat \ {0}
        <5>1. ByteBits * IntBytes \in Nat
          BY WidthAssumption
        <5> QED
          BY <5>1, PowerDef
      <4> QED
        BY <4>1 DEF Numbers
    <3> QED
      BY <2>1, <3>1 DEF Size
  <2> QED
    BY <2>2, ReadsBack
<1>3. ToBytes(n) \in Seq(Byte) /\ Len(ToBytes(n)) = IntBytes
  BY <1>1, PrefixIsSeq
<1>4. CASE m.id = keepAlive
  <2>1. n = 0 /\ Frame(m) = ToBytes(n)
    BY <1>4 DEF Size, Frame
  <2>2. pay = <<>>
    BY <1>4, WidthAssumption DEF Payload, bitField, have, MaxId
  <2> QED
    BY <1>0, <1>1, <1>2, <1>3, <1>4, <2>1, <2>2
<1>5. CASE m.id # keepAlive
  <2>1. n = Len(pay) + 1 /\ Frame(m) = (ToBytes(n) \o <<m.id>>) \o pay
    BY <1>5 DEF Size, Frame, toString
  <2>2. <<m.id>> \in Seq(Byte) /\ Len(<<m.id>>) = 1 /\ <<m.id>>[1] = m.id
    BY <1>0
  <2> DEFINE front == ToBytes(n) \o <<m.id>>
  <2>3. /\ front \in Seq(Byte) /\ Len(front) = IntBytes + 1
        /\ \A j \in 1 .. IntBytes + 1 : front[j] = IF j <= IntBytes THEN ToBytes(n)[j] ELSE <<m.id>>[j - IntBytes]
    <3> HIDE DEF n
    <3> QED
      BY <1>3, <2>2, ConcatProperties
  <2> HIDE DEF front
  <2>4. /\ front \o pay \in Seq(Byte) /\ Len(front \o pay) = Len(front) + Len(pay)
        /\ \A j \in 1 .. Len(front) + Len(pay) :
              (front \o pay)[j] = IF j <= Len(front) THEN front[j] ELSE pay[j - Len(front)]
    BY <1>0, <2>3, ConcatProperties
  <2>5. Frame(m) = front \o pay
    BY <2>1 DEF front
  <2> HIDE DEF pay, n
  <2>6. Frame(m) \in Seq(Byte) /\ Len(Frame(m)) = IntBytes + n
    <3>1. n = Len(pay) + 1 /\ Len(front) = IntBytes + 1
      BY <2>1, <2>3
    <3>2. Len(front) + Len(pay) = IntBytes + n
      BY <1>0, <3>1
    <3> QED
      BY <2>4, <2>5, <3>2
  <2>7. \A j \in 1 .. IntBytes : Frame(m)[j] = ToBytes(n)[j]
    BY <1>0, <2>3, <2>4, <2>5
  <2>8. Frame(m)[IntBytes + 1] = m.id
    BY <1>0, <2>2, <2>3, <2>4, <2>5
  <2>9. \A j \in 1 .. Len(pay) : Frame(m)[IntBytes + 1 + j] = pay[j]
    BY <1>0, <2>3, <2>4, <2>5
  <2> QED
    BY <1>1, <1>2, <1>5, <2>6, <2>7, <2>8, <2>9 DEF pay, n
<1> QED
  BY <1>4, <1>5

-----------------------------------------------------------------------------
(* Where the frames are.                                                   *)

(* Of the messages s, the k-th has its frame after off[k] bytes of q: one  *)
(* that has been read, wholly or in part, before the beginning of q; one   *)
(* that got lost, beyond its end.                                          *)
Layout(off, q, s) ==
    /\ off \in [1 .. Len(s) + 1 -> Int]
    /\ \A k \in 1 .. Len(s) : off[k + 1] = off[k] + Len(Frame(s[k]))
    /\ \A k \in 1 .. Len(s) + 1 : off[k] <= off[Len(s) + 1]
    /\ \A k \in 1 .. Len(s) : \A j \in 1 .. Len(Frame(s[k])) :
          off[k] + j \in 1 .. Len(q) => q[off[k] + j] = Frame(s[k])[j]
    /\ Len(q) <= off[Len(s) + 1]

(* The frames of what has been sent are byte sequences.                    *)
LEMMA FrameOfSent ==
    ASSUME NEW s \in Seq(Messages), NEW k \in 1 .. Len(s)
    PROVE  /\ Len(s) \in Nat /\ s[k] \in Messages
           /\ Frame(s[k]) \in Seq(Byte) /\ Len(Frame(s[k])) \in Nat
<1>1. Len(s) \in Nat /\ s[k] \in Messages
  BY LenProperties, ElementOfSeq
<1>2. Frame(s[k]) \in Seq(Byte)
  BY <1>1, FrameShape
<1> QED
  BY <1>1, <1>2, LenProperties

(* The beginning of the bytes, and what is left when it is read.           *)
LEMMA Beginning ==
    ASSUME NEW q \in Seq(Byte), NEW n \in 0 .. Len(q)
    PROVE  /\ SubSeq(q, 1, n) \in Seq(Byte) /\ Len(SubSeq(q, 1, n)) = n
           /\ \A i \in 1 .. n : SubSeq(q, 1, n)[i] = q[i]
<1>1. Len(q) \in Nat /\ \A i \in 1 .. n : q[i] \in Byte
  BY LenProperties, ElementOfSeq
<1>2. n \in Int /\ n >= 0
  BY <1>1
<1>3. /\ SubSeq(q, 1, n) \in Seq(Byte)
      /\ Len(SubSeq(q, 1, n)) = IF 1 <= n THEN n - 1 + 1 ELSE 0
      /\ \A i \in 1 .. n - 1 + 1 : SubSeq(q, 1, n)[i] = q[1 + i - 1]
  BY <1>1, <1>2, SubSeqProperties
<1> QED
  BY <1>2, <1>3

LEMMA Remainder ==
    ASSUME NEW q \in Seq(Byte), NEW n \in 0 .. Len(q)
    PROVE  LET rest == SubSeq(q, n + 1, Len(q)) IN
           /\ rest \in Seq(Byte) /\ Len(rest) = Len(q) - n
           /\ \A i \in 1 .. Len(q) - n : rest[i] = q[n + i]
<1>1. Len(q) \in Nat /\ \A i \in n + 1 .. Len(q) : q[i] \in Byte
  BY LenProperties, ElementOfSeq
<1>2. n \in Int /\ n >= 0 /\ n + 1 \in Int /\ Len(q) \in Int /\ n <= Len(q)
  BY <1>1
<1>3. LET rest == SubSeq(q, n + 1, Len(q)) IN
      /\ rest \in Seq(Byte)
      /\ Len(rest) = IF n + 1 <= Len(q) THEN Len(q) - (n + 1) + 1 ELSE 0
      /\ \A i \in 1 .. Len(q) - (n + 1) + 1 : rest[i] = q[n + 1 + i - 1]
  BY <1>1, <1>2, SubSeqProperties
<1> QED
  BY <1>2, <1>3

(* Reading n bytes moves every frame by n.                                 *)
LEMMA ReadMoves ==
    ASSUME NEW q \in Seq(Byte), NEW s \in Seq(Messages), NEW off,
           Layout(off, q, s), NEW n \in 0 .. Len(q)
    PROVE  Layout([k \in 1 .. Len(s) + 1 |-> off[k] - n], SubSeq(q, n + 1, Len(q)), s)
<1> DEFINE rest == SubSeq(q, n + 1, Len(q))
           moved == [k \in 1 .. Len(s) + 1 |-> off[k] - n]
<1>1. /\ Len(q) \in Nat /\ Len(s) \in Nat /\ n \in Int /\ n >= 0
      /\ off \in [1 .. Len(s) + 1 -> Int]
  BY LenProperties DEF Layout
<1>2. Len(rest) = Len(q) - n /\ \A i \in 1 .. Len(q) - n : rest[i] = q[n + i]
  BY Remainder
<1> HIDE DEF rest
<1>3. moved \in [1 .. Len(s) + 1 -> Int]
  BY <1>1
<1>4. \A k \in 1 .. Len(s) + 1 : off[k] \in Int /\ moved[k] = off[k] - n
  BY <1>1
<1> HIDE DEF moved
<1>5. ASSUME NEW k \in 1 .. Len(s)
      PROVE  moved[k + 1] = moved[k] + Len(Frame(s[k]))
  <2>1. Len(Frame(s[k])) \in Nat /\ off[k + 1] = off[k] + Len(Frame(s[k]))
    BY FrameOfSent DEF Layout
  <2>2. k \in 1 .. Len(s) + 1 /\ k + 1 \in 1 .. Len(s) + 1
    BY <1>1
  <2>3. /\ off[k] \in Int /\ moved[k] = off[k] - n
        /\ off[k + 1] \in Int /\ moved[k + 1] = off[k + 1] - n
    BY <1>4, <2>2
  <2> QED
    BY <1>1, <2>1, <2>3
<1>6. ASSUME NEW k \in 1 .. Len(s) + 1
      PROVE  moved[k] <= moved[Len(s) + 1]
  <2>1. off[k] <= off[Len(s) + 1]
    BY DEF Layout
  <2>2. /\ off[k] \in Int /\ moved[k] = off[k] - n
        /\ off[Len(s) + 1] \in Int /\ moved[Len(s) + 1] = off[Len(s) + 1] - n
    BY <1>1, <1>4
  <2> QED
    BY <1>1, <2>1, <2>2
<1>7. ASSUME NEW k \in 1 .. Len(s), NEW j \in 1 .. Len(Frame(s[k])),
             moved[k] + j \in 1 .. Len(rest)
      PROVE  rest[moved[k] + j] = Frame(s[k])[j]
  <2>1. Len(Frame(s[k])) \in Nat /\ off[k] \in Int /\ moved[k] = off[k] - n
    BY <1>1, <1>4, FrameOfSent
  <2>2. off[k] + j \in 1 .. Len(q) /\ rest[moved[k] + j] = q[off[k] + j]
    <3>1. n + (moved[k] + j) = off[k] + j
      BY <1>1, <2>1
    <3>2. moved[k] + j \in 1 .. Len(q) - n
      BY <1>2, <1>7
    <3>3. rest[moved[k] + j] = q[n + (moved[k] + j)]
      BY <1>2, <3>2
    <3> QED
      BY <1>1, <2>1, <3>1, <3>2, <3>3
  <2> QED
    BY <2>2 DEF Layout
<1>8. Len(rest) <= moved[Len(s) + 1]
  BY <1>1, <1>2, <1>4 DEF Layout
<1> QED
  BY <1>3, <1>5, <1>6, <1>7, <1>8 DEF Layout, rest, moved

(* Bytes that get lost move nothing.                                       *)
LEMMA LossKeeps ==
    ASSUME NEW q \in Seq(Byte), NEW s \in Seq(Messages), NEW off,
           Layout(off, q, s), NEW n \in 0 .. Len(q)
    PROVE  Layout(off, SubSeq(q, 1, n), s)
<1> DEFINE kept == SubSeq(q, 1, n)
<1>1. /\ Len(q) \in Nat /\ Len(s) \in Nat /\ n \in Int /\ n >= 0 /\ n <= Len(q)
      /\ off \in [1 .. Len(s) + 1 -> Int]
  BY LenProperties DEF Layout
<1>2. Len(kept) = n /\ \A i \in 1 .. n : kept[i] = q[i]
  BY Beginning
<1> HIDE DEF kept
<1>3. ASSUME NEW k \in 1 .. Len(s), NEW j \in 1 .. Len(Frame(s[k])),
             off[k] + j \in 1 .. Len(kept)
      PROVE  kept[off[k] + j] = Frame(s[k])[j]
  <2>1. off[k] + j \in 1 .. Len(q) /\ kept[off[k] + j] = q[off[k] + j]
    BY <1>1, <1>2, <1>3
  <2> QED
    BY <2>1 DEF Layout
<1>4. off[Len(s) + 1] \in Int /\ Len(kept) <= off[Len(s) + 1]
  BY <1>1, <1>2 DEF Layout
<1> QED
  BY <1>3, <1>4 DEF Layout, kept

(* A message that is sent goes behind the others.                          *)
LEMMA SendAppends ==
    ASSUME NEW q \in Seq(Byte), NEW s \in Seq(Messages), NEW off,
           Layout(off, q, s), off[Len(s) + 1] = Len(q), NEW m \in Messages
    PROVE  LET all == q \o Frame(m)
               more == Append(s, m)
           IN  /\ all \in Seq(Byte) /\ more \in Seq(Messages)
               /\ \E new : /\ Layout(new, all, more) /\ new[Len(more) + 1] = Len(all)
                           /\ \A k \in 1 .. Len(s) + 1 : new[k] = off[k]
<1> DEFINE all == q \o Frame(m)
           more == Append(s, m)
           new == [k \in 1 .. Len(s) + 2 |-> IF k <= Len(s) + 1 THEN off[k] ELSE Len(all)]
<1>1. /\ Len(q) \in Nat /\ Len(s) \in Nat /\ off \in [1 .. Len(s) + 1 -> Int]
  BY LenProperties DEF Layout
<1>2. Frame(m) \in Seq(Byte) /\ Len(Frame(m)) \in Nat
  BY FrameShape, LenProperties
<1>3. /\ all \in Seq(Byte) /\ Len(all) = Len(q) + Len(Frame(m))
      /\ \A i \in 1 .. Len(all) : all[i] = IF i <= Len(q) THEN q[i] ELSE Frame(m)[i - Len(q)]
  BY <1>2, ConcatProperties
<1>4. /\ more \in Seq(Messages) /\ Len(more) = Len(s) + 1
      /\ \A k \in 1 .. Len(s) : more[k] = s[k]
      /\ more[Len(s) + 1] = m
  BY <1>1, AppendProperties
<1> HIDE DEF all, more
<1>5. /\ new \in [1 .. Len(s) + 2 -> Int]
      /\ \A k \in 1 .. Len(s) + 1 : new[k] = off[k] /\ off[k] \in Int
      /\ new[Len(s) + 2] = Len(all)
  <2>1. Len(all) \in Int
    BY <1>1, <1>2, <1>3
  <2> QED
    BY <1>1, <2>1
<1> HIDE DEF new
<1>6. Len(more) + 1 = Len(s) + 2
  BY <1>1, <1>4
<1>7. ASSUME NEW k \in 1 .. Len(more)
      PROVE  new[k + 1] = new[k] + Len(Frame(more[k]))
  <2>1. CASE k = Len(s) + 1
    <3>1. more[k] = m /\ k + 1 = Len(s) + 2 /\ k \in 1 .. Len(s) + 1
      BY <1>1, <1>4, <2>1
    <3>2. new[k] = Len(q) /\ new[k + 1] = Len(all)
      BY <1>5, <2>1, <3>1
    <3> QED
      BY <1>3, <3>1, <3>2
  <2>2. CASE k \in 1 .. Len(s)
    <3>1. off[k + 1] = off[k] + Len(Frame(s[k]))
      BY <2>2 DEF Layout
    <3>2. more[k] = s[k] /\ k \in 1 .. Len(s) + 1 /\ k + 1 \in 1 .. Len(s) + 1
      BY <1>1, <1>4, <2>2
    <3> QED
      BY <1>5, <3>1, <3>2
  <2> QED
    BY <1>1, <1>4, <2>1, <2>2
<1>8. ASSUME NEW k \in 1 .. Len(more) + 1
      PROVE  new[k] <= new[Len(more) + 1]
  <2>1. Len(q) <= Len(all) /\ Len(all) \in Nat
    BY <1>1, <1>2, <1>3
  <2>2. CASE k = Len(s) + 2
    BY <1>5, <1>6, <2>1, <2>2
  <2>3. CASE k \in 1 .. Len(s) + 1
    <3>1. off[k] <= Len(q) /\ off[k] \in Int
      BY <1>5, <2>3 DEF Layout
    <3> QED
      BY <1>1, <1>5, <1>6, <2>1, <2>3, <3>1
  <2> QED
    BY <1>1, <1>6, <2>2, <2>3
<1>9. ASSUME NEW k \in 1 .. Len(more), NEW j \in 1 .. Len(Frame(more[k])),
             new[k] + j \in 1 .. Len(all)
      PROVE  all[new[k] + j] = Frame(more[k])[j]
  <2>1. CASE k = Len(s) + 1
    <3>1. more[k] = m /\ new[k] = Len(q)
      BY <1>1, <1>4, <1>5, <2>1
    <3>2. j \in Nat /\ j >= 1
      BY <1>2, <3>1
    <3>3. ~(Len(q) + j <= Len(q)) /\ (Len(q) + j) - Len(q) = j
      BY <1>1, <3>2
    <3> QED
      BY <1>3, <1>9, <3>1, <3>3
  <2>2. CASE k \in 1 .. Len(s)
    <3>1. /\ more[k] = s[k] /\ new[k] = off[k] /\ off[k] \in Int
          /\ Len(Frame(s[k])) \in Nat
      BY <1>1, <1>4, <1>5, <2>2, FrameOfSent
    <3>2. off[k + 1] = off[k] + Len(Frame(s[k])) /\ off[k + 1] <= Len(q)
      <4>1. off[k + 1] = off[k] + Len(Frame(s[k]))
        BY <2>2 DEF Layout
      <4>2. k + 1 \in 1 .. Len(s) + 1
        BY <1>1, <2>2
      <4>3. off[k + 1] <= off[Len(s) + 1]
        BY <4>2 DEF Layout
      <4> QED
        BY <4>1, <4>3
    <3>3. off[k] + j <= Len(q) /\ off[k] + j \in 1 .. Len(q)
      BY <1>1, <1>9, <3>1, <3>2
    <3>4. q[off[k] + j] = Frame(s[k])[j]
      BY <2>2, <3>1, <3>3 DEF Layout
    <3> QED
      BY <1>3, <1>9, <3>1, <3>3, <3>4
  <2> QED
    BY <1>1, <1>4, <2>1, <2>2
<1>10. Layout(new, all, more)
  <2>1. new[Len(more) + 1] = Len(all) /\ Len(all) <= Len(all)
    BY <1>1, <1>2, <1>3, <1>5, <1>6
  <2> QED
    BY <1>5, <1>6, <1>7, <1>8, <1>9, <2>1 DEF Layout
<1> QED
  BY <1>3, <1>4, <1>5, <1>6, <1>10 DEF all, more

-----------------------------------------------------------------------------
(* Where the client is in the bytes.                                       *)

(* Before the first message: what is left of the handshake comes first.    *)
InHandshake(off) ==
    /\ phase \in {"connect", "handshake"} /\ received = <<>>
    /\ loc \in {"connect", "send", "body", "handle"}
    /\ loc \in {"connect", "send"} => buffer = <<>>
    /\ loc \in {"body", "handle"} => expected = HandshakeSize
    /\ loc = "handle" => Len(buffer) = HandshakeSize
    /\ Len(buffer) <= HandshakeSize
    /\ off[1] = IF greeted = TRUE THEN HandshakeSize - Len(buffer) ELSE 0
    /\ greeted = FALSE => buffer = <<>>

(* Between two messages: the next one comes first.                         *)
Between(off) ==
    /\ \/ loc = "send" /\ phase \in {"interested", "loop"}
       \/ loc = "prefix" /\ phase \in {"bitfield", "loop"}
    /\ greeted = TRUE
    /\ off[Len(received) + 1] = 0

(* In a message, the prefix of which has been read, and its buffer.        *)
Within(off) ==
    LET m == Len(received) + 1 IN
    /\ phase \in {"bitfield", "loop"} /\ greeted = TRUE
    /\ loc \in {"body", "handle"}
    /\ m <= Len(sent) /\ sent[m].id # keepAlive
    /\ expected = Len(Frame(sent[m])) - IntBytes
    /\ Len(buffer) <= expected
    /\ loc = "handle" => Len(buffer) = expected
    /\ off[m] = - (IntBytes + Len(buffer))
    /\ \A j \in 1 .. Len(buffer) : buffer[j] = Frame(sent[m])[IntBytes + j]

(* While everything arrives, what is left is all that has been sent.       *)
Placed ==
    \E off : /\ Layout(off, queue, sent)
             /\ end = "open" => off[Len(sent) + 1] = Len(queue)
             /\ InHandshake(off) \/ Between(off) \/ Within(off)

(* The types of what grows and shrinks.                                    *)
Sequences ==
    /\ sent \in Seq(Messages) /\ received \in Seq(Delivery)
    /\ queue \in Seq(Byte) /\ buffer \in Seq(Byte)
    /\ greeted \in BOOLEAN

(* The inductive invariant.                                                *)
WireInv ==
    /\ Sequences
    /\ DeliveredInOrder
    /\ greeted = FALSE => sent = <<>> /\ queue = <<>>
    /\ proc = "running" /\ loc # "end" => Placed

LEMMA InitWireInv == Init => WireInv
<1> SUFFICES ASSUME Init
             PROVE  WireInv
  OBVIOUS
<1> DEFINE off == [k \in 1 .. 1 |-> 0]
<1>1. Sequences /\ Len(<<>>) = 0
  BY EmptySeq DEF Init, Sequences
<1>2. DeliveredInOrder
  BY DEF Init, DeliveredInOrder
<1>3. Layout(off, queue, sent)
  BY DEF Init, Layout
<1>4. off[1] = 0 /\ InHandshake(off) /\ off[Len(sent) + 1] = Len(queue)
  BY DEF Init, InHandshake, HandshakeSize
<1>5. Placed
  BY <1>3, <1>4 DEF Placed
<1> QED
  BY <1>1, <1>2, <1>5 DEF Init, WireInv

(* An exception leaves the connection for good.                            *)
LEMMA ThrowEnds ==
    ASSUME Sequences', DeliveredInOrder', greeted' = FALSE => sent' = <<>> /\ queue' = <<>>,
           Throw
    PROVE  WireInv'
BY DEF Throw, WireInv

(* The sequences that a step leaves alone.                                 *)
LEMMA SameDeliveries ==
    ASSUME DeliveredInOrder, UNCHANGED <<sent, received>>
    PROVE  DeliveredInOrder'
BY DEF DeliveredInOrder

LEMMA ConnectKeeps == WireInv /\ CreateConnection => WireInv'
<1> SUFFICES ASSUME WireInv, CreateConnection
             PROVE  WireInv'
  OBVIOUS
<1>1. UNCHANGED <<expected, buffer, received, sent, greeted, queue, end, proc>>
  BY DEF CreateConnection, readVars, peerVars
<1>2. Sequences' /\ DeliveredInOrder' /\ (greeted' = FALSE => sent' = <<>> /\ queue' = <<>>)
  BY <1>1, SameDeliveries DEF WireInv, Sequences
<1>3. ASSUME loc' # "end" PROVE Placed'
  <2>1. PICK off : /\ Layout(off, queue, sent)
                   /\ end = "open" => off[Len(sent) + 1] = Len(queue)
                   /\ InHandshake(off) \/ Between(off) \/ Within(off)
    BY DEF WireInv, Placed, CreateConnection, At
  <2>2. InHandshake(off) /\ loc = "connect"
    BY <2>1 DEF CreateConnection, At, Between, Within
  <2>3. InHandshake(off)'
    BY <1>1, <1>3, <2>2 DEF CreateConnection, InHandshake
  <2> QED
    BY <1>1, <2>1, <2>3 DEF Placed
<1> QED
  BY <1>2, <1>3 DEF WireInv

LEMMA SendKeeps == WireInv /\ SendData => WireInv'
<1> SUFFICES ASSUME WireInv, SendData
             PROVE  WireInv'
  OBVIOUS
<1>1. UNCHANGED <<received, sent, greeted, queue, end, proc>> /\ buffer' = <<>> /\ Len(buffer') = 0
  BY EmptySeq DEF SendData
<1>2. Sequences' /\ DeliveredInOrder' /\ (greeted' = FALSE => sent' = <<>> /\ queue' = <<>>)
  BY <1>1, SameDeliveries, EmptySeq DEF WireInv, Sequences
<1>3. PICK off : /\ Layout(off, queue, sent)
                 /\ end = "open" => off[Len(sent) + 1] = Len(queue)
                 /\ InHandshake(off) \/ Between(off) \/ Within(off)
  BY DEF WireInv, Placed, SendData, At
<1>4. loc = "send"
  BY DEF SendData, At
<1>5. InHandshake(off)' \/ Between(off)'
  <2>1. CASE phase = "handshake"
    <3>1. InHandshake(off) /\ Len(buffer) = 0
      BY <1>3, <1>4, <2>1, EmptySeq DEF Between, Within, InHandshake
    <3>2. phase' = "handshake" /\ loc' = "body" /\ expected' = HandshakeSize
      BY <2>1 DEF SendData
    <3> QED
      BY <1>1, <3>1, <3>2 DEF InHandshake, HandshakeSize
  <2>2. CASE phase \in {"interested", "loop"}
    <3>1. Between(off)
      BY <1>3, <1>4, <2>2 DEF InHandshake, Within
    <3>2. phase' = "loop" /\ loc' = "prefix"
      BY <2>2 DEF SendData
    <3> QED
      BY <1>1, <3>1, <3>2 DEF Between
  <2> QED
    BY <2>1, <2>2 DEF SendData
<1>6. Placed'
  BY <1>1, <1>3, <1>5 DEF Placed
<1> QED
  BY <1>2, <1>6 DEF WireInv

LEMMA SendFailsKeeps == WireInv /\ SendFails => WireInv'
<1> SUFFICES ASSUME WireInv, SendFails
             PROVE  WireInv'
  OBVIOUS
<1>1. UNCHANGED <<expected, buffer, received, sent, greeted, queue, end>>
  BY DEF SendFails, readVars, peerVars
<1>2. Sequences' /\ DeliveredInOrder' /\ (greeted' = FALSE => sent' = <<>> /\ queue' = <<>>)
  BY <1>1, SameDeliveries DEF WireInv, Sequences
<1>3. proc' = "killed" \/ loc' = "end"
  BY DEF SendFails, Throw
<1> QED
  BY <1>2, <1>3 DEF WireInv

LEMMA RecvFailsKeeps == WireInv /\ RecvFails => WireInv'
<1> SUFFICES ASSUME WireInv, RecvFails
             PROVE  WireInv'
  OBVIOUS
<1>1. UNCHANGED <<expected, buffer, received, sent, greeted, queue>>
  BY DEF RecvFails, readVars, peerVars
<1>2. Sequences' /\ DeliveredInOrder' /\ (greeted' = FALSE => sent' = <<>> /\ queue' = <<>>)
  BY <1>1, SameDeliveries DEF WireInv, Sequences
<1> QED
  BY <1>2, ThrowEnds DEF RecvFails

(* One more message is received: the next one that was sent.               *)
LEMMA DeliverNext ==
    ASSUME Sequences, DeliveredInOrder, UNCHANGED sent,
           Len(received) + 1 <= Len(sent),
           received' = Append(received, [id |-> sent[Len(received) + 1].id,
                                         payload |-> Payload(sent[Len(received) + 1])])
    PROVE  /\ received' \in Seq(Delivery) /\ Len(received') = Len(received) + 1
           /\ DeliveredInOrder'
<1> DEFINE m == sent[Len(received) + 1]
           d == [id |-> m.id, payload |-> Payload(m)]
<1>1. Len(received) \in Nat /\ DOMAIN received = 1 .. Len(received) /\ Len(sent) \in Nat
  BY LenProperties DEF Sequences
<1>2. m \in Messages
  BY <1>1, ElementOfSeq DEF Sequences
<1>3. m.id \in Byte
  BY <1>2, MessagesAssumption
<1>4. d \in Delivery
  BY <1>2, <1>3, PayloadIsSeq DEF Delivery
<1> HIDE DEF m, d
<1>5. /\ received' \in Seq(Delivery) /\ Len(received') = Len(received) + 1
      /\ \A k \in 1 .. Len(received) : received'[k] = received[k]
      /\ received'[Len(received) + 1] = d
  BY <1>1, <1>4, AppendProperties DEF Sequences, m, d
<1>6. DOMAIN received' = 1 .. Len(received) + 1
  BY <1>5, LenProperties
<1>7. ASSUME NEW k \in DOMAIN received'
      PROVE  received'[k] = [id |-> sent[k].id, payload |-> Payload(sent[k])]
  <2>1. CASE k \in 1 .. Len(received)
    <3>1. received'[k] = received[k]
      BY <1>5, <2>1
    <3>2. received[k] = [id |-> sent[k].id, payload |-> Payload(sent[k])]
      BY <1>1, <2>1 DEF DeliveredInOrder
    <3> QED
      BY <3>1, <3>2
  <2>2. CASE k = Len(received) + 1
    BY <1>5, <2>2 DEF m, d
  <2> QED
    BY <1>1, <1>6, <2>1, <2>2
<1> QED
  BY <1>5, <1>7 DEF DeliveredInOrder

(* A whole buffer is the message, and what comes next is the next frame.   *)
LEMMA BufferIsMessage ==
    ASSUME Sequences, NEW off, Layout(off, queue, sent), Within(off), loc = "handle"
    PROVE  LET m == sent[Len(received) + 1] IN
           /\ Message = [id |-> m.id, payload |-> Payload(m)]
           /\ off[Len(received) + 2] = 0
<1> DEFINE n == Len(received) + 1
           m == sent[n]
<1>1. Len(received) \in Nat /\ Len(sent) \in Nat /\ n \in 1 .. Len(sent) /\ n + 1 = Len(received) + 2
  BY LenProperties DEF Sequences, Within
<1>2. m \in Messages /\ m.id # keepAlive
  BY <1>1, ElementOfSeq DEF Sequences, Within
<1>3. /\ Payload(m) \in Seq(Byte) /\ Len(Payload(m)) \in Nat
      /\ Size(m) = Len(Payload(m)) + 1
  BY <1>2, PayloadIsSeq DEF Size
<1>4. /\ Len(buffer) = Len(Frame(m)) - IntBytes
      /\ off[n] = - (IntBytes + Len(buffer))
      /\ \A j \in 1 .. Len(buffer) : buffer[j] = Frame(m)[IntBytes + j]
  BY DEF Within
<1>5. off[n + 1] = off[n] + Len(Frame(m))
  BY <1>1 DEF Layout
<1> HIDE DEF m, n
<1>6. /\ IntBytes \in Nat /\ Len(Frame(m)) = IntBytes + Size(m)
      /\ Frame(m)[IntBytes + 1] = m.id
      /\ \A j \in 1 .. Len(Payload(m)) : Frame(m)[IntBytes + 1 + j] = Payload(m)[j]
  BY <1>2, FrameShape, WidthAssumption
<1>7. Len(buffer) = Len(Payload(m)) + 1 /\ buffer \in Seq(Byte)
  BY <1>3, <1>4, <1>6 DEF Sequences
<1>8. off[n + 1] = 0
  BY <1>3, <1>4, <1>5, <1>6, <1>7
<1>9. buffer[1] = m.id
  BY <1>3, <1>4, <1>6, <1>7
<1>10. Tail(buffer) = Payload(m)
  <2>1. buffer # <<>>
    BY <1>3, <1>7, EmptySeq
  <2>2. /\ Tail(buffer) \in Seq(Byte) /\ Len(Tail(buffer)) = Len(Payload(m))
        /\ \A i \in 1 .. Len(Tail(buffer)) : Tail(buffer)[i] = buffer[i + 1]
    BY <1>3, <1>7, <2>1, HeadTailProperties
  <2>3. ASSUME NEW i \in 1 .. Len(Payload(m))
        PROVE  Tail(buffer)[i] = Payload(m)[i]
    <3>1. i + 1 \in 1 .. Len(buffer) /\ IntBytes + (i + 1) = IntBytes + 1 + i
      BY <1>3, <1>6, <1>7
    <3>2. buffer[i + 1] = Frame(m)[IntBytes + 1 + i]
      BY <1>4, <3>1
    <3> QED
      BY <1>6, <2>2, <3>2
  <2> QED
    BY <1>3, <2>2, <2>3, SeqEqual
<1> QED
  BY <1>1, <1>8, <1>9, <1>10 DEF Message, m, n

(* What is read, be it the prefix or a piece of what comes after.          *)
LEMMA ChunkIsBeginning ==
    ASSUME Sequences, NEW n \in Int, NEW chunk \in Chunks(n), Read(chunk)
    PROVE  /\ chunk \in Seq(Byte) /\ queue' \in Seq(Byte)
           /\ Len(chunk) \in 1 .. Len(queue) /\ Len(chunk) <= n /\ Len(queue) \in Nat
           /\ \A i \in 1 .. Len(chunk) : chunk[i] = queue[i]
           /\ Len(queue') = Len(queue) - Len(chunk)
           /\ queue' = SubSeq(queue, Len(chunk) + 1, Len(queue))
           /\ queue # <<>>
<1>1. Len(queue) \in Nat /\ queue \in Seq(Byte)
  BY LenProperties DEF Sequences
<1>2. PICK k \in 1 .. IF n < Len(queue) THEN n ELSE Len(queue) : chunk = SubSeq(queue, 1, k)
  BY DEF Chunks
<1>3. k \in 0 .. Len(queue) /\ k \in 1 .. Len(queue) /\ k <= n
  BY <1>1, <1>2
<1>4. chunk \in Seq(Byte) /\ Len(chunk) = k /\ \A i \in 1 .. k : chunk[i] = queue[i]
  BY <1>1, <1>2, <1>3, Beginning
<1>5. queue' = SubSeq(queue, k + 1, Len(queue))
  BY <1>4 DEF Read
<1>6. queue' \in Seq(Byte) /\ Len(queue') = Len(queue) - k
  BY <1>1, <1>3, <1>5, Remainder
<1>7. queue # <<>>
  BY <1>1, <1>3, EmptySeq
<1> QED
  BY <1>1, <1>3, <1>4, <1>5, <1>6, <1>7

(* The offsets after a read.                                               *)
LEMMA ReadPlaces ==
    ASSUME Sequences, NEW off, Layout(off, queue, sent),
           end = "open" => off[Len(sent) + 1] = Len(queue),
           NEW c \in 0 .. Len(queue), queue' = SubSeq(queue, c + 1, Len(queue)),
           UNCHANGED <<sent, end>>
    PROVE  \E new :
           /\ Layout(new, queue', sent')
           /\ end' = "open" => new[Len(sent') + 1] = Len(queue')
           /\ \A k \in 1 .. Len(sent) + 1 : off[k] \in Int /\ new[k] = off[k] - c
<1>1. Len(queue) \in Nat /\ Len(sent) \in Nat /\ off \in [1 .. Len(sent) + 1 -> Int]
  BY LenProperties DEF Sequences, Layout
<1> DEFINE new == [k \in 1 .. Len(sent) + 1 |-> off[k] - c]
<1>2. Layout(new, queue', sent')
  BY ReadMoves DEF Sequences
<1>3. Len(queue') = Len(queue) - c
  BY Remainder DEF Sequences
<1>4. \A k \in 1 .. Len(sent) + 1 : off[k] \in Int /\ new[k] = off[k] - c
  BY <1>1
<1> HIDE DEF new
<1>5. end' = "open" => new[Len(sent') + 1] = Len(queue')
  BY <1>1, <1>3, <1>4
<1> QED
  BY <1>2, <1>4, <1>5

(* A prefix that is whole is the prefix of the next message.               *)
LEMMA PrefixIsNext ==
    ASSUME Sequences, DeliveredInOrder, NEW off, Layout(off, queue, sent), Between(off),
           NEW chunk \in Seq(Byte), Len(chunk) = IntBytes, Len(chunk) \in 1 .. Len(queue),
           \A i \in 1 .. Len(chunk) : chunk[i] = queue[i]
    PROVE  /\ Len(received) + 1 <= Len(sent)
           /\ ToInt(chunk) = Size(sent[Len(received) + 1])
<1> DEFINE n == Len(received) + 1
           m == sent[n]
<1>1. /\ Len(received) \in Nat /\ Len(sent) \in Nat /\ n <= Len(sent) + 1 /\ Len(queue) \in Nat
      /\ off[n] = 0
  BY LenProperties DEF Sequences, DeliveredInOrder, Between
<1>2. n <= Len(sent)
  <2>1. Len(queue) <= off[Len(sent) + 1] /\ off[Len(sent) + 1] \in Int
    BY <1>1 DEF Layout
  <2>2. n # Len(sent) + 1
    BY <1>1, <2>1
  <2> QED
    BY <1>1, <2>2
<1>3. m \in Messages /\ n \in 1 .. Len(sent)
  BY <1>1, <1>2, ElementOfSeq DEF Sequences
<1>4. \A j \in 1 .. Len(Frame(m)) : off[n] + j \in 1 .. Len(queue) => queue[off[n] + j] = Frame(m)[j]
  BY <1>3 DEF Layout
<1> HIDE DEF m, n
<1>5. /\ Size(m) \in Nat /\ ToInt(ToBytes(Size(m))) = Size(m)
      /\ Len(Frame(m)) = IntBytes + Size(m) /\ IntBytes \in Nat
      /\ \A j \in 1 .. IntBytes : Frame(m)[j] = ToBytes(Size(m))[j]
  BY <1>3, FrameShape, WidthAssumption
<1>6. ToBytes(Size(m)) \in Seq(Byte) /\ Len(ToBytes(Size(m))) = IntBytes
  BY <1>5, PrefixIsSeq
<1>7. ASSUME NEW j \in 1 .. IntBytes
      PROVE  chunk[j] = ToBytes(Size(m))[j]
  <2>1. j \in 1 .. Len(Frame(m)) /\ off[n] + j = j /\ j \in 1 .. Len(queue)
    BY <1>1, <1>5
  <2>2. queue[j] = Frame(m)[j]
    BY <1>4, <2>1
  <2> QED
    BY <1>5, <2>2
<1>8. chunk = ToBytes(Size(m))
  BY <1>5, <1>6, <1>7, SeqEqual
<1> QED
  BY <1>2, <1>5, <1>8 DEF m, n

LEMMA RecvPrefixKeeps == WireInv /\ RecvPrefix => WireInv'
<1> SUFFICES ASSUME WireInv, RecvPrefix
             PROVE  WireInv'
  OBVIOUS
<1>1. PICK chunk \in Chunks(IntBytes) :
          /\ Read(chunk)
          /\ \/ Throw /\ UNCHANGED <<readVars, received>>
             \/ /\ Len(chunk) = IntBytes /\ ToInt(chunk) = 0
                /\ received' = Append(received, [id |-> keepAlive, payload |-> <<>>])
                /\ Throw
                /\ UNCHANGED readVars
             \/ /\ Len(chunk) = IntBytes /\ ToInt(chunk) \in 1 .. IntLimit - 1
                /\ expected' = ToInt(chunk) /\ buffer' = <<>>
                /\ loc' = "body"
                /\ UNCHANGED <<phase, open, received, field>>
  BY Zenon DEF RecvPrefix
<1>2. Sequences /\ DeliveredInOrder /\ (greeted = FALSE => queue = <<>> /\ sent = <<>>)
  BY DEF WireInv
<1>3. /\ chunk \in Seq(Byte) /\ queue' \in Seq(Byte)
      /\ Len(chunk) \in 1 .. Len(queue) /\ Len(queue) \in Nat
      /\ \A i \in 1 .. Len(chunk) : chunk[i] = queue[i]
      /\ queue' = SubSeq(queue, Len(chunk) + 1, Len(queue))
      /\ queue # <<>>
  BY <1>1, <1>2, ChunkIsBeginning, WidthAssumption
<1>4. UNCHANGED <<proc, sent, greeted, end, provoked>> /\ loc = "prefix" /\ proc = "running"
  BY DEF RecvPrefix, peerVars, At
<1>5. PICK off : /\ Layout(off, queue, sent)
                 /\ end = "open" => off[Len(sent) + 1] = Len(queue)
                 /\ InHandshake(off) \/ Between(off) \/ Within(off)
  BY <1>4 DEF WireInv, Placed
<1>6. Between(off)
  BY <1>4, <1>5 DEF InHandshake, Within
<1>7. greeted' = FALSE => sent' = <<>> /\ queue' = <<>>
  BY <1>2, <1>3, <1>4
<1>8. CASE Throw /\ UNCHANGED <<readVars, received>>
  <2>1. Sequences' /\ DeliveredInOrder'
    BY <1>2, <1>3, <1>4, <1>8, SameDeliveries DEF Sequences, readVars
  <2> QED
    BY <1>7, <1>8, <2>1, ThrowEnds
<1>9. ASSUME Len(chunk) = IntBytes
      PROVE  /\ Len(received) + 1 <= Len(sent)
             /\ ToInt(chunk) = Size(sent[Len(received) + 1])
  BY <1>2, <1>3, <1>5, <1>6, <1>9, PrefixIsNext
<1> DEFINE m == sent[Len(received) + 1]
<1>10. ASSUME Len(chunk) = IntBytes
       PROVE  m \in Messages /\ Len(received) + 1 \in 1 .. Len(sent)
  <2>1. Len(received) \in Nat /\ Len(sent) \in Nat
    BY <1>2, LenProperties DEF Sequences
  <2> QED
    BY <1>2, <1>9, <1>10, <2>1, ElementOfSeq DEF Sequences
<1>11. CASE /\ Len(chunk) = IntBytes /\ ToInt(chunk) = 0
            /\ received' = Append(received, [id |-> keepAlive, payload |-> <<>>])
            /\ Throw
            /\ UNCHANGED readVars
  <2>1. Size(m) = 0 /\ m \in Messages
    BY <1>9, <1>10, <1>11
  <2>2. m.id = keepAlive
    <3>1. Len(Payload(m)) \in Nat
      BY <2>1, PayloadIsSeq
    <3> QED
      BY <2>1, <3>1 DEF Size
  <2>3. Payload(m) = <<>>
    BY <2>1, <2>2, FrameShape
  <2>4. received' \in Seq(Delivery) /\ DeliveredInOrder'
    BY <1>2, <1>4, <1>9, <1>11, <2>2, <2>3, DeliverNext
  <2>5. Sequences'
    BY <1>2, <1>3, <1>4, <1>11, <2>4 DEF Sequences, readVars
  <2> QED
    BY <1>7, <1>11, <2>4, <2>5, ThrowEnds
<1>12. CASE /\ Len(chunk) = IntBytes /\ ToInt(chunk) \in 1 .. IntLimit - 1
            /\ expected' = ToInt(chunk) /\ buffer' = <<>>
            /\ loc' = "body"
            /\ UNCHANGED <<phase, open, received, field>>
  <2>1. /\ Len(received) + 1 <= Len(sent) /\ m \in Messages
        /\ Len(received) + 1 \in 1 .. Len(sent) /\ expected' = Size(m)
    BY <1>9, <1>10, <1>12
  <2>2. m.id # keepAlive
    <3>1. Size(m) # 0
      BY <1>9, <1>12
    <3> QED
      BY <3>1 DEF Size
  <2>3. /\ Len(Frame(m)) = IntBytes + Size(m) /\ Size(m) \in Nat /\ IntBytes \in Nat
    BY <2>1, FrameShape, WidthAssumption
  <2>4. Sequences' /\ DeliveredInOrder' /\ Len(buffer') = 0
    BY <1>2, <1>3, <1>4, <1>12, SameDeliveries, EmptySeq DEF Sequences
  <2>5. PICK new :
        /\ Layout(new, queue', sent')
        /\ end' = "open" => new[Len(sent') + 1] = Len(queue')
        /\ \A k \in 1 .. Len(sent) + 1 : off[k] \in Int /\ new[k] = off[k] - Len(chunk)
    <3>1. Len(chunk) \in 0 .. Len(queue)
      BY <1>3
    <3> QED
      BY <1>2, <1>3, <1>4, <1>5, <3>1, ReadPlaces
  <2>6. new[Len(received) + 1] = - IntBytes
    <3>1. Len(received) + 1 \in 1 .. Len(sent) + 1 /\ off[Len(received) + 1] = 0
      BY <1>2, <1>6, <2>1, LenProperties DEF Between, Sequences
    <3>2. new[Len(received) + 1] = off[Len(received) + 1] - Len(chunk)
      BY <2>5, <3>1
    <3> QED
      BY <1>12, <2>3, <3>1, <3>2
  <2>7. Within(new)'
    <3>1. /\ phase' = phase /\ phase \in {"bitfield", "loop"} /\ greeted' = TRUE
          /\ loc' = "body"
      BY <1>4, <1>6, <1>12 DEF Between, RecvPrefix
    <3>2. expected' = Len(Frame(m)) - IntBytes /\ Len(buffer') <= expected'
      BY <2>1, <2>3, <2>4
    <3>3. new[Len(received) + 1] = - (IntBytes + Len(buffer'))
      BY <2>3, <2>4, <2>6
    <3>4. \A j \in 1 .. Len(buffer') : FALSE
      BY <2>4
    <3>5. received' = received /\ sent' = sent
      BY <1>4, <1>12
    <3> QED
      BY <2>1, <2>2, <3>1, <3>2, <3>3, <3>4, <3>5 DEF Within
  <2>8. Placed'
    BY <2>5, <2>7 DEF Placed
  <2> QED
    BY <1>7, <2>4, <2>8 DEF WireInv
<1> QED
  BY <1>1, <1>8, <1>11, <1>12

(* A piece of the handshake or of a message.                               *)
LEMMA RecvBodyKeeps == WireInv /\ RecvBody => WireInv'
<1> SUFFICES ASSUME WireInv, RecvBody
             PROVE  WireInv'
  OBVIOUS
<1>1. Sequences /\ DeliveredInOrder /\ (greeted = FALSE => queue = <<>> /\ sent = <<>>)
  BY DEF WireInv
<1>2. /\ UNCHANGED <<proc, sent, greeted, end, phase, expected, received>>
      /\ loc = "body" /\ proc = "running"
  BY DEF RecvBody, peerVars, At
<1>3. PICK off : /\ Layout(off, queue, sent)
                 /\ end = "open" => off[Len(sent) + 1] = Len(queue)
                 /\ InHandshake(off) \/ Between(off) \/ Within(off)
  BY <1>2 DEF WireInv, Placed
<1>4. InHandshake(off) \/ Within(off)
  BY <1>2, <1>3 DEF Between
<1>5. /\ Len(buffer) \in Nat /\ Len(received) \in Nat /\ Len(sent) \in Nat
      /\ IntBytes \in Nat
  BY <1>1, LenProperties, WidthAssumption DEF Sequences
<1>6. Within(off) => Len(Frame(sent[Len(received) + 1])) \in Nat
  BY <1>1, <1>5, FrameOfSent DEF Within, Sequences
<1>7. expected \in Int
  BY <1>2, <1>4, <1>5, <1>6 DEF InHandshake, Within, HandshakeSize
<1>8. PICK chunk \in Chunks(expected - Len(buffer)) :
          Read(chunk) /\ buffer' = buffer \o chunk
  BY Zenon DEF RecvBody
<1>9. /\ chunk \in Seq(Byte) /\ queue' \in Seq(Byte)
      /\ Len(chunk) \in 1 .. Len(queue) /\ Len(queue) \in Nat
      /\ Len(chunk) <= expected - Len(buffer)
      /\ \A i \in 1 .. Len(chunk) : chunk[i] = queue[i]
      /\ queue' = SubSeq(queue, Len(chunk) + 1, Len(queue))
      /\ queue # <<>>
  <2>1. expected - Len(buffer) \in Int
    BY <1>5, <1>7
  <2> QED
    BY <1>1, <1>8, <2>1, ChunkIsBeginning
<1>10. /\ buffer' \in Seq(Byte) /\ Len(buffer') = Len(buffer) + Len(chunk)
       /\ \A j \in 1 .. Len(buffer) + Len(chunk) :
             buffer'[j] = IF j <= Len(buffer) THEN buffer[j] ELSE chunk[j - Len(buffer)]
  BY <1>1, <1>8, <1>9, ConcatProperties DEF Sequences
<1>11. greeted = TRUE /\ greeted' = TRUE
  BY <1>1, <1>2, <1>9 DEF Sequences
<1>12. Sequences' /\ DeliveredInOrder'
  BY <1>1, <1>2, <1>9, <1>10, SameDeliveries DEF Sequences
<1>13. PICK new : /\ Layout(new, queue', sent')
                  /\ end' = "open" => new[Len(sent') + 1] = Len(queue')
                  /\ \A k \in 1 .. Len(sent) + 1 : off[k] \in Int /\ new[k] = off[k] - Len(chunk)
  <2>1. Len(chunk) \in 0 .. Len(queue)
    BY <1>9
  <2> QED
    BY <1>1, <1>2, <1>3, <1>9, <2>1, ReadPlaces
<1>14. /\ loc' \in {"body", "handle"}
       /\ loc' = "handle" => Len(buffer') >= expected
       /\ Len(buffer') <= expected /\ Len(buffer') \in Nat
  <2>1. loc' = IF Len(buffer') >= expected THEN "handle" ELSE "body"
    BY DEF RecvBody
  <2> QED
    BY <1>5, <1>7, <1>9, <1>10, <2>1
<1>15. loc' = "handle" => Len(buffer') = expected
  BY <1>7, <1>14
<1>16. CASE InHandshake(off)
  <2>1. expected = HandshakeSize /\ off[1] = HandshakeSize - Len(buffer)
    BY <1>2, <1>11, <1>16 DEF InHandshake
  <2>2. new[1] = off[1] - Len(chunk)
    BY <1>5, <1>13
  <2>3. new[1] = HandshakeSize - Len(buffer')
    BY <1>5, <1>9, <1>10, <2>1, <2>2 DEF HandshakeSize
  <2>4. InHandshake(new)'
    BY <1>2, <1>11, <1>14, <1>15, <1>16, <2>1, <2>3 DEF InHandshake, HandshakeSize
  <2> QED
    BY <1>11, <1>12, <1>13, <2>4 DEF WireInv, Placed
<1>17. CASE Within(off)
  <2> DEFINE n == Len(received) + 1
             m == sent[n]
  <2>1. /\ n \in 1 .. Len(sent) /\ n \in 1 .. Len(sent) + 1
        /\ off[n] = - (IntBytes + Len(buffer))
        /\ expected = Len(Frame(m)) - IntBytes /\ Len(Frame(m)) \in Nat
        /\ \A j \in 1 .. Len(buffer) : buffer[j] = Frame(m)[IntBytes + j]
    BY <1>5, <1>6, <1>17 DEF Within
  <2>2. \A j \in 1 .. Len(Frame(m)) : off[n] + j \in 1 .. Len(queue) => queue[off[n] + j] = Frame(m)[j]
    BY <1>3, <2>1 DEF Layout
  <2>3. new[n] = off[n] - Len(chunk)
    BY <1>13, <2>1
  <2> HIDE DEF n, m
  <2>4. new[n] = - (IntBytes + Len(buffer'))
    BY <1>5, <1>9, <1>10, <2>1, <2>3
  <2>5. ASSUME NEW j \in 1 .. Len(buffer')
        PROVE  buffer'[j] = Frame(m)[IntBytes + j]
    <3>1. CASE j <= Len(buffer)
      <4>1. j \in 1 .. Len(buffer) /\ j \in 1 .. Len(buffer) + Len(chunk)
        BY <1>5, <1>10, <3>1
      <4>2. buffer'[j] = buffer[j] /\ buffer[j] = Frame(m)[IntBytes + j]
        BY <1>10, <2>1, <3>1, <4>1
      <4> QED
        BY <4>2
    <3>2. CASE j > Len(buffer)
      <4>1. j - Len(buffer) \in 1 .. Len(chunk)
        BY <1>5, <1>9, <1>10, <3>2
      <4>2. buffer'[j] = queue[j - Len(buffer)]
        BY <1>5, <1>9, <1>10, <3>2, <4>1
      <4>3. IntBytes + j \in 1 .. Len(Frame(m)) /\ off[n] + (IntBytes + j) = j - Len(buffer)
        BY <1>5, <1>9, <1>10, <2>1
      <4>4. off[n] + (IntBytes + j) \in 1 .. Len(queue)
        BY <1>9, <4>1, <4>3
      <4>5. queue[off[n] + (IntBytes + j)] = Frame(m)[IntBytes + j]
        BY <2>2, <4>3, <4>4
      <4> QED
        BY <4>2, <4>3, <4>5
    <3> QED
      BY <1>5, <1>9, <1>10, <3>1, <3>2
  <2>6. Within(new)'
    <3>1. /\ phase' \in {"bitfield", "loop"} /\ received' = received /\ sent' = sent
          /\ n <= Len(sent) /\ m.id # keepAlive /\ expected' = Len(Frame(m)) - IntBytes
          /\ expected' = expected
      BY <1>2, <1>17 DEF Within, n, m
    <3> QED
      BY <1>11, <1>14, <1>15, <2>4, <2>5, <3>1 DEF Within, n, m
  <2> QED
    BY <1>11, <1>12, <1>13, <2>6 DEF WireInv, Placed
<1> QED
  BY <1>4, <1>16, <1>17

LEMMA CheckHandshakeKeeps == WireInv /\ CheckHandshake => WireInv'
<1> SUFFICES ASSUME WireInv, CheckHandshake
             PROVE  WireInv'
  OBVIOUS
<1>1. /\ UNCHANGED <<received, sent, greeted, queue, end>> /\ buffer' = <<>>
      /\ loc = "handle" /\ phase = "handshake" /\ proc = "running" /\ proc' = proc
  BY DEF CheckHandshake, peerVars, At
<1>2. Sequences' /\ DeliveredInOrder' /\ (greeted' = FALSE => sent' = <<>> /\ queue' = <<>>)
  BY <1>1, SameDeliveries, EmptySeq DEF WireInv, Sequences
<1>3. PICK off : /\ Layout(off, queue, sent)
                 /\ end = "open" => off[Len(sent) + 1] = Len(queue)
                 /\ InHandshake(off) \/ Between(off) \/ Within(off)
  BY <1>1 DEF WireInv, Placed
<1>4. InHandshake(off)
  BY <1>1, <1>3 DEF Between, Within
<1>5. CASE Throw
  BY <1>2, <1>5, ThrowEnds
<1>6. CASE phase' = "bitfield" /\ loc' = "prefix"
  <2>1. Len(buffer) = HandshakeSize /\ Len(<<>>) = 0
    BY <1>1, <1>4, EmptySeq DEF InHandshake
  <2>2. greeted = TRUE
    <3>1. buffer # <<>>
      BY <2>1 DEF HandshakeSize
    <3> QED
      BY <1>4, <3>1 DEF InHandshake, WireInv, Sequences
  <2>3. off[1] = 0 /\ Len(received') + 1 = 1
    BY <1>1, <1>4, <2>1, <2>2 DEF InHandshake, HandshakeSize
  <2>4. Between(off)'
    BY <1>1, <1>6, <2>2, <2>3 DEF Between
  <2> QED
    BY <1>1, <1>2, <1>3, <2>4 DEF WireInv, Placed
<1> QED
  BY <1>5, <1>6 DEF CheckHandshake

(* A message that has come whole.                                          *)
LEMMA MessageArrives ==
    ASSUME WireInv, At("handle"), phase \in {"bitfield", "loop"},
           received' = Append(received, Message), buffer' = <<>>,
           UNCHANGED <<sent, greeted, queue, end>>
    PROVE  /\ Sequences' /\ DeliveredInOrder' /\ greeted' = TRUE
           /\ \E off : /\ Layout(off, queue, sent)
                       /\ end = "open" => off[Len(sent) + 1] = Len(queue)
                       /\ off[Len(received') + 1] = 0
<1>1. Sequences /\ DeliveredInOrder /\ proc = "running" /\ loc = "handle"
  BY DEF WireInv, At
<1>2. PICK off : /\ Layout(off, queue, sent)
                 /\ end = "open" => off[Len(sent) + 1] = Len(queue)
                 /\ InHandshake(off) \/ Between(off) \/ Within(off)
  BY <1>1 DEF WireInv, Placed
<1>3. Within(off)
  BY <1>1, <1>2 DEF InHandshake, Between
<1>4. LET m == sent[Len(received) + 1] IN
      /\ Message = [id |-> m.id, payload |-> Payload(m)]
      /\ off[Len(received) + 2] = 0
  BY <1>1, <1>2, <1>3, BufferIsMessage
<1>5. /\ received' \in Seq(Delivery) /\ Len(received') = Len(received) + 1
      /\ DeliveredInOrder'
  BY <1>1, <1>3, <1>4, DeliverNext DEF Within
<1>6. Sequences'
  BY <1>1, <1>5, EmptySeq DEF Sequences
<1>7. Len(received') + 1 = Len(received) + 2
  <2>1. Len(received) \in Nat
    BY <1>1, LenProperties DEF Sequences
  <2> QED
    BY <1>5, <2>1
<1> QED
  BY <1>2, <1>3, <1>4, <1>5, <1>6, <1>7 DEF Within

LEMMA ReceiveBitFieldKeeps == WireInv /\ ReceiveBitField => WireInv'
<1> SUFFICES ASSUME WireInv, ReceiveBitField
             PROVE  WireInv'
  OBVIOUS
<1>1. /\ At("handle") /\ phase = "bitfield" /\ received' = Append(received, Message)
      /\ buffer' = <<>> /\ UNCHANGED <<sent, greeted, queue, end, proc>>
  BY DEF ReceiveBitField, peerVars
<1>2. /\ Sequences' /\ DeliveredInOrder' /\ greeted' = TRUE
      /\ \E off : /\ Layout(off, queue, sent)
                  /\ end = "open" => off[Len(sent) + 1] = Len(queue)
                  /\ off[Len(received') + 1] = 0
  BY <1>1, MessageArrives
<1>3. CASE Throw
  BY <1>2, <1>3, ThrowEnds
<1>4. CASE phase' = "interested" /\ loc' = "send"
  BY <1>1, <1>2, <1>4 DEF WireInv, Placed, Between
<1> QED
  BY <1>3, <1>4 DEF ReceiveBitField

LEMMA HandleMessageKeeps == WireInv /\ HandleMessage => WireInv'
<1> SUFFICES ASSUME WireInv, HandleMessage
             PROVE  WireInv'
  OBVIOUS
<1>1. /\ At("handle") /\ phase = "loop" /\ received' = Append(received, Message)
      /\ buffer' = <<>> /\ UNCHANGED <<sent, greeted, queue, end>>
  BY DEF HandleMessage, peerVars
<1>2. /\ Sequences' /\ DeliveredInOrder' /\ greeted' = TRUE
      /\ \E off : /\ Layout(off, queue, sent)
                  /\ end = "open" => off[Len(sent) + 1] = Len(queue)
                  /\ off[Len(received') + 1] = 0
  BY <1>1, MessageArrives
<1>3. CASE Throw
  BY <1>2, <1>3, ThrowEnds
<1>4. CASE proc' = "undefined"
  BY <1>2, <1>4 DEF WireInv
<1>5. CASE phase' = phase /\ loc' \in {"prefix", "send"}
  BY <1>1, <1>2, <1>5 DEF WireInv, Placed, Between
<1> QED
  BY <1>3, <1>4, <1>5 DEF HandleMessage

-----------------------------------------------------------------------------
(* The steps of the peer and of the network.                               *)

LEMMA GreetsKeeps ==
    ASSUME WireInv, NEW hash \in {ourHash, ourHash + 1}, PeerGreets(hash)
    PROVE  WireInv'
<1>1. /\ UNCHANGED <<phase, loc, expected, buffer, received, proc, sent, end>>
      /\ greeted = FALSE /\ greeted' = TRUE /\ queue' = queue \o Handshake(hash)
      /\ end = "open" /\ phase # "connect" /\ proc = "running"
  BY DEF PeerGreets, clientVars, readVars, Connected, WireInv, Sequences
<1>2. Sequences /\ DeliveredInOrder /\ sent = <<>> /\ queue = <<>>
  BY <1>1 DEF WireInv
<1>3. Handshake(hash) \in Seq(Byte) /\ Len(Handshake(hash)) = 3
  <2>1. 0 \in Byte /\ hash \in Byte
    BY ByteFacts DEF ourHash
  <2> QED
    BY <2>1 DEF Handshake
<1>4. queue' = Handshake(hash)
  BY <1>1, <1>2, <1>3, ConcatEmptySeq
<1>5. Sequences' /\ DeliveredInOrder'
  BY <1>1, <1>2, <1>3, <1>4, SameDeliveries DEF Sequences
<1>6. ASSUME loc' # "end" PROVE Placed'
  <2>1. PICK off : InHandshake(off) \/ Between(off) \/ Within(off)
    BY <1>1, <1>6 DEF WireInv, Placed
  <2>2. InHandshake(off)
    BY <1>1, <2>1 DEF Between, Within
  <2> DEFINE new == [k \in 1 .. 1 |-> 3]
  <2>3. buffer = <<>> /\ Len(buffer) = 0 /\ Len(sent) = 0
    BY <1>1, <1>2, <2>2, EmptySeq DEF InHandshake
  <2>4. Layout(new, queue', sent')
    <3>1. Len(sent') = 0 /\ Len(queue') = 3 /\ new[1] = 3
      BY <1>1, <1>3, <1>4, <2>3
    <3>2. new \in [1 .. Len(sent') + 1 -> Int]
      BY <3>1
    <3>3. \A k \in 1 .. Len(sent') + 1 : new[k] <= new[Len(sent') + 1]
      BY <3>1
    <3>4. \A k \in 1 .. Len(sent') : FALSE
      BY <3>1
    <3>5. Len(queue') <= new[Len(sent') + 1]
      BY <3>1
    <3> HIDE DEF new
    <3> QED
      BY <3>2, <3>3, <3>4, <3>5 DEF Layout
  <2>5. InHandshake(new)'
    BY <1>1, <2>2, <2>3 DEF InHandshake, HandshakeSize
  <2>6. new[Len(sent') + 1] = Len(queue')
    BY <1>1, <1>3, <1>4, <2>3
  <2> QED
    BY <2>4, <2>5, <2>6 DEF Placed
<1> QED
  BY <1>1, <1>5, <1>6 DEF WireInv

(* The offsets of what was there before are the same.                      *)
LEMMA SendsKeeps ==
    ASSUME WireInv, NEW m \in Messages, PeerSends(m)
    PROVE  WireInv'
<1>1. /\ UNCHANGED <<phase, loc, expected, buffer, received, proc, greeted, end>>
      /\ sent' = Append(sent, m) /\ queue' = queue \o Frame(m)
      /\ end = "open" /\ greeted = TRUE /\ proc = "running"
  BY DEF PeerSends, clientVars, readVars, Connected, WireInv, Sequences
<1>2. Sequences /\ DeliveredInOrder
  BY DEF WireInv
<1>3. /\ Len(sent) \in Nat /\ Len(received) \in Nat /\ Len(received) <= Len(sent)
      /\ DOMAIN received = 1 .. Len(received)
  BY <1>2, LenProperties DEF Sequences, DeliveredInOrder
<1>4. /\ sent' \in Seq(Messages) /\ Len(sent') = Len(sent) + 1
      /\ \A k \in 1 .. Len(sent) : sent'[k] = sent[k]
  BY <1>1, <1>2, <1>3, AppendProperties DEF Sequences
<1>5. queue' \in Seq(Byte)
  BY <1>1, <1>2, FrameShape, ConcatProperties DEF Sequences
<1>6. Sequences'
  BY <1>1, <1>2, <1>4, <1>5 DEF Sequences
<1>7. DeliveredInOrder'
  <2>1. ASSUME NEW k \in DOMAIN received
        PROVE  received[k] = [id |-> sent'[k].id, payload |-> Payload(sent'[k])]
    BY <1>2, <1>3, <1>4 DEF DeliveredInOrder
  <2>2. Len(received) <= Len(sent')
    BY <1>3, <1>4
  <2> QED
    BY <1>1, <2>1, <2>2 DEF DeliveredInOrder
<1>8. ASSUME loc' # "end" PROVE Placed'
  <2>1. PICK off : /\ Layout(off, queue, sent)
                   /\ off[Len(sent) + 1] = Len(queue)
                   /\ InHandshake(off) \/ Between(off) \/ Within(off)
    BY <1>1, <1>8 DEF WireInv, Placed
  <2>2. PICK new : /\ Layout(new, queue', sent')
                   /\ new[Len(sent') + 1] = Len(queue')
                   /\ \A k \in 1 .. Len(sent) + 1 : new[k] = off[k]
    BY <1>1, <1>2, <2>1, SendAppends DEF Sequences
  <2>3. CASE InHandshake(off)
    <3>1. new[1] = off[1]
      BY <1>3, <2>2
    <3> QED
      BY <1>1, <2>2, <2>3, <3>1 DEF InHandshake, Placed
  <2>4. CASE Between(off)
    <3>1. new[Len(received) + 1] = off[Len(received) + 1]
      BY <1>3, <2>2
    <3> QED
      BY <1>1, <2>2, <2>4, <3>1 DEF Between, Placed
  <2>5. CASE Within(off)
    <3> DEFINE n == Len(received) + 1
    <3>1. n \in 1 .. Len(sent) /\ n \in 1 .. Len(sent) + 1 /\ n <= Len(sent')
      BY <1>3, <1>4, <2>5 DEF Within
    <3>2. new[n] = off[n] /\ sent'[n] = sent[n]
      BY <1>4, <2>2, <3>1
    <3>3. Within(new)'
      BY <1>1, <2>5, <3>1, <3>2 DEF Within
    <3> QED
      BY <2>2, <3>3 DEF Placed
  <2> QED
    BY <2>1, <2>3, <2>4, <2>5
<1> QED
  BY <1>1, <1>6, <1>7, <1>8 DEF WireInv

(* The peer closes, or its system resets the connection: the bytes stay.   *)
LEMMA EndKeeps ==
    ASSUME WireInv, PeerCloses \/ PeerResets
    PROVE  WireInv'
<1>1. /\ UNCHANGED <<phase, loc, expected, buffer, received, proc, sent, greeted, queue>>
      /\ end' # "open"
  BY DEF PeerCloses, PeerResets, clientVars, readVars
<1>2. Sequences' /\ DeliveredInOrder' /\ (greeted' = FALSE => sent' = <<>> /\ queue' = <<>>)
  BY <1>1, SameDeliveries DEF WireInv, Sequences
<1>3. ASSUME proc = "running", loc # "end"
      PROVE  Placed'
  <2>1. PICK off : /\ Layout(off, queue, sent)
                   /\ InHandshake(off) \/ Between(off) \/ Within(off)
    BY <1>3 DEF WireInv, Placed
  <2>2. InHandshake(off)' \/ Between(off)' \/ Within(off)'
    BY <1>1, <2>1 DEF InHandshake, Between, Within
  <2> QED
    BY <1>1, <2>1, <2>2 DEF Placed
<1> QED
  BY <1>1, <1>2, <1>3 DEF WireInv

(* The connection breaks: the last bytes are lost.                         *)
LEMMA BreaksKeeps == WireInv /\ ConnectionBreaks => WireInv'
<1> SUFFICES ASSUME WireInv, ConnectionBreaks
             PROVE  WireInv'
  OBVIOUS
<1>1. /\ UNCHANGED <<phase, loc, expected, buffer, received, proc, sent, greeted>>
      /\ end' # "open"
  BY DEF ConnectionBreaks, clientVars, readVars
<1>2. PICK n \in 0 .. Len(queue) : queue' = SubSeq(queue, 1, n)
  BY DEF ConnectionBreaks
<1>3. Sequences /\ queue' \in Seq(Byte) /\ Len(queue') = n
  BY <1>2, Beginning DEF WireInv, Sequences
<1>4. Sequences' /\ DeliveredInOrder'
  BY <1>1, <1>3, SameDeliveries DEF WireInv, Sequences
<1>5. greeted' = FALSE => sent' = <<>> /\ queue' = <<>>
  <2>1. queue = <<>> => n = 0
    BY <1>2, EmptySeq
  <2>2. queue = <<>> => queue' = <<>>
    BY <1>3, <2>1, EmptySeq
  <2> QED
    BY <1>1, <2>2 DEF WireInv
<1>6. ASSUME proc = "running", loc # "end"
      PROVE  Placed'
  <2>1. PICK off : /\ Layout(off, queue, sent)
                   /\ InHandshake(off) \/ Between(off) \/ Within(off)
    BY <1>6 DEF WireInv, Placed
  <2>2. Layout(off, queue', sent')
    BY <1>1, <1>2, <1>3, <2>1, LossKeeps DEF Sequences
  <2>3. InHandshake(off)' \/ Between(off)' \/ Within(off)'
    BY <1>1, <2>1 DEF InHandshake, Between, Within
  <2> QED
    BY <1>1, <2>2, <2>3 DEF Placed
<1> QED
  BY <1>1, <1>4, <1>5, <1>6 DEF WireInv

-----------------------------------------------------------------------------

LEMMA NextWireInv == WireInv /\ [Next]_vars => WireInv'
<1> SUFFICES ASSUME WireInv, [Next]_vars
             PROVE  WireInv'
  OBVIOUS
<1>1. CASE Client
  BY <1>1, ConnectKeeps, SendKeeps, SendFailsKeeps, RecvPrefixKeeps, RecvBodyKeeps,
     RecvFailsKeeps, CheckHandshakeKeeps, ReceiveBitFieldKeeps, HandleMessageKeeps DEF Client
<1>2. CASE Peer
  BY <1>2, GreetsKeeps, SendsKeeps, EndKeeps, BreaksKeeps DEF Peer
<1>3. CASE UNCHANGED vars
  <2>1. UNCHANGED <<phase, loc, expected, buffer, received, proc, sent, greeted, queue, end>>
    BY <1>3 DEF vars, clientVars, readVars, peerVars
  <2>2. Sequences' /\ DeliveredInOrder' /\ (greeted' = FALSE => sent' = <<>> /\ queue' = <<>>)
    BY <2>1, SameDeliveries DEF WireInv, Sequences
  <2>3. Placed => Placed'
    BY <2>1 DEF Placed, InHandshake, Between, Within
  <2> QED
    BY <2>1, <2>2, <2>3 DEF WireInv
<1> QED
  BY <1>1, <1>2, <1>3 DEF Next

(* However TCP cuts the bytes into pieces, however the peer interleaves    *)
(* what it sends with what the client reads, and however the connection    *)
(* ends, receiveMessage returns the first of the messages that the peer    *)
(* sent, in their order, whole.                                            *)
THEOREM MessagesInOrder == WireSpec => []DeliveredInOrder
<1>1. Init => WireInv
  BY InitWireInv
<1>2. WireInv /\ [Next]_vars => WireInv'
  BY NextWireInv
<1>3. WireInv => DeliveredInOrder
  BY DEF WireInv
<1> QED
  BY <1>1, <1>2, <1>3, PTL DEF WireSpec

-----------------------------------------------------------------------------
(* Types.                                                                  *)

(* The message that is handled is the next one that was sent.              *)
LEMMA MessageIsNext ==
    ASSUME WireInv, At("handle"), phase \in {"bitfield", "loop"}
    PROVE  LET n == Len(received) + 1 IN
           /\ n \in 1 .. Len(sent) /\ sent[n] \in Messages
           /\ Message = [id |-> sent[n].id, payload |-> Payload(sent[n])]
<1>1. PICK off : Layout(off, queue, sent) /\ Within(off)
  BY DEF At, WireInv, Placed, InHandshake, Between
<1>2. Len(received) \in Nat /\ Len(sent) \in Nat /\ Len(received) + 1 <= Len(sent)
  BY <1>1, LenProperties DEF WireInv, Sequences, Within
<1>3. Len(received) + 1 \in 1 .. Len(sent)
  BY <1>2
<1> QED
  BY <1>1, <1>3, BufferIsMessage, ElementOfSeq DEF WireInv, Sequences, At

(* Every step keeps the types.                                             *)
LEMMA TypesKept ==
    ASSUME WireInv, WireInv', WireTypeOK, [Next]_vars
    PROVE  WireTypeOK'
<1>1. /\ (sent \in Seq(Messages))' /\ (received \in Seq([id : Byte, payload : Seq(Byte)]))'
      /\ (buffer \in Seq(Byte))' /\ (queue \in Seq(Byte))' /\ (greeted \in BOOLEAN)'
  BY DEF WireInv, Sequences, Delivery
<1>2. buffer \in Seq(Byte) /\ field \in Seq(Byte) /\ expected \in Nat /\ <<>> \in Seq(Byte)
  BY DEF WireTypeOK
<1> DEFINE Rest == /\ phase \in {"connect", "handshake", "bitfield", "interested", "loop", "failed", "closed"}
                   /\ loc \in {"connect", "send", "prefix", "body", "handle", "end"}
                   /\ open \in BOOLEAN /\ provoked \in BOOLEAN
                   /\ expected \in Nat /\ field \in Seq(Byte)
                   /\ proc \in {"running", "killed", "undefined"}
                   /\ end \in {"open", "fin", "reset", "aborted"}
<1>3. Rest
  BY DEF WireTypeOK
<1>4. SUFFICES Rest'
  BY <1>1 DEF WireTypeOK
<1>5. ASSUME Throw
      PROVE  /\ (phase \in {"connect", "handshake", "bitfield", "interested", "loop", "failed", "closed"})'
             /\ (loc \in {"connect", "send", "prefix", "body", "handle", "end"})'
             /\ (open \in BOOLEAN)' /\ (field \in Seq(Byte))'
  BY <1>2, <1>3, <1>5 DEF Throw
<1>6. CASE CreateConnection
  BY <1>3, <1>6 DEF CreateConnection, readVars, peerVars
<1>7. CASE SendData
  BY <1>3, <1>7 DEF SendData, HandshakeSize
<1>8. CASE SendFails
  BY <1>3, <1>5, <1>8 DEF SendFails, readVars, peerVars
<1>9. CASE RecvPrefix
  <2>1. UNCHANGED <<proc, provoked, end>>
    BY <1>9 DEF RecvPrefix, peerVars
  <2>2. PICK chunk \in Chunks(IntBytes) :
            \/ Throw /\ UNCHANGED expected
            \/ /\ ToInt(chunk) \in 1 .. IntLimit - 1 /\ expected' = ToInt(chunk)
               /\ loc' = "body" /\ UNCHANGED <<phase, open, field>>
    BY <1>9, Zenon DEF RecvPrefix, readVars
  <2>3. CASE Throw /\ UNCHANGED expected
    BY <1>3, <1>5, <2>1, <2>3
  <2>4. CASE /\ ToInt(chunk) \in 1 .. IntLimit - 1 /\ expected' = ToInt(chunk)
             /\ loc' = "body" /\ UNCHANGED <<phase, open, field>>
    <3>1. IntLimit - 1 \in Int
      <4>1. ByteBits * IntBytes >= 1 /\ ByteBits * IntBytes \in Nat
        <5>1. ByteBits * IntBytes \in Nat \ {0}
          BY ByteFacts, DivisorProduct
        <5> QED
          BY <5>1
      <4>2. ByteBits * IntBytes - 1 \in Nat
        BY <4>1
      <4> QED
        BY <4>2, PowerDef DEF IntLimit
    <3>2. expected' \in Nat
      BY <2>4, <3>1
    <3> QED
      BY <1>3, <2>1, <2>4, <3>2
  <2> QED
    BY <2>2, <2>3, <2>4
<1>10. CASE RecvBody
  BY <1>3, <1>10 DEF RecvBody, peerVars
<1>11. CASE RecvFails
  BY <1>3, <1>5, <1>11 DEF RecvFails, readVars, peerVars
<1>12. CASE CheckHandshake
  BY <1>3, <1>5, <1>12 DEF CheckHandshake, peerVars
<1>13. ASSUME At("handle"), phase \in {"bitfield", "loop"}
       PROVE  Message.payload \in Seq(Byte)
  BY <1>13, MessageIsNext, PayloadIsSeq
<1>14. CASE ReceiveBitField
  <2>1. Message.payload \in Seq(Byte)
    BY <1>13, <1>14 DEF ReceiveBitField
  <2> HIDE DEF Message
  <2> QED
    BY <1>3, <1>5, <1>14, <2>1 DEF ReceiveBitField, peerVars
<1>15. CASE HandleMessage
  <2>1. Message.payload \in Seq(Byte)
    BY <1>13, <1>15 DEF HandleMessage
  <2>2. ASSUME ~OutOfField(field, ToInt(Message.payload))
        PROVE  setPiece(field, ToInt(Message.payload)) \in Seq(Byte)
    BY <1>2, <2>1, <2>2, ToIntIsNat, SetPieceAdds
  <2>3. UNCHANGED <<expected, provoked, end>>
    BY <1>15 DEF HandleMessage, peerVars
  <2>4. /\ \/ UNCHANGED <<phase, open, proc>> /\ loc' \in {"prefix", "send"}
           \/ UNCHANGED <<phase, open, loc>> /\ proc' = "undefined"
           \/ Throw /\ UNCHANGED proc
        /\ field' \in Seq(Byte)
    <3> HIDE DEF Message, setPiece, OutOfField
    <3> QED
      BY <1>2, <1>5, <1>15, <2>1, <2>2 DEF HandleMessage
  <2> QED
    BY <1>3, <1>5, <2>3, <2>4
<1>16. CASE Peer
  BY <1>3, <1>16 DEF Peer, PeerGreets, PeerSends, PeerCloses, PeerResets, ConnectionBreaks,
                     clientVars, readVars
<1>17. CASE UNCHANGED vars
  BY <1>3, <1>17 DEF vars, clientVars, readVars, peerVars
<1> QED
  BY <1>6, <1>7, <1>8, <1>9, <1>10, <1>11, <1>12, <1>14, <1>15, <1>16, <1>17 DEF Next, Client

-----------------------------------------------------------------------------
(* The bit field.                                                          *)

(* The pieces that the first n of the messages s announce.                 *)
AnnouncedBy(s, n) ==
    {i \in Piece : \E k \in 1 .. n :
        /\ s[k].id \in {bitField, have} /\ i \in s[k].pieces
        /\ s[k].id = have => \E j \in 1 .. k : s[j].id = bitField
        /\ \A j \in k + 1 .. n : s[j].id # bitField}

(* It is what the model has for what has been received.                    *)
LEMMA AnnouncedIsBy ==
    ASSUME Sequences, DeliveredInOrder
    PROVE  Announced = AnnouncedBy(sent, Len(received))
<1> DEFINE n == Len(received)
           got == SubSeq(sent, 1, n)
<1>1. n \in Nat /\ Len(sent) \in Nat /\ n <= Len(sent)
  BY LenProperties DEF Sequences, DeliveredInOrder
<1>2. \A k \in 1 .. n : sent[k] \in Messages
  BY <1>1, ElementOfSeq DEF Sequences
<1>3. /\ got \in Seq(Messages) /\ Len(got) = IF 1 <= n THEN n - 1 + 1 ELSE 0
      /\ \A k \in 1 .. n - 1 + 1 : got[k] = sent[1 + k - 1]
  BY <1>1, <1>2, SubSeqProperties
<1>4. Len(got) = n /\ DOMAIN got = 1 .. n /\ \A k \in 1 .. n : got[k] = sent[k]
  <2> HIDE DEF got, n
  <2>1. Len(got) = n /\ \A k \in 1 .. n : got[k] = sent[k]
    BY <1>1, <1>3
  <2> QED
    BY <1>3, <2>1, LenProperties
<1>5. Announced = {i \in Piece : \E k \in DOMAIN got :
          /\ got[k].id \in {bitField, have} /\ i \in got[k].pieces
          /\ got[k].id = have => \E j \in 1 .. k : got[j].id = bitField
          /\ \A j \in k + 1 .. Len(got) : got[j].id # bitField}
  BY DEF Announced
<1> HIDE DEF got, n
<1>6. ASSUME NEW k \in 1 .. n
      PROVE  /\ \A j \in 1 .. k : got[j] = sent[j]
             /\ \A j \in k + 1 .. n : got[j] = sent[j]
  BY <1>1, <1>4
<1>7. ASSUME NEW i, NEW k \in 1 .. n
      PROVE  (/\ got[k].id \in {bitField, have} /\ i \in got[k].pieces
              /\ got[k].id = have => \E j \in 1 .. k : got[j].id = bitField
              /\ \A j \in k + 1 .. n : got[j].id # bitField)
             <=> (/\ sent[k].id \in {bitField, have} /\ i \in sent[k].pieces
                  /\ sent[k].id = have => \E j \in 1 .. k : sent[j].id = bitField
                  /\ \A j \in k + 1 .. n : sent[j].id # bitField)
  BY <1>4, <1>6
<1>8. Announced = AnnouncedBy(sent, n)
  BY <1>4, <1>5, <1>7 DEF AnnouncedBy
<1> QED
  BY <1>8 DEF n

(* What is sent later announces nothing yet.                               *)
LEMMA AnnouncedSame ==
    ASSUME NEW s, NEW t, NEW n \in Nat, \A k \in 1 .. n : t[k] = s[k]
    PROVE  AnnouncedBy(t, n) = AnnouncedBy(s, n)
<1>1. ASSUME NEW k \in 1 .. n
      PROVE  /\ \A j \in 1 .. k : t[j] = s[j]
             /\ \A j \in k + 1 .. n : t[j] = s[j]
  OBVIOUS
<1>2. ASSUME NEW i, NEW k \in 1 .. n
      PROVE  (/\ t[k].id \in {bitField, have} /\ i \in t[k].pieces
              /\ t[k].id = have => \E j \in 1 .. k : t[j].id = bitField
              /\ \A j \in k + 1 .. n : t[j].id # bitField)
             <=> (/\ s[k].id \in {bitField, have} /\ i \in s[k].pieces
                  /\ s[k].id = have => \E j \in 1 .. k : s[j].id = bitField
                  /\ \A j \in k + 1 .. n : s[j].id # bitField)
  BY <1>1
<1> QED
  BY <1>2 DEF AnnouncedBy

(* What one more message announces.                                        *)
LEMMA AnnouncedNext ==
    ASSUME NEW s, NEW n \in Nat, NEW i \in Piece
    PROVE  LET m == s[n + 1]
               before == i \in AnnouncedBy(s, n)
               after == i \in AnnouncedBy(s, n + 1)
           IN /\ m.id = bitField => (after <=> i \in m.pieces)
              /\ m.id = have /\ (\E j \in 1 .. n : s[j].id = bitField)
                    => (after <=> before \/ i \in m.pieces)
              /\ m.id \notin {bitField, have} => (after <=> before)
<1> DEFINE m == s[n + 1]
           Ann(k, l) == /\ s[k].id \in {bitField, have} /\ i \in s[k].pieces
                        /\ s[k].id = have => \E j \in 1 .. k : s[j].id = bitField
                        /\ \A j \in k + 1 .. l : s[j].id # bitField
<1>1. /\ i \in AnnouncedBy(s, n) <=> \E k \in 1 .. n : Ann(k, n)
      /\ i \in AnnouncedBy(s, n + 1) <=> \E k \in 1 .. n + 1 : Ann(k, n + 1)
  BY DEF AnnouncedBy
<1>2. 1 .. n + 1 = (1 .. n) \cup {n + 1}
  OBVIOUS
<1>3. \A k \in 1 .. n : Ann(k, n + 1) <=> Ann(k, n) /\ m.id # bitField
  <2> SUFFICES ASSUME NEW k \in 1 .. n
               PROVE  (\A j \in k + 1 .. n + 1 : s[j].id # bitField)
                          <=> (\A j \in k + 1 .. n : s[j].id # bitField) /\ m.id # bitField
    OBVIOUS
  <2>1. k + 1 .. n + 1 = (k + 1 .. n) \cup {n + 1}
    OBVIOUS
  <2> QED
    BY <2>1
<1>4. Ann(n + 1, n + 1) <=> /\ m.id \in {bitField, have} /\ i \in m.pieces
                            /\ m.id = have => \E j \in 1 .. n : s[j].id = bitField
  <2>1. (n + 1) + 1 .. n + 1 = {}
    OBVIOUS
  <2>2. have # bitField
    BY DEF have, bitField
  <2> QED
    BY <1>2, <2>1, <2>2
<1> HIDE DEF Ann, m
<1>5. i \in AnnouncedBy(s, n + 1) <=> (i \in AnnouncedBy(s, n) /\ m.id # bitField) \/ Ann(n + 1, n + 1)
  BY <1>1, <1>2, <1>3
<1>6. have # bitField
  BY DEF have, bitField
<1> QED
  BY <1>4, <1>5, <1>6 DEF m

(* What the bit field says once a first one was received.                  *)
FieldInv ==
    phase \in {"interested", "loop"} /\ proc = "running" =>
        /\ field \in Seq(Byte)
        /\ \E j \in 1 .. Len(received) : sent[j].id = bitField
        /\ \A i \in Piece : hasPiece(field, i) <=> i \in AnnouncedBy(sent, Len(received))

(* Nothing more is received, although more may be sent.                    *)
LEMMA FieldSame ==
    ASSUME WireInv, WireInv', FieldInv, UNCHANGED <<field, received>>,
           \A k \in 1 .. Len(received) : sent'[k] = sent[k],
           phase' \in {"interested", "loop"} /\ proc' = "running" =>
               phase \in {"interested", "loop"} /\ proc = "running"
    PROVE  FieldInv'
<1>1. Len(received) \in Nat
  BY LenProperties DEF WireInv, Sequences
<1>2. AnnouncedBy(sent', Len(received)) = AnnouncedBy(sent, Len(received))
  BY <1>1, AnnouncedSame
<1>3. SUFFICES ASSUME phase' \in {"interested", "loop"}, proc' = "running"
               PROVE  /\ field \in Seq(Byte)
                      /\ \E j \in 1 .. Len(received) : sent'[j].id = bitField
                      /\ \A i \in Piece : hasPiece(field, i) <=> i \in AnnouncedBy(sent, Len(received))
  BY <1>2 DEF FieldInv
<1> QED
  BY <1>3 DEF FieldInv

(* One more message is received, and the field has what it announces.      *)
LEMMA FieldNext ==
    ASSUME WireInv, FieldInv, At("handle"), phase \in {"bitfield", "loop"},
           UNCHANGED sent, received' = Append(received, Message), proc' = "running",
           \/ Message.id = bitField /\ field' = Message.payload
           \/ Message.id \notin {bitField, have} /\ UNCHANGED field /\ phase = "loop"
           \/ /\ Message.id = have /\ phase = "loop"
              /\ ~OutOfField(field, ToInt(Message.payload))
              /\ field' = setPiece(field, ToInt(Message.payload))
    PROVE  FieldInv'
<1> DEFINE n == Len(received)
           m == sent[n + 1]
<1>1. /\ n \in Nat /\ n + 1 \in 1 .. Len(sent) /\ m \in Messages
      /\ Message = [id |-> m.id, payload |-> Payload(m)]
  BY MessageIsNext, LenProperties DEF WireInv, Sequences
<1>2. Len(received') = n + 1
  <2>1. m.id \in Byte /\ Payload(m) \in Seq(Byte)
    BY <1>1, MessagesAssumption, PayloadIsSeq
  <2>2. Message \in Delivery /\ received \in Seq(Delivery)
    <3> HIDE DEF m, Message
    <3> QED
      BY <1>1, <2>1 DEF WireInv, Sequences, Delivery
  <2> HIDE DEF Message
  <2> QED
    BY <2>2, AppendProperties
<1>3. Message.id = m.id /\ Message.payload = Payload(m)
  BY <1>1
<1> HIDE DEF m, n, Message
<1>4. proc = "running"
  BY DEF At
<1>5. SUFFICES /\ field' \in Seq(Byte)
               /\ \E j \in 1 .. n + 1 : sent[j].id = bitField
               /\ \A i \in Piece : hasPiece(field', i) <=> i \in AnnouncedBy(sent, n + 1)
  BY <1>2 DEF FieldInv
<1>6. CASE m.id = bitField
  <2>1. field' = Payload(m)
    BY <1>3, <1>6 DEF have, bitField
  <2>2. \A i \in Piece : hasPiece(Payload(m), i) <=> i \in m.pieces
    BY <1>1, <1>6, FieldHasPieces
  <2>3. \A i \in Piece : i \in AnnouncedBy(sent, n + 1) <=> i \in m.pieces
    BY <1>1, <1>6, AnnouncedNext DEF m
  <2>4. n + 1 \in 1 .. n + 1
    BY <1>1
  <2> QED
    BY <1>1, <1>6, <2>1, <2>2, <2>3, <2>4, PayloadIsSeq DEF m
<1>7. ASSUME m.id # bitField
      PROVE  /\ phase = "loop" /\ field \in Seq(Byte)
             /\ \E j \in 1 .. n : sent[j].id = bitField
             /\ \E j \in 1 .. n + 1 : sent[j].id = bitField
             /\ \A i \in Piece : hasPiece(field, i) <=> i \in AnnouncedBy(sent, n)
  <2>1. phase = "loop"
    BY <1>3, <1>7
  <2>2. /\ field \in Seq(Byte) /\ \E j \in 1 .. n : sent[j].id = bitField
        /\ \A i \in Piece : hasPiece(field, i) <=> i \in AnnouncedBy(sent, n)
    BY <1>4, <2>1 DEF FieldInv, n
  <2>3. \A j \in 1 .. n : j \in 1 .. n + 1
    BY <1>1
  <2> QED
    BY <2>1, <2>2, <2>3
<1>8. CASE m.id \notin {bitField, have}
  <2>1. field' = field
    BY <1>3, <1>8
  <2>2. \A i \in Piece : i \in AnnouncedBy(sent, n + 1) <=> i \in AnnouncedBy(sent, n)
    BY <1>1, <1>8, AnnouncedNext DEF m
  <2> QED
    BY <1>7, <1>8, <2>1, <2>2
<1>9. CASE m.id = have
  <2>1. PICK p \in Piece : m.pieces = {p} /\ ToInt(Payload(m)) = p
    BY <1>1, <1>9, HaveHasNumber
  <2>2. m.id # bitField /\ p \in Nat
    BY <1>9, PiecesAssumption DEF have, bitField, Piece
  <2>3. ~OutOfField(field, p) /\ field' = setPiece(field, p)
    BY <1>3, <1>9, <2>1, <2>2
  <2>4. /\ field' \in Seq(Byte)
        /\ \A i \in Nat : hasPiece(field', i) <=> hasPiece(field, i) \/ i = p
    BY <1>7, <2>2, <2>3, SetPieceAdds
  <2>5. \A i \in Piece : i \in AnnouncedBy(sent, n + 1) <=> i \in AnnouncedBy(sent, n) \/ i = p
    <3> SUFFICES ASSUME NEW i \in Piece
                 PROVE  i \in AnnouncedBy(sent, n + 1) <=> i \in AnnouncedBy(sent, n) \/ i = p
      OBVIOUS
    <3>1. i \in AnnouncedBy(sent, n + 1) <=> i \in AnnouncedBy(sent, n) \/ i \in m.pieces
      BY <1>1, <1>7, <1>9, <2>2, AnnouncedNext DEF m
    <3> QED
      BY <2>1, <3>1
  <2>6. \A i \in Piece : i \in Nat
    BY PiecesAssumption DEF Piece
  <2> QED
    BY <1>7, <2>2, <2>4, <2>5, <2>6
<1> QED
  BY <1>6, <1>8, <1>9

(* Every step keeps the bit field what was announced.                      *)
LEMMA FieldKept ==
    ASSUME WireInv, WireInv', FieldInv, [Next]_vars
    PROVE  FieldInv'
<1>1. ASSUME phase' \notin {"interested", "loop"} \/ proc' # "running"
      PROVE  FieldInv'
  BY <1>1 DEF FieldInv
<1>2. ASSUME UNCHANGED <<field, received, sent, phase, proc>>
      PROVE  FieldInv'
  BY <1>2, FieldSame
<1>3. Throw => phase' \notin {"interested", "loop"}
  BY DEF Throw
<1>4. CASE CreateConnection
  BY <1>1, <1>4 DEF CreateConnection
<1>5. CASE SendData
  <2>1. /\ UNCHANGED <<field, received, sent, proc>>
        /\ phase' = "loop" => phase \in {"interested", "loop"}
        /\ phase' \in {"handshake", "loop"}
    BY <1>5 DEF SendData
  <2> QED
    BY <2>1, FieldSame
<1>6. CASE SendFails
  BY <1>1, <1>3, <1>6 DEF SendFails
<1>7. CASE RecvPrefix
  <2>1. Throw \/ UNCHANGED <<field, received, phase>>
    BY <1>7, Zenon DEF RecvPrefix
  <2>2. UNCHANGED <<proc, sent>>
    BY <1>7 DEF RecvPrefix, peerVars
  <2> QED
    BY <1>1, <1>2, <1>3, <2>1, <2>2
<1>8. CASE RecvBody
  BY <1>2, <1>8 DEF RecvBody, peerVars
<1>9. CASE RecvFails
  BY <1>1, <1>3, <1>9 DEF RecvFails
<1>10. CASE CheckHandshake
  BY <1>1, <1>3, <1>10 DEF CheckHandshake
<1>11. CASE ReceiveBitField
  <2>1. CASE Throw
    BY <1>1, <1>3, <2>1
  <2>2. CASE Message.id = bitField /\ field' = Message.payload
    BY <1>11, <2>2, FieldNext DEF ReceiveBitField, peerVars, At
  <2> QED
    BY <1>11, <2>1, <2>2 DEF ReceiveBitField
<1>12. CASE HandleMessage
  <2>1. At("handle") /\ phase = "loop" /\ UNCHANGED sent /\ received' = Append(received, Message)
    BY <1>12 DEF HandleMessage, peerVars
  <2>2. CASE Throw \/ proc' = "undefined"
    BY <1>1, <1>3, <2>2
  <2>3. CASE /\ \/ Message.id = bitField /\ field' = Message.payload
                \/ Message.id \in 0 .. MaxId \ {bitField, have} /\ UNCHANGED field
                \/ /\ Message.id = have
                   /\ ~OutOfField(field, ToInt(Message.payload))
                   /\ field' = setPiece(field, ToInt(Message.payload))
             /\ UNCHANGED proc
    <3>1. proc' = "running"
      BY <2>1, <2>3 DEF At
    <3> HIDE DEF Message
    <3> QED
      BY <2>1, <2>3, <3>1, FieldNext
  <2> QED
    <3> HIDE DEF Message, setPiece, OutOfField
    <3> QED
      BY <1>12, <2>2, <2>3 DEF HandleMessage
<1>13. CASE Peer
  <2>1. UNCHANGED <<field, received, phase, proc>>
    BY <1>13 DEF Peer, PeerGreets, PeerSends, PeerCloses, PeerResets, ConnectionBreaks,
                 clientVars
  <2>2. UNCHANGED sent \/ \E m \in Messages : sent' = Append(sent, m)
    BY <1>13 DEF Peer, PeerGreets, PeerSends, PeerCloses, PeerResets, ConnectionBreaks
  <2>3. CASE UNCHANGED sent
    BY <1>2, <2>1, <2>3
  <2>4. CASE \E m \in Messages : sent' = Append(sent, m)
    <3>1. \A k \in 1 .. Len(sent) : sent'[k] = sent[k]
      BY <2>4, AppendProperties DEF WireInv, Sequences
    <3>2. \A k \in 1 .. Len(received) : k \in 1 .. Len(sent)
      BY LenProperties DEF WireInv, Sequences, DeliveredInOrder
    <3> QED
      BY <2>1, <3>1, <3>2, FieldSame
  <2> QED
    BY <2>2, <2>3, <2>4
<1>14. CASE UNCHANGED vars
  BY <1>2, <1>14 DEF vars, clientVars, peerVars
<1> QED
  BY <1>4, <1>5, <1>6, <1>7, <1>8, <1>9, <1>10, <1>11, <1>12, <1>13, <1>14 DEF Next, Client

-----------------------------------------------------------------------------

(* Every variable has its type: bytes are bytes, in numbers as in bit      *)
(* fields, and setPiece never makes more of one than a byte.               *)
THEOREM WireTypeCorrect == WireSpec => []WireTypeOK
<1>1. Init => WireInv /\ WireTypeOK
  <2> SUFFICES ASSUME Init
               PROVE  WireTypeOK
    BY InitWireInv
  <2>1. /\ <<>> \in Seq(Byte) /\ <<>> \in Seq(Messages)
        /\ <<>> \in Seq([id : Byte, payload : Seq(Byte)])
    BY EmptySeq
  <2>2. buffer = <<>> /\ queue = <<>> /\ field = <<>> /\ received = <<>> /\ sent = <<>>
    BY DEF Init
  <2> QED
    BY <2>1, <2>2 DEF Init, WireTypeOK
<1>2. WireInv /\ WireTypeOK /\ [Next]_vars => WireInv' /\ WireTypeOK'
  BY NextWireInv, TypesKept
<1> QED
  BY <1>1, <1>2, PTL DEF WireSpec

(* For bytes and numbers of any width and any number of pieces: while the  *)
(* peer is known, hasPiece says of each piece whether the messages that    *)
(* were received announce it, the last bit field or a have message after a *)
(* bit field.                                                              *)
THEOREM FieldAsAnnounced == WireSpec => []FieldIsAnnounced
<1>1. Init => WireInv /\ FieldInv
  BY InitWireInv DEF Init, FieldInv
<1>2. WireInv /\ FieldInv /\ [Next]_vars => WireInv' /\ FieldInv'
  BY NextWireInv, FieldKept
<1>3. WireInv /\ FieldInv => FieldIsAnnounced
  BY AnnouncedIsBy DEF WireInv, FieldInv, FieldIsAnnounced
<1> QED
  BY <1>1, <1>2, <1>3, PTL DEF WireSpec

-----------------------------------------------------------------------------
(* Announcements.                                                          *)

(* The pieces known are those announced, now ...                            *)
LEMMA KnownIsAnnounced ==
    ASSUME FieldInv
    PROVE  KnownPieces = IF Knows = "pieces" THEN AnnouncedBy(sent, Len(received)) ELSE {}
<1>1. Knows = "pieces" => phase \in {"interested", "loop"} /\ proc = "running"
  BY DEF Knows
<1>2. Knows = "pieces" =>
          {i \in Piece : hasPiece(field, i)} = AnnouncedBy(sent, Len(received))
  <2> SUFFICES ASSUME Knows = "pieces"
               PROVE  {i \in Piece : hasPiece(field, i)} = AnnouncedBy(sent, Len(received))
    OBVIOUS
  <2>1. \A i \in Piece : hasPiece(field, i) <=> i \in AnnouncedBy(sent, Len(received))
    BY <1>1 DEF FieldInv
  <2>2. AnnouncedBy(sent, Len(received)) \subseteq Piece
    BY DEF AnnouncedBy
  <2> QED
    BY <2>1, <2>2
<1> QED
  BY <1>2 DEF KnownPieces

(* ... and after a step.                                                   *)
LEMMA KnownIsAnnouncedNext ==
    ASSUME FieldInv'
    PROVE  KnownPieces' = IF Knows' = "pieces" THEN AnnouncedBy(sent', Len(received')) ELSE {}
<1>1. Knows' = "pieces" => phase' \in {"interested", "loop"} /\ proc' = "running"
  BY DEF Knows
<1>2. Knows' = "pieces" =>
          {i \in Piece : hasPiece(field', i)} = AnnouncedBy(sent', Len(received'))
  <2> SUFFICES ASSUME Knows' = "pieces"
               PROVE  {i \in Piece : hasPiece(field', i)} = AnnouncedBy(sent', Len(received'))
    OBVIOUS
  <2>1. \A i \in Piece : hasPiece(field', i) <=> i \in AnnouncedBy(sent', Len(received'))
    BY <1>1 DEF FieldInv
  <2>2. AnnouncedBy(sent', Len(received')) \subseteq Piece
    BY DEF AnnouncedBy
  <2> QED
    BY <2>1, <2>2
<1> QED
  BY <1>2 DEF KnownPieces

(* What is received is the next message that was sent.                     *)
LEMMA HearsNext ==
    ASSUME WireInv, WireInv', UNCHANGED sent, NEW d \in Delivery, received' = Append(received, d)
    PROVE  /\ Len(received) \in Nat /\ Len(received') = Len(received) + 1
           /\ Len(received) < Len(sent) /\ sent[Len(received) + 1] \in Messages
<1>1. received \in Seq(Delivery) /\ sent \in Seq(Messages)
  BY DEF WireInv, Sequences
<1>2. Len(received) \in Nat /\ Len(received') = Len(received) + 1 /\ Len(sent) \in Nat
  BY <1>1, AppendProperties, LenProperties
<1>3. Len(received) + 1 <= Len(sent)
  BY <1>2 DEF WireInv, DeliveredInOrder
<1> QED
  BY <1>1, <1>2, <1>3, ElementOfSeq

(* Nothing is heard, and nothing more is known.                            *)
LEMMA Silence ==
    ASSUME FieldInv, FieldInv', UNCHANGED <<sent, received>>, Knows' = Knows
    PROVE  UNCHANGED Heard!vars
<1>1. KnownPieces' = KnownPieces
  <2>1. KnownPieces = IF Knows = "pieces" THEN AnnouncedBy(sent, Len(received)) ELSE {}
    BY KnownIsAnnounced
  <2>2. KnownPieces' = IF Knows' = "pieces" THEN AnnouncedBy(sent', Len(received')) ELSE {}
    BY KnownIsAnnouncedNext
  <2>3. sent' = sent /\ received' = received /\ Knows' = Knows
    OBVIOUS
  <2>4. AnnouncedBy(sent', Len(received')) = AnnouncedBy(sent, Len(received))
    BY <2>3, Zenon DEF AnnouncedBy
  <2> QED
    BY <2>1, <2>2, <2>3, <2>4, Zenon
<1> QED
  BY <1>1 DEF Heard!vars

(* The client goes, whatever it hears.                                     *)
LEMMA Leaves ==
    ASSUME WireInv, WireInv', UNCHANGED sent, Knows # "gone", Knows' = "gone",
           UNCHANGED received \/ \E d \in Delivery : received' = Append(received, d)
    PROVE  Heard!Leave
<1>1. KnownPieces' = {}
  BY DEF KnownPieces
<1>2. Len(received') = Len(received) \/ \E m \in Messages : Heard!Hears(m)
  BY HearsNext DEF Heard!Hears
<1> QED
  BY <1>1, <1>2 DEF Heard!Leave

(* One more message is heard by a client that stays.                       *)
LEMMA StaysAndHears ==
    ASSUME WireInv, WireInv', FieldInv, FieldInv', UNCHANGED sent,
           NEW d \in Delivery, received' = Append(received, d),
           Knows # "gone", Knows' = "pieces", Knows = "pieces" \/ d.id = bitField
    PROVE  Heard!HearAll \/ Heard!HearMore
<1> DEFINE n == Len(received)
           m == sent[n + 1]
<1>1. n \in Nat /\ Len(received') = n + 1 /\ n < Len(sent) /\ m \in Messages
  BY HearsNext
<1>2. d.id = m.id
  <2>1. received \in Seq(Delivery) /\ received' \in Seq(Delivery)
    BY DEF WireInv, Sequences
  <2>2. Append(received, d)[n + 1] = d
    BY <2>1, AppendProperties
  <2>3. received'[n + 1] = d /\ n + 1 \in DOMAIN received'
    BY <1>1, <2>1, <2>2, LenProperties
  <2>4. received'[n + 1] = [id |-> sent'[n + 1].id, payload |-> Payload(sent'[n + 1])]
    BY <2>3 DEF WireInv, DeliveredInOrder
  <2> QED
    BY <2>3, <2>4
<1>3. Heard!Hears(m)
  BY <1>1 DEF Heard!Hears
<1>4. KnownPieces' = AnnouncedBy(sent, n + 1)
  BY <1>1, KnownIsAnnouncedNext
<1>5. AnnouncedBy(sent, n + 1) \subseteq Piece
  BY DEF AnnouncedBy
<1>6. CASE m.id = bitField
  <2>1. \A i \in Piece : i \in AnnouncedBy(sent, n + 1) <=> i \in m.pieces
    BY <1>1, <1>6, AnnouncedNext
  <2>2. KnownPieces' = m.pieces \cap Piece
    BY <1>4, <1>5, <2>1
  <2> HIDE DEF m
  <2> QED
    BY <1>1, <1>3, <1>6, <2>2 DEF Heard!HearAll
<1>7. CASE m.id # bitField
  <2>1. Knows = "pieces" /\ KnownPieces = AnnouncedBy(sent, n)
    BY <1>2, <1>7, KnownIsAnnounced
  <2>2. \E j \in 1 .. n : sent[j].id = bitField
    <3>1. phase \in {"interested", "loop"} /\ proc = "running"
      BY <2>1 DEF Knows
    <3> QED
      BY <3>1 DEF FieldInv
  <2>3. AnnouncedBy(sent, n) \subseteq Piece
    BY DEF AnnouncedBy
  <2>4. \A i \in Piece :
          /\ m.id = have => (i \in AnnouncedBy(sent, n + 1) <=> i \in AnnouncedBy(sent, n) \/ i \in m.pieces)
          /\ m.id # have => (i \in AnnouncedBy(sent, n + 1) <=> i \in AnnouncedBy(sent, n))
    BY <1>1, <1>7, <2>2, AnnouncedNext
  <2> HIDE DEF m, n
  <2>5. KnownPieces' = IF m.id = have THEN KnownPieces \cup (m.pieces \cap Piece) ELSE KnownPieces
    <3>1. CASE m.id = have
      BY <1>4, <1>5, <2>1, <2>3, <2>4, <3>1
    <3>2. CASE m.id # have
      BY <1>4, <1>5, <2>1, <2>3, <2>4, <3>2
    <3> QED
      BY <3>1, <3>2
  <2> QED
    BY <1>1, <1>3, <1>7, <2>1, <2>5 DEF Heard!HearMore
<1> QED
  BY <1>6, <1>7

(* What Throw and the exceptions leave.                                    *)
LEMMA ThrowLeaves == Throw => Knows' = "gone"
BY DEF Throw, Knows

(* A step of the client is one of the listener.                            *)
LEMMA ClientHears ==
    ASSUME WireInv, WireInv', FieldInv, FieldInv', Client
    PROVE  [Heard!Next]_(Heard!vars)
<1>1. UNCHANGED sent
  BY DEF Client, CreateConnection, SendData, SendFails, RecvPrefix, RecvBody, RecvFails,
         CheckHandshake, ReceiveBitField, HandleMessage, peerVars
<1>2. ASSUME UNCHANGED received, Knows' \in {Knows, "gone"}
      PROVE  [Heard!Next]_(Heard!vars)
  <2>1. CASE Knows' = Knows
    BY <1>1, <1>2, <2>1, Silence
  <2>2. CASE Knows' # Knows
    BY <1>1, <1>2, <2>2, Leaves DEF Heard!Next
  <2> QED
    BY <2>1, <2>2
<1>3. CASE CreateConnection
  <2>1. phase' \in {"handshake", "failed"} /\ UNCHANGED <<proc, received>>
    BY <1>3 DEF CreateConnection
  <2>2. phase \in {"connect", "handshake"} /\ proc = "running"
    BY <1>3 DEF CreateConnection, At, WireInv, Placed, InHandshake, Between, Within
  <2>3. Knows' \in {Knows, "gone"}
    BY <2>1, <2>2 DEF Knows
  <2> QED
    BY <1>2, <2>1, <2>3
<1>4. CASE SendData
  <2>1. /\ UNCHANGED <<proc, received>>
        /\ \/ phase = "handshake" /\ phase' = phase
           \/ phase \in {"interested", "loop"} /\ phase' = "loop"
    BY <1>4 DEF SendData
  <2>2. Knows' = Knows
    BY <2>1 DEF Knows
  <2> QED
    BY <1>2, <2>1, <2>2
<1>5. CASE SendFails
  <2>1. UNCHANGED received /\ (Throw \/ proc' = "killed")
    BY <1>5 DEF SendFails
  <2>2. Knows' = "gone"
    BY <2>1, ThrowLeaves DEF Knows
  <2> QED
    BY <1>2, <2>1, <2>2
<1>6. CASE RecvPrefix
  <2>1. /\ UNCHANGED proc
        /\ \/ Throw /\ UNCHANGED received
           \/ UNCHANGED <<phase, received>>
           \/ Throw /\ received' = Append(received, [id |-> keepAlive, payload |-> <<>>])
    BY <1>6, Zenon DEF RecvPrefix
  <2>2. CASE Throw /\ UNCHANGED received
    BY <1>2, <2>2, ThrowLeaves
  <2>3. CASE UNCHANGED <<phase, received>>
    <3>1. Knows' = Knows
      BY <2>1, <2>3 DEF Knows
    <3> QED
      BY <1>2, <2>3, <3>1
  <2>4. CASE Throw /\ received' = Append(received, [id |-> keepAlive, payload |-> <<>>])
    <3>1. phase \in {"bitfield", "loop"} /\ proc = "running"
      BY <1>6 DEF RecvPrefix, At, WireInv, Placed, InHandshake, Between, Within
    <3>2. Knows # "gone"
      BY <3>1 DEF Knows
    <3>3. [id |-> keepAlive, payload |-> <<>>] \in Delivery
      BY ByteFacts, EmptySeq DEF Delivery
    <3> QED
      BY <1>1, <2>4, <3>2, <3>3, ThrowLeaves, Leaves DEF Heard!Next
  <2> QED
    BY <2>1, <2>2, <2>3, <2>4
<1>7. CASE RecvBody
  <2>1. UNCHANGED <<phase, proc, received>>
    BY <1>7 DEF RecvBody
  <2>2. Knows' = Knows
    BY <2>1 DEF Knows
  <2> QED
    BY <1>2, <2>1, <2>2
<1>8. CASE RecvFails
  BY <1>2, <1>8, ThrowLeaves DEF RecvFails
<1>9. CASE CheckHandshake
  <2>1. /\ UNCHANGED <<proc, received>> /\ phase = "handshake"
        /\ phase' = "bitfield" \/ Throw
    BY <1>9 DEF CheckHandshake
  <2>2. Knows' \in {Knows, "gone"}
    BY <2>1, ThrowLeaves DEF Knows
  <2> QED
    BY <1>2, <2>1, <2>2
<1>10. ASSUME At("handle"), phase \in {"bitfield", "loop"}
       PROVE  Message \in Delivery
  <2>1. PICK m \in Messages : Message = [id |-> m.id, payload |-> Payload(m)]
    BY <1>10, MessageIsNext
  <2>2. m.id \in Byte /\ Payload(m) \in Seq(Byte)
    BY MessagesAssumption, PayloadIsSeq
  <2> HIDE DEF Message
  <2> QED
    BY <2>1, <2>2 DEF Delivery
<1> HIDE DEF Message
<1>11. CASE ReceiveBitField
  <2>1. /\ At("handle") /\ phase = "bitfield" /\ proc = "running" /\ UNCHANGED proc
        /\ received' = Append(received, Message)
        /\ Throw \/ (Message.id = bitField /\ phase' = "interested")
    BY <1>11 DEF ReceiveBitField, At
  <2>2. Knows # "gone" /\ Message \in Delivery
    BY <1>10, <2>1 DEF Knows
  <2>3. CASE Throw
    BY <1>1, <2>1, <2>2, <2>3, ThrowLeaves, Leaves DEF Heard!Next
  <2>4. CASE Message.id = bitField /\ phase' = "interested"
    <3>1. Knows' = "pieces"
      BY <2>1, <2>4 DEF Knows
    <3> QED
      BY <1>1, <2>1, <2>2, <2>4, <3>1, StaysAndHears DEF Heard!Next
  <2> QED
    BY <2>1, <2>3, <2>4
<1>12. CASE HandleMessage
  <2>1. /\ At("handle") /\ phase = "loop" /\ proc = "running"
        /\ received' = Append(received, Message)
        /\ Throw \/ proc' = "undefined" \/ UNCHANGED <<phase, proc>>
    <3> HIDE DEF setPiece, OutOfField, StoiThrows, MaxId
    <3> QED
      BY <1>12 DEF HandleMessage, At
  <2>2. Knows = "pieces" /\ Message \in Delivery
    BY <1>10, <2>1 DEF Knows
  <2>3. CASE Throw \/ proc' = "undefined"
    <3>1. Knows' = "gone"
      BY <2>3, ThrowLeaves DEF Knows
    <3> QED
      BY <1>1, <2>1, <2>2, <3>1, Leaves DEF Heard!Next
  <2>4. CASE UNCHANGED <<phase, proc>>
    <3>1. Knows' = "pieces"
      BY <2>1, <2>4 DEF Knows
    <3> QED
      BY <1>1, <2>1, <2>2, <3>1, StaysAndHears DEF Heard!Next
  <2> QED
    BY <2>1, <2>3, <2>4
<1> QED
  BY <1>3, <1>4, <1>5, <1>6, <1>7, <1>8, <1>9, <1>11, <1>12 DEF Client

(* A step of the peer, or of the network.                                  *)
LEMMA PeerSays ==
    ASSUME WireInv, FieldInv, FieldInv', Peer \/ UNCHANGED vars
    PROVE  [Heard!Next]_(Heard!vars)
<1>1. UNCHANGED <<received, phase, proc, field>>
  BY DEF Peer, PeerGreets, PeerSends, PeerCloses, PeerResets, ConnectionBreaks, vars, clientVars
<1>2. UNCHANGED sent \/ \E m \in Messages : sent' = Append(sent, m)
  BY DEF Peer, PeerGreets, PeerSends, PeerCloses, PeerResets, ConnectionBreaks, vars, peerVars
<1>3. Knows' = Knows
  BY <1>1 DEF Knows
<1>4. KnownPieces' = KnownPieces
  BY <1>1, <1>3 DEF KnownPieces
<1> QED
  BY <1>1, <1>2, <1>3, <1>4 DEF Heard!Next, Heard!Say, Heard!vars

(* For bytes and numbers of any width, any pieces and any messages: of     *)
(* receiveMessage, hasPiece and setPiece over sockets there remains that   *)
(* the client hears what the peer says, in order, and knows the pieces     *)
(* that it says, from its first bit field until the client leaves.         *)
THEOREM WireRefines == WireSpec => ImplementsAnnouncements
<1>1. Init => WireInv /\ FieldInv
  BY InitWireInv DEF Init, FieldInv
<1>2. WireInv /\ FieldInv /\ [Next]_vars => WireInv' /\ FieldInv'
  BY NextWireInv, FieldKept
<1>3. Init => Heard!Init
  BY DEF Init, Heard!Init, Knows, KnownPieces
<1>4. WireInv /\ WireInv' /\ FieldInv /\ FieldInv' /\ [Next]_vars => [Heard!Next]_(Heard!vars)
  BY ClientHears, PeerSays DEF Next
<1> QED
  BY <1>1, <1>2, <1>3, <1>4, PTL DEF WireSpec, ImplementsAnnouncements, Heard!Spec
=============================================================================
