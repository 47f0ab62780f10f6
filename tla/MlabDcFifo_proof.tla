--------------------------- MODULE MlabDcFifo_proof ---------------------------
(***************************************************************************)
(* TLAPS proofs about MlabDcFifo, for every RAM_ADDR_WIDTH and every       *)
(* number of synchronizer stages: its gray coded registers implement the   *)
(* protocol of DualClockFifo, and with its RAM it implements a queue.      *)
(*                                                                         *)
(* The invariant has three parts: Coding (each register holds the code of  *)
(* a count), Kept (those counts satisfy the invariants DualClockFifo_proof *)
(* proves of the protocol) and Pipeline (where a word accepted is on its   *)
(* way into the RAM).                                                      *)
(***************************************************************************)
EXTENDS MlabDcFifo, Sequences, SequenceTheorems, WellFoundedInduction,
        NaturalsInduction, TLAPS

-------------------------------------------------------------------------------
(*****************************************************************************)
(* Induction over sets of numbers, which is how everything here about a      *)
(* bit position or a number of any width is proved, and from it that Power   *)
(* is the power of two its recursive definition describes.                   *)
(*****************************************************************************)

(* A set of numbers has a least one. *)
LEMMA LeastNumber ==
    ASSUME NEW S, S \subseteq Nat, S # {}
    PROVE  \E n \in S : \A m \in S : n <= m
<1> DEFINE R == OpToRel(<, Nat)
<1>1. IsWellFoundedOn(R, Nat)
  BY NatLessThanWellFounded
<1>2. \A x, y \in Nat : x < y => <<x, y>> \in R
  BY DEF OpToRel
<1> HIDE DEF R
<1>3. \E x \in S : \A y \in S : ~(<<y, x>> \in R)
  BY <1>1, WFMin
<1>4. PICK n \in S : \A m \in S : ~(<<m, n>> \in R)
  BY <1>3
<1>5. ASSUME NEW m \in S PROVE n <= m
  <2>1. ~(m < n)
    BY <1>2, <1>4
  <2> QED BY <2>1
<1> QED BY <1>5

(* What 0 has and passes on to the next number, every number has. *)
LEMMA SetInduction ==
    ASSUME NEW S, 0 \in S, \A n \in Nat : n \in S => n + 1 \in S
    PROVE  \A n \in Nat : n \in S
<1> SUFFICES ASSUME NEW k \in Nat, k \notin S PROVE FALSE
  OBVIOUS
<1> DEFINE T == Nat \ S
<1>1. PICK n \in T : \A m \in T : n <= m
  <2>1. T \subseteq Nat /\ T # {}
    OBVIOUS
  <2> HIDE DEF T
  <2> QED BY <2>1, LeastNumber
<1>2. n # 0 /\ n - 1 \in Nat
  BY <1>1
<1>3. n - 1 \in S
  BY <1>1, <1>2
<1> QED BY <1>1, <1>2, <1>3

(* A function can be iterated. *)
LEMMA Iterates ==
    ASSUME NEW S, NEW a \in S, NEW h \in [S -> S]
    PROVE  \E f \in [Nat -> S] : f[0] = a /\ \A n \in Nat : f[n + 1] = h[f[n]]
<1> DEFINE Start(n) == {g \in [0..n -> S] : g[0] = a /\ \A k \in 0..(n - 1) : g[k + 1] = h[g[k]]}
           Long == {n \in Nat : Start(n) # {}}
<1>1. \A n \in Nat : n \in Long
  <2>1. 0 \in Long
    <3>1. [k \in 0..0 |-> a] \in Start(0)
      OBVIOUS
    <3> QED BY <3>1
  <2>2. ASSUME NEW n \in Nat, n \in Long PROVE n + 1 \in Long
    <3>1. PICK g : g \in Start(n)
      BY <2>2
    <3> DEFINE e == [k \in 0..(n + 1) |-> IF k = n + 1 THEN h[g[n]] ELSE g[k]]
    <3>2. g \in [0..n -> S] /\ g[0] = a /\ \A k \in 0..(n - 1) : g[k + 1] = h[g[k]]
      BY <3>1
    <3>3. h[g[n]] \in S
      BY <3>2
    <3>4. e \in [0..(n + 1) -> S]
      BY <3>2, <3>3
    <3>5. e[0] = a
      BY <3>2
    <3>6. \A k \in 0..((n + 1) - 1) : e[k + 1] = h[e[k]]
      BY <3>2
    <3>7. e \in Start(n + 1)
      BY <3>4, <3>5, <3>6
    <3> QED BY <3>7
  <2> HIDE DEF Long
  <2> QED BY <2>1, <2>2, SetInduction
<1>2. ASSUME NEW n \in Nat, NEW m \in Nat, NEW g \in Start(n), NEW e \in Start(m), n <= m
      PROVE  g[n] = e[n]
  <2> DEFINE Same == {k \in Nat : k <= n => g[k] = e[k]}
  <2>1. 0 \in Same
    OBVIOUS
  <2>2. ASSUME NEW k \in Nat, k \in Same PROVE k + 1 \in Same
    <3> SUFFICES ASSUME k + 1 <= n PROVE g[k + 1] = e[k + 1]
      OBVIOUS
    <3>1. k \in 0..(n - 1) /\ k \in 0..(m - 1) /\ g[k] = e[k]
      BY <1>2, <2>2
    <3> QED BY <3>1
  <2>3. \A k \in Nat : k \in Same
    <3> HIDE DEF Same
    <3> QED BY <2>1, <2>2, SetInduction
  <2> QED BY <2>3
<1>3. PICK s \in [Nat -> UNION {Start(n) : n \in Nat}] : \A n \in Nat : s[n] \in Start(n)
  <2> DEFINE s == [n \in Nat |-> CHOOSE g \in Start(n) : TRUE]
  <2>1. \A n \in Nat : s[n] \in Start(n)
    BY <1>1
  <2> HIDE DEF Start
  <2>2. s \in [Nat -> UNION {Start(n) : n \in Nat}]
    BY <2>1
  <2> QED BY <2>1, <2>2
<1> DEFINE f == [n \in Nat |-> s[n][n]]
<1>4. f \in [Nat -> S] /\ f[0] = a
  <2>1. \A n \in Nat : s[n] \in [0..n -> S] /\ s[n][0] = a
    BY <1>3
  <2>2. \A n \in Nat : n \in 0..n
    OBVIOUS
  <2> QED BY <2>1, <2>2
<1>5. ASSUME NEW n \in Nat PROVE f[n + 1] = h[f[n]]
  <2>1. s[n] \in Start(n) /\ s[n + 1] \in Start(n + 1) /\ n + 1 \in Nat /\ n <= n + 1
    BY <1>3
  <2>2. s[n][n] = s[n + 1][n]
    <3> HIDE DEF Start
    <3> QED BY <2>1, <1>2
  <2>3. s[n + 1][n + 1] = h[s[n + 1][n]]
    BY <2>1
  <2>4. f[n + 1] = s[n + 1][n + 1] /\ f[n] = s[n][n]
    BY <2>1, Zenon
  <2> HIDE DEF f
  <2> QED BY <2>2, <2>3, <2>4
<1> QED BY <1>4, <1>5

(* The recursive equation of Power has a solution, so that Power is one. *)
LEMMA PowerIs == Power = [n \in Nat |-> IF n = 0 THEN 1 ELSE 2 * Power[n - 1]]
<1> DEFINE Doubling(f) == [n \in Nat |-> IF n = 0 THEN 1 ELSE 2 * f[n - 1]]
<1>1. \E f : f = Doubling(f)
  <2>0. PICK T, one : T = Nat /\ one = 1
    OBVIOUS
  <2> DEFINE h == [x \in T |-> 2 * x]
  <2>1. h \in [T -> T] /\ one \in T
    BY <2>0
  <2>2. PICK f \in [Nat -> T] : f[0] = one /\ \A n \in Nat : f[n + 1] = h[f[n]]
    <3> HIDE DEF h
    <3> QED BY <2>1, Iterates
  <2>3. ASSUME NEW n \in Nat PROVE f[n] = Doubling(f)[n]
    <3>1. CASE n = 0
      BY <2>0, <2>2, <3>1
    <3>2. CASE n # 0
      <4>1. n - 1 \in Nat /\ (n - 1) + 1 = n
        BY <3>2
      <4>2. f[n] = h[f[n - 1]] /\ f[n - 1] \in Nat
        BY <2>0, <2>2, <4>1
      <4> QED BY <2>0, <4>2, <3>2
    <3> QED BY <3>1, <3>2
  <2>4. f = Doubling(f)
    BY <2>3
  <2> QED BY <2>4
<1>2. Power = CHOOSE f : f = Doubling(f)
  BY DEF Power
<1> HIDE DEF Doubling
<1>3. Power = Doubling(Power)
  BY <1>1, <1>2
<1> QED BY <1>3 DEF Doubling

(* 1 << n, one bit more at a time. *)
LEMMA PowerStep == Power[0] = 1 /\ \A n \in Nat : Power[n + 1] = 2 * Power[n]
<1>1. ASSUME NEW n \in Nat PROVE Power[n + 1] = 2 * Power[n]
  <2>1. Power[n + 1] = IF n + 1 = 0 THEN 1 ELSE 2 * Power[(n + 1) - 1]
    <3>1. n + 1 \in Nat
      OBVIOUS
    <3> QED BY <3>1, PowerIs, Zenon
  <2>2. n + 1 # 0 /\ (n + 1) - 1 = n
    OBVIOUS
  <2> QED BY <2>1, <2>2
<1>2. Power[0] = 1
  BY PowerIs, Zenon
<1> QED BY <1>1, <1>2

-------------------------------------------------------------------------------
(*****************************************************************************)
(* Binary numbers: what the bits of a number are, that they determine it,    *)
(* and what adding a power of two does to them.                              *)
(*****************************************************************************)

(* A power of two is positive. *)
LEMMA PowerPositive == \A n \in Nat : Power[n] \in Nat \ {0}
<1> DEFINE S == {n \in Nat : Power[n] \in Nat \ {0}}
<1>1. 0 \in S
  BY PowerStep
<1>2. \A n \in Nat : n \in S => n + 1 \in S
  BY PowerStep
<1> HIDE DEF S
<1>3. \A n \in Nat : n \in S
  BY <1>1, <1>2, SetInduction
<1> QED BY <1>3 DEF S

(* Division with remainder has one answer.                                 *)
LEMMA Quotient ==
    ASSUME NEW b \in Nat, NEW m \in Nat \ {0}, NEW q \in Nat, NEW r \in Nat,
           b = q * m + r, r < m
    PROVE  b \div m = q
<1>1. b \div m \in Nat /\ b % m \in 0..(m - 1) /\ b = (b \div m) * m + (b % m)
  OBVIOUS
<1> DEFINE d == b \div m
           s == b % m
<1>2. d \in Nat /\ s \in Nat /\ s < m /\ d * m + s = q * m + r
  BY <1>1
<1> HIDE DEF d, s
<1>3. CASE d < q
  <2>1. PICK e \in Nat : q = d + 1 + e
    <3>1. q - d - 1 \in Nat /\ q = d + 1 + (q - d - 1)
      BY <1>2, <1>3
    <3> QED BY <3>1
  <2>2. q * m = d * m + m + e * m /\ e * m \in Nat
    BY <2>1, <1>2
  <2>3. d * m \in Nat
    BY <1>2
  <2> QED BY <1>2, <2>2, <2>3
<1>4. CASE q < d
  <2>1. PICK e \in Nat : d = q + 1 + e
    <3>1. d - q - 1 \in Nat /\ d = q + 1 + (d - q - 1)
      BY <1>2, <1>4
    <3> QED BY <3>1
  <2>2. d * m = q * m + m + e * m /\ e * m \in Nat
    BY <2>1, <1>2
  <2>3. q * m \in Nat
    BY <1>2
  <2> QED BY <1>2, <2>2, <2>3
<1> QED BY <1>2, <1>3, <1>4 DEF d

(* Shifting right by one place more. *)
LEMMA DivTwice ==
    ASSUME NEW b \in Nat, NEW p \in Nat \ {0}
    PROVE  b \div (2 * p) = (b \div 2) \div p
<1> DEFINE h == b \div 2
           q == h \div p
           r == h % p
<1>1. h \in Nat /\ b = 2 * h + (b % 2) /\ b % 2 \in 0..1
  OBVIOUS
<1> HIDE DEF h
<1>2. q \in Nat /\ r \in 0..(p - 1) /\ h = q * p + r
  BY <1>1
<1> HIDE DEF q, r
<1>3. 2 * h = q * (2 * p) + 2 * r
  <2>1. q * (2 * p) = 2 * (q * p) /\ q * p \in Nat
    BY <1>2
  <2> QED BY <1>2, <2>1
<1>4. q * (2 * p) \in Nat /\ 2 * p \in Nat \ {0}
  BY <1>2
<1>5. b = q * (2 * p) + (2 * r + (b % 2)) /\ 2 * r + (b % 2) \in Nat /\ 2 * r + (b % 2) < 2 * p
  BY <1>1, <1>2, <1>3, <1>4
<1>6. b \div (2 * p) = q
  BY <1>2, <1>4, <1>5, Quotient
<1> QED BY <1>6 DEF q, h

(***************************************************************************)
(* The bits of a number: the lowest tells odd from even, the others are    *)
(* those of its half.                                                      *)
(***************************************************************************)
LEMMA Bits2 ==
    ASSUME NEW b \in Nat
    PROVE  /\ Bit(b, 0) = b % 2
           /\ \A i \in Nat : Bit(b, i + 1) = Bit(b \div 2, i)
           /\ \A i \in Nat : Bit(b, i) \in {0, 1}
           /\ b \div 2 \in Nat /\ b = 2 * (b \div 2) + (b % 2) /\ b % 2 \in {0, 1}
<1>1. Bit(b, 0) = b % 2
  <2>1. b \div 1 = b
    OBVIOUS
  <2> QED BY <2>1, PowerStep DEF Bit
<1>2. ASSUME NEW i \in Nat PROVE Bit(b, i + 1) = Bit(b \div 2, i)
  <2>1. Power[i] \in Nat \ {0} /\ Power[i + 1] = 2 * Power[i]
    BY PowerPositive, PowerStep
  <2>2. b \div (2 * Power[i]) = (b \div 2) \div Power[i]
    BY <2>1, DivTwice
  <2> QED BY <2>1, <2>2 DEF Bit
<1>3. ASSUME NEW i \in Nat PROVE Bit(b, i) \in {0, 1}
  <2>1. Power[i] \in Nat \ {0}
    BY PowerPositive
  <2>2. b \div Power[i] \in Nat
    BY <2>1
  <2> QED BY <2>2 DEF Bit
<1>4. b \div 2 \in Nat /\ b = 2 * (b \div 2) + (b % 2) /\ b % 2 \in {0, 1}
  OBVIOUS
<1> QED BY <1>1, <1>2, <1>3, <1>4

(* A number below 2^n has no bit from n up. *)
LEMMA BelowPower ==
    \A n \in Nat : \A b \in Nat : b < Power[n] => \A i \in Nat : i >= n => Bit(b, i) = 0
<1> DEFINE S == {n \in Nat : \A b \in Nat : b < Power[n] => \A i \in Nat : i >= n => Bit(b, i) = 0}
<1>1. 0 \in S
  <2> SUFFICES ASSUME NEW b \in Nat, b < Power[0], NEW i \in Nat PROVE Bit(b, i) = 0
    OBVIOUS
  <2>1. b = 0
    BY PowerStep
  <2>2. Power[i] \in Nat \ {0}
    BY PowerPositive
  <2>3. 0 \div Power[i] = 0
    <3>1. 0 = 0 * Power[i] + 0
      BY <2>2
    <3> QED BY <2>2, <3>1, Quotient
  <2> QED BY <2>1, <2>3 DEF Bit
<1>2. ASSUME NEW n \in Nat, n \in S PROVE n + 1 \in S
  <2> SUFFICES ASSUME NEW b \in Nat, b < Power[n + 1], NEW i \in Nat, i >= n + 1
               PROVE  Bit(b, i) = 0
    OBVIOUS
  <2>1. Power[n + 1] = 2 * Power[n] /\ Power[n] \in Nat
    BY PowerStep, PowerPositive
  <2>2. b \div 2 \in Nat /\ b \div 2 < Power[n]
    BY <2>1, Bits2
  <2>3. i - 1 \in Nat /\ i - 1 >= n /\ (i - 1) + 1 = i
    OBVIOUS
  <2>4. Bit(b \div 2, i - 1) = 0
    BY <1>2, <2>2, <2>3
  <2>5. Bit(b, (i - 1) + 1) = Bit(b \div 2, i - 1)
    BY <2>3, Bits2
  <2> QED BY <2>3, <2>4, <2>5
<1> HIDE DEF S
<1>3. \A n \in Nat : n \in S
  BY <1>1, <1>2, SetInduction
<1> QED BY <1>3 DEF S

(* Numbers below a power of two are known by their bits.                   *)
LEMMA KnownByBits ==
    \A n \in Nat : \A b, c \in Nat :
        b < Power[n] /\ c < Power[n] /\ (\A i \in 0..(n - 1) : Bit(b, i) = Bit(c, i)) => b = c
<1> DEFINE Same(n, b, c) == \A i \in 0..(n - 1) : Bit(b, i) = Bit(c, i)
           S == {n \in Nat : \A b, c \in Nat :
                    b < Power[n] /\ c < Power[n] /\ Same(n, b, c) => b = c}
<1>1. 0 \in S
  BY PowerStep
<1>2. ASSUME NEW n \in Nat, n \in S PROVE n + 1 \in S
  <2> SUFFICES ASSUME NEW b \in Nat, NEW c \in Nat,
                      b < Power[n + 1], c < Power[n + 1], Same(n + 1, b, c)
               PROVE  b = c
    OBVIOUS
  <2>1. Power[n + 1] = 2 * Power[n] /\ Power[n] \in Nat
    BY PowerStep, PowerPositive
  <2>2. /\ b \div 2 \in Nat /\ b = 2 * (b \div 2) + (b % 2) /\ b % 2 \in {0, 1}
        /\ c \div 2 \in Nat /\ c = 2 * (c \div 2) + (c % 2) /\ c % 2 \in {0, 1}
    BY Bits2
  <2>3. b \div 2 < Power[n] /\ c \div 2 < Power[n]
    BY <2>1, <2>2
  <2>4. ASSUME NEW i \in 0..(n - 1) PROVE Bit(b \div 2, i) = Bit(c \div 2, i)
    <3>1. i \in Nat /\ i + 1 \in 0..((n + 1) - 1)
      OBVIOUS
    <3>2. Bit(b, i + 1) = Bit(c, i + 1)
      BY <3>1
    <3> QED BY <3>1, <3>2, Bits2
  <2>5. b \div 2 = c \div 2
    BY <1>2, <2>2, <2>3, <2>4
  <2>6. b % 2 = c % 2
    <3>1. 0 \in 0..((n + 1) - 1)
      OBVIOUS
    <3>2. Bit(b, 0) = Bit(c, 0)
      BY <3>1
    <3> QED BY <3>2, Bits2
  <2> QED BY <2>2, <2>5, <2>6
<1> HIDE DEF S
<1>3. \A n \in Nat : n \in S
  BY <1>1, <1>2, SetInduction
<1> QED BY <1>3 DEF S, Same

(* The bits of 2^n - 1 are set.                                            *)
LEMMA AllOnes == \A n \in Nat : \A i \in 0..(n - 1) : Bit(Power[n] - 1, i) = 1
<1> DEFINE S == {n \in Nat : \A i \in 0..(n - 1) : Bit(Power[n] - 1, i) = 1}
<1>1. 0 \in S
  OBVIOUS
<1>2. ASSUME NEW n \in Nat, n \in S PROVE n + 1 \in S
  <2>1. Power[n + 1] = 2 * Power[n] /\ Power[n] \in Nat \ {0}
    BY PowerStep, PowerPositive
  <2> DEFINE b == Power[n + 1] - 1
  <2>2. b \in Nat /\ b \div 2 = Power[n] - 1 /\ b % 2 = 1
    BY <2>1
  <2> HIDE DEF b
  <2>3. ASSUME NEW i \in 0..n PROVE Bit(b, i) = 1
    <3>1. CASE i = 0
      BY <2>2, <3>1, Bits2
    <3>2. CASE i # 0
      <4>1. i - 1 \in Nat /\ i - 1 \in 0..(n - 1) /\ (i - 1) + 1 = i
        BY <3>2
      <4>2. Bit(Power[n] - 1, i - 1) = 1
        BY <1>2, <4>1
      <4>3. Bit(b, (i - 1) + 1) = Bit(b \div 2, i - 1)
        BY <2>2, <4>1, Bits2
      <4> QED BY <2>2, <4>1, <4>2, <4>3
    <3> QED BY <3>1, <3>2
  <2> QED BY <2>3 DEF b
<1> HIDE DEF S
<1>3. \A n \in Nat : n \in S
  BY <1>1, <1>2, SetInduction
<1> QED BY <1>3 DEF S

(* Adding 2^n turns bit n and leaves those below it.                       *)
LEMMA AddPower ==
    \A n \in Nat : \A b \in Nat :
        /\ \A i \in 0..(n - 1) : Bit(b + Power[n], i) = Bit(b, i)
        /\ Bit(b + Power[n], n) = 1 - Bit(b, n)
<1> DEFINE S == {n \in Nat : \A b \in Nat :
                    /\ \A i \in 0..(n - 1) : Bit(b + Power[n], i) = Bit(b, i)
                    /\ Bit(b + Power[n], n) = 1 - Bit(b, n)}
<1>1. 0 \in S
  <2> SUFFICES ASSUME NEW b \in Nat PROVE Bit(b + Power[0], 0) = 1 - Bit(b, 0)
    OBVIOUS
  <2>1. b + 1 \in Nat /\ Power[0] = 1
    BY PowerStep
  <2>2. (b + 1) % 2 = 1 - (b % 2)
    OBVIOUS
  <2> QED BY <2>1, <2>2, Bits2
<1>2. ASSUME NEW n \in Nat, n \in S PROVE n + 1 \in S
  <2> SUFFICES ASSUME NEW b \in Nat
               PROVE  /\ \A i \in 0..n : Bit(b + Power[n + 1], i) = Bit(b, i)
                      /\ Bit(b + Power[n + 1], n + 1) = 1 - Bit(b, n + 1)
    OBVIOUS
  <2>1. Power[n + 1] = 2 * Power[n] /\ Power[n] \in Nat \ {0}
    BY PowerStep, PowerPositive
  <2> DEFINE c == b + Power[n + 1]
  <2>2. c \in Nat /\ c \div 2 = (b \div 2) + Power[n] /\ c % 2 = b % 2 /\ b \div 2 \in Nat
    BY <2>1
  <2> HIDE DEF c
  <2>3. ASSUME NEW i \in 0..n PROVE Bit(c, i) = Bit(b, i)
    <3>1. CASE i = 0
      BY <2>2, <3>1, Bits2
    <3>2. CASE i # 0
      <4>1. i - 1 \in Nat /\ i - 1 \in 0..(n - 1) /\ (i - 1) + 1 = i
        BY <3>2
      <4>2. Bit(b \div 2 + Power[n], i - 1) = Bit(b \div 2, i - 1)
        BY <1>2, <2>2, <4>1
      <4>3. Bit(c, (i - 1) + 1) = Bit(c \div 2, i - 1) /\ Bit(b, (i - 1) + 1) = Bit(b \div 2, i - 1)
        BY <2>2, <4>1, Bits2
      <4> QED BY <2>2, <4>1, <4>2, <4>3
    <3> QED BY <3>1, <3>2
  <2>4. Bit(c, n + 1) = 1 - Bit(b, n + 1)
    <3>1. Bit(b \div 2 + Power[n], n) = 1 - Bit(b \div 2, n)
      BY <1>2, <2>2
    <3>2. Bit(c, n + 1) = Bit(c \div 2, n) /\ Bit(b, n + 1) = Bit(b \div 2, n)
      BY <2>2, Bits2
    <3> QED BY <2>2, <3>1, <3>2
  <2> QED BY <2>3, <2>4 DEF c
<1> HIDE DEF S
<1>3. \A n \in Nat : n \in S
  BY <1>1, <1>2, SetInduction
<1> QED BY <1>3 DEF S

-------------------------------------------------------------------------------
(*****************************************************************************)
(* The gray code, bit by bit: counting up changes one bit.                   *)
(*****************************************************************************)

(* Bit i of the gray code of b. *)
Code(b, i) == (Bit(b, i) + Bit(b, i + 1)) % 2

(* But for the lowest bit, the gray code of b is that of its half. *)
LEMMA CodeShift ==
    ASSUME NEW b \in Nat, NEW i \in Nat
    PROVE  /\ Code(b, i + 1) = Code(b \div 2, i)
           /\ Code(b, i) \in {0, 1}
<1>1. PICK k \in Nat : k = i + 1
  OBVIOUS
<1>2. Bit(b, k) = Bit(b \div 2, i) /\ Bit(b, k + 1) = Bit(b \div 2, k)
  BY <1>1, Bits2
<1>3. Bit(b, i) \in {0, 1} /\ Bit(b, k) \in {0, 1}
  BY Bits2
<1> QED BY <1>1, <1>2, <1>3 DEF Code

(* Counting up by one changes one bit of the gray code. *)
OneChange(b) == \E j \in Nat : \A i \in Nat \ {j} : Code(b, i) = Code(b + 1, i)

(* From an even number to the next only the lowest bit changes. *)
LEMMA CountUpEven ==
    ASSUME NEW b \in Nat, b % 2 = 0
    PROVE  OneChange(b)
<1>1. b + 1 \in Nat /\ (b + 1) \div 2 = b \div 2
  OBVIOUS
<1>2. ASSUME NEW i \in Nat \ {0} PROVE Code(b, i) = Code(b + 1, i)
  <2>1. i - 1 \in Nat /\ (i - 1) + 1 = i
    OBVIOUS
  <2>2. /\ Code(b, (i - 1) + 1) = Code(b \div 2, i - 1)
        /\ Code(b + 1, (i - 1) + 1) = Code((b + 1) \div 2, i - 1)
    BY <1>1, <2>1, CodeShift
  <2> QED BY <1>1, <2>1, <2>2
<1> QED BY <1>2 DEF OneChange

(* From an odd number to the next the lowest bit stays, and the others do  *)
(* what they do in its half.                                               *)
LEMMA CountUpOdd ==
    ASSUME NEW b \in Nat, b % 2 = 1, OneChange(b \div 2)
    PROVE  OneChange(b)
<1> DEFINE h == b \div 2
<1>1. b + 1 \in Nat /\ h \in Nat /\ h + 1 \in Nat /\ (b + 1) \div 2 = h + 1 /\ (b + 1) % 2 = 0
  OBVIOUS
<1>2. OneChange(h)
  OBVIOUS
<1>3. (h + 1) % 2 = 1 - (h % 2) /\ h % 2 \in {0, 1}
  BY <1>1
<1>4. Bit(b, 0) = 1 /\ Bit(b, 0 + 1) = h % 2
  BY <1>1, Bits2
<1>5. Bit(b + 1, 0) = 0 /\ Bit(b + 1, 0 + 1) = (h + 1) % 2
  BY <1>1, Bits2
<1> HIDE DEF h
<1>6. PICK j \in Nat : \A i \in Nat \ {j} : Code(h, i) = Code(h + 1, i)
  BY <1>2 DEF OneChange
<1>7. Code(b, 0) = Code(b + 1, 0)
  BY <1>3, <1>4, <1>5 DEF Code
<1>8. ASSUME NEW i \in Nat \ {j + 1}, i # 0 PROVE Code(b, i) = Code(b + 1, i)
  <2>1. i - 1 \in Nat \ {j} /\ (i - 1) + 1 = i
    BY <1>8
  <2>2. Code(b, (i - 1) + 1) = Code(h, i - 1)
    BY <2>1, CodeShift DEF h
  <2>3. Code(b + 1, (i - 1) + 1) = Code((b + 1) \div 2, i - 1)
    BY <1>1, <2>1, CodeShift
  <2> QED BY <1>1, <1>6, <2>1, <2>2, <2>3
<1>9. j + 1 \in Nat
  OBVIOUS
<1> QED BY <1>7, <1>8, <1>9 DEF OneChange

(* So counting up changes one bit of the gray code, whatever the number. *)
LEMMA CountUp == \A b \in Nat : OneChange(b)
<1> DEFINE S == {n \in Nat : \A b \in 0..n : OneChange(b)}
<1>1. 0 \in S
  <2>1. OneChange(0)
    BY CountUpEven
  <2> QED BY <2>1
<1>2. ASSUME NEW n \in Nat, n \in S PROVE n + 1 \in S
  <2> DEFINE b == n + 1
  <2>1. b \in Nat /\ b \div 2 \in 0..n /\ (b % 2 = 0 \/ b % 2 = 1)
    OBVIOUS
  <2>2. OneChange(b \div 2)
    BY <1>2, <2>1
  <2>3. OneChange(b)
    <3> HIDE DEF b
    <3>1. CASE b % 2 = 0
      BY <2>1, <3>1, CountUpEven
    <3>2. CASE b % 2 = 1
      BY <2>1, <2>2, <3>2, CountUpOdd
    <3> QED BY <2>1, <3>1, <3>2
  <2>4. \A c \in 0..(n + 1) : c \in 0..n \/ c = b
    OBVIOUS
  <2> HIDE DEF b
  <2> QED BY <1>2, <2>3, <2>4
<1> HIDE DEF S
<1>3. \A n \in Nat : n \in S
  BY <1>1, <1>2, SetInduction
<1>4. ASSUME NEW b \in Nat PROVE OneChange(b)
  <2>1. b \in 0..b
    OBVIOUS
  <2> QED BY <1>3, <2>1 DEF S
<1> QED BY <1>4
-------------------------------------------------------------------------------
(*****************************************************************************)
(* The coder and the decoder of the pointers.  What matters to the FIFO is   *)
(* GrayBack, GraySampled and GrayFull.                                       *)
(*****************************************************************************)

(* The sizes of pointers and words. *)
LEMMA Widths ==
    /\ RAM_ADDR_WIDTH \in Nat /\ RAM_ADDR_WIDTH >= 2
    /\ Depth \in Nat \ {0} /\ Depth > 1
    /\ Modulus = Power[RAM_ADDR_WIDTH + 1] /\ Modulus \in Nat \ {0}
    /\ Modulus = 2 * Depth /\ 0 \in Pointer
    /\ \A b \in Pointer : b \in Nat /\ b < Modulus
    /\ \A i \in Bits : i \in Nat /\ i + 1 \in Nat
<1>1. RAM_ADDR_WIDTH \in Nat /\ RAM_ADDR_WIDTH >= 2
  BY WidthAssumption
<1>2. Depth \in Nat \ {0} /\ Power[RAM_ADDR_WIDTH + 1] = 2 * Depth
  BY <1>1, PowerPositive, PowerStep DEF Depth
<1>3. Depth > 1
  <2>1. PICK n \in Nat : RAM_ADDR_WIDTH = n + 1
    <3>1. RAM_ADDR_WIDTH - 1 \in Nat /\ RAM_ADDR_WIDTH = (RAM_ADDR_WIDTH - 1) + 1
      BY <1>1
    <3> QED BY <3>1
  <2>2. Power[n + 1] = 2 * Power[n] /\ Power[n] \in Nat \ {0}
    BY PowerPositive, PowerStep
  <2> QED BY <2>1, <2>2 DEF Depth
<1> QED BY <1>1, <1>2, <1>3 DEF Modulus, Pointer, Bits

(* The gray code of a pointer, bit by bit; above the pointer's width there *)
(* is nothing.                                                             *)
LEMMA GrayBits ==
    ASSUME NEW b \in Pointer
    PROVE  /\ bin_to_gray[b] \in GrayWord
           /\ \A i \in Bits : bin_to_gray[b][i] = Code(b, i) /\ Bit(b, i) \in {0, 1}
           /\ Bit(b, RAM_ADDR_WIDTH + 1) = 0
<1>0. PICK n \in Nat : n = RAM_ADDR_WIDTH + 1
  BY Widths
<1>1. b \in Nat /\ b < Power[n]
  BY <1>0, Widths
<1>2. Bit(b, RAM_ADDR_WIDTH + 1) = 0
  <2>1. Bit(b, n) = 0
    BY <1>1, BelowPower
  <2> QED BY <1>0, <2>1
<1>3. bin_to_gray[b] = [i \in Bits |-> Code(b, i)]
  BY DEF bin_to_gray, Code
<1>4. \A i \in Bits : Code(b, i) \in {0, 1}
  BY <1>1, Widths, CodeShift
<1>5. \A i \in Bits : Bit(b, i) \in {0, 1}
  BY <1>1, Widths, Bits2
<1> QED BY <1>2, <1>3, <1>4, <1>5 DEF GrayWord

(* The decoder inverts the coder. *)
LEMMA GrayBack ==
    ASSUME NEW b \in Pointer
    PROVE  gray_to_bin[bin_to_gray[b]] = b
<1> DEFINE g == bin_to_gray[b]
           W == RAM_ADDR_WIDTH
           Reads(c) == /\ bin_uncoded[c][W] = g[W]
                       /\ \A i \in 0..(W - 1) :
                             bin_uncoded[c][i] = (bin_uncoded[c][i + 1] + g[i]) % 2
<1>0. /\ W \in Nat /\ W \in Bits /\ \A i \in 0..(W - 1) : i \in Bits /\ i + 1 \in Bits /\ i \in Nat
  BY Widths DEF Bits
<1>1. g \in GrayWord
  BY GrayBits
<1>2. gray_to_bin[g] = CHOOSE c \in Pointer : Reads(c)
  BY <1>1 DEF gray_to_bin
<1>3. \A c \in Pointer : \A i \in Bits : bin_uncoded[c][i] = Bit(c, i) /\ Bit(c, i) \in {0, 1}
  BY GrayBits DEF bin_uncoded
<1>4. Reads(b)
  <2>1. Bit(b, W) = g[W]
    <3>1. g[W] = (Bit(b, W) + Bit(b, W + 1)) % 2 /\ Bit(b, W + 1) = 0 /\ Bit(b, W) \in {0, 1}
      BY <1>0, GrayBits DEF Code
    <3> QED BY <3>1
  <2>2. ASSUME NEW i \in 0..(W - 1)
        PROVE  Bit(b, i) = (Bit(b, i + 1) + g[i]) % 2
    <3>1. g[i] = (Bit(b, i) + Bit(b, i + 1)) % 2 /\ Bit(b, i) \in {0, 1} /\ Bit(b, i + 1) \in {0, 1}
      BY <1>0, <1>3, GrayBits DEF Code
    <3> QED BY <3>1
  <2> HIDE DEF g, W
  <2> QED BY <1>0, <1>3, <2>1, <2>2
<1>5. ASSUME NEW c \in Pointer, Reads(c) PROVE c = b
  <2> DEFINE Same == {k \in Nat : k <= W => Bit(c, W - k) = Bit(b, W - k)}
  <2>1. 0 \in Same
    <3>1. Bit(c, W) = Bit(b, W)
      BY <1>0, <1>3, <1>4, <1>5
    <3>2. W - 0 = W
      BY <1>0
    <3> QED BY <3>1, <3>2
  <2>2. ASSUME NEW k \in Nat, k \in Same PROVE k + 1 \in Same
    <3> SUFFICES ASSUME k + 1 <= W PROVE Bit(c, W - (k + 1)) = Bit(b, W - (k + 1))
      OBVIOUS
    <3>1. W - (k + 1) \in 0..(W - 1) /\ (W - (k + 1)) + 1 = W - k
      BY <1>0
    <3>2. Bit(c, W - k) = Bit(b, W - k)
      BY <1>0, <2>2
    <3>3. /\ Bit(c, W - (k + 1)) = (Bit(c, W - k) + g[W - (k + 1)]) % 2
          /\ Bit(b, W - (k + 1)) = (Bit(b, W - k) + g[W - (k + 1)]) % 2
      <4> HIDE DEF g, W
      <4>1. /\ bin_uncoded[c][W - (k + 1)] = (bin_uncoded[c][W - k] + g[W - (k + 1)]) % 2
            /\ bin_uncoded[b][W - (k + 1)] = (bin_uncoded[b][W - k] + g[W - (k + 1)]) % 2
        BY <1>4, <1>5, <3>1
      <4>2. W - (k + 1) \in Bits /\ W - k \in Bits
        BY <1>0, <3>1
      <4> QED BY <1>3, <4>1, <4>2
    <3> QED BY <3>2, <3>3
  <2>3. \A k \in Nat : k \in Same
    <3> HIDE DEF Same
    <3> QED BY <2>1, <2>2, SetInduction
  <2>4. ASSUME NEW i \in 0..((W + 1) - 1) PROVE Bit(b, i) = Bit(c, i)
    <3>1. W - i \in Nat /\ W - i <= W /\ W - (W - i) = i
      BY <1>0
    <3>2. W - i \in Same
      BY <2>3, <3>1
    <3> QED BY <3>1, <3>2
  <2>5. b \in Nat /\ c \in Nat /\ W + 1 \in Nat /\ b < Power[W + 1] /\ c < Power[W + 1]
    BY Widths
  <2> HIDE DEF W
  <2> QED BY <2>4, <2>5, KnownByBits
<1> HIDE DEF Reads, g
<1> QED BY <1>2, <1>4, <1>5 DEF g

(* Distinct pointers have distinct gray codes. *)
LEMMA GrayDistinct == \A b, c \in Pointer : bin_to_gray[b] = bin_to_gray[c] => b = c
<1> SUFFICES ASSUME NEW b \in Pointer, NEW c \in Pointer, bin_to_gray[b] = bin_to_gray[c]
             PROVE  b = c
  OBVIOUS
<1> QED BY GrayBack

(* The registers in reset hold the code of pointer 0. *)
LEMMA GrayZero == bin_to_gray[0] = zero /\ zero \in GrayWord
<1>1. 0 < Power[0]
  BY PowerStep
<1>2. \A i \in Nat : Bit(0, i) = 0
  BY <1>1, BelowPower
<1>3. \A i \in Bits : Code(0, i) = 0
  BY <1>2, Widths DEF Code
<1> QED BY <1>3, Widths, GrayBits DEF bin_to_gray, Code, zero, GrayWord
-------------------------------------------------------------------------------
(* The successor of a pointer has the same code but for one bit.           *)
LEMMA GrayOneBit ==
    ASSUME NEW b \in Pointer
    PROVE  \E j \in Nat : \A i \in Bits \ {j} : bin_to_gray[b][i] = bin_to_gray[Inc(b)][i]
<1>1. b \in Nat /\ b < Modulus
  BY Widths
<1>2. CASE b + 1 < Modulus
  <2>1. Inc(b) = b + 1 /\ b + 1 \in Pointer
    BY <1>1, <1>2, Widths DEF Inc, Pointer
  <2>2. PICK j \in Nat : \A i \in Nat \ {j} : Code(b, i) = Code(b + 1, i)
    BY <1>1, CountUp DEF OneChange
  <2>3. \A i \in Bits \ {j} : bin_to_gray[b][i] = bin_to_gray[b + 1][i]
    BY <2>1, <2>2, Widths, GrayBits
  <2> QED BY <2>1, <2>3
<1>3. CASE b + 1 = Modulus
  <2>1. Inc(b) = 0 /\ b = Power[RAM_ADDR_WIDTH + 1] - 1
    BY <1>1, <1>3, Widths DEF Inc
  <2>2. \A i \in Bits : Bit(b, i) = 1
    <3>1. PICK n \in Nat : n = RAM_ADDR_WIDTH + 1
      BY Widths
    <3>2. \A i \in 0..(n - 1) : Bit(b, i) = 1
      BY <2>1, <3>1, AllOnes
    <3> QED BY <3>1, <3>2, Widths DEF Bits
  <2>3. ASSUME NEW i \in Bits \ {RAM_ADDR_WIDTH} PROVE bin_to_gray[b][i] = bin_to_gray[0][i]
    <3>1. i + 1 \in Bits
      BY Widths DEF Bits
    <3>2. Code(b, i) = (1 + 1) % 2
      BY <2>2, <3>1 DEF Code
    <3> QED BY <3>2, GrayBits, GrayZero DEF zero
  <2> QED BY <2>1, <2>3, Widths
<1> QED BY <1>1, <1>2, <1>3, Widths

(* A word sampled while the pointer moves is the old word or the new one.  *)
LEMMA GraySampled ==
    ASSUME NEW b \in Pointer, NEW c \in Pointer, c = b \/ c = Inc(b),
           NEW g \in Sampled(bin_to_gray[b], bin_to_gray[c])
    PROVE  g = bin_to_gray[b] \/ g = bin_to_gray[c]
<1> DEFINE old == bin_to_gray[b]
           new == bin_to_gray[c]
<1>1. old \in GrayWord /\ new \in GrayWord /\ g \in GrayWord
  BY GrayBits DEF Sampled
<1>2. \A i \in Bits : g[i] = old[i] \/ g[i] = new[i]
  BY DEF Sampled
<1>3. PICK j \in Nat : \A i \in Bits \ {j} : old[i] = new[i]
  BY GrayOneBit
<1> HIDE DEF old, new
<1>4. CASE g[j] = old[j] \/ j \notin Bits
  <2>1. \A i \in Bits : g[i] = old[i]
    BY <1>2, <1>3, <1>4
  <2>2. g = old
    BY <1>1, <2>1 DEF GrayWord
  <2> QED BY <2>2 DEF old
<1>5. CASE g[j] = new[j]
  <2>1. \A i \in Bits : g[i] = new[i]
    BY <1>2, <1>3, <1>5
  <2>2. g = new
    BY <1>1, <2>1 DEF GrayWord
  <2> QED BY <2>2 DEF new
<1> QED BY <1>2, <1>4, <1>5

(* Inverting the two top bits leads half the numbers further.              *)
LEMMA GrayHalfway ==
    ASSUME NEW b \in Pointer, b < Depth
    PROVE  /\ b + Depth \in Pointer
           /\ FullMark(bin_to_gray[b]) = bin_to_gray[b + Depth]
           /\ FullMark(bin_to_gray[b + Depth]) = bin_to_gray[b]
<1> DEFINE W == RAM_ADDR_WIDTH
           d == b + Depth
<1>1. b \in Nat /\ d \in Pointer
  BY Widths DEF Pointer
<1>2. /\ \A i \in 0..(W - 1) : Bit(d, i) = Bit(b, i)
      /\ Bit(d, W) = 1 - Bit(b, W)
  BY <1>1, Widths, AddPower DEF Depth
<1>3. Bit(d, W + 1) = 0 /\ Bit(b, W + 1) = 0
  BY <1>1, GrayBits
<1>4. W \in Nat /\ W >= 2 /\ \A i \in Bits : i \in 0..W /\ i + 1 \in Nat
  BY Widths DEF Bits
<1> HIDE DEF d
<1>5. ASSUME NEW i \in Bits
      PROVE  /\ i >= W - 1 => Code(d, i) = 1 - Code(b, i)
             /\ ~(i >= W - 1) => Code(d, i) = Code(b, i)
             /\ Code(b, i) \in {0, 1}
  <2>0. Bit(b, i) \in {0, 1} /\ Bit(b, i + 1) \in {0, 1} /\ Code(b, i) \in {0, 1}
    <3>1. PICK k \in Nat : k = i + 1
      BY <1>4
    <3>2. i \in Nat
      BY <1>4
    <3>3. Bit(b, i) \in {0, 1} /\ Bit(b, k) \in {0, 1} /\ Code(b, i) \in {0, 1}
      BY <1>1, <3>2, Bits2, CodeShift
    <3> QED BY <3>1, <3>3
  <2>1. CASE i = W
    <3>1. Bit(d, i) = 1 - Bit(b, i) /\ Bit(d, i + 1) = 0 /\ Bit(b, i + 1) = 0
      BY <1>2, <1>3, <2>1
    <3> QED BY <1>4, <2>0, <2>1, <3>1 DEF Code
  <2>2. CASE i = W - 1
    <3>1. i \in 0..(W - 1) /\ i + 1 = W
      BY <1>4, <2>2
    <3>2. Bit(d, i) = Bit(b, i) /\ Bit(d, i + 1) = 1 - Bit(b, i + 1)
      BY <1>2, <3>1
    <3> QED BY <1>4, <2>0, <2>2, <3>2 DEF Code
  <2>3. CASE i < W - 1
    <3>1. i \in 0..(W - 1) /\ i + 1 \in 0..(W - 1)
      BY <1>4, <2>3
    <3>2. Bit(d, i) = Bit(b, i) /\ Bit(d, i + 1) = Bit(b, i + 1)
      BY <1>2, <3>1
    <3> QED BY <1>4, <2>0, <2>3, <3>2 DEF Code
  <2> QED BY <1>4, <2>1, <2>2, <2>3
<1>6. \A i \in Bits : bin_to_gray[b][i] = Code(b, i) /\ bin_to_gray[d][i] = Code(d, i)
  BY <1>1, GrayBits
<1>7. bin_to_gray[b] \in GrayWord /\ bin_to_gray[d] \in GrayWord
  BY <1>1, GrayBits
<1>8. FullMark(bin_to_gray[b]) = bin_to_gray[d]
  BY <1>5, <1>6, <1>7 DEF FullMark, GrayWord
<1>9. FullMark(bin_to_gray[d]) = bin_to_gray[b]
  BY <1>5, <1>6, <1>7 DEF FullMark, GrayWord
<1> QED BY <1>1, <1>8, <1>9 DEF d

(* FullMark is the code of the pointer Depth further, for every pointer. *)
LEMMA GrayFull ==
    ASSUME NEW b \in Pointer
    PROVE  FullMark(bin_to_gray[b]) = bin_to_gray[(b + Depth) % Modulus]
<1>1. CASE b < Depth
  <2>1. b + Depth \in Pointer
    BY <1>1, GrayHalfway
  <2>2. (b + Depth) % Modulus = b + Depth
    BY <2>1, Widths DEF Pointer
  <2> QED BY <1>1, <2>2, GrayHalfway
<1>2. CASE ~(b < Depth)
  <2>1. b - Depth \in Pointer /\ b - Depth < Depth /\ (b - Depth) + Depth = b
    BY <1>2, Widths DEF Pointer
  <2>2. (b + Depth) % Modulus = b - Depth
    BY <1>2, Widths DEF Pointer
  <2>3. FullMark(bin_to_gray[(b - Depth) + Depth]) = bin_to_gray[b - Depth]
    BY <2>1, GrayHalfway
  <2> QED BY <2>1, <2>2, <2>3
<1> QED BY <1>1, <1>2

-------------------------------------------------------------------------------
(*****************************************************************************)
(* Remainders, for any modulus: the pointers are counts modulo twice the     *)
(* depth, the slots counts modulo the depth.                                 *)
(*****************************************************************************)

(* Division with remainder has one answer. *)
LEMMA Remainder ==
    ASSUME NEW x \in Int, NEW m \in Nat \ {0}, NEW q \in Int, NEW r \in 0..(m - 1),
           x = q * m + r
    PROVE  x % m = r
<1>1. x \div m \in Int /\ x % m \in 0..(m - 1) /\ x = (x \div m) * m + (x % m)
  OBVIOUS
<1>2. PICK d \in Int, s \in 0..(m - 1) : d = x \div m /\ s = x % m
  BY <1>1
<1>3. d * m + s = q * m + r
  BY <1>1, <1>2
<1>4. CASE d < q
  <2>1. PICK e \in Nat : q = d + 1 + e
    <3>1. q - d - 1 \in Nat /\ q = d + 1 + (q - d - 1)
      BY <1>2, <1>4
    <3> QED BY <3>1
  <2>2. q * m = d * m + m + e * m /\ e * m \in Nat /\ d * m \in Int
    BY <2>1, <1>2
  <2> QED BY <1>2, <1>3, <2>2
<1>5. CASE q < d
  <2>1. PICK e \in Nat : d = q + 1 + e
    <3>1. d - q - 1 \in Nat /\ d = q + 1 + (d - q - 1)
      BY <1>2, <1>5
    <3> QED BY <3>1
  <2>2. d * m = q * m + m + e * m /\ e * m \in Nat /\ q * m \in Int
    BY <2>1, <1>2
  <2> QED BY <1>2, <1>3, <2>2
<1>6. CASE d = q
  <2>1. q * m \in Int
    OBVIOUS
  <2> QED BY <1>2, <1>3, <1>6, <2>1
<1> QED BY <1>2, <1>4, <1>5, <1>6

(* Adding multiples of the modulus changes nothing. *)
LEMMA ModShift ==
    ASSUME NEW x \in Int, NEW m \in Nat \ {0}, NEW k \in Int
    PROVE  (x + k * m) % m = x % m /\ x % m \in 0..(m - 1)
<1>1. x \div m \in Int /\ x % m \in 0..(m - 1) /\ x = (x \div m) * m + (x % m)
  OBVIOUS
<1>2. PICK d \in Int, s \in 0..(m - 1) : d = x \div m /\ s = x % m
  BY <1>1
<1>3. x + k * m = (d + k) * m + s
  BY <1>1, <1>2
<1>4. (x + k * m) % m = s
  <2>1. x + k * m \in Int /\ d + k \in Int
    OBVIOUS
  <2> QED BY <1>3, <2>1, Remainder
<1> QED BY <1>2, <1>4

(* Reducing an operand first changes no sum, *)
LEMMA ModAdd ==
    ASSUME NEW x \in Int, NEW y \in Int, NEW m \in Nat \ {0}
    PROVE  ((x % m) + y) % m = (x + y) % m
<1>1. PICK d \in Int, s \in 0..(m - 1) : s = x % m /\ x = d * m + s
  <2>1. x \div m \in Int /\ x % m \in 0..(m - 1) /\ x = (x \div m) * m + (x % m)
    OBVIOUS
  <2> QED BY <2>1
<1>2. x + y = (s + y) + d * m
  BY <1>1
<1>3. s + y \in Int
  BY <1>1
<1>4. ((s + y) + d * m) % m = (s + y) % m
  BY <1>3, ModShift
<1> QED BY <1>1, <1>2, <1>4

(* and no difference. *)
LEMMA ModSub ==
    ASSUME NEW x \in Int, NEW y \in Int, NEW m \in Nat \ {0}
    PROVE  (y - (x % m)) % m = (y - x) % m
<1>1. PICK d \in Int, s \in 0..(m - 1) : s = x % m /\ x = d * m + s
  <2>1. x \div m \in Int /\ x % m \in 0..(m - 1) /\ x = (x \div m) * m + (x % m)
    OBVIOUS
  <2> QED BY <2>1
<1>2. y - s = (y - x) + d * m
  BY <1>1
<1>3. y - x \in Int
  BY <1>1
<1>4. ((y - x) + d * m) % m = (y - x) % m
  BY <1>3, ModShift
<1> QED BY <1>1, <1>2, <1>4

(* What is below the modulus is its own remainder. *)
LEMMA ModSmall ==
    ASSUME NEW m \in Nat \ {0}, NEW x \in 0..(m - 1)
    PROVE  x % m = x
<1>1. x = 0 * m + x
  OBVIOUS
<1> QED BY <1>1, Remainder

(* Numbers less than the modulus apart are told apart. *)
LEMMA ModNear ==
    ASSUME NEW x \in Int, NEW y \in Int, NEW m \in Nat \ {0},
           x % m = y % m, x - y < m, y - x < m
    PROVE  x = y
<1>1. PICK d \in Int, e \in Int, s \in 0..(m - 1) : x = d * m + s /\ y = e * m + s
  <2>1. /\ x \div m \in Int /\ x % m \in 0..(m - 1) /\ x = (x \div m) * m + (x % m)
        /\ y \div m \in Int /\ y = (y \div m) * m + (y % m)
    OBVIOUS
  <2> QED BY <2>1
<1>2. CASE d < e
  <2>1. PICK f \in Nat : e = d + 1 + f
    <3>1. e - d - 1 \in Nat /\ e = d + 1 + (e - d - 1)
      BY <1>2
    <3> QED BY <3>1
  <2>2. e * m = d * m + m + f * m /\ f * m \in Nat /\ d * m \in Int
    BY <2>1
  <2> QED BY <1>1, <2>2
<1>3. CASE e < d
  <2>1. PICK f \in Nat : d = e + 1 + f
    <3>1. d - e - 1 \in Nat /\ d = e + 1 + (d - e - 1)
      BY <1>3
    <3> QED BY <3>1
  <2>2. d * m = e * m + m + f * m /\ f * m \in Nat /\ e * m \in Int
    BY <2>1
  <2> QED BY <1>1, <2>2
<1>4. CASE d = e
  BY <1>1, <1>4
<1> QED BY <1>2, <1>3, <1>4

(* A slot is the same of a count and of the pointer. *)
LEMMA ModTwice ==
    ASSUME NEW x \in Int, NEW d \in Nat \ {0}
    PROVE  (x % (2 * d)) % d = x % d
<1>1. PICK m \in Nat \ {0} : m = 2 * d
  OBVIOUS
<1>2. PICK q \in Int, s \in Int : s = x % m /\ x = q * m + s
  <2>1. x \div m \in Int /\ x % m \in 0..(m - 1) /\ x = (x \div m) * m + (x % m)
    OBVIOUS
  <2> QED BY <2>1
<1>3. x = s + (2 * q) * d /\ 2 * q \in Int
  BY <1>1, <1>2
<1>4. (s + (2 * q) * d) % d = s % d
  BY <1>3, ModShift
<1> QED BY <1>1, <1>2, <1>3, <1>4

-------------------------------------------------------------------------------
(*****************************************************************************)
(* From codes to counts.                                                     *)
(*****************************************************************************)

(* The gray code of a count. *)
G(n) == bin_to_gray[n % Modulus]
Codes == {bin_to_gray[b] : b \in Pointer}

(* The youngest count up to w with gray code g: Count(g) is CountAt(written, g). *)
CountAt(w, g) == LET lag == (w - gray_to_bin[g]) % Modulus IN w - lag

(* The code of a count is one the decoder undoes. *)
LEMMA CodeOfCount ==
    ASSUME NEW n \in Int
    PROVE  /\ n % Modulus \in Pointer
           /\ G(n) \in Codes /\ G(n) \in GrayWord
           /\ gray_to_bin[G(n)] = n % Modulus
<1>1. n % Modulus \in Pointer
  <2>1. PICK m \in Nat \ {0} : m = Modulus
    BY Widths
  <2>2. n % m \in 0..(m - 1)
    OBVIOUS
  <2> QED BY <2>1, <2>2 DEF Pointer
<1> QED BY <1>1, GrayBits, GrayBack DEF G, Codes

(* A count is read back from its code while it is less than a turn old. *)
LEMMA CountOfCode ==
    ASSUME NEW w \in Int, NEW n \in Int, n <= w, w < n + Modulus
    PROVE  CountAt(w, G(n)) = n
<1>1. PICK m \in Nat \ {0} : m = Modulus
  BY Widths
<1>2. (w - (n % m)) % m = (w - n) % m
  BY ModSub
<1>3. (w - n) % m = w - n
  <2>1. w - n \in 0..(m - 1)
    BY <1>1
  <2> QED BY <2>1, ModSmall
<1>4. gray_to_bin[G(n)] = n % m
  BY <1>1, CodeOfCount
<1>5. (w - gray_to_bin[G(n)]) % Modulus = w - n
  BY <1>1, <1>2, <1>3, <1>4
<1>6. w - (w - n) = n
  OBVIOUS
<1> QED BY <1>5, <1>6 DEF CountAt

(* What a code is read as has that code. *)
LEMMA CodeOfCountAt ==
    ASSUME NEW w \in Int, NEW g \in Codes
    PROVE  /\ CountAt(w, g) \in Int /\ CountAt(w, g) <= w
           /\ G(CountAt(w, g)) = g
           /\ gray_to_bin[g] = CountAt(w, g) % Modulus
           /\ gray_to_bin[g] \in Pointer /\ bin_to_gray[gray_to_bin[g]] = g
<1>1. PICK m \in Nat \ {0} : m = Modulus
  BY Widths
<1>2. PICK b \in Pointer : g = bin_to_gray[b]
  BY DEF Codes
<1>3. gray_to_bin[g] = b
  BY <1>2, GrayBack
<1>4. b \in 0..(m - 1)
  BY <1>1 DEF Pointer
<1>5. CountAt(w, g) = w - ((w - b) % m)
  BY <1>1, <1>3 DEF CountAt
<1>6. (w - b) % m \in 0..(m - 1)
  <2>1. w - b \in Int
    BY <1>4
  <2> QED BY <2>1
<1>7. (w - ((w - b) % m)) % m = b
  <2>1. (w - ((w - b) % m)) % m = (w - (w - b)) % m
    <3>1. PICK v \in Int : v = w - b
      BY <1>4
    <3>2. (w - (v % m)) % m = (w - v) % m
      BY ModSub
    <3> QED BY <3>1, <3>2
  <2>2. w - (w - b) = b
    BY <1>4
  <2> QED BY <1>4, <2>1, <2>2, ModSmall
<1> QED BY <1>1, <1>2, <1>3, <1>5, <1>6, <1>7 DEF G

(* Count is CountAt the words written so far. *)
LEMMA CountIs == \A g : Count(g) = CountAt(written, g)
BY DEF Count, CountAt
-------------------------------------------------------------------------------
(* The counts the registers stand for. *)
written_rr == Count(wrgray_rr)
written_r == Count(wrgray_r)
written_syn == [s \in Stage |-> Count(syn1[s])]
written_bin == Count(bin_to_gray[sync_wrptr_bin])
read_syn == [s \in Stage |-> Count(syn0[s])]
read_bin == Count(bin_to_gray[sync_rdptr_bin])

(* The protocol, with what is proved of it. *)
P == INSTANCE DualClockFifo_proof WITH
    wr <- written, rd <- read, wrgray_rr <- written_rr, wrgray_r <- written_r,
    syn0 <- read_syn, syn1 <- written_syn,
    sync_rdptr_bin <- read_bin, sync_wrptr_bin <- written_bin

(* What DualClockFifo assumes of its depth. *)
LEMMA DepthPositive == Depth \in Nat \ {0}
BY Widths

(* The invariants of the protocol, of those counts. *)
Kept == P!TypeOK /\ P!Inv

(* The invariants of the protocol hold when it starts, *)
LEMMA KeptInit == P!Init => Kept
<1>1. P!Init => P!TypeOK
  BY P!TypeInit, DepthPositive, StagesAssumption
<1>2. P!Init => P!Inv
  BY P!InvInit, DepthPositive, StagesAssumption
<1> QED BY <1>1, <1>2 DEF Kept

(* and after each of its steps. *)
LEMMA KeptNext == Kept /\ [P!Next]_(P!vars) => Kept'
<1>1. P!TypeOK /\ [P!Next]_(P!vars) => P!TypeOK'
  BY P!TypeNext, DepthPositive, StagesAssumption
<1>2. P!TypeOK /\ P!Inv /\ [P!Next]_(P!vars) => P!Inv'
  BY P!InvNext, DepthPositive, StagesAssumption
<1> QED BY <1>1, <1>2 DEF Kept

(* Everything a register holds of a count is at most Depth behind the words written. *)
Near(n) == n \in Nat /\ n <= written /\ written <= n + Depth

(* Under the invariants of the protocol every register is that near. *)
LEMMA AllNear ==
    ASSUME Kept
    PROVE  /\ written \in Nat /\ read \in Nat
           /\ Near(read) /\ Near(written_rr) /\ Near(written_r)
           /\ Near(written_bin) /\ Near(read_bin)
           /\ \A s \in Stage : Near(Count(syn0[s])) /\ Near(Count(syn1[s]))
           /\ \A s \in Stage : Count(syn0[s]) <= read
<1>0. /\ written \in Nat /\ written_rr \in Nat /\ written_r \in Nat /\ read \in Nat
      /\ \A s \in Stage : read_syn[s] \in Nat /\ written_syn[s] \in Nat
      /\ read_bin \in Nat /\ written_bin \in Nat /\ Depth \in Nat
  BY DepthPositive DEF Kept, P!TypeOK, P!Stage, Stage
<1>1. \A s \in Stage : read_syn[s] = Count(syn0[s]) /\ written_syn[s] = Count(syn1[s])
  BY DEF read_syn, written_syn
<1>2. SYNC_STAGES \in Stage /\ \A s \in Stage : s <= SYNC_STAGES
  BY StagesAssumption DEF Stage
<1>3. /\ written_rr <= written /\ written_r <= written_rr
      /\ \A s \in Stage : written_syn[s] <= written_r
      /\ \A s \in Stage : written_syn[SYNC_STAGES] <= written_syn[s]
      /\ written_bin <= written_syn[SYNC_STAGES]
  BY <1>2 DEF Kept, P!Inv, P!WritePointersOrdered, P!Older, P!sync_wrptr, P!Stage, Stage
<1>4. /\ \A s \in Stage : read_syn[s] <= read
      /\ \A s \in Stage : read_syn[SYNC_STAGES] <= read_syn[s]
      /\ read_bin <= read_syn[SYNC_STAGES]
  BY <1>2 DEF Kept, P!Inv, P!ReadPointersOrdered, P!Older, P!sync_rdptr, P!Stage, Stage
<1>5. read <= written_bin /\ written <= read_bin + Depth
  BY DEF Kept, P!Inv, P!FlagsLate
<1>6. written_syn[SYNC_STAGES] \in Nat /\ read_syn[SYNC_STAGES] \in Nat
      /\ written_syn[SYNC_STAGES] <= written_r /\ read_syn[SYNC_STAGES] <= read
  BY <1>0, <1>2, <1>3, <1>4
<1>7. ASSUME NEW s \in Stage PROVE Near(read_syn[s]) /\ Near(written_syn[s]) /\ read_syn[s] <= read
  <2>1. /\ read_syn[SYNC_STAGES] <= read_syn[s] /\ read_syn[s] <= read /\ read_syn[s] \in Nat
        /\ written_syn[SYNC_STAGES] <= written_syn[s] /\ written_syn[s] <= written_r
        /\ written_syn[s] \in Nat
    BY <1>0, <1>3, <1>4
  <2> QED BY <1>0, <1>3, <1>4, <1>5, <1>6, <2>1 DEF Near
<1>8. Near(read) /\ Near(written_rr) /\ Near(written_r) /\ Near(written_bin) /\ Near(read_bin)
  BY <1>0, <1>3, <1>4, <1>5, <1>6 DEF Near
<1> QED BY <1>0, <1>1, <1>7, <1>8

-------------------------------------------------------------------------------
(*****************************************************************************)
(* The coding of the registers, which holds in every state, and the steps    *)
(* of each domain seen as steps of DualClockFifo.  That the registers are    *)
(* near each other comes from its invariants, so that the two are proved     *)
(* together.                                                                 *)
(*****************************************************************************)

Coding ==
    /\ wrbin = written % Modulus /\ wrgray = G(written)
    /\ rdbin = read % Modulus /\ rdgray = G(read)
    /\ wrgray_rr \in Codes /\ wrgray_r \in Codes
    /\ syn0 \in [Stage -> Codes] /\ syn1 \in [Stage -> Codes]
    /\ sync_rdptr_bin \in Pointer /\ sync_wrptr_bin \in Pointer
    /\ written <= written_rr + 1 /\ written_rr <= written_r + 1

(* The counts the registers stand for, in this state *)
LEMMA Views ==
    /\ written_rr = CountAt(written, wrgray_rr) /\ written_r = CountAt(written, wrgray_r)
    /\ written_syn = [s \in Stage |-> CountAt(written, syn1[s])]
    /\ read_syn = [s \in Stage |-> CountAt(written, syn0[s])]
    /\ written_bin = CountAt(written, bin_to_gray[sync_wrptr_bin])
    /\ read_bin = CountAt(written, bin_to_gray[sync_rdptr_bin])
BY DEF written_rr, written_r, written_syn, read_syn, written_bin, read_bin, Count, CountAt

(* and in the next. *)
LEMMA ViewsNext ==
    /\ written_rr' = CountAt(written', wrgray_rr') /\ written_r' = CountAt(written', wrgray_r')
    /\ written_syn' = [s \in Stage |-> CountAt(written', syn1'[s])]
    /\ read_syn' = [s \in Stage |-> CountAt(written', syn0'[s])]
    /\ written_bin' = CountAt(written', bin_to_gray[sync_wrptr_bin'])
    /\ read_bin' = CountAt(written', bin_to_gray[sync_rdptr_bin'])
BY DEF written_rr, written_r, written_syn, read_syn, written_bin, read_bin, Count, CountAt

(* One more word written does not change what an older code is read as. *)
LEMMA Stable ==
    ASSUME Kept, NEW w \in {written, written + 1}
    PROVE  /\ \A n : Near(n) => CountAt(w, G(n)) = n
           /\ \A g \in Codes : Near(CountAt(written, g)) => CountAt(w, g) = CountAt(written, g)
<1>1. written \in Nat
  BY AllNear
<1>2. ASSUME NEW n, Near(n) PROVE CountAt(w, G(n)) = n
  <2>1. n \in Nat /\ n <= w /\ w < n + Modulus /\ w \in Int
    BY <1>1, <1>2, Widths DEF Near
  <2> QED BY <2>1, CountOfCode
<1>3. \A g \in Codes : G(CountAt(written, g)) = g
  BY <1>1, CodeOfCountAt
<1>4. ASSUME NEW g \in Codes, Near(CountAt(written, g)) PROVE CountAt(w, g) = CountAt(written, g)
  <2>1. PICK n : n = CountAt(written, g)
    OBVIOUS
  <2>2. CountAt(w, G(n)) = n
    BY <1>2, <1>4, <2>1
  <2>3. G(n) = g
    BY <1>3, <2>1
  <2> QED BY <2>1, <2>2, <2>3
<1> QED BY <1>2, <1>4

(* Counts less than the modulus apart have distinct codes. *)
LEMMA CodesDiffer ==
    ASSUME NEW x \in Int, NEW y \in Int, x - y < Modulus, y - x < Modulus
    PROVE  G(x) = G(y) <=> x = y
<1>1. PICK m \in Nat \ {0} : m = Modulus
  BY Widths
<1>2. ASSUME G(x) = G(y) PROVE x = y
  <2>1. x % Modulus = y % Modulus
    BY <1>2, CodeOfCount
  <2> QED BY <1>1, <2>1, ModNear
<1> QED BY <1>2

(* The next code, and the code that means full. *)
LEMMA NextCode ==
    ASSUME NEW n \in Nat
    PROVE  /\ Inc(n % Modulus) = (n + 1) % Modulus
           /\ FullMark(G(n)) = G(n + Depth)
<1>1. PICK m \in Nat \ {0} : m = Modulus
  BY Widths
<1>2. n \in Int /\ 1 \in Int /\ Depth \in Int
  BY Widths
<1>3. ((n % m) + 1) % m = (n + 1) % m
  BY <1>2, ModAdd, Zenon
<1>4. ((n % m) + Depth) % m = (n + Depth) % m
  BY <1>2, ModAdd, Zenon
<1>5. n % Modulus \in Pointer
  BY CodeOfCount
<1>6. FullMark(G(n)) = bin_to_gray[((n % Modulus) + Depth) % Modulus]
  BY <1>5, GrayFull DEF G
<1> QED BY <1>1, <1>3, <1>4, <1>6 DEF Inc, G

(* The registers in reset stand for the count 0. *)
LEMMA ZeroCode == G(0) = zero /\ zero \in Codes /\ CountAt(0, zero) = 0 /\ bin_to_gray[0] = zero
<1>1. 0 % Modulus = 0
  <2>1. PICK m \in Nat \ {0} : m = Modulus
    BY Widths
  <2>2. 0 \in 0..(m - 1)
    OBVIOUS
  <2> QED BY <2>1, <2>2, ModSmall
<1>2. G(0) = zero
  BY <1>1, GrayZero DEF G
<1>3. CountAt(0, G(0)) = 0
  BY Widths, CountOfCode
<1> QED BY <1>2, <1>3, CodeOfCount, GrayZero
-------------------------------------------------------------------------------
(* An edge of the write clock is one of the protocol's. *)
LEMMA WrStep ==
    ASSUME Coding, Kept, NEW wrreq \in BOOLEAN, WrDomain(wrreq),
           NEW p \in Nat, Near(p), SampleRead(G(p))
    PROVE  /\ P!WrDomain(wrreq, p)
           /\ written' \in {written, written + 1}
           /\ wrbin' = written' % Modulus /\ wrgray' = G(written')
           /\ wrgray_rr' \in Codes /\ wrgray_r' \in Codes
           /\ syn0' \in [Stage -> Codes] /\ sync_rdptr_bin' \in Pointer
           /\ written' <= written_rr' + 1 /\ written_rr' <= written_r' + 1
<1>0. /\ written \in Nat /\ read \in Nat
      /\ wrbin = written % Modulus /\ wrgray = G(written)
      /\ wrgray_rr \in Codes /\ wrgray_r \in Codes
      /\ syn0 \in [Stage -> Codes] /\ sync_rdptr_bin \in Pointer
      /\ written <= written_rr + 1 /\ written_rr <= written_r + 1
  BY AllNear DEF Coding
<1>1. SYNC_STAGES \in Stage
  BY StagesAssumption DEF Stage
<1>2. Depth \in Nat \ {0} /\ Modulus = 2 * Depth
  BY Widths
<1>3. wrfilter' = P!Filter(wrfilter)
  BY DEF WrDomain, Filter, P!Filter
<1>4. CASE wrarst
  <2>1. UNCHANGED <<wrPointers, written, syn0>>
    BY <1>4 DEF WrDomain, SampleRead
  <2>2. /\ written' = written /\ wrbin' = wrbin /\ wrgray' = wrgray /\ wrgray_rr' = wrgray_rr
        /\ wrgray_r' = wrgray_r /\ syn0' = syn0 /\ sync_rdptr_bin' = sync_rdptr_bin
        /\ wrfull' = wrfull /\ wrused' = wrused
    BY <2>1 DEF wrPointers
  <2>3. /\ written_rr' = written_rr /\ written_r' = written_r
        /\ read_syn' = read_syn /\ read_bin' = read_bin
    BY <2>2, Views, ViewsNext
  <2>4. P!WrDomain(wrreq, p)
    BY <1>3, <1>4, <2>2, <2>3 DEF P!WrDomain, P!wrPointers, P!wrarst, wrarst
  <2> QED BY <1>0, <2>2, <2>3, <2>4
<1>5. CASE ~wrarst
  <2>1. /\ wrbin' = wrbin_next(wrreq) /\ wrgray' = bin_to_gray[wrbin_next(wrreq)]
        /\ wrfull' = (bin_to_gray[wrbin_next(wrreq)] = FullMark(sync_rdptr))
        /\ wrgray_rr' = wrgray /\ wrgray_r' = wrgray_rr
        /\ sync_rdptr_bin' = gray_to_bin[sync_rdptr]
        /\ wrused' = (wrbin - sync_rdptr_bin) % Modulus
        /\ written' = IF wrreq /\ ~wrfull THEN written + 1 ELSE written
        /\ syn0' = Shift(syn0, G(p))
    BY <1>5 DEF WrDomain, SampleRead
  <2>2. /\ written' \in {written, written + 1}
        /\ written' = P!wrbin_next(wrreq)
    BY <2>1 DEF P!wrbin_next
  <2>3. wrbin_next(wrreq) = written' % Modulus
    <3>1. Inc(written % Modulus) = (written + 1) % Modulus
      BY <1>0, NextCode
    <3> QED BY <1>0, <2>1, <3>1 DEF wrbin_next
  <2>4. wrbin' = written' % Modulus /\ wrgray' = G(written')
    BY <2>1, <2>3 DEF G
  <2>5. PICK c \in Nat : /\ c = read_syn[SYNC_STAGES] /\ Near(c) /\ sync_rdptr = G(c)
                         /\ gray_to_bin[sync_rdptr] \in Pointer
                         /\ bin_to_gray[gray_to_bin[sync_rdptr]] = sync_rdptr
    <3>1. sync_rdptr \in Codes /\ read_syn[SYNC_STAGES] = CountAt(written, sync_rdptr)
      BY <1>0, <1>1, Views DEF sync_rdptr
    <3>2. Near(Count(sync_rdptr)) /\ Count(sync_rdptr) = CountAt(written, sync_rdptr)
      BY <1>1, AllNear, CountIs DEF sync_rdptr
    <3>3. G(CountAt(written, sync_rdptr)) = sync_rdptr
      BY <1>0, <3>1, CodeOfCountAt
    <3>4. gray_to_bin[sync_rdptr] \in Pointer /\ bin_to_gray[gray_to_bin[sync_rdptr]] = sync_rdptr
      BY <1>0, <3>1, CodeOfCountAt
    <3> QED BY <3>1, <3>2, <3>3, <3>4 DEF Near
  <2>6. wrfull' = (written' = c + Depth)
    <3>1. bin_to_gray[wrbin_next(wrreq)] = G(written') /\ FullMark(sync_rdptr) = G(c + Depth)
      BY <2>3, <2>5, NextCode DEF G
    <3>2. c <= written /\ written <= c + Depth
      BY <2>5 DEF Near
    <3>3. /\ written' \in Int /\ c + Depth \in Int
          /\ written' - (c + Depth) < Modulus /\ (c + Depth) - written' < Modulus
      BY <1>0, <1>2, <2>2, <2>5, <3>2
    <3>4. G(written') = G(c + Depth) <=> written' = c + Depth
      BY <3>3, CodesDiffer
    <3>5. wrfull' = (G(written') = G(c + Depth))
      BY <2>1, <3>1
    <3> QED BY <3>4, <3>5
  <2>7. written_rr' = written /\ written_r' = written_rr
    <3>1. Near(written) /\ Near(written_rr)
      BY <1>0, <1>2, AllNear DEF Near
    <3>2. CountAt(written', G(written)) = written
      BY <2>2, <3>1, Stable
    <3>3. CountAt(written', wrgray_rr) = CountAt(written, wrgray_rr)
      BY <1>0, <2>2, <3>1, Stable, Views
    <3> QED BY <1>0, <2>1, <3>2, <3>3, Views, ViewsNext
  <2>8. read_syn' = P!Shift(read_syn, p) /\ syn0' \in [Stage -> Codes]
    <3>1. \A s \in Stage : CountAt(written', syn0[s]) = CountAt(written, syn0[s])
      BY <1>0, <2>2, Stable, AllNear, CountIs
    <3>2. CountAt(written', G(p)) = p
      BY <2>2, Stable
    <3>3. ASSUME NEW s \in Stage
          PROVE  /\ CountAt(written', syn0'[s]) = IF s = 1 THEN p ELSE read_syn[s - 1]
                 /\ syn0'[s] \in Codes
      <4>1. CASE s = 1
        <5>1. syn0'[s] = G(p)
          BY <2>1, <4>1 DEF Shift
        <5> QED BY <3>2, <4>1, <5>1, CodeOfCount
      <4>2. CASE s # 1
        <5>1. s - 1 \in Stage
          BY <4>2, StagesAssumption DEF Stage
        <5>2. syn0'[s] = syn0[s - 1]
          BY <2>1, <4>2 DEF Shift
        <5>3. read_syn[s - 1] = CountAt(written, syn0[s - 1])
          BY <5>1, Views
        <5> QED BY <1>0, <3>1, <4>2, <5>1, <5>2, <5>3
      <4> QED BY <4>1, <4>2
    <3>4. read_syn' = [s \in Stage |-> IF s = 1 THEN p ELSE read_syn[s - 1]]
      BY <3>3, ViewsNext
    <3>5. syn0' \in [Stage -> Codes]
      BY <2>1, <3>3 DEF Shift
    <3> QED BY <3>4, <3>5 DEF P!Shift, P!Stage, Stage
  <2>9. read_bin' = c /\ sync_rdptr_bin' \in Pointer
    <3>1. CountAt(written', G(c)) = c
      BY <2>2, <2>5, Stable
    <3> QED BY <2>1, <2>5, <3>1, ViewsNext
  <2>10. wrused' = written - read_bin
    <3>1. /\ bin_to_gray[sync_rdptr_bin] \in Codes
          /\ gray_to_bin[bin_to_gray[sync_rdptr_bin]] = sync_rdptr_bin
      BY <1>0, GrayBack DEF Codes
    <3>2. sync_rdptr_bin = read_bin % Modulus
      <4>1. PICK g \in Codes : g = bin_to_gray[sync_rdptr_bin]
        BY <3>1
      <4>2. gray_to_bin[g] = CountAt(written, g) % Modulus
        BY <1>0, CodeOfCountAt
      <4> QED BY <3>1, <4>1, <4>2, Views
    <3>3. PICK m \in Nat \ {0} : m = Modulus
      BY Widths
    <3>4. Near(read_bin) /\ read_bin \in Nat
      BY AllNear DEF Near
    <3>5. written % m \in Int /\ read_bin % m \in Int
      BY <1>0, <3>4
    <3>6. PICK s \in Int, y \in Int : s = written % m /\ y = -read_bin
      BY <3>4, <3>5
    <3>7. ((written % m) - (read_bin % m)) % m = (written - read_bin) % m
      <4>0. written \in Int /\ read_bin \in Int
        BY <1>0, <3>4
      <4>1. (s - (read_bin % m)) % m = (s - read_bin) % m
        BY <4>0, ModSub, Zenon
      <4>2. ((written % m) + y) % m = (written + y) % m
        BY <4>0, ModAdd, Zenon
      <4>3. s - read_bin = s + y /\ written - read_bin = written + y
        BY <1>0, <3>4, <3>6
      <4> QED BY <3>6, <4>1, <4>2, <4>3
    <3>8. written - read_bin \in 0..(m - 1)
      BY <1>0, <1>2, <3>3, <3>4 DEF Near
    <3>9. (written - read_bin) % m = written - read_bin
      BY <3>8, ModSmall
    <3> QED BY <1>0, <2>1, <3>2, <3>3, <3>7, <3>9
  <2>11. P!WrDomain(wrreq, p)
    <3>1. P!sync_rdptr = c
      BY <2>5 DEF P!sync_rdptr
    <3> QED BY <1>3, <1>5, <2>1, <2>2, <2>6, <2>7, <2>8, <2>9, <2>10, <3>1
            DEF P!WrDomain, P!wrarst, wrarst
  <2>12. written' <= written_rr' + 1 /\ written_rr' <= written_r' + 1
    BY <1>0, <2>2, <2>7
  <2> QED BY <1>0, <2>1, <2>2, <2>4, <2>8, <2>9, <2>11, <2>12, CodeOfCount
<1> QED BY <1>4, <1>5

(* The read pointer moves as the protocol's. *)
LEMMA RdPointer ==
    ASSUME Coding, Kept, NEW rdreq \in BOOLEAN, RdDomain(rdreq)
    PROVE  /\ read' = IF rdarst THEN read ELSE P!rdbin_next(rdreq)
           /\ rdbin' = read' % Modulus /\ rdgray' = G(read')
           /\ Near(read') /\ read' \in {read, read + 1}
           /\ G(P!rdbin_next(rdreq)) = bin_to_gray[rdbin_next(rdreq)]
           /\ P!rdbin_next(rdreq) \in {read, read + 1}
<1>0. /\ written \in Nat /\ read \in Nat /\ Near(read) /\ Near(written_bin)
      /\ rdbin = read % Modulus /\ rdgray = G(read)
  BY AllNear DEF Coding
<1>1. P!rdbin_next(rdreq) = IF rdreq /\ ~rdempty THEN read + 1 ELSE read
  BY DEF P!rdbin_next
<1>2. rdbin_next(rdreq) = P!rdbin_next(rdreq) % Modulus
  <2>1. Inc(read % Modulus) = (read + 1) % Modulus
    BY <1>0, NextCode
  <2> QED BY <1>0, <1>1, <2>1 DEF rdbin_next
<1>3. CASE rdarst
  <2>1. UNCHANGED <<rdbin, rdgray, read>>
    BY <1>3 DEF RdDomain, rdPointers
  <2> QED BY <1>0, <1>1, <1>2, <1>3, <2>1 DEF G
<1>4. CASE ~rdarst
  <2>1. /\ rdbin' = rdbin_next(rdreq) /\ rdgray' = bin_to_gray[rdbin_next(rdreq)]
        /\ read' = IF rdreq /\ ~rdempty THEN read + 1 ELSE read
    BY <1>4 DEF RdDomain
  <2>2. ~rdempty => read < written_bin
    BY <1>4 DEF Kept, P!Inv, P!FlagsLate, P!rdarst, rdarst
  <2>3. Near(read')
    BY <1>0, <2>1, <2>2, Widths DEF Near
  <2> QED BY <1>1, <1>2, <1>4, <2>1, <2>3 DEF G
<1> QED BY <1>3, <1>4

(* An edge of the read clock is one of the protocol's. *)
LEMMA RdStep ==
    ASSUME Coding, Kept, NEW rdreq \in BOOLEAN, RdDomain(rdreq),
           NEW q \in Nat, Near(q), SampleWrite(G(q)), written' \in {written, written + 1}
    PROVE  /\ P!RdDomain(rdreq, q)
           /\ syn1' \in [Stage -> Codes] /\ sync_wrptr_bin' \in Pointer
<1>0. /\ written \in Nat /\ read \in Nat /\ Near(read) /\ Near(written_bin)
      /\ syn1 \in [Stage -> Codes] /\ sync_wrptr_bin \in Pointer
      /\ rdbin = read % Modulus
  BY AllNear DEF Coding
<1>1. SYNC_STAGES \in Stage
  BY StagesAssumption DEF Stage
<1>2. Depth \in Nat \ {0} /\ Modulus = 2 * Depth
  BY Widths
<1>3. rdfilter' = P!Filter(rdfilter)
  BY DEF RdDomain, Filter, P!Filter
<1>4. PICK c \in Nat : /\ c = written_syn[SYNC_STAGES] /\ Near(c) /\ sync_wrptr = G(c)
                       /\ gray_to_bin[sync_wrptr] \in Pointer
                       /\ bin_to_gray[gray_to_bin[sync_wrptr]] = sync_wrptr
  <2>1. sync_wrptr \in Codes /\ written_syn[SYNC_STAGES] = CountAt(written, sync_wrptr)
    BY <1>0, <1>1, Views DEF sync_wrptr
  <2>2. Near(Count(sync_wrptr)) /\ Count(sync_wrptr) = CountAt(written, sync_wrptr)
    BY <1>1, AllNear, CountIs DEF sync_wrptr
  <2>3. G(CountAt(written, sync_wrptr)) = sync_wrptr
    BY <1>0, <2>1, CodeOfCountAt
  <2>4. gray_to_bin[sync_wrptr] \in Pointer /\ bin_to_gray[gray_to_bin[sync_wrptr]] = sync_wrptr
    BY <1>0, <2>1, CodeOfCountAt
  <2> QED BY <2>1, <2>2, <2>3, <2>4 DEF Near
<1>5. P!sync_wrptr = c
  BY <1>4 DEF P!sync_wrptr
<1>6. rdempty' = (P!rdbin_next(rdreq) = c)
  <2>1. PICK x \in {read, read + 1} :
               x = P!rdbin_next(rdreq) /\ G(x) = bin_to_gray[rdbin_next(rdreq)]
    BY RdPointer
  <2>2. /\ c <= written /\ written <= c + Depth /\ read <= written /\ written <= read + Depth
    BY <1>0, <1>4 DEF Near
  <2>3. x \in Int /\ c \in Int /\ x - c < Modulus /\ c - x < Modulus
    BY <1>0, <1>2, <1>4, <2>1, <2>2, Widths
  <2>4. G(x) = G(c) <=> x = c
    BY <2>3, CodesDiffer
  <2>5. rdempty' = (G(x) = G(c))
    BY <1>4, <2>1 DEF RdDomain
  <2> QED BY <2>1, <2>4, <2>5
<1>7. CASE rdarst
  <2>1. UNCHANGED <<rdPointers, read, syn1>>
    BY <1>7 DEF RdDomain, SampleWrite
  <2>2. read' = read /\ syn1' = syn1 /\ sync_wrptr_bin' = sync_wrptr_bin /\ rdused' = rdused
    BY <2>1 DEF rdPointers
  <2>3. written_bin' = written_bin
    <3>1. bin_to_gray[sync_wrptr_bin] \in Codes
      BY <1>0 DEF Codes
    <3>2. CountAt(written', bin_to_gray[sync_wrptr_bin])
            = CountAt(written, bin_to_gray[sync_wrptr_bin])
      BY <1>0, <3>1, Stable, Views
    <3> QED BY <2>2, <3>2, Views, ViewsNext
  <2>4. written_syn' = written_syn
    <3>1. \A s \in Stage : CountAt(written', syn1[s]) = CountAt(written, syn1[s])
      BY <1>0, Stable, AllNear, CountIs
    <3> QED BY <2>2, <3>1, Views, ViewsNext
  <2>5. P!RdDomain(rdreq, q)
    BY <1>3, <1>5, <1>6, <1>7, <2>2, <2>3, <2>4 DEF P!RdDomain, P!rdPointers, P!rdarst, rdarst
  <2> QED BY <1>0, <2>2, <2>5
<1>8. CASE ~rdarst
  <2>1. /\ sync_wrptr_bin' = gray_to_bin[sync_wrptr]
        /\ rdused' = (sync_wrptr_bin - rdbin) % Modulus
        /\ syn1' = Shift(syn1, G(q))
    BY <1>8 DEF RdDomain, SampleWrite
  <2>2. read' = P!rdbin_next(rdreq)
    BY <1>8, RdPointer
  <2>3. written_syn' = P!Shift(written_syn, q) /\ syn1' \in [Stage -> Codes]
    <3>1. \A s \in Stage : CountAt(written', syn1[s]) = CountAt(written, syn1[s])
      BY <1>0, Stable, AllNear, CountIs
    <3>2. CountAt(written', G(q)) = q
      BY Stable
    <3>3. ASSUME NEW s \in Stage
          PROVE  /\ CountAt(written', syn1'[s]) = IF s = 1 THEN q ELSE written_syn[s - 1]
                 /\ syn1'[s] \in Codes
      <4>1. CASE s = 1
        <5>1. syn1'[s] = G(q)
          BY <2>1, <4>1 DEF Shift
        <5> QED BY <3>2, <4>1, <5>1, CodeOfCount
      <4>2. CASE s # 1
        <5>1. s - 1 \in Stage
          BY <4>2, StagesAssumption DEF Stage
        <5>2. syn1'[s] = syn1[s - 1]
          BY <2>1, <4>2 DEF Shift
        <5>3. written_syn[s - 1] = CountAt(written, syn1[s - 1])
          BY <5>1, Views
        <5> QED BY <1>0, <3>1, <4>2, <5>1, <5>2, <5>3
      <4> QED BY <4>1, <4>2
    <3>4. written_syn' = [s \in Stage |-> IF s = 1 THEN q ELSE written_syn[s - 1]]
      BY <3>3, ViewsNext
    <3>5. syn1' \in [Stage -> Codes]
      BY <2>1, <3>3 DEF Shift
    <3> QED BY <3>4, <3>5 DEF P!Shift, P!Stage, Stage
  <2>4. written_bin' = c /\ sync_wrptr_bin' \in Pointer
    <3>1. CountAt(written', G(c)) = c
      BY <1>4, Stable
    <3> QED BY <1>4, <2>1, <3>1, ViewsNext
  <2>5. rdused' = written_bin - read
    <3>1. /\ bin_to_gray[sync_wrptr_bin] \in Codes
          /\ gray_to_bin[bin_to_gray[sync_wrptr_bin]] = sync_wrptr_bin
      BY <1>0, GrayBack DEF Codes
    <3>2. sync_wrptr_bin = written_bin % Modulus
      <4>1. PICK g \in Codes : g = bin_to_gray[sync_wrptr_bin]
        BY <3>1
      <4>2. gray_to_bin[g] = CountAt(written, g) % Modulus
        BY <1>0, CodeOfCountAt
      <4> QED BY <3>1, <4>1, <4>2, Views
    <3>3. PICK m \in Nat \ {0} : m = Modulus
      BY Widths
    <3>4. /\ written_bin \in Nat /\ read <= written_bin
          /\ written_bin <= written /\ written <= read + Depth
      BY <1>0 DEF Near, Kept, P!Inv, P!FlagsLate
    <3>5. written_bin % m \in Int /\ read % m \in Int /\ read \in Int /\ written_bin \in Int
      BY <1>0, <3>4
    <3>6. PICK s \in Int, y \in Int : s = written_bin % m /\ y = -read
      BY <3>5
    <3>7. ((written_bin % m) - (read % m)) % m = (written_bin - read) % m
      <4>1. (s - (read % m)) % m = (s - read) % m
        BY <3>5, ModSub, Zenon
      <4>2. ((written_bin % m) + y) % m = (written_bin + y) % m
        BY <3>5, ModAdd, Zenon
      <4>3. s - read = s + y /\ written_bin - read = written_bin + y
        BY <3>5, <3>6
      <4> QED BY <3>6, <4>1, <4>2, <4>3
    <3>8. written_bin - read \in 0..(m - 1)
      BY <1>0, <1>2, <3>3, <3>4
    <3>9. (written_bin - read) % m = written_bin - read
      BY <3>8, ModSmall
    <3> QED BY <1>0, <2>1, <3>2, <3>3, <3>7, <3>9
  <2>6. P!RdDomain(rdreq, q)
    BY <1>3, <1>5, <1>6, <1>8, <2>2, <2>3, <2>4, <2>5 DEF P!RdDomain, P!rdarst, rdarst
  <2> QED BY <2>3, <2>4, <2>6
<1> QED BY <1>7, <1>8

(* What is sampled of a pointer that moves is the pointer before or after. *)
LEMMA SampledCount ==
    ASSUME NEW n \in Nat, NEW k \in {n, n + 1}, NEW g \in Sampled(G(n), G(k))
    PROVE  g = G(n) \/ g = G(k)
<1>1. n % Modulus \in Pointer /\ k % Modulus \in Pointer
  BY CodeOfCount
<1>2. k % Modulus = n % Modulus \/ k % Modulus = Inc(n % Modulus)
  BY NextCode
<1>3. g \in Sampled(bin_to_gray[n % Modulus], bin_to_gray[k % Modulus])
  BY DEF G
<1> QED BY <1>1, <1>2, <1>3, GraySampled DEF G

(* The first state is one of the protocol. *)
LEMMA CodingInit == Init => Coding /\ P!Init
<1> SUFFICES ASSUME Init PROVE Coding /\ P!Init
  OBVIOUS
<1>1. /\ written = 0 /\ read = 0 /\ wrbin = 0 /\ wrgray = zero /\ rdbin = 0 /\ rdgray = zero
      /\ wrgray_rr = zero /\ wrgray_r = zero /\ syn0 = [s \in Stage |-> zero]
      /\ syn1 = [s \in Stage |-> zero] /\ sync_rdptr_bin = 0 /\ sync_wrptr_bin = 0
  BY DEF Init
<1>2. 0 % Modulus = 0
  <2>1. PICK m \in Nat \ {0} : m = Modulus
    BY Widths
  <2>2. 0 \in 0..(m - 1)
    OBVIOUS
  <2> QED BY <2>1, <2>2, ModSmall
<1>3. /\ written_rr = 0 /\ written_r = 0 /\ written_bin = 0 /\ read_bin = 0
      /\ read_syn = [s \in Stage |-> 0] /\ written_syn = [s \in Stage |-> 0]
  BY <1>1, Views, ZeroCode
<1>4. Coding
  BY <1>1, <1>2, <1>3, ZeroCode, Widths DEF Coding
<1>5. P!Init
  BY <1>3 DEF Init, P!Init, P!Stage, Stage
<1> QED BY <1>4, <1>5

(* The asynchronous reset is that of the protocol. *)
LEMMA ResetStep ==
    ASSUME AssertReset
    PROVE  Coding' /\ P!AssertReset
<1>1. /\ written' = 0 /\ read' = 0 /\ wrbin' = 0 /\ wrgray' = zero /\ rdbin' = 0 /\ rdgray' = zero
      /\ wrgray_rr' = zero /\ wrgray_r' = zero /\ syn0' = [s \in Stage |-> zero]
      /\ syn1' = [s \in Stage |-> zero] /\ sync_rdptr_bin' = 0 /\ sync_wrptr_bin' = 0
  BY DEF AssertReset
<1>2. 0 % Modulus = 0
  <2>1. PICK m \in Nat \ {0} : m = Modulus
    BY Widths
  <2>2. 0 \in 0..(m - 1)
    OBVIOUS
  <2> QED BY <2>1, <2>2, ModSmall
<1>3. /\ written_rr' = 0 /\ written_r' = 0 /\ written_bin' = 0 /\ read_bin' = 0
      /\ read_syn' = [s \in Stage |-> 0] /\ written_syn' = [s \in Stage |-> 0]
  BY <1>1, ViewsNext, ZeroCode
<1>4. Coding'
  BY <1>1, <1>2, <1>3, ZeroCode, Widths DEF Coding
<1>5. P!AssertReset
  BY <1>3 DEF AssertReset, P!AssertReset, P!Stage, Stage
<1> QED BY <1>4, <1>5

(* Every step is one of the protocol: the pointers cross the domains as    *)
(* counts.                                                                 *)
LEMMA NextStep ==
    ASSUME ~RequestInReset, Coding, Kept, [Next]_vars
    PROVE  Coding' /\ [P!Next]_(P!vars)
<1>0. /\ written \in Nat /\ read \in Nat /\ Near(read) /\ Near(written_r) /\ Near(written_rr)
      /\ wrbin = written % Modulus /\ wrgray = G(written)
      /\ rdbin = read % Modulus /\ rdgray = G(read)
      /\ wrgray_rr \in Codes /\ wrgray_r \in Codes
      /\ syn0 \in [Stage -> Codes] /\ syn1 \in [Stage -> Codes]
      /\ sync_rdptr_bin \in Pointer /\ sync_wrptr_bin \in Pointer
      /\ written <= written_rr + 1 /\ written_rr <= written_r + 1
  BY AllNear DEF Coding
<1>1. G(written_r) = wrgray_r /\ G(written_rr) = wrgray_rr
  BY <1>0, Views, CodeOfCountAt
<1>2. written_r \in Nat /\ written_rr \in Nat
  BY <1>0 DEF Near
<1>3. CASE WrEdge
  <2>1. PICK wrreq \in BOOLEAN : WrDomain(wrreq)
    BY <1>3 DEF WrEdge
  <2>2. SampleRead(G(read)) /\ UNCHANGED <<arst, rdVars, syn1>>
    BY <1>0, <1>3 DEF WrEdge
  <2>3. /\ P!WrDomain(wrreq, read) /\ written' \in {written, written + 1}
        /\ wrbin' = written' % Modulus /\ wrgray' = G(written')
        /\ wrgray_rr' \in Codes /\ wrgray_r' \in Codes
        /\ syn0' \in [Stage -> Codes] /\ sync_rdptr_bin' \in Pointer
        /\ written' <= written_rr' + 1 /\ written_rr' <= written_r' + 1
    BY <1>0, <2>1, <2>2, WrStep
  <2>4. /\ read' = read /\ rdbin' = rdbin /\ rdgray' = rdgray /\ syn1' = syn1
        /\ sync_wrptr_bin' = sync_wrptr_bin /\ rdfilter' = rdfilter /\ rdempty' = rdempty
        /\ rdused' = rdused /\ arst' = arst
    BY <2>2 DEF rdVars, rdPointers
  <2>5. Coding'
    BY <1>0, <2>3, <2>4 DEF Coding
  <2>6. written_syn' = written_syn /\ written_bin' = written_bin
    <3>1. \A s \in Stage : CountAt(written', syn1[s]) = CountAt(written, syn1[s])
      BY <1>0, <2>3, Stable, AllNear, CountIs
    <3>2. bin_to_gray[sync_wrptr_bin] \in Codes
      BY <1>0 DEF Codes
    <3>3. CountAt(written', bin_to_gray[sync_wrptr_bin])
            = CountAt(written, bin_to_gray[sync_wrptr_bin])
      BY <2>3, <3>2, Stable, AllNear, Views
    <3> QED BY <2>4, <3>1, <3>3, Views, ViewsNext
  <2>7. P!WrEdge
    BY <2>3, <2>4, <2>6 DEF P!WrEdge, P!rdVars, P!rdPointers
  <2> QED BY <2>5, <2>7 DEF P!Next
<1>4. CASE RdEdge
  <2>1. PICK rdreq \in ReadRequest : RdDomain(rdreq)
    BY <1>4 DEF RdEdge
  <2>2. SampleWrite(G(written_r)) /\ UNCHANGED <<arst, wrVars, syn0>>
    BY <1>1, <1>4 DEF RdEdge
  <2>3. rdreq \in BOOLEAN /\ rdreq \in P!ReadRequest
    BY <2>1 DEF ReadRequest, P!ReadRequest, P!rdarst, rdarst
  <2>4. /\ written' = written /\ wrbin' = wrbin /\ wrgray' = wrgray /\ wrgray_rr' = wrgray_rr
        /\ wrgray_r' = wrgray_r /\ syn0' = syn0 /\ sync_rdptr_bin' = sync_rdptr_bin
        /\ wrfull' = wrfull /\ wrused' = wrused /\ wrfilter' = wrfilter /\ arst' = arst
    BY <2>2 DEF wrVars, wrPointers
  <2>5. P!RdDomain(rdreq, written_r) /\ syn1' \in [Stage -> Codes] /\ sync_wrptr_bin' \in Pointer
    BY <1>0, <1>2, <2>1, <2>2, <2>3, <2>4, RdStep
  <2>6. rdbin' = read' % Modulus /\ rdgray' = G(read')
    BY <2>1, <2>3, RdPointer
  <2>7. /\ written_rr' = written_rr /\ written_r' = written_r
        /\ read_syn' = read_syn /\ read_bin' = read_bin
    BY <2>4, Views, ViewsNext
  <2>8. Coding'
    BY <1>0, <2>4, <2>5, <2>6, <2>7 DEF Coding
  <2>9. P!RdEdge
    BY <2>3, <2>4, <2>5, <2>7 DEF P!RdEdge, P!wrVars, P!wrPointers
  <2> QED BY <2>8, <2>9 DEF P!Next
<1>5. CASE BothEdges
  <2>1. PICK wrreq \in BOOLEAN, rdreq \in ReadRequest : WrDomain(wrreq) /\ RdDomain(rdreq)
    BY <1>5 DEF BothEdges
  <2>2. PICK g \in Sampled(rdgray, rdgray'), h \in Sampled(wrgray_r, wrgray_r') :
               SampleRead(g) /\ SampleWrite(h)
    BY <1>5 DEF BothEdges
  <2>3. arst' = arst
    BY <1>5 DEF BothEdges
  <2>4. rdreq \in BOOLEAN /\ rdreq \in P!ReadRequest
    BY <2>1 DEF ReadRequest, P!ReadRequest, P!rdarst, rdarst
  <2>5. /\ read' = IF rdarst THEN read ELSE P!rdbin_next(rdreq)
        /\ rdbin' = read' % Modulus /\ rdgray' = G(read')
        /\ Near(read') /\ read' \in {read, read + 1}
    BY <2>1, <2>4, RdPointer
  <2>6. PICK p \in {read, read'} : g = G(p)
    BY <1>0, <2>2, <2>5, SampledCount
  <2>7. PICK k : /\ k = IF wrarst THEN written_r ELSE written_rr
                 /\ wrgray_r' = G(k)
    BY <1>1, <2>1 DEF WrDomain, wrPointers
  <2>8. k \in {written_r, written_r + 1} /\ Near(k)
    <3>1. written_r <= written_rr
      BY DEF Kept, P!Inv, P!WritePointersOrdered
    <3> QED BY <1>0, <1>2, <2>7, <3>1
  <2>9. PICK q \in {written_r, k} : h = G(q)
    BY <1>1, <1>2, <2>2, <2>7, <2>8, SampledCount
  <2>10. p \in Nat /\ Near(p) /\ q \in Nat /\ Near(q)
    BY <1>0, <2>5, <2>6, <2>8, <2>9 DEF Near
  <2>11. /\ P!WrDomain(wrreq, p) /\ written' \in {written, written + 1}
         /\ wrbin' = written' % Modulus /\ wrgray' = G(written')
         /\ wrgray_rr' \in Codes /\ wrgray_r' \in Codes
         /\ syn0' \in [Stage -> Codes] /\ sync_rdptr_bin' \in Pointer
         /\ written' <= written_rr' + 1 /\ written_rr' <= written_r' + 1
    BY <2>1, <2>2, <2>6, <2>10, WrStep
  <2>12. P!RdDomain(rdreq, q) /\ syn1' \in [Stage -> Codes] /\ sync_wrptr_bin' \in Pointer
    BY <2>1, <2>2, <2>4, <2>9, <2>10, <2>11, RdStep
  <2>13. Coding'
    BY <2>5, <2>11, <2>12 DEF Coding
  <2>14. P!BothEdges
    <3>1. p \in {read, IF P!rdarst THEN read ELSE P!rdbin_next(rdreq)}
      BY <2>5, <2>6 DEF P!rdarst, rdarst
    <3>2. q \in {written_r, IF P!wrarst THEN written_r ELSE written_rr}
      BY <2>7, <2>9 DEF P!wrarst, wrarst
    <3>3. P!WrDomain(wrreq, p) /\ P!RdDomain(rdreq, q)
      BY <2>11, <2>12
    <3> QED BY <2>3, <2>4, <3>1, <3>2, <3>3 DEF P!BothEdges
  <2> QED BY <2>13, <2>14 DEF P!Next
<1>6. CASE AssertReset
  BY <1>6, ResetStep DEF P!Next
<1>7. CASE ReleaseReset \/ UNCHANGED vars
  <2>1. UNCHANGED <<wrVars, syn0, rdVars, syn1>>
    BY <1>7 DEF ReleaseReset, vars
  <2>2. /\ written' = written /\ wrbin' = wrbin /\ wrgray' = wrgray /\ wrgray_rr' = wrgray_rr
        /\ wrgray_r' = wrgray_r /\ syn0' = syn0 /\ sync_rdptr_bin' = sync_rdptr_bin
        /\ wrfull' = wrfull /\ wrused' = wrused /\ wrfilter' = wrfilter
        /\ read' = read /\ rdbin' = rdbin /\ rdgray' = rdgray /\ syn1' = syn1
        /\ sync_wrptr_bin' = sync_wrptr_bin /\ rdfilter' = rdfilter /\ rdempty' = rdempty
        /\ rdused' = rdused
    BY <2>1 DEF wrVars, wrPointers, rdVars, rdPointers
  <2>3. /\ written_rr' = written_rr /\ written_r' = written_r /\ read_syn' = read_syn
        /\ read_bin' = read_bin /\ written_syn' = written_syn /\ written_bin' = written_bin
    BY <2>2, Views, ViewsNext
  <2>4. Coding'
    BY <1>0, <2>2, <2>3 DEF Coding
  <2>5. UNCHANGED <<P!wrVars, P!rdVars>>
    BY <2>2, <2>3 DEF P!wrVars, P!wrPointers, P!rdVars, P!rdPointers
  <2>6. P!ReleaseReset \/ UNCHANGED P!vars
    BY <1>7, <2>5 DEF ReleaseReset, vars, P!ReleaseReset, P!vars
  <2> QED BY <2>4, <2>6 DEF P!Next
<1> QED BY <1>3, <1>4, <1>5, <1>6, <1>7 DEF Next

(* The steps of Spec without its fairness. *)
Steps == Init /\ [][Next]_vars

(* What is proved here needs no fairness. *)
LEMMA SpecSteps == Spec => Steps
BY PTL DEF Spec, Steps

(* The coding and the invariants of the protocol hold for ever. *)
LEMMA CodingKept == ASSUME ~RequestInReset PROVE Steps => [](Coding /\ Kept)
<1>1. Init => Coding /\ Kept
  BY CodingInit, KeptInit
<1>2. Coding /\ Kept /\ [Next]_vars => (Coding /\ Kept)'
  <2>1. Coding /\ Kept /\ [Next]_vars => Coding' /\ [P!Next]_(P!vars)
    BY NextStep
  <2> QED BY <2>1, KeptNext
<1> QED BY <1>1, <1>2, PTL DEF Steps

(* The two instances of the protocol are the same. *)
LEMMA SameProtocol == P!Spec <=> Protocol!Spec
BY PTL
   DEF written_rr, written_r, written_syn, written_bin, read_syn, read_bin,
       P!Stage, P!wrarst, P!rdarst, P!sync_rdptr, P!sync_wrptr, P!Filter,
       P!Shift, P!Init, P!wrbin_next, P!rdbin_next, P!WrDomain, P!RdDomain,
       P!ReadRequest, P!WrEdge, P!RdEdge, P!BothEdges, P!AssertReset,
       P!ReleaseReset, P!Next, P!Spec, P!vars, P!wrVars, P!rdVars,
       P!wrPointers, P!rdPointers, Protocol!Stage, Protocol!wrarst,
       Protocol!rdarst, Protocol!sync_rdptr, Protocol!sync_wrptr,
       Protocol!Filter, Protocol!Shift, Protocol!Init, Protocol!wrbin_next,
       Protocol!rdbin_next, Protocol!WrDomain, Protocol!RdDomain,
       Protocol!ReadRequest, Protocol!WrEdge, Protocol!RdEdge,
       Protocol!BothEdges, Protocol!AssertReset, Protocol!ReleaseReset,
       Protocol!Next, Protocol!Spec, Protocol!vars, Protocol!wrVars,
       Protocol!rdVars, Protocol!wrPointers, Protocol!rdPointers

(* The bits of the FIFO behave as the counts of DualClockFifo, for every   *)
(* width of the pointers and every number of synchronizer stages: whatever *)
(* mixture of old and new bits a synchronizer settles on, it holds a       *)
(* pointer the other domain really had, full and empty are decided as on   *)
(* counts, and the used-word counts do not wrap.  The reader is assumed to *)
(* keep rdreq low in reset, as the protocol does.                          *)
THEOREM ProtocolCorrect == ASSUME ~RequestInReset PROVE Spec => RefinesProtocol
<1>1. Init => P!Init
  BY CodingInit
<1>2. Coding /\ Kept /\ [Next]_vars => [P!Next]_(P!vars)
  BY NextStep
<1>3. Steps => P!Spec
  BY <1>1, <1>2, CodingKept, PTL DEF Steps, P!Spec
<1> QED BY <1>3, SpecSteps, SameProtocol, PTL DEF RefinesProtocol
-------------------------------------------------------------------------------
(*****************************************************************************)
(* The write pipeline of the RAM.  A word accepted is in din_reg while       *)
(* written is one ahead of written_rr, in din2_reg and on its way into the   *)
(* RAM while written_rr is one ahead of written_r, and in the RAM after      *)
(* that; the read domain sees no more than written_r.                        *)
(*****************************************************************************)

Pipeline ==
    /\ ram \in [0..(Depth - 1) -> Int] /\ din_reg \in Int /\ din2_reg \in Int
    /\ we_reg \in BOOLEAN /\ writing \in BOOLEAN
    /\ wrfilter = 1 => ~we_reg
    /\ ~wrarst => /\ we_reg <=> written = written_rr + 1
                  /\ we_reg => din_reg = written - 1 /\ wraddr_reg = (written - 1) % Depth
                  /\ writing <=> written_rr = written_r + 1
                  /\ writing => din2_reg = written_r /\ wraddr2_reg = written_r % Depth
    /\ \A n \in Nat : read <= n /\ n < written_r => ram[n % Depth] = n

(* The slot of a pointer is the slot of its count. *)
LEMMA SlotOfCount == \A n \in Nat : Slot(n % Modulus) = n % Depth /\ n % Depth \in 0..(Depth - 1)
<1> SUFFICES ASSUME NEW n \in Nat
             PROVE  Slot(n % Modulus) = n % Depth /\ n % Depth \in 0..(Depth - 1)
  OBVIOUS
<1>1. PICK d \in Nat \ {0} : d = Depth
  BY Widths
<1>2. n \in Int
  OBVIOUS
<1>3. (n % (2 * d)) % d = n % d
  BY <1>2, ModTwice, Zenon
<1>4. n % d \in 0..(d - 1)
  OBVIOUS
<1> QED BY <1>1, <1>3, <1>4, Widths DEF Slot

(* The word being written shares its place with none that waits. *)
LEMMA OwnSlot ==
    ASSUME Kept, written_r < written_rr, NEW n \in Nat, read <= n, n < written_r
    PROVE  n % Depth # written_r % Depth
<1>1. PICK d \in Nat \ {0} : d = Depth
  BY Widths
<1>2. /\ written_rr <= written /\ written <= read + d
      /\ written \in Nat /\ read \in Nat /\ written_r \in Nat /\ written_rr \in Nat
  BY <1>1, AllNear DEF Near
<1>3. n \in Int /\ written_r \in Int /\ written_r - n < d /\ n - written_r < d /\ n # written_r
  BY <1>2
<1> QED BY <1>1, <1>3, ModNear

(* The write pipeline is empty at first. *)
LEMMA PipelineInit == Init => Pipeline
<1> SUFFICES ASSUME Init PROVE Pipeline
  OBVIOUS
<1>1. written_r = 0 /\ read = 0
  BY CodingInit DEF P!Init, Init
<1>2. wrfilter = 0 /\ we_reg = FALSE /\ writing = FALSE /\ din_reg = Junk /\ din2_reg = Junk
  BY DEF Init
<1>3. ram \in [0..(Depth - 1) -> Int] /\ Junk \in Int
  BY DEF Init, Junk
<1>4. wrarst
  BY <1>2 DEF wrarst
<1>5. \A n \in Nat : read <= n /\ n < written_r => ram[n % Depth] = n
  BY <1>1
<1>6. we_reg \in BOOLEAN /\ writing \in BOOLEAN /\ ~we_reg
  BY <1>2
<1>7. din_reg \in Int /\ din2_reg \in Int
  BY <1>2, <1>3
<1> QED BY <1>3, <1>4, <1>5, <1>6, <1>7, Zenon DEF Pipeline

(* An edge of the write clock keeps it in order. *)
LEMMA PipelineWr ==
    ASSUME Coding, Kept, Pipeline, NEW wrreq \in BOOLEAN, WrDomain(wrreq),
           NEW p, P!WrDomain(wrreq, p), read' \in {read, read + 1}
    PROVE  Pipeline'
<1>0. /\ written \in Nat /\ read \in Nat /\ written_r \in Nat /\ written_rr \in Nat
      /\ wrbin = written % Modulus /\ written_r <= written_rr /\ written_rr <= written
      /\ written <= written_rr + 1 /\ written_rr <= written_r + 1
      /\ wrfilter \in 0..2 /\ (arst => wrfilter = 0)
      /\ wrarst => written = 0 /\ wrfull
  BY AllNear DEF Near, Coding, Kept, P!TypeOK, P!Inv, P!WritePointersOrdered, P!InReset,
                 P!wrarst, wrarst
<1>1. /\ we_reg' = (wrreq /\ ~wrfull) /\ wraddr_reg' = Slot(wrbin)
      /\ din_reg' = IF wrreq /\ ~wrfull THEN written ELSE Junk
      /\ writing' = we_reg /\ wraddr2_reg' = wraddr_reg /\ din2_reg' = din_reg
      /\ ram' = IF writing THEN [ram EXCEPT ![wraddr2_reg] = din2_reg] ELSE ram
      /\ wrfilter' = Filter(wrfilter)
  BY DEF WrDomain, Cells
<1>2. /\ ram \in [0..(Depth - 1) -> Int] /\ din_reg \in Int /\ din2_reg \in Int
      /\ we_reg \in BOOLEAN /\ writing \in BOOLEAN /\ (wrfilter = 1 => ~we_reg)
      /\ \A n \in Nat : read <= n /\ n < written_r => ram[n % Depth] = n
  BY DEF Pipeline
<1>a. /\ we_reg' \in BOOLEAN /\ writing' \in BOOLEAN
      /\ we_reg' <=> wrreq /\ ~wrfull
      /\ writing' <=> we_reg
  BY <1>1, <1>2, Zenon
<1>3. ram' \in [0..(Depth - 1) -> Int] /\ din_reg' \in Int /\ din2_reg' \in Int
  <2>1. ram' \in [0..(Depth - 1) -> Int]
    BY <1>1, <1>2
  <2>2. din_reg' \in Int
    BY <1>0, <1>1 DEF Junk
  <2> QED BY <1>1, <1>2, <2>1, <2>2
<1>4. wraddr_reg' = written % Depth
  BY <1>0, <1>1, SlotOfCount
<1>5. wrfilter' = 1 => ~we_reg'
  <2>1. wrfilter' = 1 => wrarst
    BY <1>0, <1>1 DEF Filter, wrarst
  <2> QED BY <1>0, <1>a, <2>1
<1>6. CASE wrarst
  <2>1. written' = written /\ written_rr' = written_rr /\ written_r' = written_r
    BY <1>6 DEF P!WrDomain, P!wrPointers, P!wrarst, wrarst
  <2>2. written = 0 /\ written_rr = 0 /\ written_r = 0 /\ ~we_reg'
    <3>1. written = 0 /\ wrfull
      BY <1>0, <1>6
    <3>2. ~we_reg'
      BY <1>a, <3>1
    <3> QED BY <1>0, <3>1, <3>2
  <2>3. ~wrarst' => wrfilter = 1 /\ ~writing'
    <3>1. ~wrarst' => wrfilter = 1
      BY <1>0, <1>1, <1>6 DEF Filter, wrarst
    <3> QED BY <1>2, <1>a, <3>1
  <2>4. \A n \in Nat : read' <= n /\ n < written_r' => ram'[n % Depth] = n
    BY <2>1, <2>2
  <2> QED BY <1>a, <1>3, <1>5, <2>1, <2>2, <2>3, <2>4 DEF Pipeline
<1>7. CASE ~wrarst
  <2>1. /\ written' = IF wrreq /\ ~wrfull THEN written + 1 ELSE written
        /\ written_rr' = written /\ written_r' = written_rr
    BY <1>7 DEF P!WrDomain, P!wrarst, wrarst, P!wrbin_next
  <2>2. /\ we_reg <=> written = written_rr + 1
        /\ we_reg => din_reg = written - 1 /\ wraddr_reg = (written - 1) % Depth
        /\ writing <=> written_rr = written_r + 1
        /\ writing => din2_reg = written_r /\ wraddr2_reg = written_r % Depth
    BY <1>7 DEF Pipeline
  <2>3. (we_reg' <=> written' = written_rr' + 1) /\ (writing' <=> written_rr' = written_r' + 1)
    <3>1. written' = written_rr' + 1 <=> wrreq /\ ~wrfull
      BY <1>0, <2>1
    <3>2. written_rr' = written_r' + 1 <=> written = written_rr + 1
      BY <2>1
    <3> QED BY <1>a, <2>2, <3>1, <3>2
  <2>4. we_reg' => din_reg' = written' - 1 /\ wraddr_reg' = (written' - 1) % Depth
    <3>1. (written + 1) - 1 = written
      BY <1>0
    <3> QED BY <1>1, <1>a, <1>4, <2>1, <3>1
  <2>5. writing' => din2_reg' = written_r' /\ wraddr2_reg' = written_r' % Depth
    <3>1. (written_rr + 1) - 1 = written_rr
      BY <1>0
    <3> QED BY <1>1, <2>1, <2>2, <3>1
  <2>6. ASSUME NEW n \in Nat, read' <= n, n < written_r' PROVE ram'[n % Depth] = n
    <3>1. read <= n /\ n < written_rr
      BY <1>0, <2>1, <2>6
    <3>2. n % Depth \in 0..(Depth - 1)
      BY SlotOfCount
    <3>3. CASE n < written_r
      <4>1. ram[n % Depth] = n
        BY <1>2, <3>1, <3>3
      <4>2. writing => wraddr2_reg # n % Depth
        BY <1>0, <2>2, <3>1, <3>3, OwnSlot
      <4> QED BY <1>1, <1>2, <3>2, <4>1, <4>2
    <3>4. CASE ~(n < written_r)
      <4>1. n = written_r /\ written_rr = written_r + 1
        BY <1>0, <3>1, <3>4
      <4> QED BY <1>1, <1>2, <2>2, <3>2, <4>1
    <3> QED BY <3>3, <3>4
  <2> QED BY <1>a, <1>3, <1>5, <2>3, <2>4, <2>5, <2>6 DEF Pipeline
<1> QED BY <1>6, <1>7

(* Taking words from the FIFO and resetting it keep the rest. *)
LEMMA PipelineRd ==
    ASSUME Coding, Kept, Pipeline, UNCHANGED <<wrVars, syn0>>, read' \in {read, read + 1}
    PROVE  Pipeline'
<1>1. /\ written' = written /\ wrgray_rr' = wrgray_rr /\ wrgray_r' = wrgray_r
      /\ wrfilter' = wrfilter /\ we_reg' = we_reg /\ wraddr_reg' = wraddr_reg
      /\ din_reg' = din_reg /\ writing' = writing /\ wraddr2_reg' = wraddr2_reg
      /\ din2_reg' = din2_reg /\ ram' = ram
  BY DEF wrVars, wrPointers, wrCells
<1>2. written_rr' = written_rr /\ written_r' = written_r
  BY <1>1, Views, ViewsNext
<1>3. read \in Nat /\ written_r \in Nat
  BY AllNear DEF Near
<1>4. \A n \in Nat : read' <= n /\ n < written_r' => read <= n /\ n < written_r
  BY <1>2, <1>3
<1> QED BY <1>1, <1>2, <1>4 DEF Pipeline, wrarst

(* A reset leaves nothing to be written. *)
LEMMA PipelineReset ==
    ASSUME Pipeline, AssertReset
    PROVE  Pipeline'
<1>1. written_r' = 0 /\ read' = 0 /\ wrfilter' = 0
  BY ResetStep DEF P!AssertReset
<1>2. /\ din_reg' \in Int /\ din2_reg' \in Int /\ ram' \in [0..(Depth - 1) -> Int]
      /\ we_reg' \in BOOLEAN /\ writing' \in BOOLEAN
  BY DEF AssertReset, Pipeline, Junk
<1> QED BY <1>1, <1>2 DEF Pipeline, wrarst

(* The words from r up to w - 1, oldest first. *)
Words(r, w) == [i \in 1..(w - r) |-> r + i - 1]

(* Length and elements of such a queue. *)
LEMMA WordsAre ==
    ASSUME NEW r \in Nat, NEW n \in Nat, NEW D, D = Int
    PROVE  /\ Words(r, r + n) \in Seq(D) /\ Len(Words(r, r + n)) = n
           /\ \A i \in 1..n : Words(r, r + n)[i] = r + i - 1
<1>1. (r + n) - r = n
  OBVIOUS
<1>2. Words(r, r + n) = [i \in 1..n |-> r + i - 1]
  BY <1>1 DEF Words
<1> QED BY <1>2

(* Appending the next word. *)
LEMMA WordsGrow ==
    ASSUME NEW r \in Nat, NEW n \in Nat
    PROVE  Words(r, r + n + 1) = Append(Words(r, r + n), r + n)
<1>1. PICK D, m, w : D = Int /\ m \in Nat /\ w \in D /\ m = n + 1 /\ w = r + n
  OBVIOUS
<1> DEFINE s == Words(r, r + n)
           t == Words(r, r + m)
<1>2. s \in Seq(D) /\ Len(s) = n /\ \A i \in 1..n : s[i] = r + i - 1
  BY <1>1, WordsAre
<1>3. t \in Seq(D) /\ Len(t) = m /\ \A i \in 1..m : t[i] = r + i - 1
  BY <1>1, WordsAre
<1>4. r + m = r + n + 1
  BY <1>1
<1> HIDE DEF s, t
<1>5. /\ Append(s, w) \in Seq(D) /\ Len(Append(s, w)) = n + 1
      /\ \A i \in 1..n : Append(s, w)[i] = s[i]
      /\ Append(s, w)[n + 1] = w
  BY <1>1, <1>2, AppendProperties
<1>6. \A i \in 1..m : t[i] = Append(s, w)[i]
  BY <1>1, <1>2, <1>3, <1>5
<1>7. t = Append(s, w)
  BY <1>1, <1>3, <1>5, <1>6, SeqEqual
<1> QED BY <1>1, <1>4, <1>7 DEF s, t

(* Taking the oldest word. *)
LEMMA WordsShrink ==
    ASSUME NEW r \in Nat, NEW n \in Nat
    PROVE  /\ Words(r, r + n + 1) # <<>> /\ Head(Words(r, r + n + 1)) = r
           /\ Tail(Words(r, r + n + 1)) = Words(r + 1, r + n + 1)
<1>1. PICK D, m, q : D = Int /\ m \in Nat /\ q \in Nat /\ m = n + 1 /\ q = r + 1
  OBVIOUS
<1> DEFINE s == Words(r, r + m)
           t == Words(q, q + n)
<1>2. s \in Seq(D) /\ Len(s) = m /\ \A i \in 1..m : s[i] = r + i - 1
  BY <1>1, WordsAre
<1>3. t \in Seq(D) /\ Len(t) = n /\ \A i \in 1..n : t[i] = q + i - 1
  BY <1>1, WordsAre
<1>4. r + m = r + n + 1 /\ q + n = r + n + 1
  BY <1>1
<1> HIDE DEF s, t
<1>5. s # <<>>
  BY <1>1, <1>2
<1>6. Head(s) = r
  <2>1. Head(s) = s[1] /\ 1 \in 1..m
    BY <1>1, <1>2, <1>5
  <2> QED BY <1>2, <2>1
<1>7. Tail(s) \in Seq(D) /\ Len(Tail(s)) = n /\ \A i \in 1..n : Tail(s)[i] = s[i + 1]
  BY <1>1, <1>2, <1>5, HeadTailProperties
<1>8. \A i \in 1..n : Tail(s)[i] = t[i]
  <2> SUFFICES ASSUME NEW i \in 1..n PROVE Tail(s)[i] = t[i]
    OBVIOUS
  <2>1. PICK j \in 1..m : j = i + 1
    BY <1>1
  <2>2. s[j] = r + j - 1 /\ t[i] = q + i - 1 /\ Tail(s)[i] = s[j]
    BY <1>2, <1>3, <1>7, <2>1
  <2>3. r + j - 1 = q + i - 1
    BY <1>1, <2>1
  <2> QED BY <2>2, <2>3
<1>9. Tail(s) = t
  BY <1>3, <1>7, <1>8, SeqEqual
<1> QED BY <1>1, <1>4, <1>5, <1>6, <1>9 DEF s, t

(* The queue of the words that wait, as it is pushed and popped. *)
LEMMA WordsFacts ==
    ASSUME NEW r \in Nat, NEW w \in Nat, r <= w
    PROVE  /\ Len(Words(r, w)) = w - r
           /\ Words(r, w + 1) = Append(Words(r, w), w)
           /\ r < w => /\ Words(r, w) # <<>> /\ Head(Words(r, w)) = r
                       /\ Tail(Words(r, w)) = Words(r + 1, w)
                       /\ Words(r + 1, w + 1) = Append(Tail(Words(r, w)), w)
<1>1. PICK n, D : n \in Nat /\ n = w - r /\ w = r + n /\ D = Int
  <2>1. w - r \in Nat /\ w = r + (w - r)
    OBVIOUS
  <2> QED BY <2>1
<1>2. Len(Words(r, w)) = w - r
  BY <1>1, WordsAre
<1>3. Words(r, w + 1) = Append(Words(r, w), w)
  <2>1. Words(r, r + n + 1) = Append(Words(r, r + n), r + n)
    BY <1>1, WordsGrow
  <2>2. w + 1 = r + n + 1
    BY <1>1
  <2> QED BY <1>1, <2>1, <2>2
<1>4. ASSUME r < w
      PROVE  /\ Words(r, w) # <<>> /\ Head(Words(r, w)) = r
             /\ Tail(Words(r, w)) = Words(r + 1, w)
             /\ Words(r + 1, w + 1) = Append(Tail(Words(r, w)), w)
  <2>1. PICK k \in Nat, q \in Nat : n = k + 1 /\ q = r + 1 /\ w = r + k + 1 /\ w = q + k
    <3>1. n - 1 \in Nat /\ n = (n - 1) + 1 /\ r + 1 \in Nat
          /\ w = r + (n - 1) + 1 /\ w = (r + 1) + (n - 1)
      BY <1>1, <1>4
    <3> QED BY <3>1
  <2>2. /\ Words(r, r + k + 1) # <<>> /\ Head(Words(r, r + k + 1)) = r
        /\ Tail(Words(r, r + k + 1)) = Words(r + 1, r + k + 1)
    BY WordsShrink
  <2>3. Words(q, q + k + 1) = Append(Words(q, q + k), q + k)
    BY WordsGrow
  <2>4. q + k + 1 = w + 1
    BY <2>1
  <2> QED BY <2>1, <2>2, <2>3, <2>4
<1> QED BY <1>2, <1>3, <1>4

(* No word waits when none has been written. *)
LEMMA NoWords == Words(0, 0) = <<>>
BY DEF Words

(* A write edge accepts the word offered, when there is room, or nothing. *)
LEMMA Accepts ==
    ASSUME Kept, NEW wrreq \in BOOLEAN, WrDomain(wrreq)
    PROVE  \/ written' = written
           \/ /\ written' = written + 1 /\ written \in Data
              /\ written - read < Depth
<1>1. /\ written \in Nat /\ read \in Nat /\ read_bin \in Nat /\ Depth \in Nat
  BY AllNear, Widths DEF Near
<1>2. ~wrfull => written < read_bin + Depth
  BY DEF Kept, P!Inv, P!FlagsLate
<1>3. read_bin <= read
  <2>1. SYNC_STAGES \in Stage
    BY StagesAssumption DEF Stage
  <2>2. read_bin <= read_syn[SYNC_STAGES] /\ read_syn[SYNC_STAGES] <= read
    BY <2>1 DEF Kept, P!Inv, P!ReadPointersOrdered, P!sync_rdptr, P!Stage, Stage
  <2>3. read_syn[SYNC_STAGES] \in Nat
    BY <2>1 DEF Kept, P!TypeOK, P!Stage, Stage
  <2> QED BY <1>1, <2>2, <2>3
<1>4. written' = written \/ (wrreq /\ ~wrfull /\ written' = written + 1)
  BY DEF WrDomain
<1>5. wrreq => written < MaxWords
  BY DEF WrDomain
<1> QED BY <1>1, <1>2, <1>3, <1>4, <1>5, BoundAssumption DEF Data

(* A read edge delivers the oldest word, or nothing. *)
LEMMA Delivers ==
    ASSUME Coding, Kept, Pipeline, NEW rdreq \in BOOLEAN, RdDomain(rdreq)
    PROVE  \/ read' = read /\ delivered' = delivered
           \/ read' = read + 1 /\ read < written /\ delivered' = read
<1>1. CASE rdarst \/ ~rdreq \/ rdempty
  BY <1>1 DEF RdDomain
<1>2. CASE ~rdarst /\ rdreq /\ ~rdempty
  <2>1. read' = read + 1 /\ delivered' = RamWord
    BY <1>2 DEF RdDomain
  <2>2. /\ written \in Nat /\ read \in Nat /\ written_r \in Nat /\ written_rr \in Nat
        /\ written_bin \in Nat /\ rdbin = read % Modulus
        /\ written_r <= written_rr /\ written_rr <= written
    BY AllNear DEF Near, Coding, Kept, P!Inv, P!WritePointersOrdered
  <2>3. read < written_r
    <3>1. SYNC_STAGES \in Stage
      BY StagesAssumption DEF Stage
    <3>2. written_bin <= written_syn[SYNC_STAGES] /\ written_syn[SYNC_STAGES] <= written_r
      BY <3>1 DEF Kept, P!Inv, P!WritePointersOrdered, P!sync_wrptr, P!Stage, Stage
    <3>3. written_syn[SYNC_STAGES] \in Nat
      BY <3>1 DEF Kept, P!TypeOK, P!Stage, Stage
    <3>4. read < written_bin
      BY <1>2 DEF Kept, P!Inv, P!FlagsLate, P!rdarst, rdarst
    <3> QED BY <2>2, <3>2, <3>3, <3>4
  <2>4. ~wrarst
    <3>1. wrarst => written = 0
      BY DEF Kept, P!Inv, P!InReset, P!wrarst, wrarst
    <3> QED BY <2>2, <2>3, <3>1
  <2>5. Slot(rdbin) = read % Depth
    BY <2>2, SlotOfCount
  <2>6. ~(writing /\ wraddr2_reg = Slot(rdbin))
    <3>1. writing => written_rr = written_r + 1 /\ wraddr2_reg = written_r % Depth
      BY <2>4 DEF Pipeline
    <3>2. written_r < written_rr => read % Depth # written_r % Depth
      BY <2>2, <2>3, OwnSlot
    <3> QED BY <2>2, <2>5, <3>1, <3>2
  <2>7. ram[read % Depth] = read
    BY <2>2, <2>3 DEF Pipeline
  <2>8. RamWord = read
    BY <2>5, <2>6, <2>7 DEF RamWord
  <2> QED BY <2>1, <2>2, <2>3, <2>8
<1> QED BY <1>1, <1>2

(* The queue is empty at first. *)
LEMMA QueueInit == Init => Queue!Init
BY NoWords DEF Init, Queue!Init, Words

(* Every step is one of the queue. *)
LEMMA QueueStep ==
    ASSUME Coding, Kept, Pipeline, [Next]_vars
    PROVE  Pipeline' /\ [Queue!Next]_(Queue!vars)
<1> DEFINE queue == [i \in 1..(written - read) |-> read + i - 1]
<1>0. /\ written \in Nat /\ read \in Nat /\ read <= written /\ Depth \in Nat
      /\ queue = Words(read, written) /\ queue' = Words(read', written')
  BY AllNear, Widths DEF Near, Words
<1> HIDE DEF queue
<1>1. ASSUME \/ written' = written
             \/ written' = written + 1 /\ written \in Data /\ written - read < Depth,
             \/ read' = read /\ delivered' = delivered
             \/ read' = read + 1 /\ read < written /\ delivered' = read
      PROVE  [Queue!Next]_(Queue!vars)
  <2>1. /\ Len(queue) = written - read
        /\ Words(read, written + 1) = Append(queue, written)
        /\ read < written => /\ queue # <<>> /\ Head(queue) = read
                             /\ Tail(queue) = Words(read + 1, written)
                             /\ Words(read + 1, written + 1) = Append(Tail(queue), written)
    BY <1>0, WordsFacts
  <2>2. written' = written + 1 => written' - 1 = written
    BY <1>0
  <2>3. CASE written' = written /\ read' = read /\ delivered' = delivered
    <3>1. queue' = queue /\ delivered' = delivered
      BY <1>0, <2>3
    <3> QED BY <3>1 DEF queue, Queue!vars
  <2>4. CASE written' = written + 1 /\ written \in Data /\ written - read < Depth
             /\ read' = read /\ delivered' = delivered
    <3>1. /\ Len(queue) < Depth /\ written' - 1 \in Data /\ queue' = Append(queue, written' - 1)
          /\ delivered' = delivered
      BY <1>0, <2>1, <2>2, <2>4
    <3> QED BY <3>1 DEF queue, Queue!Push, Queue!Next
  <2>5. CASE written' = written /\ read' = read + 1 /\ read < written /\ delivered' = read
    <3>1. queue # <<>> /\ delivered' = Head(queue) /\ queue' = Tail(queue)
      BY <1>0, <2>1, <2>5
    <3> QED BY <3>1 DEF queue, Queue!Pop, Queue!Next
  <2>6. CASE /\ written' = written + 1 /\ written \in Data /\ written - read < Depth
             /\ read' = read + 1 /\ read < written /\ delivered' = read
    <3>1. /\ queue # <<>> /\ Len(queue) < Depth /\ written' - 1 \in Data
          /\ delivered' = Head(queue) /\ queue' = Append(Tail(queue), written' - 1)
      BY <1>0, <2>1, <2>2, <2>6
    <3> QED BY <3>1 DEF queue, Queue!PushPop, Queue!Next
  <2> QED BY <1>1, <2>3, <2>4, <2>5, <2>6
<1>2. CASE WrEdge
  <2>1. PICK wrreq \in BOOLEAN : WrDomain(wrreq)
    BY <1>2 DEF WrEdge
  <2>2. SampleRead(G(read)) /\ read' = read /\ delivered' = delivered
    BY <1>2 DEF WrEdge, rdVars, Coding
  <2>3. P!WrDomain(wrreq, read)
    BY <1>0, <2>1, <2>2, AllNear, WrStep
  <2>4. Pipeline'
    BY <2>1, <2>2, <2>3, PipelineWr
  <2> QED BY <1>1, <2>1, <2>2, <2>4, Accepts
<1>3. CASE RdEdge
  <2>1. PICK rdreq \in BOOLEAN : RdDomain(rdreq)
    BY <1>3 DEF RdEdge, ReadRequest
  <2>2. UNCHANGED <<wrVars, syn0>> /\ written' = written
    BY <1>3 DEF RdEdge, wrVars
  <2>3. \/ read' = read /\ delivered' = delivered
        \/ read' = read + 1 /\ read < written /\ delivered' = read
    BY <2>1, Delivers
  <2>4. Pipeline'
    BY <2>2, <2>3, PipelineRd
  <2> QED BY <1>1, <2>2, <2>3, <2>4
<1>4. CASE BothEdges
  <2>1. PICK wrreq \in BOOLEAN, rdreq \in BOOLEAN : WrDomain(wrreq) /\ RdDomain(rdreq)
    BY <1>4 DEF BothEdges, ReadRequest
  <2>2. PICK g : g \in Sampled(rdgray, rdgray') /\ SampleRead(g)
    BY <1>4 DEF BothEdges
  <2>3. rdgray = G(read) /\ rdgray' = G(read') /\ Near(read') /\ read' \in {read, read + 1}
    BY <2>1, RdPointer DEF Coding
  <2>4. PICK p \in {read, read'} : g = G(p)
    BY <1>0, <2>2, <2>3, SampledCount
  <2>5. p \in Nat /\ Near(p)
    BY <1>0, <2>3, AllNear DEF Near
  <2>6. P!WrDomain(wrreq, p)
    BY <2>1, <2>2, <2>4, <2>5, WrStep
  <2>7. Pipeline'
    BY <2>1, <2>3, <2>6, PipelineWr
  <2>8. \/ read' = read /\ delivered' = delivered
        \/ read' = read + 1 /\ read < written /\ delivered' = read
    BY <2>1, Delivers
  <2> QED BY <1>1, <2>1, <2>7, <2>8, Accepts
<1>5. CASE AssertReset
  <2>1. written' = 0 /\ read' = 0 /\ arst' = TRUE
    BY <1>5 DEF AssertReset
  <2>2. queue' = <<>>
    BY <1>0, <2>1, NoWords
  <2>3. Queue!Discard
    BY <2>1, <2>2 DEF queue, Queue!Discard
  <2> QED BY <1>5, <2>3, PipelineReset DEF Queue!Next
<1>6. CASE ReleaseReset \/ UNCHANGED vars
  <2>1. UNCHANGED <<wrVars, syn0, rdVars>>
    BY <1>6 DEF ReleaseReset, vars
  <2>2. written' = written /\ read' = read /\ delivered' = delivered
    BY <2>1 DEF wrVars, rdVars
  <2>3. Pipeline'
    BY <2>1, <2>2, PipelineRd
  <2> QED BY <1>1, <2>2, <2>3
<1> QED BY <1>2, <1>3, <1>4, <1>5, <1>6 DEF Next

(* The FIFO is a queue of Depth words, for every width and number of       *)
(* stages: no word is lost, repeated, reordered, overwritten before it is  *)
(* read, or read before the RAM has it, and only a reset discards any.     *)
THEOREM QueueCorrect == ASSUME ~RequestInReset PROVE Spec => RefinesQueue
<1>1. Coding /\ Kept /\ Pipeline /\ [Next]_vars => Pipeline' /\ [Queue!Next]_(Queue!vars)
  BY QueueStep
<1>2. Steps => Queue!Spec
  BY <1>1, QueueInit, PipelineInit, CodingKept, PTL DEF Steps, Queue!Spec
<1> QED BY <1>2, SpecSteps, PTL DEF RefinesQueue
===============================================================================
