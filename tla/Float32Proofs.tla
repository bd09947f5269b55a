--------------------------- MODULE Float32Proofs ---------------------------
(***************************************************************************)
(* What single precision does to a product and a quotient of lengths: as   *)
(* long as the product of two lengths is below 2^23, the truncated result  *)
(* is the exact one, truncated, or one less.  DisplayGeometry assumes it   *)
(* of its float operations (FloatAssumption).                              *)
(***************************************************************************)
EXTENDS Float32, TLAPS

Pos == Nat \ {0}

\* Multiplication by a natural number keeps an order.
LEMMA ProductMono ==
  ASSUME NEW a \in Nat, NEW b \in Nat, NEW c \in Nat, a <= b
  PROVE  a * c \in Nat /\ b * c \in Nat /\ a * c <= b * c
BY Z3

\* Multiplication by a positive number keeps a strict order.
LEMMA ProductStrict ==
  ASSUME NEW a \in Nat, NEW b \in Nat, NEW c \in Pos, a < b
  PROVE  a * c < b * c
<1>1. (a + 1) * c <= b * c
  BY ProductMono, a + 1 \in Nat DEF Pos
<1>2. (a + 1) * c = a * c + c /\ a * c \in Nat
  BY Z3 DEF Pos
<1> QED BY <1>1, <1>2 DEF Pos

\* A common positive factor may be cancelled.
LEMMA ProductCancel ==
  ASSUME NEW a \in Nat, NEW b \in Nat, NEW c \in Pos
  PROVE  /\ a * c <= b * c => a <= b
         /\ a * c < b * c => a < b
<1>1. ASSUME b + 1 <= a PROVE b * c + c <= a * c
  <2>1. (b + 1) * c <= a * c
    BY <1>1, ProductMono, b + 1 \in Nat DEF Pos
  <2>2. (b + 1) * c = b * c + c
    BY Z3 DEF Pos
  <2> QED BY <2>1, <2>2
<1>2. ASSUME b <= a PROVE b * c <= a * c
  BY <1>2, ProductMono DEF Pos
<1>3. a * c \in Nat /\ b * c \in Nat
  BY Z3 DEF Pos
<1> QED BY <1>1, <1>2, <1>3 DEF Pos

\* A whole quotient and its remainder.
LEMMA Quotient ==
  ASSUME NEW a \in Nat, NEW d \in Pos
  PROVE  /\ a \div d \in Nat /\ a % d \in Nat
         /\ a = (a \div d) * d + (a % d) /\ a % d < d
BY Z3 DEF Pos

\* A fraction lies between its whole part and the next number; a multiple is exact.
LEMMA Whole ==
  ASSUME NEW a \in Nat, NEW d \in Pos
  PROVE  /\ a \div d \in Nat
         /\ (a \div d) * d <= a
         /\ a < (a \div d + 1) * d
         /\ \A k \in Nat : a = k * d => a \div d = k /\ a % d = 0
<1> DEFINE q == a \div d
<1>1. q \in Nat /\ a % d \in Nat /\ a = q * d + (a % d) /\ a % d < d
  BY Quotient
<1> HIDE DEF q
<1>2. q * d \in Nat /\ (q + 1) * d = q * d + d
  BY <1>1, Z3 DEF Pos
<1>3. ASSUME NEW k \in Nat, a = k * d PROVE q = k /\ a % d = 0
  <2>1. q * d <= k * d /\ k * d < (q + 1) * d
    BY <1>1, <1>2, <1>3 DEF Pos
  <2>2. q <= k /\ k < q + 1
    BY <1>1, <2>1, ProductCancel, q + 1 \in Nat
  <2>3. q = k
    BY <1>1, <2>2
  <2>4. q * d = q * d + (a % d)
    BY <1>1, <1>3, <2>3
  <2> QED BY <1>1, <1>2, <2>3, <2>4
<1> QED BY <1>1, <1>2, <1>3 DEF q, Pos

\* A long division goes on digit by digit.
LEMMA DigitsDivide ==
  ASSUME NEW x \in Nat, NEW d \in Pos, NEW k \in Pos,
         NEW l \in [q : Nat, r : Nat], x = l.q * d + l.r, l.r < d
  PROVE  /\ Digits(l, k, d) \in [q : Nat, r : Nat]
         /\ k * x = Digits(l, k, d).q * d + Digits(l, k, d).r
         /\ Digits(l, k, d).r < d
<1> DEFINE c == (k * l.r) \div d
           e == ((k * l.r) % d)
<1>1. l.q \in Nat /\ l.r \in Nat /\ d \in Nat /\ k \in Nat
  BY DEF Pos
<1>2. k * l.r \in Nat /\ k * l.q \in Nat
  BY <1>1, Z3
<1>3. c \in Nat /\ e \in Nat /\ k * l.r = c * d + e /\ e < d
  BY <1>2, Quotient
<1> HIDE DEF c, e
<1>4. k * x = (k * l.q + c) * d + e
  <2>1. k * (l.q * d + l.r) = (k * l.q) * d + k * l.r
    BY <1>1, Z3
  <2>2. (k * l.q + c) * d = (k * l.q) * d + c * d
    BY <1>1, <1>2, <1>3, Z3
  <2>3. (k * l.q) * d \in Nat /\ c * d \in Nat
    BY <1>1, <1>2, <1>3, Z3
  <2> QED BY <1>2, <1>3, <2>1, <2>2, <2>3
<1>5. k * l.q + c \in Nat
  BY <1>2, <1>3
<1> QED BY <1>3, <1>4, <1>5 DEF Digits, c, e

\* Rounding moves a quotient by no more than half of its unit.
LEMMA ToEvenClose ==
  ASSUME NEW q \in Nat, NEW r \in Nat, NEW d \in Pos, r < d
  PROVE  /\ ToEven(q, r, d) \in q..(q + 1)
         /\ 2 * (ToEven(q, r, d) * d) <= 2 * (q * d + r) + d
         /\ 2 * (q * d + r) <= 2 * (ToEven(q, r, d) * d) + d
         /\ r = 0 => ToEven(q, r, d) = q
<1>1. q * d \in Nat /\ (q + 1) * d = q * d + d /\ d \in Nat /\ d > 0
  BY Z3 DEF Pos
<1>2. CASE 2 * r > d \/ (2 * r = d /\ q % 2 = 1)
  <2>1. ToEven(q, r, d) = q + 1 /\ 2 * r >= d
    BY <1>1, <1>2 DEF ToEven
  <2> QED BY <1>1, <2>1
<1>3. CASE ~(2 * r > d \/ (2 * r = d /\ q % 2 = 1))
  <2>1. ToEven(q, r, d) = q /\ 2 * r <= d
    BY <1>1, <1>3 DEF ToEven
  <2> QED BY <1>1, <2>1
<1> QED BY <1>2, <1>3

\* A power of two brings one number to between another and its double: the
\* powers are tried one after the other.
LEMMA ScaledUp ==
  ASSUME NEW a \in Pos, NEW b \in Pos, a <= 2 * Low, b <= 2 * Low
  PROVE  \E k \in Powers : b <= a * k /\ (k = 1 \/ a * k < 2 * b)
<1> DEFINE Fits(k) == b <= a * k /\ (k = 1 \/ a * k < 2 * b)
<1>1. SUFFICES ASSUME \A k \in Powers : ~Fits(k) PROVE FALSE
  OBVIOUS
<1> HIDE DEF Fits
<1>2. ~Fits(1) /\ ~Fits(2) /\ ~Fits(4) /\ ~Fits(8) /\ ~Fits(16) /\ ~Fits(32) /\
      ~Fits(64) /\ ~Fits(128) /\ ~Fits(256) /\ ~Fits(512) /\ ~Fits(1024) /\ ~Fits(2048) /\
      ~Fits(4096) /\ ~Fits(8192) /\ ~Fits(16384) /\ ~Fits(32768) /\ ~Fits(65536) /\
      ~Fits(131072) /\ ~Fits(262144) /\ ~Fits(524288) /\ ~Fits(1048576) /\
      ~Fits(2097152) /\ ~Fits(4194304) /\ ~Fits(8388608) /\ ~Fits(16777216)
  BY <1>1 DEF Powers
<1> QED BY <1>2, SMTT(30) DEF Fits, Low, Pos

LEMMA ScaledDown ==
  ASSUME NEW b \in Pos, NEW x \in Nat, b <= x, x < 2 * (b * (2 * Low))
  PROVE  \E k \in Powers : b * k <= x /\ x < 2 * (b * k)
<1> DEFINE Fits(k) == b * k <= x /\ x < 2 * (b * k)
<1>1. SUFFICES ASSUME \A k \in Powers : ~Fits(k) PROVE FALSE
  OBVIOUS
<1> HIDE DEF Fits
<1>2. ~Fits(1) /\ ~Fits(2) /\ ~Fits(4) /\ ~Fits(8) /\ ~Fits(16) /\ ~Fits(32) /\
      ~Fits(64) /\ ~Fits(128) /\ ~Fits(256) /\ ~Fits(512) /\ ~Fits(1024) /\ ~Fits(2048) /\
      ~Fits(4096) /\ ~Fits(8192) /\ ~Fits(16384) /\ ~Fits(32768) /\ ~Fits(65536) /\
      ~Fits(131072) /\ ~Fits(262144) /\ ~Fits(524288) /\ ~Fits(1048576) /\
      ~Fits(2097152) /\ ~Fits(4194304) /\ ~Fits(8388608) /\ ~Fits(16777216)
  BY <1>1 DEF Powers
<1> QED BY <1>2, SMTT(30) DEF Fits, Low, Pos

\* What a rounded number may be off the exact one: half a unit in 2^23, twice over.
Near(rounded, exact) ==
  /\ 2 * Low * rounded <= (2 * Low + 1) * exact
  /\ (2 * Low - 1) * exact <= 2 * Low * rounded

\* A quotient of two floats is rounded to 24 bits, and is exact if they are equal.
LEMMA DividedRounds ==
  ASSUME NEW a \in Pos, NEW b \in Pos, a <= 2 * Low, b <= 2 * Low
  PROVE  LET f == Divided(a, b)
         IN /\ f.m \in Pos /\ f.down \in Pos /\ f.up \in Pos
            /\ Low <= f.m /\ f.m <= 2 * Low
            /\ Near(f.m * (b * f.down), Low * (a * f.up))
            /\ a = b => f.m = Low /\ f.down = 1 /\ f.up = 1
<1> DEFINE up   == CHOOSE k \in Powers : b <= a * k /\ (k = 1 \/ a * k < 2 * b)
           x    == a * up
           down == CHOOSE k \in Powers : b * k <= a * up /\ a * up < 2 * (b * k)
           d    == b * down
           l0   == [q |-> 1, r |-> x - d]
           l1   == Digits(l0, 64, d)
           l2   == Digits(l1, 64, d)
           l3   == Digits(l2, 64, d)
           l4   == Digits(l3, 32, d)
           m    == ToEven(l4.q, l4.r, d)
<1> HIDE DEF up, x, down, d, l0, l1, l2, l3, l4, m
<1>0. (\A k \in Powers : k \in Pos) /\ 32 \in Pos /\ 64 \in Pos
  BY DEF Powers, Pos
<1>1. up \in Powers /\ b <= a * up /\ (up = 1 \/ a * up < 2 * b)
  BY ScaledUp DEF up
<1>2. up \in Pos /\ x \in Nat
  BY <1>0, <1>1, Z3 DEF Pos, x
<1>3. down \in Powers /\ b * down <= x /\ x < 2 * (b * down)
  <2>1. x < 2 * (b * (2 * Low))
    <3>1. CASE up = 1
      BY <3>1 DEF Pos, x, Low
    <3>2. CASE x < 2 * b
      BY <1>2, <3>2 DEF Pos, Low
    <3> QED BY <1>1, <3>1, <3>2 DEF x
  <2>2. \E k \in Powers : b * k <= x /\ x < 2 * (b * k)
    BY <1>1, <1>2, <2>1, ScaledDown DEF x
  <2> QED BY <2>2 DEF x, down
<1>4. down \in Pos /\ d \in Pos
  BY <1>0, <1>3, Z3 DEF Pos, d
<1>5. d <= x /\ x < 2 * d
  BY <1>3 DEF d
<1>6. /\ l0 \in [q : Nat, r : Nat]
      /\ x = l0.q * d + l0.r /\ l0.r < d
  BY <1>2, <1>4, <1>5 DEF Pos, l0
<1>7. /\ l1 \in [q : Nat, r : Nat]
      /\ 64 * x = l1.q * d + l1.r /\ l1.r < d
  BY <1>0, <1>2, <1>4, <1>6, DigitsDivide DEF l1
<1>8. /\ l2 \in [q : Nat, r : Nat]
      /\ 64 * (64 * x) = l2.q * d + l2.r /\ l2.r < d
  BY <1>0, <1>2, <1>4, <1>7, 64 * x \in Nat, DigitsDivide DEF l2
<1>9. /\ l3 \in [q : Nat, r : Nat]
      /\ 64 * (64 * (64 * x)) = l3.q * d + l3.r /\ l3.r < d
  BY <1>0, <1>2, <1>4, <1>8, 64 * (64 * x) \in Nat, DigitsDivide DEF l3
<1>10. /\ l4 \in [q : Nat, r : Nat]
       /\ Low * x = l4.q * d + l4.r /\ l4.r < d
  <2>1. 32 * (64 * (64 * (64 * x))) = l4.q * d + l4.r /\ l4.r < d /\ l4 \in [q : Nat, r : Nat]
    BY <1>0, <1>2, <1>4, <1>9, 64 * (64 * (64 * x)) \in Nat, DigitsDivide DEF l4
  <2>2. 32 * (64 * (64 * (64 * x))) = Low * x
    BY <1>2 DEF Low
  <2> QED BY <2>1, <2>2
<1>11. Low <= l4.q /\ l4.q < 2 * Low
  <2>1. Low * d <= Low * x /\ Low * x < (2 * Low) * d
    BY <1>2, <1>4, <1>5 DEF Low, Pos
  <2>2. l4.q * d + d = (l4.q + 1) * d /\ l4.q * d \in Nat
    BY <1>4, <1>10, Z3 DEF Pos
  <2>3. Low * d < (l4.q + 1) * d /\ l4.q * d < (2 * Low) * d
    BY <1>2, <1>4, <1>10, <2>1, <2>2 DEF Low, Pos
  <2>4. Low < l4.q + 1 /\ l4.q < 2 * Low
    BY <1>4, <1>10, <2>3, ProductCancel, l4.q + 1 \in Nat, 2 * Low \in Nat, Low \in Nat DEF Low
  <2> QED BY <1>10, <2>4 DEF Low
<1>12. /\ m \in l4.q..(l4.q + 1)
       /\ 2 * (m * d) <= 2 * (Low * x) + d
       /\ 2 * (Low * x) <= 2 * (m * d) + d
       /\ l4.r = 0 => m = l4.q
  BY <1>4, <1>10, ToEvenClose DEF m
<1>13. m \in Pos /\ Low <= m /\ m <= 2 * Low
  BY <1>10, <1>11, <1>12 DEF Pos, Low
<1>14. Near(m * d, Low * x)
  <2>1. m * d \in Nat
    BY <1>4, <1>13, Z3 DEF Pos
  <2> QED BY <1>2, <1>4, <1>5, <1>12, <2>1 DEF Near, Low, Pos
<1>15. ASSUME a = b PROVE m = Low /\ down = 1 /\ up = 1
  <2>1. up = 1
    <3>1. CASE a * up < 2 * a
      <4>1. up < 2
        BY <1>2, <3>1, ProductCancel, a * up = up * a, 2 \in Nat DEF Pos
      <4> QED BY <1>2, <4>1 DEF Pos
    <3> QED BY <1>1, <1>15, <3>1
  <2>2. x = a
    BY <2>1 DEF x, Pos
  <2>3. down = 1
    <3>1. down * a <= 1 * a
      BY <1>3, <1>4, <1>15, <2>2, a * down = down * a DEF Pos
    <3>2. down <= 1
      BY <1>4, <3>1, ProductCancel, 1 \in Nat DEF Pos
    <3> QED BY <1>4, <3>2 DEF Pos
  <2>4. d = x
    BY <1>15, <2>2, <2>3 DEF d, Pos
  <2>5. l4.q * x <= Low * x
    <3>1. l4.q * x \in Nat
      BY <1>2, <1>10, Z3
    <3> QED BY <1>2, <1>10, <2>4, <3>1 DEF Low
  <2>6. l4.q = Low
    <3>1. l4.q <= Low
      BY <1>4, <1>10, <2>4, <2>5, ProductCancel, Low \in Nat DEF Low
    <3> QED BY <1>10, <1>11, <3>1 DEF Low
  <2>7. l4.r = 0
    BY <1>2, <1>10, <2>4, <2>6 DEF Low
  <2> QED BY <1>12, <2>1, <2>3, <2>6, <2>7
<1>16. Divided(a, b) = [m |-> m, down |-> down, up |-> up]
  BY DEF Divided, m, l4, l3, l2, l1, l0, d, x, down, up
<1> QED BY <1>2, <1>4, <1>13, <1>14, <1>15, <1>16 DEF x, d

\* All the powers but the last divide 2^23.
LEMMA PowersDivide ==
  ASSUME NEW k \in Powers, k # 2 * Low
  PROVE  Low \div k \in Nat /\ Low = (Low \div k) * k
BY Z3 DEF Powers, Low

\* A whole number is rounded to 24 bits, and kept if it has no more.
LEMMA RoundedNear ==
  ASSUME NEW p \in Nat, Low <= p, p < 2 * (Low * (2 * Low))
  PROVE  /\ Rounded(p) \in Nat /\ Near(Rounded(p), p)
         /\ \A n \in Nat : p = n * Low /\ n < Low => Rounded(p) = p
<1> DEFINE w == CHOOSE k \in Powers : Low * k <= p /\ p < 2 * (Low * k)
           q == p \div w
           r == p % w
           t == ToEven(q, r, w)
<1> HIDE DEF w, q, r, t
<1>1. w \in Powers /\ Low * w <= p /\ p < 2 * (Low * w)
  <2>1. Low \in Pos
    BY DEF Low, Pos
  <2>2. \E k \in Powers : Low * k <= p /\ p < 2 * (Low * k)
    BY <2>1, ScaledDown
  <2> QED BY <2>2 DEF w
<1>2. w \in Pos
  BY <1>1 DEF Powers, Pos
<1>3. q \in Nat /\ r \in Nat /\ p = q * w + r /\ r < w
  BY <1>2, Quotient DEF q, r
<1>4. /\ t \in q..(q + 1)
      /\ 2 * (t * w) <= 2 * p + w
      /\ 2 * p <= 2 * (t * w) + w
      /\ r = 0 => t = q
  BY <1>2, <1>3, ToEvenClose DEF t
<1>5. Rounded(p) = t * w
  BY DEF Rounded, t, q, r, w
<1>6. t * w \in Nat
  BY <1>2, <1>3, <1>4, Z3 DEF Pos
<1>7. Near(t * w, p)
  BY <1>1, <1>2, <1>4, <1>6 DEF Near, Low, Pos
<1>8. ASSUME NEW n \in Nat, p = n * Low, n < Low PROVE t * w = p
  <2>1. w # 2 * Low
    BY <1>1, <1>8 DEF Low
  <2> DEFINE j == Low \div w
  <2>2. j \in Nat /\ Low = j * w
    BY <1>1, <2>1, PowersDivide
  <2> HIDE DEF j
  <2>3. p = (n * j) * w /\ n * j \in Nat
    BY <1>2, <1>8, <2>2, Z3 DEF Pos
  <2>4. r = 0
    BY <1>2, <2>3, Whole DEF r
  <2>5. t = q /\ p = t * w + 0
    BY <1>3, <1>4, <2>4
  <2> QED BY <1>6, <2>5
<1> QED BY <1>5, <1>6, <1>7, <1>8

\* A common factor leaves two numbers as near as they were.
LEMMA NearTimes ==
  ASSUME NEW u \in Nat, NEW v \in Nat, NEW k \in Nat, Near(u, v)
  PROVE  u * k \in Nat /\ v * k \in Nat /\ Near(u * k, v * k)
<1> DEFINE A == 2 * Low * u
           B == (2 * Low + 1) * v
           C == (2 * Low - 1) * v
<1>1. A \in Nat /\ B \in Nat /\ C \in Nat /\ A <= B /\ C <= A
  BY DEF Near, Low
<1>2. A * k <= B * k /\ C * k <= A * k
  <2> HIDE DEF A, B, C
  <2> QED BY <1>1, ProductMono
<1>3. u * k \in Nat /\ v * k \in Nat
  BY Z3
<1>4. /\ A * k = 2 * Low * (u * k)
      /\ B * k = (2 * Low + 1) * (v * k)
      /\ C * k = (2 * Low - 1) * (v * k)
  BY Z3 DEF Low
<1> QED BY <1>2, <1>3, <1>4 DEF Near

\* Two roundings of a product below 2^23 do not carry it to the next whole number;
\* s stands for the rounded product, and everything is in units of c.  The numbers are
\* 2^48 and the squares of 2^24 + 1 and 2^24 - 1.
LEMMA ProductTruncated ==
  ASSUME NEW tb \in Nat, NEW na \in Nat, NEW b \in Pos, NEW c \in Pos,
         NEW s \in Nat, NEW p \in Nat, na < Low,
         tb * c <= s, s < (tb + b) * c, Near(s, p), Near(p, na * c)
  PROVE  na - b <= tb /\ tb <= na
<1> DEFINE T == tb * c
           N == na * c
           S == (tb + b) * c
<1>1. T \in Nat /\ N \in Nat /\ S \in Nat
  BY Z3 DEF Pos
<1>2. /\ 281474976710656 * T <= 281475010265089 * N
      /\ 281474943156225 * N < 281474976710656 * S
  BY <1>1 DEF Near, Low
<1>3. /\ (281474976710656 * tb) * c <= (281475010265089 * na) * c
      /\ (281474943156225 * na) * c < (281474976710656 * (tb + b)) * c
  BY <1>2, Z3 DEF Pos
<1>4. /\ 281474976710656 * tb <= 281475010265089 * na
      /\ 281474943156225 * na < 281474976710656 * (tb + b)
  <2>1. /\ 281474976710656 * tb \in Nat /\ 281475010265089 * na \in Nat
        /\ 281474943156225 * na \in Nat /\ 281474976710656 * (tb + b) \in Nat
    BY DEF Pos
  <2> QED BY <1>3, <2>1, ProductCancel
<1> QED BY <1>4 DEF Low, Pos

\* The same of a quotient: q and q1 are the result and the next number, times what
\* was divided by, and g is what was divided.
LEMMA QuotientTruncated ==
  ASSUME NEW ta \in Nat, NEW nb \in Nat, NEW a \in Pos, NEW c \in Pos,
         NEW q \in Nat, NEW q1 \in Nat, NEW g \in Nat, nb < Low,
         q <= g, g < q1, Near(g, nb * c), Near(q, ta * c), Near(q1, (ta + a) * c)
  PROVE  nb - a <= ta /\ ta <= nb
<1> DEFINE T == ta * c
           N == nb * c
           S == (ta + a) * c
<1>1. T \in Nat /\ N \in Nat /\ S \in Nat
  BY Z3 DEF Pos
<1>2. /\ (2 * Low - 1) * T <= (2 * Low + 1) * N
      /\ (2 * Low - 1) * N < (2 * Low + 1) * S
  BY <1>1 DEF Near, Low
<1>3. /\ ((2 * Low - 1) * ta) * c <= ((2 * Low + 1) * nb) * c
      /\ ((2 * Low - 1) * nb) * c < ((2 * Low + 1) * (ta + a)) * c
  BY <1>2, Z3 DEF Pos, Low
<1>4. /\ (2 * Low - 1) * ta <= (2 * Low + 1) * nb
      /\ (2 * Low - 1) * nb < (2 * Low + 1) * (ta + a)
  <2>1. /\ (2 * Low - 1) * ta \in Nat /\ (2 * Low + 1) * nb \in Nat
        /\ (2 * Low - 1) * nb \in Nat /\ (2 * Low + 1) * (ta + a) \in Nat
    BY DEF Pos, Low
  <2> QED BY <1>3, <2>1, ProductCancel
<1> QED BY <1>4 DEF Low, Pos

\* A product of a length with a ratio of lengths is exact but for the truncation,
\* or one less.
THEOREM FloatTimesTruncates ==
  ASSUME NEW n \in Nat, NEW a \in Nat, NEW b \in Pos,
         n <= Low, a <= 2 * Low, b <= 2 * Low, n * a < Low
  PROVE  LET t == FloatTimes(n, a, b)
         IN t \in Nat /\ n * a - b <= t * b /\ t * b <= n * a
<1>1. CASE n = 0 \/ a = 0
  <2>1. FloatTimes(n, a, b) = 0 /\ n * a = 0 /\ 0 * b = 0
    BY <1>1, Z3 DEF FloatTimes, Pos
  <2> QED BY <2>1 DEF Pos
<1>2. CASE n # 0 /\ a # 0
  <2> DEFINE f == Divided(a, b)
             y == b * f.down
             x == a * f.up
             c == Low * f.up
             p == n * f.m
             s == Rounded(p)
             t == (s * f.down) \div c
  <2>1. a \in Pos /\ n \in Pos
    BY <1>2 DEF Pos
  <2>2. /\ f.m \in Pos /\ f.down \in Pos /\ f.up \in Pos
        /\ Low <= f.m /\ f.m <= 2 * Low
        /\ Near(f.m * y, Low * x)
    BY <2>1, DividedRounds
  <2>3. FloatTimes(n, a, b) = t
    BY <1>2 DEF FloatTimes
  <2> HIDE DEF f, s, t
  <2>4. p \in Nat /\ Low <= p /\ p < 2 * (Low * (2 * Low))
    <3>1. n * Low <= f.m * n
      <4>1. Low * n <= f.m * n
        BY <2>1, <2>2, ProductMono DEF Low, Pos
      <4> QED BY <2>1, <4>1 DEF Low, Pos
    <3>2. f.m * n <= (2 * Low) * n
      BY <2>1, <2>2, ProductMono DEF Low, Pos
    <3>3. f.m * n = n * f.m /\ n * f.m \in Nat
      BY <2>1, <2>2, Z3 DEF Pos
    <3> QED BY <2>1, <3>1, <3>2, <3>3 DEF Low, Pos
  <2>5. s \in Nat /\ Near(s, p)
    BY <2>4, RoundedNear DEF s
  <2>6. c \in Pos /\ s * f.down \in Nat
    BY <2>2, <2>5, Z3 DEF Pos, Low
  <2>7. t \in Nat /\ t * c <= s * f.down /\ s * f.down < (t + 1) * c
    BY <2>6, Whole DEF t
  <2> DEFINE tb == t * b
             na == n * a
             sy == s * y
  <2>8. /\ t \in Nat /\ b \in Nat /\ n \in Nat /\ a \in Nat /\ s \in Nat /\ p \in Nat
        /\ f.m \in Nat /\ f.up \in Nat /\ f.down \in Nat
    BY <2>2, <2>4, <2>5, <2>7 DEF Pos
  <2>9. y \in Nat /\ x \in Nat /\ c \in Nat /\ f.m * y \in Nat /\ Low * x \in Nat
    BY <2>8, Z3 DEF Low
  <2>10. tb \in Nat /\ na \in Nat
    BY <2>8, Z3
  <2>11. tb * c <= sy /\ sy < (tb + b) * c
    <3>1. t * c \in Nat /\ s * f.down \in Nat /\ (t + 1) * c \in Nat
      BY <2>8, <2>9, Z3
    <3>2. (t * c) * b <= (s * f.down) * b /\ (s * f.down) * b < ((t + 1) * c) * b
      <4> HIDE DEF c
      <4>1. (t * c) * b <= (s * f.down) * b
        BY <2>7, <2>8, <3>1, ProductMono
      <4>2. (s * f.down) * b < ((t + 1) * c) * b
        BY <2>7, <3>1, ProductStrict
      <4> QED BY <4>1, <4>2
    <3>3. (t * c) * b = tb * c /\ ((t + 1) * c) * b = (tb + b) * c
      <4> HIDE DEF c
      <4> QED BY <2>8, <2>9, Z3
    <3>4. (s * f.down) * b = sy
      BY <2>8, Z3
    <3> QED BY <3>2, <3>3, <3>4
  <2>12. sy \in Nat /\ p * y \in Nat /\ Near(sy, p * y)
    <3> HIDE DEF p, y
    <3> QED BY <2>5, <2>8, <2>9, NearTimes
  <2>13. Near(p * y, na * c)
    <3>1. Near((f.m * y) * n, (Low * x) * n)
      BY <2>2, <2>8, <2>9, NearTimes
    <3>2. (f.m * y) * n = p * y /\ (Low * x) * n = na * c
      BY <2>8, <2>9, Z3 DEF Low
    <3> QED BY <3>1, <3>2
  <2>14. na - b <= tb /\ tb <= na
    <3> HIDE DEF tb, na, sy, p, y, c
    <3> QED BY <2>6, <2>9, <2>10, <2>11, <2>12, <2>13, ProductTruncated DEF na
  <2> QED BY <2>3, <2>7, <2>14
<1> QED BY <1>1, <1>2

\* So is a quotient of a length and a ratio of lengths.
THEOREM FloatOverTruncates ==
  ASSUME NEW n \in Nat, NEW a \in Pos, NEW b \in Pos,
         n <= 2 * Low, a <= 2 * Low, b <= 2 * Low, n * b < Low
  PROVE  LET t == FloatOver(n, a, b)
         IN t \in Nat /\ n * b - a <= t * a /\ t * a <= n * b
<1>1. CASE n = 0
  <2>1. FloatOver(n, a, b) = 0 /\ n * b = 0 /\ 0 * a = 0
    BY <1>1, Z3 DEF FloatOver, Pos
  <2> QED BY <2>1 DEF Pos
<1>2. CASE n # 0
  <2> DEFINE f == Divided(a, b)
             y == b * f.down
             x == a * f.up
             g == Divided(n, f.m)
             v == f.m * g.down
             z == n * g.up
             d == g.up * f.down
             t == (g.m * g.down * f.up) \div d
  <2>1. n \in Pos
    BY <1>2 DEF Pos
  <2>2. /\ f.m \in Pos /\ f.down \in Pos /\ f.up \in Pos
        /\ Low <= f.m /\ f.m <= 2 * Low
        /\ Near(f.m * y, Low * x)
    BY DividedRounds
  <2>3. FloatOver(n, a, b) = t
    BY <1>2 DEF FloatOver
  <2> HIDE DEF f
  <2>4. /\ g.m \in Pos /\ g.down \in Pos /\ g.up \in Pos
        /\ Near(g.m * v, Low * z)
    <3> DEFINE m == f.m
    <3>1. m \in Pos /\ m <= 2 * Low
      BY <2>2
    <3> HIDE DEF m
    <3>2. LET h == Divided(n, m)
          IN /\ h.m \in Pos /\ h.down \in Pos /\ h.up \in Pos
             /\ Near(h.m * (m * h.down), Low * (n * h.up))
      BY <2>1, <3>1, DividedRounds
    <3> QED BY <3>2 DEF m
  <2> HIDE DEF g, t
  <2>5. d \in Pos /\ g.m * g.down * f.up \in Nat
    BY <2>2, <2>4, Z3 DEF Pos
  <2>6. t \in Nat /\ t * d <= g.m * g.down * f.up /\ g.m * g.down * f.up < (t + 1) * d
    BY <2>5, Whole DEF t
  <2> DEFINE ta == t * a
             nb == n * b
             c == (Low * f.up) * g.up
             e == (t * g.up) * (f.m * y)
             e1 == ((t + 1) * g.up) * (f.m * y)
             s == (g.m * v) * (f.up * b)
  <2>7. /\ t \in Nat /\ a \in Nat /\ b \in Nat /\ n \in Nat
        /\ f.m \in Nat /\ f.up \in Nat /\ f.down \in Nat
        /\ g.m \in Nat /\ g.up \in Nat /\ g.down \in Nat
    BY <2>2, <2>4, <2>6 DEF Pos
  <2>8. /\ y \in Nat /\ x \in Nat /\ v \in Nat /\ z \in Nat
        /\ ta \in Nat /\ nb \in Nat /\ c \in Pos
    BY <2>2, <2>4, <2>7, Z3 DEF Low, Pos
  <2>9. /\ f.m * y \in Nat /\ Low * x \in Nat /\ g.m * v \in Nat /\ Low * z \in Nat
        /\ t * g.up \in Nat /\ (t + 1) * g.up \in Nat /\ f.up * b \in Nat
        /\ b * f.m \in Pos
    <3> HIDE DEF y, v, x, z
    <3> QED BY <2>2, <2>7, <2>8, Z3 DEF Low, Pos
  <2>10. s \in Nat /\ Near(s, nb * c)
    <3>1. s \in Nat /\ Near(s, (Low * z) * (f.up * b))
      <4> HIDE DEF v, z
      <4> QED BY <2>4, <2>9, NearTimes
    <3>2. (Low * z) * (f.up * b) = nb * c
      BY <2>7, Z3 DEF Low
    <3> QED BY <3>1, <3>2
  <2>11. e \in Nat /\ Near(e, ta * c)
    <3> DEFINE k == t * g.up
    <3>1. (f.m * y) * k \in Nat /\ Near((f.m * y) * k, (Low * x) * k)
      <4>1. k \in Nat
        BY <2>9
      <4> HIDE DEF y, x, k
      <4> QED BY <2>2, <2>9, <4>1, NearTimes
    <3>2. (Low * x) * k = ta * c /\ (f.m * y) * k = e
      BY <2>7, Z3 DEF Low
    <3> QED BY <3>1, <3>2
  <2>12. e1 \in Nat /\ Near(e1, (ta + a) * c)
    <3> DEFINE k == (t + 1) * g.up
    <3>1. (f.m * y) * k \in Nat /\ Near((f.m * y) * k, (Low * x) * k)
      <4>1. k \in Nat
        BY <2>9
      <4> HIDE DEF y, x, k
      <4> QED BY <2>2, <2>9, <4>1, NearTimes
    <3>2. (Low * x) * k = (ta + a) * c /\ (f.m * y) * k = e1
      BY <2>7, Z3 DEF Low
    <3> QED BY <3>1, <3>2
  <2>13. e <= s /\ s < e1
    <3> DEFINE h == b * f.m
               w == g.m * g.down * f.up
    <3>1. (t * d) * h <= w * h /\ w * h < ((t + 1) * d) * h
      <4>1. t * d \in Nat /\ (t + 1) * d \in Nat
        BY <2>5, <2>6, Z3 DEF Pos
      <4> HIDE DEF d, h, w
      <4> QED BY <2>5, <2>6, <2>9, <4>1, ProductMono, ProductStrict DEF Pos, h, w
    <3>2. (t * d) * h = e
      BY <2>7, Z3
    <3>3. ((t + 1) * d) * h = e1
      BY <2>7, Z3
    <3>4. w * h = s
      BY <2>7, Z3
    <3> QED BY <3>1, <3>2, <3>3, <3>4
  <2>14. nb - a <= ta /\ ta <= nb
    <3>1. nb < Low
      OBVIOUS
    <3> HIDE DEF ta, nb, s, e, e1, c
    <3> QED BY <2>8, <2>10, <2>11, <2>12, <2>13, <3>1, QuotientTruncated
  <2> QED BY <2>3, <2>6, <2>14
<1> QED BY <1>1, <1>2

\* A ratio of one changes nothing.
THEOREM FloatTimesSame ==
  ASSUME NEW n \in Nat, NEW a \in Pos, n < Low, a <= 2 * Low
  PROVE  FloatTimes(n, a, a) = n
<1>1. CASE n = 0
  BY <1>1 DEF FloatTimes
<1>2. CASE n # 0
  <2> DEFINE f == Divided(a, a)
  <2>1. f.m = Low /\ f.down = 1 /\ f.up = 1
    BY DividedRounds
  <2>2. FloatTimes(n, a, a) = (Rounded(n * f.m) * f.down) \div (Low * f.up)
    BY <1>2 DEF FloatTimes, Pos
  <2> HIDE DEF f
  <2>3. n * Low \in Nat /\ Low <= n * Low /\ n * Low < 2 * (Low * (2 * Low))
    BY <1>2 DEF Low
  <2>4. Rounded(n * Low) = n * Low
    BY <2>3, RoundedNear
  <2>5. (n * Low * 1) \div (Low * 1) = n
    BY <1>2 DEF Low
  <2> QED BY <2>1, <2>2, <2>4, <2>5
<1> QED BY <1>1, <1>2

\* What DisplayGeometry assumes of its operations (FloatAssumption) holds of single
\* precision for displays whose sides are up to 2896 long: the longest product of
\* two sides is below 2^23.
THEOREM FloatOperations ==
  ASSUME NEW MaxLength \in Nat, MaxLength * MaxLength < Low
  PROVE  /\ \A n, a \in 0..MaxLength, b \in 1..MaxLength :
              LET t == FloatTimes(n, a, b)
              IN t \in Nat /\ n * a - b <= t * b /\ t * b <= n * a
         /\ \A n \in 0..MaxLength, a, b \in 1..MaxLength :
              LET t == FloatOver(n, a, b)
              IN t \in Nat /\ n * b - a <= t * a /\ t * a <= n * b
         /\ \A n \in 0..MaxLength, a \in 1..MaxLength : FloatTimes(n, a, a) = n
<1>1. MaxLength < Low
  <2>1. CASE MaxLength = 0
    BY <2>1 DEF Low
  <2>2. CASE 1 <= MaxLength
    <3>1. 1 * MaxLength <= MaxLength * MaxLength
      BY <2>2, ProductMono, 1 \in Nat
    <3>2. MaxLength * MaxLength \in Nat
      BY Z3
    <3> QED BY <3>1, <3>2 DEF Low
  <2> QED BY <2>1, <2>2
<1>2. ASSUME NEW n \in 0..MaxLength, NEW a \in 0..MaxLength
      PROVE  n \in Nat /\ a \in Nat /\ n * a < Low
  <2>1. n \in Nat /\ a \in Nat /\ n <= MaxLength /\ a <= MaxLength
    OBVIOUS
  <2>2. n * a \in Nat /\ n * a <= MaxLength * a
    BY <2>1, ProductMono
  <2>3. a * MaxLength <= MaxLength * MaxLength
    BY <2>1, ProductMono
  <2>4. a * MaxLength = MaxLength * a /\ MaxLength * a \in Nat /\ MaxLength * MaxLength \in Nat
    BY <2>1, Z3
  <2> QED BY <2>1, <2>2, <2>3, <2>4 DEF Low
<1>3. \A n \in 1..MaxLength : n \in Pos /\ n \in 0..MaxLength
  BY DEF Pos
<1>4. \A n \in 0..MaxLength : n \in Nat /\ n < Low /\ n <= Low /\ n <= 2 * Low
  BY <1>1 DEF Low
<1>5. \A n, a \in 0..MaxLength, b \in 1..MaxLength :
        LET t == FloatTimes(n, a, b)
        IN t \in Nat /\ n * a - b <= t * b /\ t * b <= n * a
  BY <1>2, <1>3, <1>4, FloatTimesTruncates
<1>6. \A n \in 0..MaxLength, a, b \in 1..MaxLength :
        LET t == FloatOver(n, a, b)
        IN t \in Nat /\ n * b - a <= t * a /\ t * a <= n * b
  BY <1>2, <1>3, <1>4, FloatOverTruncates
<1>7. \A n \in 0..MaxLength, a \in 1..MaxLength : FloatTimes(n, a, a) = n
  BY <1>3, <1>4, FloatTimesSame
<1> QED BY <1>5, <1>6, <1>7
=============================================================================
