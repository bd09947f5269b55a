------------------------------- MODULE Float32 -------------------------------
(***************************************************************************)
(* The float operations of AndroidPixelBuffer and VirtualDisplay on small  *)
(* whole numbers, rounded to the nearest float with 24 bits, ties to even. *)
(*                                                                         *)
(* A float is a record [m, down, up], where 2^23 <= m <= 2^24 and down and *)
(* up are powers of two, and stands for (m * down) / (2^23 * up).  TLC     *)
(* computes with 31 bits, which is enough for lengths of up to 15.         *)
(***************************************************************************)
EXTENDS Integers

Low == 8388608   \* 2^23

Powers ==
  {1, 2, 4, 8, 16, 32, 64, 128, 256, 512, 1024, 2048, 4096, 8192, 16384, 32768, 65536,
   131072, 262144, 524288, 1048576, 2097152, 4194304, 8388608, 16777216}

\* The quotient q, of which r / d is left, to the nearest whole number.
ToEven(q, r, d) == IF 2 * r > d \/ (2 * r = d /\ q % 2 = 1) THEN q + 1 ELSE q

\* The next digits, in base k, of a long division by d.
Digits(l, k, d) == [q |-> k * l.q + (k * l.r) \div d, r |-> (k * l.r) % d]

\* (float)a / (float)b: a and b are scaled until the quotient has 24 bits.
Divided(a, b) ==
  LET up   == CHOOSE k \in Powers : b <= a * k /\ (k = 1 \/ a * k < 2 * b)
      down == CHOOSE k \in Powers : b * k <= a * up /\ a * up < 2 * (b * k)
      d == b * down
      l == Digits(Digits(Digits(Digits(
             [q |-> 1, r |-> a * up - d], 64, d), 64, d), 64, d), 32, d)
  IN [m |-> ToEven(l.q, l.r, d), down |-> down, up |-> up]

\* The whole number p, rounded to 24 bits.
Rounded(p) ==
  LET w == CHOOSE k \in Powers : Low * k <= p /\ p < 2 * (Low * k)
  IN ToEven(p \div w, p % w, w) * w

\* (uint32_t)((float)n * ((float)a / (float)b))
FloatTimes(n, a, b) ==
  IF n = 0 \/ a = 0 THEN 0
  ELSE LET f == Divided(a, b)
       IN (Rounded(n * f.m) * f.down) \div (Low * f.up)

\* (uint32_t)((float)n / ((float)a / (float)b))
FloatOver(n, a, b) ==
  IF n = 0 THEN 0
  ELSE LET f == Divided(a, b)
           g == Divided(n, f.m)
       IN (g.m * g.down * f.up) \div (g.up * f.down)
=============================================================================
