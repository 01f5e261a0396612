------------------------------- MODULE Doubles -------------------------------
(***************************************************************************)
(* The double arithmetic that the views rest on, on a few bits: integers,  *)
(* rounded to nearest, ties to even, once they leave the range in which    *)
(* every integer is representable (2^53 in the code), and NaN, which       *)
(* swallows everything.  Infinities and signed zeros are not represented.  *)
(***************************************************************************)
EXTENDS Integers, Sequences

CONSTANTS NaN,        \* a model value
          Precision   \* integers up to this magnitude are exact

ASSUME DoubleAssumption == Precision \in Nat \ {0}

Magnitude(x) == IF x < 0 THEN -x ELSE x

\* The distance of two neighbouring doubles around x (five binades are enough
\* for the values used).
Ulp(x) == LET fits == {u \in {1, 2, 4, 8, 16} : Magnitude(x) <= Precision * u}
          IN  CHOOSE u \in fits : \A w \in fits : u <= w

Round(x) ==
  LET u == Ulp(x)
      q == Magnitude(x) \div u
      r == 2 * (Magnitude(x) % u)
      n == IF r > u \/ (r = u /\ q % 2 = 1) THEN q + 1 ELSE q
  IN  IF x < 0 THEN -(n * u) ELSE n * u

Plus(x, y)  == IF NaN \in {x, y} THEN NaN ELSE Round(x + y)
Minus(x, y) == IF NaN \in {x, y} THEN NaN ELSE Round(x - y)

\* double sum = 0.0; for (v : seq) sum += v;
SumOf(seq) ==
  LET sum[i \in 0..Len(seq)] == IF i = 0 THEN 0 ELSE Plus(sum[i - 1], seq[i])
  IN  sum[Len(seq)]
=============================================================================
