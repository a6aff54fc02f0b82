-------------------------------- MODULE Ratio --------------------------------
(* Exact fractions for the averages the broker keeps as floats: a pair of a  *)
(* numerator and a positive denominator in lowest terms.                     *)
EXTENDS Integers

LOCAL Magnitude(n) == IF n < 0 THEN -n ELSE n

\* The fraction n / d, for d # 0.
Frac(n, d) ==
    LET common == {k \in 1..Magnitude(d) : n % k = 0 /\ d % k = 0}
        g == CHOOSE k \in common : \A m \in common : m <= k
        sign == IF d < 0 THEN -1 ELSE 1
    IN  <<sign * (n \div g), sign * (d \div g)>>

Whole(n) == <<n, 1>>
Plus(a, b) == Frac(a[1] * b[2] + b[1] * a[2], a[2] * b[2])
Times(a, k) == Frac(a[1] * k, a[2])
Over(a, k) == Frac(a[1], a[2] * k)

Fraction == Int \X (Nat \ {0})

\* The same number, whatever the terms.
Equals(a, b) == a[1] * b[2] = b[1] * a[2]
=============================================================================
