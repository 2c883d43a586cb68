------------------------------- MODULE Rational -------------------------------
(***************************************************************************)
(* Exact fractions, for what the program computes with doubles where no    *)
(* property is about their rounding: <<n, d>> in lowest terms, d > 0.      *)
(***************************************************************************)
LOCAL INSTANCE Integers

Magnitude(n) == IF n < 0 THEN -n ELSE n

CommonDivisor(a, b) ==
    LET divisor[p \in Nat \X Nat] ==
          IF p[2] # 0 THEN divisor[<<p[2], p[1] % p[2]>>] ELSE p
    IN  divisor[<<a, b>>][1]

Frac(n, d) ==
    LET g == CommonDivisor(Magnitude(n), Magnitude(d))
        s == IF d < 0 THEN -1 ELSE 1
    IN  <<s * (n \div g), s * (d \div g)>>

Fractions == {q \in Int \X (Nat \ {0}) : Frac(q[1], q[2]) = q}

Whole(n) == <<n, 1>>
Zero == Whole(0)
One == Whole(1)

Neg(x) == <<-x[1], x[2]>>
Plus(x, y) == Frac(x[1] * y[2] + y[1] * x[2], x[2] * y[2])
Minus(x, y) == Plus(x, Neg(y))
Times(x, y) == Frac(x[1] * y[1], x[2] * y[2])
Over(x, y) == Frac(x[1] * y[2], x[2] * y[1])
Absolute(x) == <<Magnitude(x[1]), x[2]>>
Exceeds(x, y) == x[1] * y[2] > y[1] * x[2]
=============================================================================
