----------------------------- MODULE MCInstruments -----------------------------
EXTENDS Instruments

\* Real plugins and virtual ones, in the order of their file names.  In the
\* first two Alpha or Beta has two rows; the default build has both together.
MCInstallations ==
    {<<AlphaFactory, AnglesFactory>>,
     <<AnglesFactory, BetaFactory, TemperatureFactory>>,
     <<AlphaFactory, ForceFactory, PressureFactory, TimeFactory>>,
     <<BetaFactory, MotorFactory, TemperatureFactory>>,
     <<VirtualBetaFactory, VirtualForceFactory, VirtualPressureFactory>>,
     <<VirtualAlphaFactory, VirtualMotorFactory, VirtualTemperatureFactory>>}

\* Calibrations of three channels: every choice of three of these rows, and
\* one with a quadratic part.
W(t) == [i \in DOMAIN t |-> Whole(t[i])]
MCRows == {W(<<0, 0, 1>>), W(<<0, 2, 0>>), W(<<1, 2, 0>>), W(<<2, 1, -1>>)}
Straight == [p \in Pairs |-> NoForces]
Curved == [p \in Pairs |-> IF p = <<1, 2>> THEN W(<<1, 0, 2>>) ELSE NoForces]
F1 == W(<<1, 0, 2>>)
F2 == W(<<1, 1, 0>>)
Crossed == <<W(<<0, 2, 0>>), W(<<0, 0, 1>>), W(<<1, 0, 0>>)>>

\* The inverse by the cofactors, which invert() does not use.
Cofactor(a, i, j) ==
    LET After(n) == (n % 3) + 1
        Cross(p, q) == Times(a[After(i)][p], a[After(After(i))][q])
    IN  Minus(Cross(After(j), After(After(j))), Cross(After(After(j)), After(j)))
Inverted(a) ==
    LET determinant == Sum([j \in Channels |-> Times(a[1][j], Cofactor(a, 1, j))], Channels)
    IN  Known([i \in Channels |-> Known([j \in Channels |->
            IF determinant = Zero THEN Zero ELSE Over(Cofactor(a, j, i), determinant)])])
Calibration(a, q, zero, set) ==
    [coe |-> [lin |-> a, qua |-> q], inverse |-> Inverted(a), zeros |-> {zero}, loads |-> set]
MCBalances ==
    {Calibration(<<a, b, c>>, Straight, F1, {F1, F2}) : a, b, c \in MCRows}
    \union {Calibration(Crossed, Curved, F2, {F2})}
MCNewtonPerVolt == W(<<50, 100, 100>>)
MCTolerance == Frac(1, 1000)

MCPositions == {{0, 2}, {1, 2, 5, 7}}

MCShafts == {0, 255, 256, 65536, 16777216, 33554431}
MCDisplayValues == {-2000, -1999, -1001, -1000, -999, -10, -1, 0, 7, 99, 300, 1000, 1650, 2000}
=============================================================================
