------------------------------- MODULE MCForce -------------------------------
EXTENDS Force

W(t) == [i \in DOMAIN t |-> Whole(t[i])]

\* One channel, R = 2 F + F^2
MCBalances ==
    {[coe |-> [lin |-> <<W(<<2>>)>>, qua |-> [p \in Pairs |-> W(<<1>>)]],
      inverse |-> <<<<Frac(1, 2)>>>>, zeros |-> {}, loads |-> {W(<<1>>)}]}
MCNewtonPerVolt == W(<<50>>)
MCTolerance == Frac(1, 1000)
=============================================================================
