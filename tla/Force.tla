--------------------------------- MODULE Force --------------------------------
(***************************************************************************)
(* ForceHardware: the balance is calibrated as R = A F + B F^2.  read()    *)
(* takes the voltage of every channel over GPIB, converts it to R and      *)
(* looks for F with Newton's method; set_zero() subtracts the response to  *)
(* the forces of a reference.  The doubles are fractions here.             *)
(*                                                                         *)
(* A calibration is what the matrix file holds: lin[j][i], transposed as   *)
(* in the file, is what force j does to channel i, and qua[p][i] what the  *)
(* product of the two forces of pair p does to it.  The program numbers    *)
(* the pairs in the order of calc_function(), here they are themselves.    *)
(***************************************************************************)
EXTENDS Integers, Sequences, SequencesExt, Rational

CONSTANTS
    NumChannels,    \* NUMCHANNELS, 6 in the program
    MaxIter,        \* MAX_ITER
    Tolerance,      \* TOLERANCE
    NewtonPerVolt,  \* nominal_load * GRAVITY * 1000 / (SENSITIVITY * VCC)
    Balances        \* [coe, inverse, zeros, loads]: a calibration, the inverse
                    \* of its linear part if that has one, the forces of
                    \* references and the loads it is used with

VARIABLES
    balance,    \* the file that was found and the device behind it
    forcePc,    \* where ForceHardware is
    channel,    \* the channel read_dvm() is at
    load,       \* the forces on the balance, steady during a read()
    zeroOf,     \* history: the forces that set_zero() was called with
    mat,        \* mat.coef_lin, the inverse of the linear part
    dvm, dvm_si, dvm_si_zero, forces,
    iter,       \* the passes of Newton's loop
    residual    \* F, as the last pass left it

forceVars == <<balance, forcePc, channel, load, zeroOf, mat, dvm, dvm_si, dvm_si_zero,
               forces, iter, residual>>

Channels == 1 .. NumChannels
Pairs == {p \in Channels \X Channels : p[1] <= p[2]}
NoForces == [i \in Channels |-> Zero]
NoMatrix == [i \in Channels |-> NoForces]
Vectors == [Channels -> Fractions]
Matrices == [Channels -> Vectors]

ASSUME ForceAssumption ==
    /\ NumChannels \in Nat \ {0}
    /\ NewtonPerVolt \in [Channels -> Fractions \ {Zero}]
    /\ \A b \in Balances :
         /\ b.coe.lin \in Matrices /\ b.coe.qua \in [Pairs -> Vectors]
         /\ b.inverse \in Matrices
         /\ b.zeros \subseteq Vectors /\ b.loads \subseteq Vectors

\* A vector or matrix, of which TLC then knows every element.
Known(v) == SubSeq(v, 1, NumChannels)

Sum(f, S) == FoldFunctionOnSet(Plus, Zero, f, S)

(***************************************************************************)
(* A F + B F^2 and its use: calc_function() and set_zero().                *)
(***************************************************************************)
Linear(i, F) == Sum([j \in Channels |-> Times(balance.coe.lin[j][i], F[j])], Channels)

Quadratic(i, F) ==
    Sum([p \in Pairs |-> Times(balance.coe.qua[p][i], Times(F[p[2]], F[p[1]]))], Pairs)

calc_function(F) ==
    [i \in Channels |->
        Minus(Plus(Linear(i, F), Quadratic(i, F)), Minus(dvm_si[i], dvm_si_zero[i]))]

ZeroResponseLinear(zero) == [i \in Channels |-> Linear(i, zero)]
ZeroResponse(zero) == [i \in Channels |-> Plus(Linear(i, zero), Quadratic(i, zero))]

\* Negative residuals are always inside.
check_tolerance(F) == \A i \in Channels : ~Exceeds(F[i], Tolerance)

(***************************************************************************)
(* calc_jacobi(): the derivative by force j.  A product of two forces is   *)
(* always taken times the second one, also for the derivative by that one. *)
(***************************************************************************)
Multiplicity(j, p) ==
    IF p = <<j, j>> THEN 2 ELSE IF j \in {p[1], p[2]} THEN 1 ELSE 0

calc_jacobi(F) ==
    Known([i \in Channels |-> Known([j \in Channels |->
        Plus(balance.coe.lin[j][i],
             Sum([p \in Pairs |-> Times(Times(balance.coe.qua[p][i], F[p[2]]),
                                        Whole(Multiplicity(j, p)))], Pairs))])])

(***************************************************************************)
(* invert(): Gauss and Jordan with a full search for the pivot.  A swap    *)
(* negates one of the two lines, and v1, v2 remember the swaps.            *)
(***************************************************************************)
\* The first of the largest, by columns.
Pivot(m, k) ==
    CHOOSE p \in (k .. NumChannels) \X (k .. NumChannels) :
        \A q \in (k .. NumChannels) \X (k .. NumChannels) :
            LET a == Absolute(m[p[1]][p[2]])
                b == Absolute(m[q[1]][q[2]])
            IN  Exceeds(a, b)
                \/ (a = b /\ (p[2] < q[2] \/ (p[2] = q[2] /\ p[1] <= q[1])))

SwapRows(m, k, r) ==
    IF r = k THEN m
    ELSE [m EXCEPT ![k] = m[r], ![r] = Known([j \in Channels |-> Neg(m[k][j])])]

SwapColumns(m, k, c) ==
    IF c = k THEN m
    ELSE Known([i \in Channels |-> [m[i] EXCEPT ![k] = m[i][c], ![c] = Neg(m[i][k])]])

\* Nothing is done for a pivot of 0: the matrix is singular.
Eliminate(m, k) ==
    LET g == m[k][k]
        column == Known([i \in Channels |-> Over(m[i][k], Neg(g))])
    IN  IF g = Zero THEN m
        ELSE Known([i \in Channels |-> Known([j \in Channels |->
                CASE i = k /\ j = k -> Over(One, g)
                  [] i = k /\ j # k -> Over(m[k][j], g)
                  [] i # k /\ j = k -> column[i]
                  [] OTHER -> Plus(Times(column[i], m[k][j]), m[i][j])])])

\* What a step makes of the matrix, and the place of its pivot.
PivotStep(m, k) ==
    LET p == Pivot(m, k)
    IN  [m |-> Eliminate(SwapColumns(SwapRows(m, k, p[1]), k, p[2]), k), pivot |-> p]

\* The swaps undone: that of rows on columns, and the other way round.
UnswapColumns(m, k, c) ==
    IF c = k THEN m
    ELSE Known([i \in Channels |-> [m[i] EXCEPT ![k] = Neg(m[i][c]), ![c] = m[i][k]]])

UnswapRows(m, k, r) ==
    IF r = k THEN m
    ELSE [m EXCEPT ![k] = Known([j \in Channels |-> Neg(m[r][j])]), ![r] = m[k]]

UnswapRowsOnRows(m, k, p) == UnswapColumns(UnswapRows(m, k, p[1]), k, p[2])
Unswap(m, k, p) == UnswapRows(UnswapColumns(m, k, p[1]), k, p[2])

invert(a) ==
    LET step[k \in 0 .. NumChannels] ==
          IF k = 0 THEN [m |-> a, pivot |-> <<1, 1>>] ELSE PivotStep(step[k - 1].m, k)
        back[k \in 0 .. NumChannels] ==
          IF k = NumChannels THEN step[k].m ELSE Unswap(back[k + 1], k + 1, step[k + 1].pivot)
    IN  back[0]

Apply(m, x) == Known([i \in Channels |-> Sum([j \in Channels |-> Times(m[i][j], x[j])], Channels)])

(***************************************************************************)
(* The object: constructor and set_zero(), read() step by step.            *)
(***************************************************************************)
ForceInit ==
    /\ balance \in Balances
    /\ forcePc = "off"
    /\ channel = 1
    /\ load \in balance.loads
    /\ zeroOf = NoForces
    /\ mat = NoMatrix
    /\ dvm = NoForces /\ dvm_si = NoForces /\ dvm_si_zero = NoForces
    /\ forces = NoForces
    /\ iter = 0
    /\ residual = NoForces

\* The matrix file or the GPIB device is missing: runtime_error.
ForceConstructFails ==
    /\ forcePc = "off"
    /\ forcePc' = "failed"
    /\ UNCHANGED <<balance, channel, load, zeroOf, mat, dvm, dvm_si, dvm_si_zero, forces,
                   iter, residual>>

\* A reference is run without set_zero().
ForceConstruct ==
    /\ forcePc = "off"
    /\ forcePc' = "reading"
    /\ mat' = invert(balance.coe.lin)
    /\ \/ UNCHANGED <<zeroOf, dvm_si_zero>>
       \/ \E zero \in balance.zeros :
            /\ zeroOf' = zero
            /\ dvm_si_zero' = ZeroResponse(zero)
    /\ UNCHANGED <<balance, channel, load, dvm, dvm_si, forces, iter, residual>>

\* The voltage of a channel under the load, by the law of the calibration.
Voltage(i) == Over(Plus(Linear(i, load), Quadratic(i, load)), NewtonPerVolt[i])

\* read_dvm(), one channel: the multimeter is switched to it and answers.
ReadChannel ==
    /\ forcePc = "reading"
    /\ dvm' = [dvm EXCEPT ![channel] = Voltage(channel)]
    /\ IF channel < NumChannels
         THEN channel' = channel + 1 /\ UNCHANGED forcePc
         ELSE channel' = 1 /\ forcePc' = "guess"
    /\ UNCHANGED <<balance, load, zeroOf, mat, dvm_si, dvm_si_zero, forces, iter, residual>>

\* ascii2newton() finds no number: runtime_error.
ReadChannelFails ==
    /\ forcePc = "reading"
    /\ forcePc' = "failed"
    /\ UNCHANGED <<balance, channel, load, zeroOf, mat, dvm, dvm_si, dvm_si_zero, forces,
                   iter, residual>>

\* convert_dvm() and the initial guess, by the linear part alone.
Guess ==
    /\ forcePc = "guess"
    /\ dvm_si' = [i \in Channels |-> Times(NewtonPerVolt[i], dvm[i])]
    /\ forces' = [i \in Channels |->
                    Sum([j \in Channels |-> Times(mat[j][i], Minus(dvm_si'[j], dvm_si_zero[j]))],
                        Channels)]
    /\ iter' = 0
    /\ forcePc' = "newton"
    /\ UNCHANGED <<balance, channel, load, zeroOf, mat, dvm, dvm_si_zero, residual>>

\* while( iter < MAX_ITER && check_tolerance(F))
Repeats(n, F) == n < MaxIter /\ check_tolerance(F)

\* One pass of newton_method().
NewtonPass ==
    /\ forcePc = "newton"
    /\ residual' = calc_function(forces)
    /\ LET step == Apply(invert(calc_jacobi(forces)), residual')
       IN  forces' = [i \in Channels |-> Minus(forces[i], step[i])]
    /\ iter' = iter + 1
    /\ forcePc' = IF Repeats(iter', residual') THEN "newton" ELSE "read"
    /\ UNCHANGED <<balance, channel, load, zeroOf, mat, dvm, dvm_si, dvm_si_zero>>

\* The next sample, under another load.
ReadAgain ==
    /\ forcePc = "read"
    /\ forcePc' = "reading"
    /\ load' \in balance.loads
    /\ UNCHANGED <<balance, channel, zeroOf, mat, dvm, dvm_si, dvm_si_zero, forces, iter, residual>>

ForceNext ==
    \/ ForceConstructFails \/ ForceConstruct
    \/ ReadChannel \/ ReadChannelFails
    \/ Guess \/ NewtonPass \/ ReadAgain

ForceSpec == ForceInit /\ [][ForceNext]_forceVars

-----------------------------------------------------------------------------
Identity == [i \in Channels |-> [j \in Channels |-> IF i = j THEN One ELSE Zero]]
Product(a, b) ==
    [i \in Channels |-> [j \in Channels |->
        Sum([k \in Channels |-> Times(a[i][k], b[k][j])], Channels)]]

IsRegular == Product(balance.coe.lin, balance.inverse) = Identity
IsLinear == \A p \in Pairs : balance.coe.qua[p] = NoForces

\* With a calibration that can be inverted and has no quadratic part, what
\* read() gives is the load less the forces of the reference: invert() with
\* its swaps, the transposed file, the guess and the loop fit together.
LoadRecovered ==
    forcePc = "read" /\ IsLinear /\ IsRegular =>
        /\ Product(balance.coe.lin, mat) = Identity
        /\ \A i \in Channels : forces[i] = Minus(load[i], zeroOf[i])

\* The load of the reference reads as no force at all, whatever the
\* calibration and its quadratic part.
TareReadsZero == forcePc = "read" /\ load = zeroOf => forces = NoForces

\* The forces are those of the load beyond that of the reference, as far as the
\* calibration defines them.
ForcesTrue == LoadRecovered /\ TareReadsZero

\* newton_method() ends as its comment says, by the number of passes or by
\* convergence: "stop on number reached or convergence" (force.cpp:418).
StopsConverged ==
    forcePc = "read" =>
        \/ iter = MaxIter
        \/ \A i \in Channels : ~Exceeds(Absolute(residual[i]), Tolerance)
=============================================================================
