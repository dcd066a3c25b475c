------------------------------ MODULE Birkhoff ------------------------------
(***************************************************************************)
(* Birkhoff interpolation of dkgkit-frost: derivative shares of a          *)
(* polynomial, the interpolation matrix and the elimination that solves    *)
(* for the coefficients with which shares of different ranks add up to     *)
(* f(0).  Pure operators, no state.                                        *)
(*                                                                         *)
(* Scalars are integers modulo Order, a prime.  Rows, columns, degrees and *)
(* polynomial coefficients are numbered from 0 as in the code; a list of   *)
(* signers or points is a sequence.                                        *)
(***************************************************************************)
EXTENDS SignerPolicy

CONSTANT Order  \* order of the scalar field

ASSUME OrderAssumption ==
    Order \in Nat \ {0, 1} /\ \A d \in 2 .. Order - 1 : Order % d # 0

Scalars == 0 .. Order - 1

ScalarAdd(a, b) == (a + b) % Order
ScalarSub(a, b) == (a - b) % Order
ScalarMul(a, b) == (a * b) % Order
ScalarNegate(a) == (-a) % Order

\* Scalar::invert
Inverses == [a \in Scalars \ {0} |-> CHOOSE b \in Scalars : ScalarMul(a, b) = 1]
ScalarInvert(a) == Inverses[a]

\* The sum of scalars given as a function.
ScalarSum(f) == SumFunction(f) % Order

ScalarPow(base, exponent) ==
    LET pow[k \in 0..exponent] == IF k = 0 THEN 1 ELSE ScalarMul(pow[k - 1], base)
    IN  pow[exponent]

\* Deviation: the factors of the derivative start one too low.
FallingFactorFromBelow(degree, order) ==
    LET product[k \in (degree - order) .. degree] ==
            IF k = degree - order THEN 1 ELSE ScalarMul(product[k - 1], k - 1)
    IN  product[degree]

\* The product of (degree - order + 1) ..= degree.
FallingFactor(degree, order) ==
    LET product[k \in (degree - order) .. degree] ==
            IF k = degree - order THEN 1 ELSE ScalarMul(product[k - 1], k)
    IN  product[degree]

\* Deviation: a derivative that vanishes counts as one.
DerivativeBasisScalarUnclamped(degree, order, x) ==
    IF order > degree THEN 1
    ELSE ScalarMul(FallingFactor(degree, order), ScalarPow(x % Order, degree - order))

\* The order-th derivative of x^degree.
DerivativeBasisScalar(degree, order, x) ==
    IF order > degree THEN 0
    ELSE ScalarMul(FallingFactor(degree, order), ScalarPow(x % Order, degree - order))

\* The order-th derivative at x of the polynomial with the given coefficients.
PolynomialDerivativeValue(coefficients, x, order) ==
    ScalarSum([degree \in DOMAIN coefficients |->
        ScalarMul(coefficients[degree], DerivativeBasisScalar(degree, order, x))])

-----------------------------------------------------------------------------
\* birkhoff_points_from_hierarchical_signer_set, of signers that are valid.
BirkhoffPoints(signers, c) ==
    [i \in DOMAIN signers |->
        [participant_id |-> signers[i], x |-> signers[i],
         derivative_order |-> c.ranks[signers[i]]]]

Rows(n) == 0 .. n - 1

\* birkhoff_matrix: one row per point, one column per degree.
BirkhoffMatrix(points) ==
    [row \in Rows(Len(points)) |-> [degree \in Rows(Len(points)) |->
        DerivativeBasisScalar(degree, points[row + 1].derivative_order, points[row + 1].x)]]

\* The system birkhoff_interpolation_coefficients hands to solve_scalar_system.
CoefficientSystem(points) ==
    LET n == Len(points)
        matrix == BirkhoffMatrix(points)
    IN  [matrix |-> [row \in Rows(n) |-> [col \in Rows(n) |-> matrix[col][row]]],
         target |-> [row \in Rows(n) |-> IF row = 0 THEN 1 ELSE 0]]

\* Deviation: no row is searched for but the one on the diagonal.
PivotRowsDiagonal(system, col) == {row \in {col} : system.matrix[row][col] # 0}

\* The rows among which the pivot of a column is searched.
PivotRows(system, col) ==
    {row \in DOMAIN system.target : row >= col /\ system.matrix[row][col] # 0}

SwapRows(system, a, b) ==
    LET at == [row \in DOMAIN system.target |->
                  CASE row = a -> b [] row = b -> a [] OTHER -> row]
    IN  [matrix |-> [row \in DOMAIN at |-> system.matrix[at[row]]],
         target |-> [row \in DOMAIN at |-> system.target[at[row]]]]

ScaleRow(system, a, factor) ==
    [matrix |-> [system.matrix EXCEPT ![a] =
                    [col \in DOMAIN @ |-> ScalarMul(@[col], factor)]],
     target |-> [system.target EXCEPT ![a] = ScalarMul(@, factor)]]

\* The rows other than the pivot row, reduced by it.
ClearColumn(system, col) ==
    LET matrix == system.matrix
        factor == [row \in DOMAIN matrix |-> IF row = col THEN 0 ELSE matrix[row][col]]
    IN  [matrix |-> [row \in DOMAIN matrix |-> [c \in DOMAIN matrix |->
                        ScalarSub(matrix[row][c], ScalarMul(factor[row], matrix[col][c]))]],
         target |-> [row \in DOMAIN matrix |->
                        ScalarSub(system.target[row], ScalarMul(factor[row], system.target[col]))]]

\* One iteration of solve_scalar_system, for a column that has a pivot.
EliminateColumn(system, col) ==
    LET rows == PivotRows(system, col)
        pivot == CHOOSE row \in rows : \A other \in rows : row <= other
        swapped == SwapRows(system, pivot, col)
    IN  ClearColumn(ScaleRow(swapped, col, ScalarInvert(swapped.matrix[col][col])), col)

\* What solve_scalar_system returns when a column has no pivot.
Singular == [matrix |-> <<>>, target |-> <<>>]

\* solve_scalar_system: all columns in turn, or Singular.
SolveScalarSystem(system) ==
    LET n == Cardinality(DOMAIN system.target)
        after[k \in 0..n] ==
            IF k = 0 THEN system
            ELSE LET before == after[k - 1] IN
                 IF before = Singular \/ PivotRows(before, k - 1) = {}
                 THEN Singular
                 ELSE EliminateColumn(before, k - 1)
    IN  after[n]

\* birkhoff_interpolation_coefficients returns Ok, and what it returns.
Interpolates(points) ==
    points # <<>> /\ SolveScalarSystem(CoefficientSystem(points)) # Singular

Coefficients(points) ==
    LET solution == SolveScalarSystem(CoefficientSystem(points)).target
    IN  [i \in DOMAIN points |-> solution[i - 1]]
=============================================================================
