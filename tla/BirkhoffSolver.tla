--------------------------- MODULE BirkhoffSolver ---------------------------
(***************************************************************************)
(* The column loop of solve_scalar_system, on the systems                  *)
(* birkhoff_interpolation_coefficients builds for signer sets that the     *)
(* hierarchical policy accepts.  One step per column.                      *)
(***************************************************************************)
EXTENDS Birkhoff

CONSTANTS
    Configs,    \* HierarchicalThresholdConfigs: [threshold, ranks]
    SignerSets  \* lists of signers that may be proposed

VARIABLES
    config,   \* the configuration and
    signers,  \* signer set interpolated for
    system,   \* matrix and target, Singular once the loop returned the error
    col       \* the loop variable

vars == <<config, signers, system, col>>

Points == BirkhoffPoints(signers, config)

Init ==
    /\ config \in {c \in Configs : IsHierarchicalConfig(c)}
    /\ signers \in {s \in SignerSets : ValidHierarchicalSignerSet(s, config)}
    /\ system = CoefficientSystem(Points)
    /\ col = 0

\* No row at or below the diagonal has a non-zero entry: the loop returns.
NoPivot ==
    /\ system # Singular
    /\ col < Len(signers)
    /\ PivotRows(system, col) = {}
    /\ system' = Singular
    /\ UNCHANGED <<config, signers, col>>

Eliminate ==
    /\ system # Singular
    /\ col < Len(signers)
    /\ PivotRows(system, col) # {}
    /\ system' = EliminateColumn(system, col)
    /\ col' = col + 1
    /\ UNCHANGED <<config, signers>>

Next == NoPivot \/ Eliminate

Spec == Init /\ [][Next]_vars

Solved == system # Singular /\ col = Len(signers)

-----------------------------------------------------------------------------
\* The determinant by Leibniz' formula, the reference the elimination is held to.
Inversions(perm) ==
    Cardinality({<<i, j>> \in (DOMAIN perm) \X (DOMAIN perm) : i < j /\ perm[i] > perm[j]})

Determinant(matrix) ==
    LET term(perm) ==
            LET product[k \in 0 .. Cardinality(DOMAIN matrix)] ==
                    IF k = 0 THEN 1 ELSE ScalarMul(product[k - 1], matrix[k - 1][perm[k - 1]])
            IN  product[Cardinality(DOMAIN matrix)]
        signed(perm) ==
            IF Inversions(perm) % 2 = 0 THEN term(perm) ELSE ScalarNegate(term(perm))
    IN  ScalarSum([perm \in Permutations(DOMAIN matrix) |-> signed(perm)])

\* Differentiation of a polynomial, and its value by Horner's rule.
Derived(f, times) ==
    LET derived[k \in 0..times] ==
            IF k = 0 THEN f
            ELSE [d \in DOMAIN f |->
                     IF d + 1 \in DOMAIN f THEN ScalarMul(d + 1, derived[k - 1][d + 1]) ELSE 0]
    IN  derived[times]

ValueAt(f, x) ==
    LET n == Cardinality(DOMAIN f)
        horner[k \in 0..n] ==
            IF k = 0 THEN 0 ELSE ScalarAdd(ScalarMul(horner[k - 1], x), f[n - k])
    IN  horner[n]

\* "f(0) = sum_i coefficient_i * f^(r_i)(x_i)" for every polynomial of degree below
\* the number of points: when the loop ends, the target holds coefficients that
\* take the derivatives of x^0 to 1 and those of every higher power to 0.
CoefficientsReconstruct ==
    Solved =>
        \A degree \in Rows(Len(signers)) :
            LET power == [d \in Rows(Len(signers)) |-> IF d = degree THEN 1 ELSE 0] IN
            ScalarSum([i \in DOMAIN signers |->
                ScalarMul(system.target[i - 1],
                          ValueAt(Derived(power, config.ranks[signers[i]]), signers[i]))])
              = ValueAt(power, 0)

\* "singular Birkhoff interpolation system" is returned for singular matrices and
\* no others: the pivot search gives up iff the determinant is zero.
SingularIffDeterminantZero ==
    /\ system = Singular => Determinant(BirkhoffMatrix(Points)) = 0
    /\ Solved => Determinant(BirkhoffMatrix(Points)) # 0

\* The signers are as many as the threshold, and ids grow with rank.
RankedById ==
    /\ Len(signers) = config.threshold
    /\ \A i, j \in DOMAIN signers :
          signers[i] < signers[j] => config.ranks[signers[i]] <= config.ranks[signers[j]]

\* The rank rule of validate_hierarchical_signer_set is enough when exactly
\* threshold signers sign and lower ids have the lower ranks (as in every
\* configuration of the documentation): such a set always interpolates.
RankedSetsInterpolate == RankedById => system # Singular

\* The rank rule is applied to the threshold lowest ranks only.  With more signers
\* than that, interpolation succeeds only if the rule holds for all of them.
SurplusSignersObeyTheRule ==
    Solved => RankRule(SortedRanks(signers, config.ranks), Len(signers))

\* reconstruct_htss_secret_scalar and the signing functions "reconstruct/sign from a
\* valid HTSS signer set" (docs/FROST_API.md:123): every signer set that passes the
\* rank rule has interpolation coefficients, without which they fail.
ValidSetsInterpolate == system # Singular
=============================================================================
