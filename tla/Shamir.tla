------------------------------- MODULE Shamir -------------------------------
(***************************************************************************)
(* The arithmetic of the key generation (step1..step5 of                   *)
(* dkls23-core/src/protocols/dkg.rs) over a small prime field.  A group    *)
(* element is represented by its discrete logarithm, so the identity is 0, *)
(* the generator 1, and multiplying a point by a scalar is multiplication. *)
(* Party indices are machine words of IndexWidth bits, u8 in the code.     *)
(***************************************************************************)
EXTENDS Integers, FiniteSets, Functions

CONSTANTS
  ShareCount,   \* parameters.share_count
  Threshold,    \* parameters.threshold
  Prime,        \* order of the group
  IndexWidth    \* bits of a party index

ASSUME FieldAssumption ==
  /\ ShareCount \in Nat /\ Threshold \in 1..ShareCount
  /\ IndexWidth \in Nat /\ 2 ^ IndexWidth \in Nat /\ ShareCount < 2 ^ IndexWidth
  /\ Prime \in Nat /\ ShareCount < Prime
  /\ \A d \in 2..(Prime - 1) : Prime % d # 0

Party == 1..ShareCount
Scalar == 0..(Prime - 1)
Polynomial == [0..(Threshold - 1) -> Scalar]

Invert(x) == CHOOSE y \in Scalar : (x * y) % Prime = 1

\* step2: the value at j of the polynomial with these coefficients, by Horner's method;
\* from[k] is what the coefficients from k on contribute.
Evaluate(poly, j) ==
  LET from[k \in 0..(Threshold - 1)] ==
        IF k = Threshold - 1 THEN poly[k] ELSE (from[k + 1] * j + poly[k]) % Prime
  IN  from[0]

\* The coefficient of the value at j when a polynomial is interpolated at zero from
\* its values at the indices S, and that interpolation.
Times(a, b) == (a * b) % Prime
Lagrange(j, S) == FoldFunction(Times, 1, [k \in S \ {j} |-> k * Invert((k - j) % Prime)])
AtZero(points, S) == SumFunction([j \in S |-> Lagrange(j, S) * points[j]]) % Prime

\* step5 interpolates over every window of Threshold successive indices.  The end of
\* the window, i + threshold, is computed on the indices' type; where it overflows,
\* a build with overflow checks panics and the release build, modelled here, wraps.
WindowStartsOneShort == 1..(ShareCount - Threshold)     \* mutant: an exclusive range
WindowStarts == 1..(ShareCount - Threshold + 1)
WindowOneLong(i) == i..((i + Threshold) % 2 ^ IndexWidth)  \* mutant: an inclusive range
Window(i) == i..(((i + Threshold) % 2 ^ IndexWidth) - 1)

\* mutant: the values of the windows are not compared
OnePolynomialUnchecked(points) == \A i \in WindowStarts : Window(i) \subseteq DOMAIN points
\* No MissingCommittedPoint, and no PolynomialInconsistency: all windows agree.
OnePolynomial(points) ==
  \A i \in WindowStarts : /\ Window(i) \subseteq DOMAIN points
                          /\ AtZero(points, Window(i)) = AtZero(points, Window(1))
PublicKey(points) == AtZero(points, Window(1))
=============================================================================
