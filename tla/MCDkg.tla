------------------------------- MODULE MCDkg -------------------------------
(***************************************************************************)
(* Instances of Dkg for TLC: 2-of-3 over a small prime field.              *)
(***************************************************************************)
EXTENDS DkgRun

\* Lines, by their coefficients.
Line(a, b) == (0 :> a) @@ (1 :> b)
TwoLines == {Line(2, 1), Line(0, 3)}
\* Lines no sum of three of which has, modulo 11, the value 0 or 1 at any of 0..3: no
\* share and no public key is trivial.
SafeLines == {Line(1, 2), Line(2, 7)}
FaultyCodes == {0, 9}
=============================================================================
