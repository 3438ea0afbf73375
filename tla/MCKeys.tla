------------------------------- MODULE MCKeys -------------------------------
(***************************************************************************)
(* Instances of Keys for TLC: 2-of-3 over a group of order 11.             *)
(***************************************************************************)
EXTENDS Keys, TLC

Oracle(inputs) ==
  LET h[i \in 0..Len(inputs)] == IF i = 0 THEN 7 ELSE (h[i - 1] * 31 + inputs[i] + 1) % 1009
  IN  (h[Len(inputs)] * h[Len(inputs)]) % 1009

\* The x-coordinates of the five points and their negatives: one is above the order,
\* congruent to that of another point, and one is zero modulo the order.
X(point) == LET k == IF 2 * point > Prime THEN Prime - point ELSE point
            IN  CASE k = 0 -> 0 [] k = 1 -> 3 [] k = 2 -> 14 [] k = 3 -> 11
                  [] k = 4 -> 8 [] k = 5 -> 5

Line(a, b) == (0 :> a) @@ (1 :> b)
Secrets == {Line(5, 4), Line(9, 2)}
Zeros == {Line(0, 3)}
Paths == {<<>>, <<0, 1>>, <<1, 0>>, <<0, 2>>, <<0, 0, 0>>}

\* Signer p of a pair has instance key k, the others 1.
Draws ==
  {[p \in Party |-> [instance_key |-> IF p = 2 THEN k ELSE 1, inversion_mask |-> mask + p,
                     chi |-> [q \in Party |-> p + 2 * q]]] : k \in 1..10, mask \in {1, 4}}
=============================================================================
