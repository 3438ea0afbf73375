-------------------------- MODULE MCMultiplication --------------------------
(***************************************************************************)
(* The instance of Multiplication for TLC.                                 *)
(***************************************************************************)
EXTENDS Multiplication, SequencesExt

\* The random oracle: a fixed function that scatters the inputs of the runs.
Oracle(inputs) ==
  LET h == FoldLeft(LAMBDA acc, x : (acc * 7919 + x + 1) % 46337, 5, inputs)
  IN  (h * h) % 46337
=============================================================================
