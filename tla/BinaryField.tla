---------------------------- MODULE BinaryField ----------------------------
(***************************************************************************)
(* field_mul of ot/extension.rs: the product in GF(2^OT_SECURITY) =        *)
(* GF(2)[X] / f by the comb method with words of W bits, and reduction     *)
(* word by word.  In the code W = 64, T = 4, OT_SECURITY = 208 and         *)
(* f = X^208 + X^9 + X^3 + X + 1.                                          *)
(*                                                                         *)
(* A string of bits is the set of the positions of its ones: the exclusive *)
(* or is SymDiff and a shift adds to the positions.                        *)
(***************************************************************************)
EXTENDS Naturals, Functions, FiniteSetsExt

CONSTANTS
  W,               \* bits of a word
  T,               \* words of an operand
  OT_SECURITY,     \* the degree of f
  LowExponents     \* the exponents of the other terms of f

\* An operand fits its words and not one fewer, and a word that is folded back stays below
\* the next word to be folded, of which there is one.
ASSUME FieldAssumption ==
  /\ W \in Nat \ {0} /\ T \in Nat \ {0, 1} /\ OT_SECURITY \in Nat
  /\ W * (T - 1) < OT_SECURITY /\ OT_SECURITY < W * T
  /\ \A e \in LowExponents : e \in Nat /\ W * T - OT_SECURITY + e <= W

FieldElement == SUBSET (0..(OT_SECURITY - 1))

Shift(bits, n) == {x + n : x \in bits}
Below(bits, n) == {x \in bits : x < n}
WordOf(bits, i) == {x - i * W : x \in {y \in bits : y \div W = i}}
\* The exclusive or of the values of f.
Xor(f) == FoldFunction(SymDiff, {}, f)
\* f without its leading term, times the given bits.
TimesLow(bits) == Xor([e \in LowExponents |-> Shift(bits, e)])

\* Step k of the comb adds b, shifted by k, at every word of a that has its bit k set.
CombStep(a, b, k) ==
  LET shifted == Below(Shift(b, k), W * (T + 1))
  IN  Xor([j \in 0..(T - 1) |-> IF k \in WordOf(a, j) THEN Shift(shifted, W * j) ELSE {}])
Comb(a, b) == Xor([k \in 0..(W - 1) |-> CombStep(a, b, k)])

\* Word i of the product stands for X^(W i): X^(W T) is f's low part, shifted.
FoldWord(c, i) ==
  LET folded == Shift(TimesLow(WordOf(c, i)), W * (i - T) + W * T - OT_SECURITY)
  IN  {x \in SymDiff(c, folded) : x \div W # i}
\* The highest of the 2 T words first; rest[n] is what is left after n words.
FoldWords(c) ==
  LET rest[n \in 0..T] == IF n = 0 THEN c ELSE FoldWord(rest[n - 1], 2 * T - n)
  IN  rest[T]

\* The bits from OT_SECURITY on of the last word that is left.
\* mutant: the last partial word is cut off, not folded
FoldRestCut(c) == Below(c, OT_SECURITY)
FoldRest(c) ==
  LET top == {x - OT_SECURITY : x \in {y \in c : y >= OT_SECURITY}}
  IN  Below(SymDiff(c, TimesLow(top)), OT_SECURITY)

FieldMul(a, b) == FoldRest(FoldWords(Comb(a, b)))

-----------------------------------------------------------------------------
(* The product by its definition.                                          *)

\* The power of X, reduced.
PowerOfX[n \in Nat] ==
  IF n < OT_SECURITY THEN {n}
  ELSE LET next == Shift(PowerOfX[n - 1], 1)
       IN  IF OT_SECURITY \in next
           THEN SymDiff(next \ {OT_SECURITY}, LowExponents) ELSE next
Product(a, b) == Xor([x \in a \X b |-> PowerOfX[x[1] + x[2]]])
=============================================================================
