------------------------- MODULE BinaryField_proofs -------------------------
(***************************************************************************)
(* field_mul computes the product modulo f, for every size of its words    *)
(* and every f that satisfies FieldAssumption.  The argument: reduction    *)
(* modulo f, Red, is linear; the words and the rest that are folded are    *)
(* replaced by what they are modulo f; the comb and the product by its     *)
(* definition grow alike with every bit of the first factor.               *)
(***************************************************************************)
EXTENDS BinaryField, FiniteSetTheorems, NaturalsInduction, WellFoundedInduction, TLAPS

-----------------------------------------------------------------------------
(* Strings of bits and exclusive ors.                                      *)

\* The strings of bits of any length.
Bits == {c \in SUBSET Nat : IsFiniteSet(c)}
Xors == INSTANCE FiniteFolds WITH Op <- SymDiff, Base <- {}, Value <- Bits
XorOn(f, S) == FoldFunctionOnSet(SymDiff, {}, f, S)

LEMMA XorLaws ==
  /\ \A a, b, c : /\ SymDiff(SymDiff(a, b), c) = SymDiff(a, SymDiff(b, c))
                  /\ SymDiff(a, SymDiff(b, c)) = SymDiff(b, SymDiff(a, c))
  /\ \A a, b : SymDiff(a, b) = SymDiff(b, a) /\ SymDiff(a, SymDiff(a, b)) = b
  /\ \A a : SymDiff({}, a) = a /\ SymDiff(a, {}) = a /\ SymDiff(a, a) = {}
BY DEF SymDiff

LEMMA BitsAdd == {} \in Bits /\ \A a, b \in Bits : SymDiff(a, b) \in Bits
<1>1. ASSUME NEW a \in Bits, NEW b \in Bits PROVE SymDiff(a, b) \in Bits
  <2>1. IsFiniteSet(a \cup b)
    BY FS_Union DEF Bits
  <2>2. SymDiff(a, b) \subseteq a \cup b /\ SymDiff(a, b) \subseteq Nat
    BY DEF SymDiff, Bits
  <2>3. IsFiniteSet(SymDiff(a, b))
    BY <2>1, <2>2, FS_Subset
  <2> QED BY <2>2, <2>3 DEF Bits
<1>2. {} \in Bits
  BY FS_EmptySet DEF Bits
<1> QED BY <1>1, <1>2

\* The lemmas of FiniteFolds are about the exclusive or, which is the operator Xor.
LEMMA XorMonoid ==
  /\ Xors!Monoid /\ Xors!Associative
  /\ \A S : Xors!IsFiniteSet(S) <=> IsFiniteSet(S)
  /\ \A f, S : Xors!Fold(f, S) = XorOn(f, S)
  /\ \A f : Xor(f) = XorOn(f, DOMAIN f)
<1>1. Xors!Monoid /\ Xors!Associative
  BY BitsAdd, XorLaws DEF Xors!Monoid, Xors!Associative
<1>2. \A S : Xors!IsFiniteSet(S) <=> IsFiniteSet(S)
  BY DEF Xors!IsFiniteSet, IsFiniteSet
<1>3. \A f, S : Xors!Fold(f, S) = XorOn(f, S)
  BY DEF XorOn, FoldFunctionOnSet, MapThenFoldSet,
         Xors!Fold, Xors!FoldFunctionOnSet, Xors!MapThenFoldSet
<1>4. \A f : Xor(f) = XorOn(f, DOMAIN f)
  BY DEF Xor, XorOn, FoldFunction
<1> QED BY <1>1, <1>2, <1>3, <1>4

LEMMA SetInduct ==
  ASSUME NEW S, IsFiniteSet(S), NEW G, {} \in G,
         \A s \in SUBSET S, x \in S : s \in G /\ x \notin s => s \cup {x} \in G
  PROVE  S \in G
<1>1. Xors!IsFiniteSet(S)
  BY XorMonoid
<1> QED BY <1>1, Xors!SetInduct

LEMMA XorElement ==
  ASSUME NEW S, IsFiniteSet(S), NEW f, \A x \in S : f[x] \in Bits
  PROVE  /\ XorOn(f, {}) = {} /\ XorOn(f, S) \in Bits
         /\ \A x \in S : XorOn(f, S) = SymDiff(f[x], XorOn(f, S \ {x}))
<1>1. Xors!IsFiniteSet(S) /\ Xors!Monoid
  BY XorMonoid
<1>2. Xors!Fold(f, {}) = {}
  BY Xors!FoldEmpty
<1>3. Xors!Fold(f, S) \in Bits
  BY <1>1, Xors!FoldType
<1>4. ASSUME NEW x \in S PROVE Xors!Fold(f, S) = SymDiff(f[x], Xors!Fold(f, S \ {x}))
  BY <1>1, Xors!FoldElement
<1> QED BY <1>2, <1>3, <1>4, XorMonoid

LEMMA XorSame ==
  ASSUME NEW S, IsFiniteSet(S), NEW f, NEW g, \A x \in S : f[x] = g[x]
  PROVE  XorOn(f, S) = XorOn(g, S)
<1>1. Xors!IsFiniteSet(S)
  BY XorMonoid
<1>2. Xors!Fold(f, S) = Xors!Fold(g, S)
  BY <1>1, Xors!FoldSame
<1> QED BY <1>2, XorMonoid

LEMMA XorChange ==
  ASSUME NEW S, IsFiniteSet(S), NEW f, NEW g, \A y \in S : g[y] \in Bits,
         NEW x \in S, NEW v \in Bits, f[x] = SymDiff(v, g[x]), \A y \in S \ {x} : f[y] = g[y]
  PROVE  XorOn(f, S) = SymDiff(v, XorOn(g, S))
<1>1. Xors!IsFiniteSet(S) /\ Xors!Monoid /\ Xors!Associative
  BY XorMonoid
<1>2. Xors!Fold(f, S) = SymDiff(v, Xors!Fold(g, S))
  BY <1>1, Xors!FoldChange
<1> QED BY <1>2, XorMonoid

LEMMA XorMerge ==
  ASSUME NEW S, IsFiniteSet(S), NEW f, NEW g, NEW h,
         \A x \in S : f[x] \in Bits /\ g[x] \in Bits /\ h[x] = SymDiff(f[x], g[x])
  PROVE  XorOn(h, S) = SymDiff(XorOn(f, S), XorOn(g, S))
<1>1. Xors!IsFiniteSet(S) /\ Xors!Monoid /\ Xors!Associative /\ SymDiff({}, {}) = {}
  BY XorMonoid, XorLaws
<1>2. Xors!Fold(h, S) = SymDiff(Xors!Fold(f, S), Xors!Fold(g, S))
  BY <1>1, Xors!FoldMerge
<1> QED BY <1>2, XorMonoid

LEMMA XorInto ==
  ASSUME NEW S, IsFiniteSet(S), NEW f, NEW U \in SUBSET Nat,
         \A x \in S : f[x] \in Bits /\ f[x] \subseteq U
  PROVE  XorOn(f, S) \subseteq U
<1> DEFINE G == {s \in SUBSET S : XorOn(f, s) \subseteq U}
<1>1. {} \in G
  BY XorElement, FS_EmptySet
<1>2. ASSUME NEW s \in SUBSET S, NEW x \in S, s \in G, x \notin s PROVE s \cup {x} \in G
  <2> DEFINE t == s \cup {x}
  <2>1. IsFiniteSet(t) /\ \A y \in t : f[y] \in Bits
    BY FS_Subset
  <2>2. t \ {x} = s /\ x \in t
    BY <1>2
  <2> HIDE DEF t
  <2>3. XorOn(f, t) = SymDiff(f[x], XorOn(f, s))
    BY <2>1, <2>2, XorElement
  <2>4. XorOn(f, s) \subseteq U /\ f[x] \subseteq U
    BY <1>2
  <2>5. XorOn(f, t) \subseteq U
    BY <2>3, <2>4 DEF SymDiff
  <2> QED BY <1>2, <2>5 DEF t
<1> HIDE DEF G
<1>3. S \in G
  BY <1>1, <1>2, SetInduct
<1> QED BY <1>3 DEF G

\* One element more in the set, or one fewer.
LEMMA XorDomain ==
  ASSUME NEW S, IsFiniteSet(S), NEW x, NEW f, \A y \in S \cup {x} : f[y] \in Bits
  PROVE  /\ IsFiniteSet(SymDiff(S, {x}))
         /\ XorOn(f, SymDiff(S, {x})) = SymDiff(f[x], XorOn(f, S))
<1>1. CASE x \in S
  <2>1. SymDiff(S, {x}) = S \ {x}
    BY <1>1 DEF SymDiff
  <2>2. XorOn(f, S) = SymDiff(f[x], XorOn(f, S \ {x}))
    BY <1>1, XorElement
  <2>3. IsFiniteSet(S \ {x})
    BY FS_Subset
  <2>4. SymDiff(f[x], SymDiff(f[x], XorOn(f, S \ {x}))) = XorOn(f, S \ {x})
    BY DEF SymDiff
  <2>5. SymDiff(f[x], XorOn(f, S)) = XorOn(f, S \ {x})
    BY <2>2, <2>4
  <2> QED BY <2>1, <2>3, <2>5
<1>2. CASE x \notin S
  <2>1. SymDiff(S, {x}) = S \cup {x} /\ (S \cup {x}) \ {x} = S
    BY <1>2 DEF SymDiff
  <2>2. IsFiniteSet(S \cup {x})
    BY FS_AddElement
  <2>3. XorOn(f, S \cup {x}) = SymDiff(f[x], XorOn(f, (S \cup {x}) \ {x}))
    BY <2>2, XorElement
  <2> QED BY <2>1, <2>2, <2>3
<1> QED BY <1>1, <1>2

\* The exclusive or over both of two sets, without what is in both.
LEMMA XorDomains ==
  ASSUME NEW A, IsFiniteSet(A), NEW B, IsFiniteSet(B), NEW f, \A y \in A \cup B : f[y] \in Bits
  PROVE  XorOn(f, SymDiff(A, B)) = SymDiff(XorOn(f, A), XorOn(f, B))
<1> DEFINE G == {s \in SUBSET A : XorOn(f, SymDiff(s, B)) = SymDiff(XorOn(f, s), XorOn(f, B))}
<1>1. {} \in G
  <2>1. SymDiff({}, B) = B /\ SymDiff({}, XorOn(f, B)) = XorOn(f, B)
    BY XorLaws
  <2>2. XorOn(f, {}) = {}
    BY XorElement
  <2> QED BY <2>1, <2>2
<1>2. ASSUME NEW s \in SUBSET A, NEW x \in A, s \in G, x \notin s PROVE s \cup {x} \in G
  <2> DEFINE t == s \cup {x}
             R == SymDiff(s, B)
  <2>1. SymDiff(t, B) = SymDiff(R, {x}) /\ t = SymDiff(s, {x})
    BY <1>2 DEF SymDiff
  <2>2. IsFiniteSet(R) /\ R \cup {x} \subseteq A \cup B
    <3>1. IsFiniteSet(A \cup B)
      BY FS_Union
    <3>2. R \subseteq A \cup B
      BY DEF SymDiff
    <3>3. IsFiniteSet(R)
      BY <3>1, <3>2, FS_Subset
    <3> QED BY <3>2, <3>3
  <2>3. IsFiniteSet(s) /\ XorOn(f, R) = SymDiff(XorOn(f, s), XorOn(f, B))
    BY <1>2, FS_Subset
  <2> HIDE DEF t, R
  <2>4. XorOn(f, SymDiff(R, {x})) = SymDiff(f[x], XorOn(f, R))
    BY <2>2, XorDomain
  <2>5. XorOn(f, SymDiff(s, {x})) = SymDiff(f[x], XorOn(f, s))
    BY <2>3, XorDomain
  <2>6. XorOn(f, SymDiff(t, B)) = SymDiff(XorOn(f, t), XorOn(f, B))
    BY <2>1, <2>3, <2>4, <2>5, XorLaws
  <2> QED BY <1>2, <2>6 DEF t
<1> HIDE DEF G
<1>3. A \in G
  BY <1>1, <1>2, SetInduct
<1> QED BY <1>3 DEF G

-----------------------------------------------------------------------------
(* Recursive functions over the naturals: those with values in V exist.   *)

LEMMA LeastNat ==
  ASSUME NEW N, N \subseteq Nat, N # {}
  PROVE  \E m \in N : \A n \in N : m <= n
<1>1. IsWellFoundedOn(OpToRel(<, Nat), Nat)
  BY NatLessThanWellFounded
<1>2. \E m \in N : \A y \in N : ~ (<<y, m>> \in OpToRel(<, Nat))
  BY <1>1, WFMin
<1>3. PICK m \in N : \A y \in N : ~ (<<y, m>> \in OpToRel(<, Nat))
  BY <1>2
<1>4. \A y \in N : ~(y < m)
  BY <1>3 DEF OpToRel
<1> QED BY <1>4

LEMMA NatInduct ==
  ASSUME NEW G, 0 \in G, \A n \in Nat : n \in G => n + 1 \in G
  PROVE  \A n \in Nat : n \in G
<1> DEFINE B == {n \in Nat : n \notin G}
<1> SUFFICES ASSUME B # {} PROVE FALSE
  OBVIOUS
<1>1. PICK n \in B : \A j \in B : n <= j
  <2>1. B \subseteq Nat
    OBVIOUS
  <2> HIDE DEF B
  <2> QED BY <2>1, LeastNat
<1>2. n \in Nat /\ n # 0 /\ n \notin G
  OBVIOUS
<1>3. n - 1 \in Nat /\ ~(n <= n - 1) /\ (n - 1) + 1 = n
  BY <1>2
<1>4. n - 1 \in G
  BY <1>1, <1>3
<1> QED BY <1>2, <1>3, <1>4

\* f is the first n steps of the function.
Part(n, f, V, base, step) ==
  /\ f \in [0..n -> V] /\ f[0] = base
  /\ \A i \in 0..(n - 1) : f[i + 1] = step[<<i, f[i]>>]

LEMMA PartsAgree ==
  ASSUME NEW V, NEW base \in V, NEW step \in [Nat \X V -> V], NEW n \in Nat, NEW m \in Nat, n <= m,
         NEW f, NEW g, Part(n, f, V, base, step), Part(m, g, V, base, step)
  PROVE  \A i \in 0..n : f[i] = g[i]
<1> DEFINE B == {i \in 0..n : f[i] # g[i]}
<1> SUFFICES ASSUME B # {} PROVE FALSE
  OBVIOUS
<1>1. PICK i \in B : \A j \in B : i <= j
  <2>1. B \subseteq Nat
    OBVIOUS
  <2> HIDE DEF B
  <2> QED BY <2>1, LeastNat
<1>2. i \in 0..n /\ f[i] # g[i]
  OBVIOUS
<1>3. i # 0
  BY <1>2 DEF Part
<1>4. i - 1 \in 0..(n - 1) /\ i - 1 \in 0..(m - 1) /\ i - 1 \in 0..n /\ (i - 1) + 1 = i
  BY <1>2, <1>3
<1>5. f[i - 1] = g[i - 1]
  BY <1>1, <1>4
<1>6. f[i] = step[<<i - 1, f[i - 1]>>] /\ g[i] = step[<<i - 1, g[i - 1]>>]
  <2>1. f[(i - 1) + 1] = step[<<i - 1, f[i - 1]>>] /\ g[(i - 1) + 1] = step[<<i - 1, g[i - 1]>>]
    BY <1>4 DEF Part
  <2> QED BY <1>4, <2>1
<1> QED BY <1>2, <1>5, <1>6

LEMMA PartExists ==
  ASSUME NEW V, NEW base \in V, NEW step \in [Nat \X V -> V], NEW n \in Nat
  PROVE  \E f : Part(n, f, V, base, step)
<1> DEFINE B == {k \in Nat : ~ \E f : Part(k, f, V, base, step)}
<1> SUFFICES ASSUME B # {} PROVE FALSE
  OBVIOUS
<1>1. PICK k \in B : \A j \in B : k <= j
  <2>1. B \subseteq Nat
    OBVIOUS
  <2> HIDE DEF B
  <2> QED BY <2>1, LeastNat
<1>2. k # 0
  <2> DEFINE f == [i \in 0..0 |-> base]
  <2>1. Part(0, f, V, base, step)
    BY DEF Part
  <2> QED BY <2>1
<1>3. k - 1 \in Nat /\ k - 1 \notin B /\ k \in Nat
  BY <1>1, <1>2
<1>4. PICK f : Part(k - 1, f, V, base, step)
  BY <1>3
<1> DEFINE v == step[<<k - 1, f[k - 1]>>]
           g == [i \in 0..k |-> IF i = k THEN v ELSE f[i]]
<1>5. f \in [0..(k - 1) -> V] /\ f[0] = base /\ \A i \in 0..((k - 1) - 1) : f[i + 1] = step[<<i, f[i]>>]
  BY <1>4 DEF Part
<1>6. v \in V
  <2>1. f[k - 1] \in V
    BY <1>3, <1>5
  <2>2. <<k - 1, f[k - 1]>> \in Nat \X V
    BY <1>3, <2>1
  <2> QED BY <2>2
<1>7. g \in [0..k -> V]
  <2> SUFFICES ASSUME NEW i \in 0..k PROVE (IF i = k THEN v ELSE f[i]) \in V
    OBVIOUS
  <2>1. i # k => i \in 0..(k - 1)
    BY <1>3
  <2> HIDE DEF v
  <2> QED BY <1>5, <1>6, <2>1
<1>8. \A i \in 0..(k - 1) : i \in 0..k /\ i # k /\ g[i] = f[i]
  BY <1>3
<1>9. g[k] = v /\ g[0] = base
  BY <1>2, <1>3, <1>5
<1> HIDE DEF g
<1>10. ASSUME NEW i \in 0..(k - 1) PROVE g[i + 1] = step[<<i, g[i]>>]
  <2>1. CASE i = k - 1
    <3>1. i + 1 = k
      BY <1>3, <2>1
    <3> QED BY <1>8, <1>9, <2>1, <3>1
  <2>2. CASE i # k - 1
    <3>1. i \in 0..((k - 1) - 1) /\ i + 1 \in 0..(k - 1)
      BY <1>3, <2>2
    <3> QED BY <1>5, <1>8, <3>1
  <2> QED BY <2>1, <2>2
<1>11. Part(k, g, V, base, step)
  BY <1>7, <1>9, <1>10 DEF Part
<1> QED BY <1>1, <1>11

\* f is base, and then the step from its value before.
Iterates(f, base, step) == f[0] = base /\ \A n \in Nat : f[n + 1] = step[<<n, f[n]>>]

LEMMA RecursiveFunction ==
  ASSUME NEW V, NEW base \in V, NEW step \in [Nat \X V -> V]
  PROVE  \E f \in [Nat -> V] : Iterates(f, base, step)
<1> DEFINE P(n) == CHOOSE g : Part(n, g, V, base, step)
           f == [n \in Nat |-> P(n)[n]]
<1>1. \A n \in Nat : Part(n, P(n), V, base, step)
  BY PartExists
<1> HIDE DEF P
<1>2. ASSUME NEW n \in Nat PROVE f[n] \in V /\ f[n + 1] = step[<<n, f[n]>>]
  <2>1. Part(n, P(n), V, base, step) /\ Part(n + 1, P(n + 1), V, base, step)
    BY <1>1
  <2>2. P(n)[n] = P(n + 1)[n]
    <3>1. n <= n + 1 /\ n + 1 \in Nat /\ n \in 0..n
      OBVIOUS
    <3> QED BY <2>1, <3>1, PartsAgree
  <2>3. P(n + 1)[n + 1] = step[<<n, P(n + 1)[n]>>]
    BY <2>1 DEF Part
  <2>4. P(n)[n] \in V
    BY <2>1 DEF Part
  <2>5. f[n] = P(n)[n] /\ f[n + 1] = P(n + 1)[n + 1]
    OBVIOUS
  <2> QED BY <2>2, <2>3, <2>4, <2>5
<1>3. f[0] = base
  <2>1. Part(0, P(0), V, base, step)
    BY <1>1
  <2> QED BY <2>1 DEF Part
<1>4. f \in [Nat -> V]
  BY <1>2
<1> HIDE DEF f
<1> QED BY <1>2, <1>3, <1>4 DEF Iterates

-----------------------------------------------------------------------------
(* The sizes, and the powers of X.                                         *)

\* What FieldAssumption says of the sizes, multiplied out.
LEMMA FieldSizes ==
  /\ W \in Nat /\ W >= 1 /\ T \in Nat /\ T >= 2 /\ OT_SECURITY \in Nat /\ OT_SECURITY >= 2
  /\ W * T \in Nat /\ W * T = W * (T - 1) + W
  /\ W * (T - 1) \in Nat /\ W <= W * (T - 1) /\ W * (T - 1) < OT_SECURITY /\ OT_SECURITY < W * T
  /\ \A e \in LowExponents :
       /\ e \in Nat /\ W * T - OT_SECURITY + e <= W /\ e < OT_SECURITY
  /\ LowExponents \in Bits /\ FieldElement \subseteq Bits
  /\ LowExponents \in FieldElement
<1>0. OT_SECURITY \in Nat
  BY FieldAssumption
<1>1. W \in Nat /\ W >= 1 /\ T \in Nat /\ T >= 2 /\ OT_SECURITY \in Nat
      /\ W * (T - 1) < OT_SECURITY /\ OT_SECURITY < W * T
  BY FieldAssumption
<1>2. W * T \in Nat /\ W * T = W * (T - 1) + W /\ W * (T - 1) \in Nat /\ W <= W * (T - 1)
  <2>1. PICK k \in Nat : T = k + 2
    <3>1. T - 2 \in Nat /\ T = (T - 2) + 2
      BY <1>1
    <3> QED BY <3>1
  <2>2. W * T = W * k + W + W /\ W * (T - 1) = W * k + W /\ W * k \in Nat
    BY <1>1, <2>1
  <2> QED BY <1>1, <2>2
<1>3. OT_SECURITY >= 2
  BY <1>1, <1>2
<1>4. \A e \in LowExponents : e \in Nat /\ W * T - OT_SECURITY + e <= W /\ e < OT_SECURITY
  <2> DEFINE m == W * T
             n == W * (T - 1)
  <2>1. \A e \in LowExponents : e \in Nat /\ m - OT_SECURITY + e <= W
    BY FieldAssumption
  <2>2. m \in Nat /\ n \in Nat /\ m = n + W /\ W <= n /\ n < OT_SECURITY
    BY <1>1, <1>2
  <2> HIDE DEF m, n
  <2>3. \A e \in LowExponents : e < OT_SECURITY
    BY <1>1, <2>1, <2>2
  <2> QED BY <2>1, <2>3 DEF m
<1>5. \A c \in FieldElement : c \in Bits
  <2> SUFFICES ASSUME NEW c \in FieldElement PROVE c \in Bits
    OBVIOUS
  <2>1. c \subseteq 0..(OT_SECURITY - 1) /\ IsFiniteSet(0..(OT_SECURITY - 1))
    BY <1>0, FS_Interval DEF FieldElement
  <2>2. IsFiniteSet(c)
    BY <2>1, FS_Subset
  <2>3. c \subseteq Nat
    BY <2>1, <1>0
  <2> QED BY <2>2, <2>3 DEF Bits
<1>6. LowExponents \in FieldElement
  <2>1. \A e \in LowExponents : e \in Nat /\ e < OT_SECURITY
    BY <1>4
  <2> QED BY <1>0, <2>1 DEF FieldElement
<1>7. FieldElement \subseteq Bits
  BY <1>5
<1> QED BY <1>1, <1>2, <1>3, <1>4, <1>5, <1>6, <1>7

\* The part of it that has no product in it.
LEMMA Degree ==
  /\ OT_SECURITY \in Nat /\ OT_SECURITY >= 2
  /\ \A e \in LowExponents : e \in Nat /\ e < OT_SECURITY
  /\ LowExponents \in FieldElement /\ LowExponents \in Bits
  /\ \A c \in FieldElement : c \in Bits
BY FieldSizes

\* c times X, reduced.
TimesX(c) ==
  LET next == Shift(c, 1)
  IN  IF OT_SECURITY \in next THEN SymDiff(next \ {OT_SECURITY}, LowExponents) ELSE next

LEMMA TimesXType == ASSUME NEW c \in FieldElement PROVE TimesX(c) \in FieldElement
<1>1. \A x \in Shift(c, 1) : x \in Nat /\ x <= OT_SECURITY
  <2> SUFFICES ASSUME NEW x \in c PROVE x + 1 \in Nat /\ x + 1 <= OT_SECURITY
    BY DEF Shift
  <2> QED BY Degree DEF FieldElement
<1>2. \A x \in TimesX(c) : x \in LowExponents \/ (x \in Shift(c, 1) /\ x # OT_SECURITY)
  BY DEF TimesX, SymDiff
<1>3. \A x \in TimesX(c) : x \in Nat /\ x < OT_SECURITY
  BY <1>1, <1>2, Degree
<1>4. \A x \in TimesX(c) : x \in 0..(OT_SECURITY - 1)
  BY <1>3, Degree
<1> QED BY <1>4 DEF FieldElement

\* A power of X is the one before, times X.
LEMMA PowerFacts ==
  /\ \A n \in Nat : PowerOfX[n] \in FieldElement /\ PowerOfX[n + 1] = TimesX(PowerOfX[n])
  /\ \A n \in 0..(OT_SECURITY - 1) : PowerOfX[n] = {n}
<1> DEFINE step == [x \in Nat \X FieldElement |->
                     IF x[1] + 1 < OT_SECURITY THEN {x[1] + 1} ELSE TimesX(x[2])]
           Value(g, n) == IF n < OT_SECURITY THEN {n} ELSE TimesX(g[n - 1])
<1>1. {0} \in FieldElement /\ \A n \in Nat : n < OT_SECURITY => {n} \in FieldElement
  BY Degree DEF FieldElement
<1>2. step \in [Nat \X FieldElement -> FieldElement]
  <2> SUFFICES ASSUME NEW x \in Nat \X FieldElement
               PROVE  (IF x[1] + 1 < OT_SECURITY THEN {x[1] + 1} ELSE TimesX(x[2])) \in FieldElement
    OBVIOUS
  <2>1. x[1] + 1 \in Nat /\ x[2] \in FieldElement
    OBVIOUS
  <2> QED BY <1>1, <2>1, TimesXType
<1>3. PICK f \in [Nat -> FieldElement] : f[0] = {0} /\ \A n \in Nat : f[n + 1] = step[<<n, f[n]>>]
  <2> HIDE DEF step
  <2>1. PICK f \in [Nat -> FieldElement] : Iterates(f, {0}, step)
    BY <1>1, <1>2, RecursiveFunction
  <2> QED BY <2>1 DEF Iterates
<1>4. \A n \in Nat : f[n] = Value(f, n)
  <2> SUFFICES ASSUME NEW n \in Nat, n # 0 PROVE f[n] = Value(f, n)
    BY <1>3, Degree
  <2>1. n - 1 \in Nat /\ (n - 1) + 1 = n
    OBVIOUS
  <2>2. f[(n - 1) + 1] = step[<<n - 1, f[n - 1]>>] /\ f[n - 1] \in FieldElement
    BY <1>3, <2>1
  <2>3. step[<<n - 1, f[n - 1]>>] = IF (n - 1) + 1 < OT_SECURITY THEN {(n - 1) + 1} ELSE TimesX(f[n - 1])
    BY <2>1, <2>2
  <2> HIDE DEF step
  <2> QED BY <2>1, <2>2, <2>3
<1>5. f = [n \in Nat |-> Value(f, n)]
  <2> HIDE DEF Value
  <2> QED BY <1>3, <1>4
<1>6. PowerOfX = [n \in Nat |-> Value(PowerOfX, n)]
  <2>1. PowerOfX = CHOOSE g : g = [n \in Nat |-> Value(g, n)]
    BY DEF PowerOfX, TimesX
  <2> HIDE DEF Value
  <2> QED BY <1>5, <2>1
<1>7. \A n \in Nat : PowerOfX[n] = Value(PowerOfX, n)
  <2> HIDE DEF Value
  <2> QED BY <1>6
<1>8. \A n \in Nat : PowerOfX[n + 1] = TimesX(PowerOfX[n])
  <2> SUFFICES ASSUME NEW n \in Nat PROVE PowerOfX[n + 1] = TimesX(PowerOfX[n])
    OBVIOUS
  <2> DEFINE m == n + 1
  <2>0. m \in Nat /\ m - 1 = n
    OBVIOUS
  <2> HIDE DEF m
  <2>a. PowerOfX[m] = IF m < OT_SECURITY THEN {m} ELSE TimesX(PowerOfX[m - 1])
    BY <1>7, <2>0
  <2>1. PowerOfX[n + 1] = IF n + 1 < OT_SECURITY THEN {n + 1} ELSE TimesX(PowerOfX[n])
    BY <2>0, <2>a DEF m
  <2>2. CASE n + 1 < OT_SECURITY
    <3>0. n < OT_SECURITY
      BY <2>2, Degree
    <3>1. PowerOfX[n] = {n}
      BY <1>7, <3>0
    <3>2. Shift({n}, 1) = {n + 1}
      BY DEF Shift
    <3>3. OT_SECURITY \notin {n + 1}
      BY <2>2, Degree
    <3> QED BY <2>1, <2>2, <3>1, <3>2, <3>3 DEF TimesX
  <2>3. CASE ~(n + 1 < OT_SECURITY)
    BY <2>1, <2>3
  <2> QED BY <2>2, <2>3
<1>9. \A n \in Nat : PowerOfX[n] \in FieldElement
  <2> DEFINE B == {n \in Nat : PowerOfX[n] \notin FieldElement}
  <2> SUFFICES ASSUME B # {} PROVE FALSE
    OBVIOUS
  <2>1. PICK n \in B : \A j \in B : n <= j
    <3>1. B \subseteq Nat
      OBVIOUS
    <3> HIDE DEF B
    <3> QED BY <3>1, LeastNat
  <2>2. n # 0
    <3>1. 0 < OT_SECURITY /\ 0 \in Nat
      BY Degree
    <3>2. PowerOfX[0] = {0}
      BY <1>7, <3>1
    <3> QED BY <1>1, <3>2
  <2>3. n - 1 \in Nat /\ n - 1 \notin B /\ (n - 1) + 1 = n
    BY <2>1, <2>2
  <2>4. PowerOfX[n - 1] \in FieldElement /\ PowerOfX[n] = TimesX(PowerOfX[n - 1])
    BY <1>8, <2>3
  <2> QED BY <2>4, TimesXType
<1>10. \A n \in 0..(OT_SECURITY - 1) : PowerOfX[n] = {n}
  <2>1. \A n \in 0..(OT_SECURITY - 1) : n \in Nat /\ n < OT_SECURITY
    BY Degree
  <2> QED BY <1>7, <2>1
<1> QED BY <1>8, <1>9, <1>10

-----------------------------------------------------------------------------
(* Shifts.                                                                 *)

LEMMA ShiftFacts ==
  /\ \A c \in Bits, n \in Nat : Shift(c, n) \in Bits
  /\ \A a, b \in Bits, n \in Nat : Shift(SymDiff(a, b), n) = SymDiff(Shift(a, n), Shift(b, n))
  /\ \A c \in Bits, m, n \in Nat : Shift(Shift(c, m), n) = Shift(c, m + n)
  /\ \A x, n \in Nat : Shift({x}, n) = {x + n}
  /\ \A c \in Bits : Shift(c, 0) = c
<1>1. ASSUME NEW c \in Bits, NEW n \in Nat PROVE Shift(c, n) \in Bits
  <2> DEFINE f == [x \in c |-> x + n]
  <2>1. f \in Surjection(c, Shift(c, n))
    <3>1. f \in [c -> Shift(c, n)]
      BY DEF Shift
    <3>2. \A t \in Shift(c, n) : \E x \in c : f[x] = t
      BY DEF Shift
    <3> QED BY <3>1, <3>2 DEF Surjection
  <2>2. IsFiniteSet(c) /\ \A x \in c : x \in Nat
    BY DEF Bits
  <2> HIDE DEF f
  <2>3. IsFiniteSet(Shift(c, n))
    BY <2>1, <2>2, FS_Surjection
  <2>4. Shift(c, n) \subseteq Nat
    BY <2>2 DEF Shift
  <2> QED BY <2>3, <2>4 DEF Bits
<1>2. ASSUME NEW a \in Bits, NEW b \in Bits, NEW n \in Nat
      PROVE  Shift(SymDiff(a, b), n) = SymDiff(Shift(a, n), Shift(b, n))
  <2>1. \A x, y \in a \cup b : x + n = y + n => x = y
    BY DEF Bits
  <2> DEFINE plus(x) == x + n
  <2>2. \A x, y \in a \cup b : plus(x) = plus(y) => x = y
    BY <2>1
  <2>3. \A c : Shift(c, n) = {plus(x) : x \in c}
    BY DEF Shift
  <2> HIDE DEF plus
  <2> QED BY <2>2, <2>3 DEF SymDiff
<1>3. ASSUME NEW c \in Bits, NEW m \in Nat, NEW n \in Nat
      PROVE  Shift(Shift(c, m), n) = Shift(c, m + n)
  <2>1. \A x \in c : (x + m) + n = x + (m + n)
    BY DEF Bits
  <2>2. Shift(Shift(c, m), n) = {(x + m) + n : x \in c}
    BY DEF Shift
  <2> QED BY <2>1, <2>2 DEF Shift
<1>4. \A x, n \in Nat : Shift({x}, n) = {x + n}
  BY DEF Shift
<1>5. ASSUME NEW c \in Bits PROVE Shift(c, 0) = c
  <2>1. \A x \in c : x + 0 = x
    BY DEF Bits
  <2> QED BY <2>1 DEF Shift
<1> QED BY <1>1, <1>2, <1>3, <1>4, <1>5

\* A function of sets that grows as the fold does is the fold.
Grows(F, f, S) ==
  F[{}] = {} /\ \A s \in SUBSET S, x \in S : x \notin s => F[s \cup {x}] = SymDiff(f[x], F[s])
LEMMA XorGrows ==
  ASSUME NEW S, IsFiniteSet(S), NEW f, \A x \in S : f[x] \in Bits,
         NEW F, Grows(F, f, S)
  PROVE  XorOn(f, S) = F[S]
<1> DEFINE G == {s \in SUBSET S : XorOn(f, s) = F[s]}
<1>1. {} \in G
  BY XorElement DEF Grows
<1>2. ASSUME NEW s \in SUBSET S, NEW x \in S, s \in G, x \notin s PROVE s \cup {x} \in G
  <2>1. IsFiniteSet(s \cup {x}) /\ (s \cup {x}) \ {x} = s
    BY <1>2, FS_Subset
  <2>2. XorOn(f, s \cup {x}) = SymDiff(f[x], XorOn(f, (s \cup {x}) \ {x}))
    <3> DEFINE t == s \cup {x}
    <3>1. IsFiniteSet(t) /\ x \in t /\ \A y \in t : f[y] \in Bits
      BY <2>1
    <3> HIDE DEF t
    <3>2. XorOn(f, t) = SymDiff(f[x], XorOn(f, t \ {x}))
      BY <3>1, XorElement
    <3> QED BY <3>2 DEF t
  <2>3. F[s \cup {x}] = SymDiff(f[x], F[s])
    BY <1>2 DEF Grows
  <2> QED BY <1>2, <2>1, <2>2, <2>3
<1> HIDE DEF G
<1>3. S \in G
  BY <1>1, <1>2, SetInduct
<1> QED BY <1>3 DEF G

LEMMA ShiftType == ASSUME NEW c \in Bits, NEW n \in Nat PROVE Shift(c, n) \in Bits
BY ShiftFacts

LEMMA ShiftAdds ==
  ASSUME NEW a \in Bits, NEW b \in Bits, NEW n \in Nat
  PROVE  Shift(SymDiff(a, b), n) = SymDiff(Shift(a, n), Shift(b, n))
BY ShiftFacts

\* A string of bits is the exclusive or of its bits.
LEMMA XorSingles ==
  ASSUME NEW S \in Bits, NEW n \in Nat
  PROVE  XorOn([e \in S |-> {e + n}], S) = Shift(S, n)
<1> DEFINE f == [e \in S |-> {e + n}]
           F == [s \in SUBSET S |-> Shift(s, n)]
<1>f. IsFiniteSet(S)
  BY DEF Bits
<1>0. \A x \in S : x \in Nat
  BY DEF Bits
<1>1. ASSUME NEW x \in S PROVE f[x] \in Bits
  <2>1. IsFiniteSet({x + n})
    BY FS_Singleton
  <2>2. x + n \in Nat
    BY <1>0
  <2> QED BY <2>1, <2>2 DEF Bits
<1>2. F[{}] = {}
  BY DEF Shift
<1>3. ASSUME NEW s \in SUBSET S, NEW x \in S, x \notin s
      PROVE  F[s \cup {x}] = SymDiff(f[x], F[s])
  <2>1. \A y \in s : y + n # x + n
    BY <1>0, <1>3
  <2>2. Shift(s \cup {x}, n) = Shift(s, n) \cup {x + n} /\ x + n \notin Shift(s, n)
    BY <2>1 DEF Shift
  <2>3. Shift(s \cup {x}, n) = SymDiff({x + n}, Shift(s, n))
    BY <2>2 DEF SymDiff
  <2> QED BY <2>3
<1> HIDE DEF F, f
<1>4. Grows(F, f, S)
  BY <1>2, <1>3 DEF Grows
<1>5. XorOn(f, S) = F[S]
  BY <1>f, <1>1, <1>4, XorGrows
<1> QED BY <1>5 DEF F, f

-----------------------------------------------------------------------------
(* What a string of bits is modulo f.                                      *)

Red(c) == XorOn(PowerOfX, c)

LEMMA RedFacts ==
  /\ Red({}) = {}
  /\ \A c \in Bits : Red(c) \in FieldElement
  /\ \A a, b \in Bits : Red(SymDiff(a, b)) = SymDiff(Red(a), Red(b))
  /\ \A n \in Nat : {n} \in Bits /\ Red({n}) = PowerOfX[n]
  /\ \A c \in FieldElement : Red(c) = c
<1>1. \A n \in Nat : PowerOfX[n] \in Bits /\ PowerOfX[n] \subseteq 0..(OT_SECURITY - 1)
  BY PowerFacts, Degree DEF FieldElement
<1>2. Red({}) = {}
  BY XorElement, FS_EmptySet DEF Red
<1>3. ASSUME NEW c \in Bits PROVE Red(c) \in FieldElement
  <2>1. IsFiniteSet(c) /\ c \subseteq Nat /\ 0..(OT_SECURITY - 1) \in SUBSET Nat
    BY Degree DEF Bits
  <2>2. Red(c) \subseteq 0..(OT_SECURITY - 1)
    BY <1>1, <2>1, XorInto DEF Red
  <2> QED BY <2>2 DEF FieldElement
<1>4. ASSUME NEW a \in Bits, NEW b \in Bits PROVE Red(SymDiff(a, b)) = SymDiff(Red(a), Red(b))
  <2>1. IsFiniteSet(a) /\ IsFiniteSet(b) /\ \A y \in a \cup b : PowerOfX[y] \in Bits
    BY <1>1 DEF Bits
  <2> QED BY <2>1, XorDomains DEF Red
<1>5. ASSUME NEW n \in Nat PROVE {n} \in Bits /\ Red({n}) = PowerOfX[n]
  <2>1. IsFiniteSet({n})
    BY FS_Singleton
  <2>2. XorOn(PowerOfX, {n}) = SymDiff(PowerOfX[n], XorOn(PowerOfX, {n} \ {n})) /\ XorOn(PowerOfX, {}) = {}
    BY <1>1, <2>1, XorElement
  <2>3. {n} \ {n} = {}
    OBVIOUS
  <2>4. SymDiff(PowerOfX[n], {}) = PowerOfX[n]
    BY XorLaws
  <2>5. Red({n}) = PowerOfX[n]
    BY <2>2, <2>3, <2>4 DEF Red
  <2> QED BY <2>1, <2>5 DEF Bits
<1>6. ASSUME NEW c \in FieldElement PROVE Red(c) = c
  <2>1. c \in Bits
    BY Degree
  <2>2. \A e \in c : e \in 0..(OT_SECURITY - 1) /\ e + 0 = e
    BY Degree DEF FieldElement
  <2>3. \A e \in c : PowerOfX[e] = {e + 0}
    BY <2>2, PowerFacts
  <2> DEFINE f == [e \in c |-> {e + 0}]
  <2>4. XorOn(f, c) = Shift(c, 0)
    BY <2>1, XorSingles
  <2>5. \A e \in c : f[e] = PowerOfX[e]
    BY <2>3
  <2>6. IsFiniteSet(c)
    BY <2>1 DEF Bits
  <2> HIDE DEF f
  <2>7. XorOn(f, c) = XorOn(PowerOfX, c)
    BY <2>5, <2>6, XorSame
  <2> QED BY <2>1, <2>4, <2>7, ShiftFacts DEF Red
<1> QED BY <1>2, <1>3, <1>4, <1>5, <1>6

\* Multiplication by X distributes, and so commutes with the reduction.
LEMMA TimesXLinear ==
  /\ TimesX({}) = {}
  /\ \A a, b \in FieldElement : TimesX(SymDiff(a, b)) = SymDiff(TimesX(a), TimesX(b))
<1> DEFINE low == SymDiff({OT_SECURITY}, LowExponents)
           top == OT_SECURITY - 1
<1>1. ASSUME NEW c \in FieldElement
      PROVE  /\ top \in c => TimesX(c) = SymDiff(Shift(c, 1), low)
             /\ top \notin c => TimesX(c) = Shift(c, 1)
  <2>1. OT_SECURITY \in Shift(c, 1) <=> top \in c
    <3>1. \A x \in c : x \in Nat
      BY Degree DEF FieldElement
    <3>2. \A x \in c : OT_SECURITY = x + 1 <=> x = top
      BY <3>1, Degree
    <3> QED BY <3>2 DEF Shift
  <2>2. CASE top \in c
    <3>1. OT_SECURITY \in Shift(c, 1)
      BY <2>1, <2>2
    <3>2. SymDiff(Shift(c, 1) \ {OT_SECURITY}, LowExponents) = SymDiff(Shift(c, 1), low)
      BY <3>1 DEF SymDiff
    <3> QED BY <2>2, <3>1, <3>2 DEF TimesX
  <2>3. CASE top \notin c
    BY <2>1, <2>3 DEF TimesX
  <2> QED BY <2>2, <2>3
<1>2. ASSUME NEW a \in FieldElement, NEW b \in FieldElement
      PROVE  TimesX(SymDiff(a, b)) = SymDiff(TimesX(a), TimesX(b))
  <2>1. SymDiff(a, b) \in FieldElement
    BY DEF FieldElement, SymDiff
  <2>2. top \in SymDiff(a, b) <=> ~(top \in a <=> top \in b)
    BY DEF SymDiff
  <2>3. Shift(SymDiff(a, b), 1) = SymDiff(Shift(a, 1), Shift(b, 1))
    <3>1. a \in Bits /\ b \in Bits /\ 1 \in Nat
      BY Degree
    <3> QED BY <3>1, ShiftFacts
  <2> HIDE DEF low, top
  <2>4. \A x, y, z : /\ SymDiff(SymDiff(x, z), y) = SymDiff(SymDiff(x, y), z)
                     /\ SymDiff(x, SymDiff(y, z)) = SymDiff(SymDiff(x, y), z)
                     /\ SymDiff(SymDiff(x, z), SymDiff(y, z)) = SymDiff(x, y)
    BY DEF SymDiff
  <2> QED BY <1>1, <2>1, <2>2, <2>3, <2>4
<1>3. TimesX({}) = {}
  BY DEF TimesX, Shift
<1> QED BY <1>2, <1>3

LEMMA RedShift == ASSUME NEW c \in Bits PROVE Red(Shift(c, 1)) = TimesX(Red(c))
<1> DEFINE G == {s \in Bits : Red(Shift(s, 1)) = TimesX(Red(s))}
<1>0. IsFiniteSet(c) /\ c \subseteq Nat
  BY DEF Bits
<1>1. {} \in G
  <2>1. Shift({}, 1) = {}
    BY DEF Shift
  <2> QED BY <2>1, RedFacts, TimesXLinear, BitsAdd
<1>2. ASSUME NEW s \in SUBSET c, NEW x \in c, s \in G, x \notin s PROVE s \cup {x} \in G
  <2>1. s \cup {x} = SymDiff({x}, s)
    BY <1>2 DEF SymDiff
  <2>2. x \in Nat /\ s \in Bits /\ {x} \in Bits /\ Red(Shift(s, 1)) = TimesX(Red(s))
    BY <1>0, <1>2, RedFacts
  <2> DEFINE y == x + 1
  <2>3. Shift({x}, 1) = {y} /\ y \in Nat
    BY <2>2 DEF Shift
  <2> HIDE DEF y
  <2>4. Shift(SymDiff({x}, s), 1) = SymDiff({y}, Shift(s, 1))
    <3>1. 1 \in Nat
      OBVIOUS
    <3> QED BY <2>2, <2>3, <3>1, ShiftAdds
  <2>5. Shift(s, 1) \in Bits
    BY <2>2, ShiftFacts
  <2>6. Red(SymDiff({y}, Shift(s, 1))) = SymDiff(PowerOfX[y], Red(Shift(s, 1)))
    <3>1. {y} \in Bits /\ Red({y}) = PowerOfX[y]
      BY <2>3, RedFacts
    <3> QED BY <3>1, <2>5, RedFacts
  <2>7. Red(SymDiff({x}, s)) = SymDiff(PowerOfX[x], Red(s))
    BY <2>2, RedFacts
  <2>8. PowerOfX[y] = TimesX(PowerOfX[x]) /\ PowerOfX[x] \in FieldElement /\ Red(s) \in FieldElement
    BY <2>2, PowerFacts, RedFacts DEF y
  <2>9. TimesX(SymDiff(PowerOfX[x], Red(s))) = SymDiff(TimesX(PowerOfX[x]), TimesX(Red(s)))
    BY <2>8, TimesXLinear
  <2>10. s \cup {x} \in Bits
    BY <2>1, <2>2, BitsAdd
  <2> QED BY <2>1, <2>2, <2>4, <2>6, <2>7, <2>8, <2>9, <2>10
<1> HIDE DEF G
<1>3. c \in G
  BY <1>0, <1>1, <1>2, SetInduct
<1> QED BY <1>3 DEF G

LEMMA RedShiftSame ==
  ASSUME NEW a \in Bits, NEW b \in Bits, Red(a) = Red(b)
  PROVE  \A n \in Nat : Red(Shift(a, n)) = Red(Shift(b, n))
<1> DEFINE G == {n \in Nat : Red(Shift(a, n)) = Red(Shift(b, n))}
<1>1. 0 \in G
  BY ShiftFacts
<1>2. ASSUME NEW n \in Nat, n \in G PROVE n + 1 \in G
  <2>1. Shift(Shift(a, n), 1) = Shift(a, n + 1) /\ Shift(Shift(b, n), 1) = Shift(b, n + 1)
        /\ Shift(a, n) \in Bits /\ Shift(b, n) \in Bits
    BY ShiftFacts
  <2>2. Red(Shift(Shift(a, n), 1)) = Red(Shift(Shift(b, n), 1))
    BY <1>2, <2>1, RedShift
  <2> QED BY <2>1, <2>2
<1>3. \A n \in Nat : n \in G
  <2> HIDE DEF G
  <2> QED BY <1>1, <1>2, NatInduct
<1> QED BY <1>3

\* X to the degree of f, times X^x, is the rest of f times X^x.
LEMMA RedLeading == ASSUME NEW x \in Nat PROVE Red(Shift({x}, OT_SECURITY)) = Red(Shift(LowExponents, x))
<1>1. {OT_SECURITY} \in Bits /\ Red({OT_SECURITY}) = PowerOfX[OT_SECURITY]
  BY Degree, RedFacts
<1>2. PowerOfX[OT_SECURITY] = LowExponents
  <2> DEFINE n == OT_SECURITY - 1
  <2>1. n \in Nat /\ n \in 0..(OT_SECURITY - 1) /\ n + 1 = OT_SECURITY
    BY Degree
  <2> HIDE DEF n
  <2>2. PowerOfX[OT_SECURITY] = TimesX({n})
    BY <2>1, PowerFacts
  <2>3. Shift({n}, 1) = {OT_SECURITY}
    BY <2>1, ShiftFacts
  <2>4. SymDiff({OT_SECURITY} \ {OT_SECURITY}, LowExponents) = LowExponents
    BY DEF SymDiff
  <2> QED BY <2>2, <2>3, <2>4 DEF TimesX
<1>3. Red({OT_SECURITY}) = Red(LowExponents)
  BY <1>1, <1>2, Degree, RedFacts
<1>4. Red(Shift({OT_SECURITY}, x)) = Red(Shift(LowExponents, x))
  BY <1>1, <1>3, Degree, RedShiftSame
<1>5. Shift({OT_SECURITY}, x) = Shift({x}, OT_SECURITY)
  BY Degree DEF Shift
<1> QED BY <1>4, <1>5

\* TimesLow is multiplication by X to the degree of f, modulo f.
LEMMA TimesLowFacts ==
  ASSUME NEW c \in Bits
  PROVE  TimesLow(c) \in Bits /\ Red(TimesLow(c)) = Red(Shift(c, OT_SECURITY))
<1> DEFINE G == {s \in Bits : Red(TimesLow(s)) = Red(Shift(s, OT_SECURITY))}
           f(s) == [e \in LowExponents |-> Shift(s, e)]
<1>0. IsFiniteSet(c) /\ c \subseteq Nat /\ IsFiniteSet(LowExponents)
      /\ \A e \in LowExponents : e \in Nat
  BY Degree DEF Bits
<1>a. \A s : TimesLow(s) = XorOn(f(s), LowExponents)
  BY XorMonoid DEF TimesLow
<1>b. ASSUME NEW s \in Bits PROVE TimesLow(s) \in Bits
  <2>1. \A e \in LowExponents : f(s)[e] \in Bits
    BY <1>0, ShiftFacts
  <2> HIDE DEF f
  <2> QED BY <1>0, <1>a, <2>1, XorElement
<1>1. {} \in G
  <2>1. \A n : Shift({}, n) = {}
    BY DEF Shift
  <2>2. \A e \in LowExponents : f({})[e] \in Bits /\ f({})[e] \subseteq {}
    BY <2>1, BitsAdd
  <2> HIDE DEF f
  <2>3. XorOn(f({}), LowExponents) \subseteq {}
    BY <1>0, <2>2, XorInto
  <2>4. TimesLow({}) = {}
    BY <1>a, <2>3
  <2> QED BY <2>1, <2>4, BitsAdd
<1>2. ASSUME NEW s \in SUBSET c, NEW x \in c, s \in G, x \notin s PROVE s \cup {x} \in G
  <2>1. s \cup {x} = SymDiff({x}, s)
    BY <1>2 DEF SymDiff
  <2>2. x \in Nat /\ s \in Bits /\ {x} \in Bits /\ Red(TimesLow(s)) = Red(Shift(s, OT_SECURITY))
    BY <1>0, <1>2, RedFacts
  <2> DEFINE g == [e \in LowExponents |-> {e + x}]
             t == s \cup {x}
  <2>3. \A e \in LowExponents : /\ g[e] \in Bits /\ f(s)[e] \in Bits
                                /\ f(t)[e] = SymDiff(g[e], f(s)[e])
    <3> SUFFICES ASSUME NEW e \in LowExponents
                 PROVE  /\ {e + x} \in Bits /\ Shift(s, e) \in Bits
                        /\ Shift(t, e) = SymDiff({e + x}, Shift(s, e))
      OBVIOUS
    <3>0. e \in Nat /\ Shift({x}, e) \in Bits
      BY <1>0, <2>2, ShiftType
    <3>1. Shift({x}, e) = {e + x}
      BY <2>2, <3>0 DEF Shift
    <3>2. Shift(s, e) \in Bits /\ Shift(SymDiff({x}, s), e) = SymDiff(Shift({x}, e), Shift(s, e))
      BY <2>2, <3>0, ShiftAdds, ShiftType
    <3> QED BY <2>1, <3>0, <3>1, <3>2
  <2> HIDE DEF f
  <2>4. XorOn(g, LowExponents) = Shift(LowExponents, x)
    BY <2>2, Degree, XorSingles
  <2> HIDE DEF g, t
  <2>5. XorOn(f(t), LowExponents) = SymDiff(XorOn(g, LowExponents), XorOn(f(s), LowExponents))
    BY <1>0, <2>3, XorMerge
  <2>6. TimesLow(t) = SymDiff(Shift(LowExponents, x), TimesLow(s))
    BY <1>a, <2>4, <2>5
  <2>7. Shift(t, OT_SECURITY) = SymDiff(Shift({x}, OT_SECURITY), Shift(s, OT_SECURITY))
    <3>1. OT_SECURITY \in Nat
      BY Degree
    <3>2. Shift(SymDiff({x}, s), OT_SECURITY) = SymDiff(Shift({x}, OT_SECURITY), Shift(s, OT_SECURITY))
      BY <2>2, <3>1, ShiftAdds
    <3>3. t = SymDiff({x}, s)
      BY <2>1 DEF t
    <3> QED BY <3>2, <3>3
  <2>8. /\ Shift(LowExponents, x) \in Bits /\ TimesLow(s) \in Bits
        /\ Shift({x}, OT_SECURITY) \in Bits /\ Shift(s, OT_SECURITY) \in Bits
    BY <1>b, <2>2, Degree, ShiftFacts
  <2>9. Red(TimesLow(t)) = SymDiff(Red(Shift(LowExponents, x)), Red(TimesLow(s)))
    BY <2>6, <2>8, RedFacts
  <2>10. Red(Shift(t, OT_SECURITY)) = SymDiff(Red(Shift({x}, OT_SECURITY)), Red(Shift(s, OT_SECURITY)))
    BY <2>7, <2>8, RedFacts
  <2>11. t \in Bits
    BY <2>1, <2>2, BitsAdd DEF t
  <2> QED BY <2>2, <2>9, <2>10, <2>11, RedLeading DEF t
<1> HIDE DEF G
<1>3. c \in G
  BY <1>0, <1>1, <1>2, SetInduct
<1> QED BY <1>3, <1>b DEF G

-----------------------------------------------------------------------------
(* The reduction, word by word and of the last partial word.               *)

LEMMA TimesMono == \A d, i, j \in Nat : i < j => d * i + d <= d * j
<1> SUFFICES ASSUME NEW d \in Nat, NEW i \in Nat, NEW j \in Nat, i < j PROVE d * i + d <= d * j
  OBVIOUS
<1> DEFINE k == j - i - 1
<1>1. k \in Nat /\ j = i + 1 + k
  OBVIOUS
<1> HIDE DEF k
<1>2. d * (i + 1 + k) = d * i + d + d * k /\ d * k \in Nat /\ d * i \in Nat
  BY <1>1
<1> QED BY <1>1, <1>2

LEMMA DivIs ==
  ASSUME NEW x \in Nat, NEW i \in Nat, NEW d \in Nat, d >= 1
  PROVE  x \div d = i <=> d * i <= x /\ x < d * i + d
<1> DEFINE q == x \div d
<1>1. q \in Nat /\ d * q <= x /\ x < d * q + d
  OBVIOUS
<1> HIDE DEF q
<1>2. q < i => d * q + d <= d * i
  BY <1>1, TimesMono
<1>3. i < q => d * i + d <= d * q
  BY <1>1, TimesMono
<1>4. d * q \in Nat /\ d * i \in Nat
  BY <1>1
<1>5. q = i \/ q < i \/ i < q
  BY <1>1
<1> DEFINE p == d * q
           r == d * i
<1> HIDE DEF p, r
<1> QED BY <1>1, <1>2, <1>3, <1>4, <1>5 DEF p, r, q

\* The bits of word i, and the rest.
Word(c, i) == {y \in c : y \div W = i}

LEMMA WordFacts ==
  ASSUME NEW c \in Bits, NEW i \in Nat
  PROVE  /\ Word(c, i) \in Bits /\ c \ Word(c, i) \in Bits
         /\ c = SymDiff(c \ Word(c, i), Word(c, i))
         /\ WordOf(c, i) \in Bits /\ \A x \in WordOf(c, i) : x \in Nat /\ x < W
         /\ Word(c, i) = Shift(WordOf(c, i), W * i)
<1>1. IsFiniteSet(c) /\ c \subseteq Nat /\ W \in Nat /\ W >= 1
  BY FieldSizes DEF Bits
<1>2. Word(c, i) \in Bits /\ c \ Word(c, i) \in Bits
  BY <1>1, FS_Subset DEF Bits, Word
<1>3. c = SymDiff(c \ Word(c, i), Word(c, i))
  BY DEF SymDiff, Word
<1> DEFINE n == i * W
<1>4. n \in Nat /\ n = W * i
  BY <1>1
<1>5. \A y \in Word(c, i) : y \in Nat /\ n <= y /\ y < n + W
  BY <1>1, <1>4, DivIs DEF Word
<1>6. WordOf(c, i) = {y - n : y \in Word(c, i)}
  BY DEF WordOf, Word
<1> HIDE DEF n
<1>7. \A x \in WordOf(c, i) : x \in Nat /\ x < W
  BY <1>1, <1>4, <1>5, <1>6
<1>8. IsFiniteSet(WordOf(c, i))
  <2> DEFINE f == [y \in Word(c, i) |-> y - n]
  <2>1. f \in Surjection(Word(c, i), WordOf(c, i))
    <3>1. f \in [Word(c, i) -> WordOf(c, i)]
      BY <1>6
    <3>2. \A t \in WordOf(c, i) : \E y \in Word(c, i) : f[y] = t
      BY <1>6
    <3> QED BY <3>1, <3>2 DEF Surjection
  <2>2. IsFiniteSet(Word(c, i))
    BY <1>2 DEF Bits
  <2> HIDE DEF f
  <2> QED BY <2>1, <2>2, FS_Surjection
<1>9. Word(c, i) = Shift(WordOf(c, i), n)
  <2>1. \A y \in Word(c, i) : (y - n) + n = y
    BY <1>4, <1>5
  <2> QED BY <1>6, <2>1 DEF Shift
<1> QED BY <1>2, <1>3, <1>4, <1>7, <1>8, <1>9 DEF Bits
LEMMA TimesLowInto ==
  ASSUME NEW c \in Bits, NEW U \in SUBSET Nat, \A e \in LowExponents, x \in c : x + e \in U
  PROVE  TimesLow(c) \subseteq U
<1> DEFINE f == [e \in LowExponents |-> Shift(c, e)]
<1>1. \A e \in LowExponents : f[e] \in Bits /\ f[e] \subseteq U
  <2> SUFFICES ASSUME NEW e \in LowExponents PROVE Shift(c, e) \in Bits /\ Shift(c, e) \subseteq U
    OBVIOUS
  <2>1. e \in Nat
    BY Degree
  <2>2. Shift(c, e) \in Bits
    BY <2>1, ShiftType
  <2> QED BY <2>2 DEF Shift
<1>2. TimesLow(c) = XorOn(f, LowExponents)
  BY XorMonoid DEF TimesLow
<1>3. IsFiniteSet(LowExponents)
  BY Degree DEF Bits
<1> HIDE DEF f
<1>4. XorOn(f, LowExponents) \subseteq U
  BY <1>1, <1>3, XorInto
<1> QED BY <1>2, <1>4

\* Folding word i changes nothing modulo f, and leaves what fits the words below it.
LEMMA FoldWordFacts ==
  ASSUME NEW c \in Bits, NEW i \in Nat, T <= i, c \subseteq 0..(W * (i + 1) - 1)
  PROVE  /\ FoldWord(c, i) \in Bits /\ FoldWord(c, i) \subseteq 0..(W * i - 1)
         /\ Red(FoldWord(c, i)) = Red(c)
<1> DEFINE w == WordOf(c, i)
           hi == Word(c, i)
           lo == c \ hi
           m == W * (i - T) + W * T - OT_SECURITY
           n == W * i
           folded == Shift(TimesLow(w), m)
<1>1. /\ hi \in Bits /\ lo \in Bits /\ c = SymDiff(lo, hi)
      /\ w \in Bits /\ hi = Shift(w, n) /\ \A x \in w : x \in Nat /\ x < W
  BY WordFacts
<1>2. n \in Nat /\ m \in Nat /\ OT_SECURITY \in Nat /\ OT_SECURITY + m = n
  <2>1. W * (i - T) + W * T = n /\ n \in Nat /\ W * (i - T) \in Nat
    <3>1. i - T \in Nat /\ W \in Nat /\ T \in Nat
      BY FieldSizes
    <3>2. W * (i - T) \in Nat /\ W * T \in Nat /\ W * ((i - T) + T) = W * (i - T) + W * T
      BY <3>1
    <3>3. (i - T) + T = i
      BY <3>1
    <3> QED BY <3>2, <3>3
  <2>2. OT_SECURITY \in Nat /\ W * T \in Nat /\ OT_SECURITY < W * T
    BY FieldSizes
  <2> DEFINE p == W * (i - T)
             q == W * T
  <2> HIDE DEF n, p, q
  <2>3. m = p + q - OT_SECURITY /\ p \in Nat /\ q \in Nat /\ p + q = n /\ OT_SECURITY < q
    BY <2>1, <2>2 DEF p, q
  <2> HIDE DEF m
  <2> QED BY <2>2, <2>3
<1>3. TimesLow(w) \in Bits /\ Red(TimesLow(w)) = Red(Shift(w, OT_SECURITY))
  BY <1>1, TimesLowFacts
<1>4. folded \in Bits /\ Red(folded) = Red(hi)
  <2>1. Shift(w, OT_SECURITY) \in Bits
    BY <1>1, <1>2, ShiftType
  <2>2. Red(folded) = Red(Shift(Shift(w, OT_SECURITY), m))
    <3> HIDE DEF w, m
    <3> QED BY <1>2, <1>3, <2>1, RedShiftSame
  <2>3. Shift(Shift(w, OT_SECURITY), m) = hi
    <3> HIDE DEF w, m, hi, n
    <3>1. Shift(Shift(w, OT_SECURITY), m) = Shift(w, OT_SECURITY + m)
      <4> HIDE DEF folded
      <4> QED BY <1>1, <1>2, ShiftFacts
    <3> QED BY <1>1, <1>2, <3>1
  <2>4. folded \in Bits
    <3> HIDE DEF w, m
    <3> QED BY <1>2, <1>3, ShiftType
  <2> QED BY <2>2, <2>3, <2>4
<1> HIDE DEF m, w
<1>5. folded \subseteq 0..(n - 1)
  <2>1. TimesLow(w) \subseteq 0..(n - m - 1)
    <3> DEFINE U == 0..(n - m - 1)
    <3>1. ASSUME NEW e \in LowExponents, NEW x \in w PROVE x + e \in U
      <4> DEFINE q == W * T
      <4>1. /\ e \in Nat /\ q - OT_SECURITY + e <= W /\ q \in Nat
            /\ W + W <= q /\ n - m = OT_SECURITY /\ W \in Nat
        BY <1>2, FieldSizes
      <4> HIDE DEF q, n
      <4> QED BY <1>1, <1>2, <4>1
    <3>2. U \in SUBSET Nat
      OBVIOUS
    <3> HIDE DEF U
    <3>3. TimesLow(w) \subseteq U
      BY <1>1, <3>1, <3>2, TimesLowInto
    <3> QED BY <3>3 DEF U
  <2> HIDE DEF n
  <2>2. \A x \in TimesLow(w) : x + m \in 0..(n - 1)
    BY <1>2, <2>1
  <2> QED BY <2>2 DEF Shift
<1>6. \A x \in lo : x \in 0..(n - 1)
  <2> SUFFICES ASSUME NEW x \in c, x \notin hi PROVE x \in 0..(n - 1)
    OBVIOUS
  <2>1. x \in Nat /\ x < n + W
    <3>1. W * (i + 1) = n + W
      BY FieldSizes
    <3> HIDE DEF n
    <3>2. x \in 0..(W * (i + 1) - 1)
      OBVIOUS
    <3> DEFINE p == W * (i + 1)
    <3> HIDE DEF p
    <3>3. W \in Nat /\ x \in 0..(p - 1) /\ p = n + W
      BY <3>1, <3>2, FieldSizes DEF p
    <3> QED BY <1>2, <3>3
  <2>2. ~(n <= x /\ x < n + W)
    <3>1. x \div W # i
      BY DEF Word
    <3> QED BY <2>1, <3>1, DivIs, FieldSizes
  <2> HIDE DEF n
  <2> QED BY <1>2, <2>1, <2>2
<1>7. FoldWord(c, i) = SymDiff(lo, folded)
  <2>1. \A x \in 0..(n - 1) : x \div W # i
    <3> SUFFICES ASSUME NEW x \in 0..(n - 1) PROVE x \div W # i
      OBVIOUS
    <3>1. x \in Nat /\ ~(n <= x)
      <4> HIDE DEF n
      <4> QED BY <1>2
    <3> QED BY <3>1, DivIs, FieldSizes
  <2>2. FoldWord(c, i) = {x \in SymDiff(c, folded) : x \div W # i}
    BY DEF FoldWord, m, w
  <2>3. \A x \in folded : x \div W # i
    BY <1>5, <2>1
  <2> HIDE DEF folded
  <2> QED BY <2>2, <2>3 DEF SymDiff, Word
<1>8. FoldWord(c, i) \subseteq 0..(n - 1)
  <2> HIDE DEF lo, folded, n
  <2> QED BY <1>5, <1>6, <1>7 DEF SymDiff
<1>9. FoldWord(c, i) \in Bits /\ Red(FoldWord(c, i)) = Red(c)
  <2> HIDE DEF lo, hi, folded
  <2> QED BY <1>1, <1>4, <1>7, BitsAdd, RedFacts
<1> QED BY <1>8, <1>9

\* rest is the function FoldWords is defined by.
Rests(rest, c) ==
  rest = [n \in 0..T |-> IF n = 0 THEN c ELSE FoldWord(rest[n - 1], 2 * T - n)]

LEMMA RestFacts ==
  ASSUME NEW c \in Bits, c \subseteq 0..(W * (2 * T) - 1), NEW n \in 0..T, NEW f,
         f[0] = c, \A k \in 1..n : f[k] = FoldWord(f[k - 1], 2 * T - k)
  PROVE  f[n] \in Bits /\ f[n] \subseteq 0..(W * (2 * T - n) - 1) /\ Red(f[n]) = Red(c)
<1> DEFINE G == {k \in Nat : k <= n =>
                   f[k] \in Bits /\ f[k] \subseteq 0..(W * (2 * T - k) - 1) /\ Red(f[k]) = Red(c)}
<1>0. T \in Nat
  BY FieldSizes
<1>1. 0 \in G
  BY <1>0
<1>2. ASSUME NEW k \in Nat, k \in G PROVE k + 1 \in G
  <2> SUFFICES ASSUME k + 1 <= n
               PROVE  /\ f[k + 1] \in Bits /\ f[k + 1] \subseteq 0..(W * (2 * T - (k + 1)) - 1)
                      /\ Red(f[k + 1]) = Red(c)
    OBVIOUS
  <2> DEFINE i == 2 * T - (k + 1)
  <2>1. i \in Nat /\ T <= i /\ i + 1 = 2 * T - k /\ k <= n /\ k + 1 \in 1..n /\ (k + 1) - 1 = k
    BY <1>0
  <2>2. f[k + 1] = FoldWord(f[k], i)
    BY <2>1
  <2>3. f[k] \in Bits /\ f[k] \subseteq 0..(W * (i + 1) - 1) /\ Red(f[k]) = Red(c)
    BY <1>2, <2>1
  <2> HIDE DEF i
  <2>4. /\ FoldWord(f[k], i) \in Bits /\ FoldWord(f[k], i) \subseteq 0..(W * i - 1)
        /\ Red(FoldWord(f[k], i)) = Red(f[k])
    BY <2>1, <2>3, FoldWordFacts
  <2> QED BY <2>2, <2>3, <2>4 DEF i
<1> HIDE DEF G
<1>3. n \in Nat /\ n \in G
  BY <1>0, <1>1, <1>2, NatInduct
<1> QED BY <1>3 DEF G

LEMMA RestExists ==
  ASSUME NEW c \in Bits, c \subseteq 0..(W * (2 * T) - 1)
  PROVE  \E rest : Rests(rest, c)
<1> DEFINE next == [x \in Nat \X Bits |-> LET d == FoldWord(x[2], 2 * T - (x[1] + 1))
                                         IN  IF d \in Bits THEN d ELSE {}]
<1>1. next \in [Nat \X Bits -> Bits]
  BY BitsAdd
<1>2. \A n \in Nat, d \in Bits : FoldWord(d, 2 * T - (n + 1)) \in Bits =>
        next[<<n, d>>] = FoldWord(d, 2 * T - (n + 1))
  OBVIOUS
<1> HIDE DEF next
<1>3. PICK f \in [Nat -> Bits] : f[0] = c /\ \A n \in Nat : f[n + 1] = next[<<n, f[n]>>]
  <2>1. PICK f \in [Nat -> Bits] : Iterates(f, c, next)
    BY <1>1, RecursiveFunction, Zenon
  <2> QED BY <2>1 DEF Iterates
<1> DEFINE Good(k) == f[k] = FoldWord(f[k - 1], 2 * T - k)
           G == {n \in Nat : n <= T => \A k \in 1..n : Good(k)}
<1>4. 0 \in G
  OBVIOUS
<1>5. ASSUME NEW n \in Nat, n \in G PROVE n + 1 \in G
  <2> SUFFICES ASSUME n + 1 <= T PROVE \A k \in 1..(n + 1) : Good(k)
    OBVIOUS
  <2>1. T \in Nat /\ n \in 0..T /\ n <= T
    BY FieldSizes
  <2>2. \A k \in 1..n : Good(k)
    BY <1>5, <2>1
  <2> DEFINE i == 2 * T - (n + 1)
  <2>3. f[n] \in Bits /\ f[n] \subseteq 0..(W * (2 * T - n) - 1)
    <3> HIDE DEF G
    <3> QED BY <1>3, <2>1, <2>2, RestFacts
  <2>4. i \in Nat /\ T <= i /\ i + 1 = 2 * T - n
    BY <2>1
  <2>5. FoldWord(f[n], i) \in Bits
    <3>1. f[n] \subseteq 0..(W * (i + 1) - 1)
      BY <2>3, <2>4
    <3> HIDE DEF i
    <3> QED BY <2>3, <2>4, <3>1, FoldWordFacts
  <2>6. f[n + 1] = FoldWord(f[n], i)
    BY <1>2, <1>3, <2>3, <2>5
  <2>7. (n + 1) - 1 = n
    OBVIOUS
  <2>8. Good(n + 1)
    <3> HIDE DEF i
    <3>1. i = 2 * T - (n + 1)
      BY DEF i
    <3> QED BY <2>6, <2>7, <3>1
  <2> HIDE DEF Good
  <2>9. \A k \in 1..(n + 1) : k \in 1..n \/ k = n + 1
    OBVIOUS
  <2> QED BY <2>2, <2>8, <2>9
<1>6. \A n \in Nat : n \in G
  <2> HIDE DEF G
  <2> QED BY <1>4, <1>5, NatInduct
<1> DEFINE rest == [n \in 0..T |-> f[n]]
<1>7. T \in Nat /\ \A k \in 1..T : Good(k)
  BY <1>6, FieldSizes
<1>8. \A n \in 0..T : rest[n] = IF n = 0 THEN c ELSE FoldWord(rest[n - 1], 2 * T - n)
  <2> SUFFICES ASSUME NEW n \in 0..T
               PROVE  f[n] = IF n = 0 THEN c ELSE FoldWord(rest[n - 1], 2 * T - n)
    OBVIOUS
  <2>1. n # 0 => n \in 1..T /\ n - 1 \in 0..T
    BY <1>7
  <2>2. n # 0 => rest[n - 1] = f[n - 1]
    BY <2>1
  <2> HIDE DEF rest
  <2> QED BY <1>3, <1>7, <2>1, <2>2
<1>9. rest = [n \in 0..T |-> IF n = 0 THEN c ELSE FoldWord(rest[n - 1], 2 * T - n)]
  <2>1. \A n \in 0..T : (IF n = 0 THEN c ELSE FoldWord(rest[n - 1], 2 * T - n)) = f[n]
    BY <1>8
  <2> HIDE DEF rest
  <2>2. rest = [n \in 0..T |-> f[n]]
    BY DEF rest
  <2> QED BY <2>1, <2>2
<1> QED BY <1>9 DEF Rests

LEMMA FoldWordsFacts ==
  ASSUME NEW c \in Bits, c \subseteq 0..(W * (2 * T) - 1)
  PROVE  FoldWords(c) \in Bits /\ FoldWords(c) \subseteq 0..(W * T - 1) /\ Red(FoldWords(c)) = Red(c)
<1> DEFINE f == CHOOSE rest : Rests(rest, c)
<1>1. Rests(f, c)
  BY RestExists
<1>2. FoldWords(c) = f[T]
  BY DEF FoldWords, Rests
<1> HIDE DEF f
<1>3. T \in Nat /\ T \in 0..T /\ 2 * T - T = T
  BY FieldSizes
<1>4. f[0] = c /\ \A k \in 1..T : f[k] = FoldWord(f[k - 1], 2 * T - k)
  BY <1>1, <1>3 DEF Rests
<1>5. f[T] \in Bits /\ f[T] \subseteq 0..(W * (2 * T - T) - 1) /\ Red(f[T]) = Red(c)
  BY <1>3, <1>4, RestFacts
<1> QED BY <1>2, <1>3, <1>5

\* Folding the rest changes nothing modulo f, and leaves an element of the field.
LEMMA FoldRestFacts ==
  ASSUME NEW c \in Bits, c \subseteq 0..(W * T - 1)
  PROVE  FoldRest(c) \in FieldElement /\ Red(FoldRest(c)) = Red(c)
<1> DEFINE hi == {y \in c : y >= OT_SECURITY}
           lo == c \ hi
           top == {x - OT_SECURITY : x \in hi}
           low == TimesLow(top)
<1>1. /\ OT_SECURITY \in Nat /\ IsFiniteSet(c) /\ \A x \in c : x \in Nat
  BY Degree DEF Bits
<1>2. /\ hi \in Bits /\ lo \in Bits /\ c = SymDiff(lo, hi)
  <2>1. hi \in Bits /\ lo \in Bits
    BY <1>1, FS_Subset DEF Bits
  <2> QED BY <2>1 DEF SymDiff
<1>3. \A x \in hi : x - OT_SECURITY \in Nat /\ (x - OT_SECURITY) + OT_SECURITY = x
  BY <1>1
<1>4. top \in Bits /\ hi = Shift(top, OT_SECURITY)
  <2>1. IsFiniteSet(top)
    <3> DEFINE f == [x \in hi |-> x - OT_SECURITY]
    <3>1. f \in Surjection(hi, top)
      <4>1. f \in [hi -> top]
        OBVIOUS
      <4>2. \A t \in top : \E x \in hi : f[x] = t
        OBVIOUS
      <4> QED BY <4>1, <4>2 DEF Surjection
    <3>2. IsFiniteSet(hi)
      BY <1>2 DEF Bits
    <3> HIDE DEF f, hi, top
    <3> QED BY <3>1, <3>2, FS_Surjection
  <2>2. top \subseteq Nat
    BY <1>3
  <2>3. hi = Shift(top, OT_SECURITY)
    <3> HIDE DEF hi
    <3> QED BY <1>3 DEF Shift
  <2> QED BY <2>1, <2>2, <2>3 DEF Bits
<1>5. low \in Bits /\ Red(low) = Red(hi)
  <2> HIDE DEF top, hi
  <2> QED BY <1>4, TimesLowFacts
<1>6. low \subseteq 0..(OT_SECURITY - 1)
  <2> DEFINE U == 0..(OT_SECURITY - 1)
             q == W * T
  <2>1. \A x \in top : x \in Nat /\ x + OT_SECURITY < q
    <3>1. \A x \in c : x \in Nat /\ x < q
      <4>1. q \in Nat
        BY FieldSizes
      <4>2. \A x \in c : x \in 0..(q - 1)
        OBVIOUS
      <4> HIDE DEF q
      <4> QED BY <4>1, <4>2
    <3> HIDE DEF q
    <3> QED BY <1>1, <1>3, <3>1
  <2>2. ASSUME NEW e \in LowExponents, NEW x \in top PROVE x + e \in U
    <3> DEFINE p == W * (T - 1)
    <3>1. /\ e \in Nat /\ q - OT_SECURITY + e <= W /\ q \in Nat /\ W \in Nat
          /\ p \in Nat /\ W <= p /\ p < OT_SECURITY
      BY FieldSizes
    <3> HIDE DEF p, q, top
    <3> QED BY <1>1, <2>1, <3>1
  <2>3. U \in SUBSET Nat
    BY <1>1
  <2> HIDE DEF U, top
  <2>4. low \subseteq U
    BY <1>4, <2>2, <2>3, TimesLowInto
  <2> QED BY <2>4 DEF U
<1>7. FoldRest(c) = SymDiff(lo, low)
  <2>1. FoldRest(c) = Below(SymDiff(c, low), OT_SECURITY)
    BY DEF FoldRest
  <2>2. \A x \in low : x < OT_SECURITY /\ ~(x >= OT_SECURITY)
    <3> HIDE DEF low
    <3> QED BY <1>1, <1>6
  <2>3. \A x \in c : x < OT_SECURITY <=> ~(x >= OT_SECURITY)
    BY <1>1
  <2> HIDE DEF low
  <2> QED BY <2>1, <2>2, <2>3 DEF Below, SymDiff
<1>8. \A x \in lo : x \in 0..(OT_SECURITY - 1)
  BY <1>1
<1>9. FoldRest(c) \in FieldElement
  <2> HIDE DEF lo, low
  <2> QED BY <1>6, <1>7, <1>8 DEF SymDiff, FieldElement
<1> HIDE DEF lo, low, hi
<1> QED BY <1>2, <1>5, <1>7, <1>9, RedFacts

-----------------------------------------------------------------------------
(* The product by its definition is linear in its first factor.            *)

LEMMA RedAdds ==
  ASSUME NEW t \in Bits, NEW n \in Nat
  PROVE  SymDiff({n}, t) \in Bits /\ Red(SymDiff({n}, t)) = SymDiff(PowerOfX[n], Red(t))
<1>1. {n} \in Bits /\ Red({n}) = PowerOfX[n]
  BY RedFacts
<1> QED BY <1>1, RedFacts, BitsAdd

Powers == [x \in Nat \X Nat |-> PowerOfX[x[1] + x[2]]]

LEMMA PowersFacts ==
  /\ \A i, j \in Nat : Powers[<<i, j>>] = PowerOfX[i + j]
  /\ \A x \in Nat \X Nat : Powers[x] \in Bits
<1>1. \A i, j \in Nat : Powers[<<i, j>>] = PowerOfX[i + j]
  BY DEF Powers
<1>2. \A x \in Nat \X Nat : x[1] + x[2] \in Nat /\ Powers[x] = PowerOfX[x[1] + x[2]]
  BY DEF Powers
<1>3. \A n \in Nat : PowerOfX[n] \in Bits
  BY PowerFacts, Degree
<1> QED BY <1>1, <1>2, <1>3

LEMMA ProductOn ==
  ASSUME NEW a \in Bits, NEW b \in Bits
  PROVE  IsFiniteSet(a \X b) /\ Product(a, b) = XorOn(Powers, a \X b)
<1> DEFINE f == [x \in a \X b |-> PowerOfX[x[1] + x[2]]]
<1>1. Product(a, b) = XorOn(f, a \X b)
  <2>1. DOMAIN f = a \X b
    OBVIOUS
  <2>2. Product(a, b) = Xor(f)
    BY DEF Product
  <2> HIDE DEF f
  <2> QED BY <2>1, <2>2, XorMonoid
<1>2. IsFiniteSet(a \X b)
  BY FS_Product DEF Bits
<1>3. \A x \in a \X b : f[x] = Powers[x]
  BY DEF Bits, Powers
<1> HIDE DEF f
<1> QED BY <1>1, <1>2, <1>3, XorSame

\* One bit of a, times b.
LEMMA ProductRow ==
  ASSUME NEW n \in Nat, NEW b \in Bits
  PROVE  IsFiniteSet({n} \X b) /\ XorOn(Powers, {n} \X b) = Red(Shift(b, n))
<1> DEFINE G == {t \in SUBSET b : XorOn(Powers, {n} \X t) = Red(Shift(t, n))}
<1>0. /\ IsFiniteSet(b) /\ b \subseteq Nat
      /\ \A t \in SUBSET b : t \in Bits /\ IsFiniteSet({n} \X t)
  <2>1. IsFiniteSet(b) /\ b \subseteq Nat
    BY DEF Bits
  <2>2. \A t \in SUBSET b : IsFiniteSet(t)
    BY <2>1, FS_Subset
  <2>3. IsFiniteSet({n})
    BY FS_Singleton
  <2> QED BY <2>1, <2>2, <2>3, FS_Product DEF Bits
<1>1. {} \in G
  <2>1. {n} \X {} = {} /\ Shift({}, n) = {}
    BY DEF Shift
  <2>2. XorOn(Powers, {}) = {}
    BY FS_EmptySet, XorElement
  <2> QED BY <2>1, <2>2, RedFacts
<1>2. ASSUME NEW t \in SUBSET b, NEW y \in b, t \in G, y \notin t PROVE t \cup {y} \in G
  <2> DEFINE p == <<n, y>>
             S == {n} \X t
             i == y + n
  <2>1. t \cup {y} = SymDiff({y}, t) /\ {n} \X (t \cup {y}) = SymDiff(S, {p})
    BY <1>2 DEF SymDiff
  <2>2. y \in Nat /\ i \in Nat /\ {y} \in Bits /\ t \in Bits /\ IsFiniteSet(S)
    <3>1. y \in Nat /\ t \in Bits /\ IsFiniteSet(S)
      BY <1>0
    <3>2. {y} \in Bits
      BY <3>1, RedFacts
    <3> QED BY <3>1, <3>2
  <2>3. Shift(SymDiff({y}, t), n) = SymDiff({i}, Shift(t, n))
    <3>1. Shift({y}, n) = {i}
      BY DEF Shift
    <3>2. Shift(SymDiff({y}, t), n) = SymDiff(Shift({y}, n), Shift(t, n))
      BY <2>2, ShiftAdds
    <3> HIDE DEF i
    <3> QED BY <3>1, <3>2
  <2>4. Powers[p] = PowerOfX[i] /\ \A x \in S \cup {p} : Powers[x] \in Bits
    <3>1. n + y = i
      BY <2>2
    <3>2. \A x \in S \cup {p} : x \in Nat \X Nat
      <4>1. \A z \in t \cup {y} : z \in Nat
        BY <1>0
      <4> QED BY <4>1
    <3> HIDE DEF i, S
    <3> QED BY <2>2, <3>1, <3>2, PowersFacts
  <2>5. XorOn(Powers, S) = Red(Shift(t, n))
    BY <1>2
  <2>6. Shift(t, n) \in Bits
    BY <2>2, ShiftType
  <2> HIDE DEF p, S, i
  <2>7. XorOn(Powers, SymDiff(S, {p})) = SymDiff(Powers[p], XorOn(Powers, S))
    BY <2>2, <2>4, XorDomain
  <2>8. Red(SymDiff({i}, Shift(t, n))) = SymDiff(PowerOfX[i], Red(Shift(t, n)))
    BY <2>2, <2>6, RedAdds
  <2> QED BY <2>1, <2>3, <2>4, <2>5, <2>7, <2>8
<1> HIDE DEF G
<1>3. b \in G
  BY <1>0, <1>1, <1>2, SetInduct
<1> QED BY <1>0, <1>3 DEF G

\* The product is linear in its first factor.
LEMMA ProductLinear ==
  ASSUME NEW a \in Bits, NEW b \in Bits, NEW c \in Bits
  PROVE  Product(SymDiff(a, b), c) = SymDiff(Product(a, c), Product(b, c))
<1>1. SymDiff(a, b) \in Bits
  BY BitsAdd
<1>2. /\ IsFiniteSet(a \X c) /\ Product(a, c) = XorOn(Powers, a \X c)
      /\ IsFiniteSet(b \X c) /\ Product(b, c) = XorOn(Powers, b \X c)
      /\ Product(SymDiff(a, b), c) = XorOn(Powers, SymDiff(a, b) \X c)
  BY <1>1, ProductOn
<1>3. SymDiff(a, b) \X c = SymDiff(a \X c, b \X c)
  BY DEF SymDiff
<1> DEFINE A == a \X c
           B == b \X c
<1>4. \A y \in A \cup B : Powers[y] \in Bits
  BY PowersFacts DEF Bits
<1>5. IsFiniteSet(A) /\ IsFiniteSet(B)
  BY <1>2
<1> HIDE DEF A, B
<1>6. XorOn(Powers, SymDiff(A, B)) = SymDiff(XorOn(Powers, A), XorOn(Powers, B))
  BY <1>4, <1>5, XorDomains
<1> QED BY <1>2, <1>3, <1>6 DEF A, B

\* One more bit in a adds b, shifted, to the product.
LEMMA ProductAdds ==
  ASSUME NEW a \in Bits, NEW b \in Bits, NEW n \in Nat, n \notin a
  PROVE  /\ Product({}, b) = {}
         /\ Product(a \cup {n}, b) = SymDiff(Red(Shift(b, n)), Product(a, b))
<1>1. Product({}, b) = {}
  <2>1. {} \X b = {}
    OBVIOUS
  <2>2. XorOn(Powers, {}) = {}
    BY FS_EmptySet, XorElement
  <2> QED BY <2>1, <2>2, BitsAdd, ProductOn
<1> DEFINE A == {n} \X b
           B == a \X b
<1>2. a \cup {n} \in Bits
  <2>1. a \cup {n} = SymDiff({n}, a)
    BY DEF SymDiff
  <2> QED BY <2>1, RedAdds
<1>3. (a \cup {n}) \X b = SymDiff(A, B)
  BY DEF SymDiff
<1>4. \A y \in A \cup B : Powers[y] \in Bits
  <2>1. \A y \in A \cup B : y \in Nat \X Nat
    BY DEF Bits
  <2> HIDE DEF A, B
  <2> QED BY <2>1, PowersFacts
<1>5. IsFiniteSet(A) /\ XorOn(Powers, A) = Red(Shift(b, n))
  BY ProductRow
<1>6. IsFiniteSet(B) /\ XorOn(Powers, B) = Product(a, b)
  BY ProductOn
<1>7. Product(a \cup {n}, b) = XorOn(Powers, (a \cup {n}) \X b)
  BY <1>2, ProductOn
<1> HIDE DEF A, B
<1>8. XorOn(Powers, SymDiff(A, B)) = SymDiff(XorOn(Powers, A), XorOn(Powers, B))
  BY <1>4, <1>5, <1>6, XorDomains
<1> QED BY <1>1, <1>3, <1>5, <1>6, <1>7, <1>8

-----------------------------------------------------------------------------
(* So is the comb.                                                         *)

\* What the comb adds at step k for word j of a.
Addend(a, b, k, j) == IF k \in WordOf(a, j) THEN Shift(Shift(b, k), W * j) ELSE {}
StepOf(a, b, k) == XorOn([j \in 0..(T - 1) |-> Addend(a, b, k, j)], 0..(T - 1))
CombOf(a, b) == XorOn([k \in 0..(W - 1) |-> StepOf(a, b, k)], 0..(W - 1))

LEMMA AddendType ==
  ASSUME NEW a, NEW b \in Bits, NEW k \in Nat, NEW j \in Nat
  PROVE  Addend(a, b, k, j) \in Bits
<1>1. W * j \in Nat /\ Shift(b, k) \in Bits
  BY FieldSizes, ShiftType
<1>2. Shift(Shift(b, k), W * j) \in Bits
  BY <1>1, ShiftType
<1> QED BY <1>2, BitsAdd DEF Addend

LEMMA StepType ==
  ASSUME NEW a, NEW b \in Bits, NEW k \in Nat
  PROVE  StepOf(a, b, k) \in Bits
<1> DEFINE f == [j \in 0..(T - 1) |-> Addend(a, b, k, j)]
           S == 0..(T - 1)
<1>1. IsFiniteSet(S) /\ \A j \in S : f[j] \in Bits
  BY FieldSizes, FS_Interval, AddendType
<1> HIDE DEF f, S
<1>2. XorOn(f, S) \in Bits
  BY <1>1, XorElement
<1> QED BY <1>2 DEF StepOf, f, S

\* The mask in a step of the comb cuts nothing off.
LEMMA CombIs ==
  ASSUME NEW a \in Bits, NEW b \in FieldElement
  PROVE  Comb(a, b) = CombOf(a, b)
<1> DEFINE f == [k \in 0..(W - 1) |-> CombStep(a, b, k)]
           g == [k \in 0..(W - 1) |-> StepOf(a, b, k)]
<1>1. \A k \in 0..(W - 1) : CombStep(a, b, k) = StepOf(a, b, k)
  <2> SUFFICES ASSUME NEW k \in 0..(W - 1) PROVE CombStep(a, b, k) = StepOf(a, b, k)
    OBVIOUS
  <2> DEFINE all == Shift(b, k)
             h == [j \in 0..(T - 1) |-> Addend(a, b, k, j)]
  <2>1. Below(all, W * (T + 1)) = all
    <3> DEFINE q == W * T
               r == W * (T + 1)
    <3>1. r = q + W /\ q \in Nat /\ W \in Nat /\ OT_SECURITY < q /\ OT_SECURITY \in Nat
      BY FieldSizes
    <3>2. \A x \in b : x \in Nat /\ x < OT_SECURITY
      BY <3>1 DEF FieldElement
    <3> HIDE DEF q, r
    <3>3. \A x \in b : x + k < r
      BY <3>1, <3>2
    <3>4. \A y \in all : y < r
      BY <3>3 DEF Shift
    <3>5. Below(all, r) = all
      BY <3>4 DEF Below
    <3> QED BY <3>5 DEF r
  <2>2. CombStep(a, b, k) = Xor(h)
    <3>1. CombStep(a, b, k) =
            Xor([j \in 0..(T - 1) |-> IF k \in WordOf(a, j)
                                      THEN Shift(Below(all, W * (T + 1)), W * j) ELSE {}])
      BY DEF CombStep
    <3> QED BY <2>1, <3>1 DEF Addend
  <2>3. DOMAIN h = 0..(T - 1)
    OBVIOUS
  <2>4. Xor(h) = XorOn(h, 0..(T - 1))
    <3> HIDE DEF h
    <3> QED BY <2>3, XorMonoid
  <2> QED BY <2>2, <2>4 DEF StepOf
<1>2. f = g
  BY <1>1
<1>3. DOMAIN g = 0..(W - 1)
  OBVIOUS
<1>4. Comb(a, b) = Xor(g)
  BY <1>2 DEF Comb
<1>5. Xor(g) = XorOn(g, 0..(W - 1))
  <2> HIDE DEF g
  <2> QED BY <1>3, XorMonoid
<1> QED BY <1>4, <1>5 DEF CombOf

LEMMA CombNone == ASSUME NEW b \in Bits PROVE CombOf({}, b) = {}
<1> DEFINE f == [k \in 0..(W - 1) |-> StepOf({}, b, k)]
           S == 0..(W - 1)
<1>1. \A k, j : Addend({}, b, k, j) = {}
  BY DEF Addend, WordOf
<1>2. ASSUME NEW k \in S PROVE f[k] \in Bits /\ f[k] \subseteq {}
  <2> DEFINE h == [j \in 0..(T - 1) |-> Addend({}, b, k, j)]
             R == 0..(T - 1)
  <2>1. IsFiniteSet(R) /\ \A j \in R : h[j] \in Bits /\ h[j] \subseteq {}
    <3>1. IsFiniteSet(R)
      BY FieldSizes, FS_Interval
    <3>2. \A j \in R : h[j] = {}
      BY <1>1
    <3> QED BY <3>1, <3>2, BitsAdd
  <2>2. k \in Nat /\ f[k] = StepOf({}, b, k)
    BY FieldSizes
  <2>3. StepOf({}, b, k) \in Bits
    BY <2>2, StepType
  <2>4. StepOf({}, b, k) = XorOn(h, R)
    BY DEF StepOf
  <2> DEFINE U == {}
  <2>5. U \in SUBSET Nat
    OBVIOUS
  <2> HIDE DEF h, R, f, U
  <2>6. XorOn(h, R) \subseteq U
    BY <2>1, <2>5, XorInto DEF U
  <2> QED BY <2>2, <2>3, <2>4, <2>6 DEF U
<1>3. IsFiniteSet(S)
  BY FieldSizes, FS_Interval
<1>4. CombOf({}, b) = XorOn(f, S)
  BY DEF CombOf
<1> HIDE DEF f, S
<1>5. XorOn(f, S) \subseteq {}
  BY <1>2, <1>3, XorInto
<1> QED BY <1>4, <1>5

\* One more bit in a adds b, shifted, to the comb: at one step for one word.
LEMMA CombAdds ==
  ASSUME NEW a \in FieldElement, NEW b \in Bits, NEW n \in 0..(OT_SECURITY - 1), n \notin a
  PROVE  CombOf(a \cup {n}, b) = SymDiff(Shift(b, n), CombOf(a, b))
<1> DEFINE c == a \cup {n}
           j0 == n \div W
           k0 == n - W * j0
<1>1. /\ W \in Nat /\ W >= 1 /\ T \in Nat /\ OT_SECURITY \in Nat /\ OT_SECURITY < W * T
      /\ W * T \in Nat /\ n \in Nat /\ n < OT_SECURITY
  BY FieldSizes
<1>2. j0 \in Nat /\ W * j0 \in Nat /\ W * j0 <= n /\ n < W * j0 + W
  <2>1. j0 \in Nat
    BY <1>1
  <2> HIDE DEF j0
  <2>2. W * j0 \in Nat
    BY <1>1, <2>1
  <2>3. n \div W = j0
    BY DEF j0
  <2> QED BY <1>1, <2>1, <2>2, <2>3, DivIs
<1>3. j0 \in 0..(T - 1)
  <2>1. T <= j0 => W * T <= W * j0
    <3>1. T < j0 => W * T + W <= W * j0
      <4> HIDE DEF j0
      <4> QED BY <1>1, <1>2, TimesMono
    <3> DEFINE p == W * T
               q == W * j0
    <3>2. p \in Nat /\ q \in Nat /\ (T = j0 => p = q) /\ (T < j0 => p + W <= q)
      BY <1>1, <1>2, <3>1
    <3>3. T <= j0 => T < j0 \/ T = j0
      <4> HIDE DEF j0
      <4> QED BY <1>1, <1>2
    <3> HIDE DEF p, q, j0
    <3>4. T <= j0 => p <= q
      BY <1>1, <3>2, <3>3
    <3> QED BY <3>4 DEF p, q
  <2> DEFINE p == W * T
             q == W * j0
  <2> HIDE DEF p, q, j0
  <2>2. /\ n < OT_SECURITY /\ OT_SECURITY < p /\ q <= n /\ (T <= j0 => p <= q)
        /\ p \in Nat /\ q \in Nat
    BY <1>1, <1>2, <2>1 DEF p, q
  <2> QED BY <1>1, <1>2, <2>2
<1>4. k0 \in 0..(W - 1) /\ k0 + W * j0 = n
  <2> DEFINE q == W * j0
  <2>1. q \in Nat /\ q <= n /\ n < q + W
    BY <1>2
  <2> HIDE DEF q
  <2>2. n - q \in 0..(W - 1) /\ (n - q) + q = n
    BY <1>1, <2>1
  <2> QED BY <2>2 DEF q
<1>5. \A x \in a : x \in Nat
  BY <1>1 DEF FieldElement
<1> HIDE DEF k0
<1>6. ASSUME NEW k \in 0..(W - 1), NEW j \in 0..(T - 1)
      PROVE  k \in WordOf(c, j) <=> (k \in WordOf(a, j) \/ (k = k0 /\ j = j0))
  <2>1. \A y \in {n} : y \div W = j <=> j = j0
    OBVIOUS
  <2>2. WordOf(c, j) = WordOf(a, j) \cup {y - j * W : y \in {z \in {n} : z \div W = j}}
    BY DEF WordOf
  <2>3. j = j0 => n - j * W = k0
    BY <1>1, <1>2 DEF k0
  <2> HIDE DEF j0
  <2> QED BY <2>1, <2>2, <2>3
<1>7. k0 \notin WordOf(a, j0)
  <2> SUFFICES ASSUME NEW y \in a, y \div W = j0, k0 = y - j0 * W PROVE FALSE
    BY DEF WordOf
  <2>1. j0 * W = W * j0
    BY <1>1, <1>2
  <2> DEFINE q == W * j0
  <2>2. y \in Nat /\ q \in Nat /\ k0 = y - q /\ k0 + q = n
    BY <1>2, <1>4, <1>5, <2>1
  <2> HIDE DEF q
  <2>3. y = n
    BY <1>1, <2>2
  <2> QED BY <2>3
<1> DEFINE v == Shift(b, n)
<1>8. v \in Bits /\ Shift(Shift(b, k0), W * j0) = v
  <2>1. k0 \in Nat /\ W * j0 \in Nat
    BY <1>1, <1>2, <1>4
  <2>2. Shift(Shift(b, k0), W * j0) = Shift(b, k0 + W * j0)
    <3> DEFINE q == W * j0
    <3> HIDE DEF q
    <3> QED BY <2>1, ShiftFacts DEF q
  <2> QED BY <1>1, <1>4, <2>2, ShiftType
<1>9. StepOf(c, b, k0) = SymDiff(v, StepOf(a, b, k0))
  <2> DEFINE f == [j \in 0..(T - 1) |-> Addend(c, b, k0, j)]
             g == [j \in 0..(T - 1) |-> Addend(a, b, k0, j)]
             S == 0..(T - 1)
  <2>1. IsFiniteSet(S) /\ \A j \in S : g[j] \in Bits
    BY <1>1, <1>4, FS_Interval, AddendType
  <2>2. f[j0] = SymDiff(v, g[j0])
    <3>1. Addend(c, b, k0, j0) = v /\ Addend(a, b, k0, j0) = {}
      BY <1>3, <1>4, <1>6, <1>7, <1>8 DEF Addend
    <3>2. SymDiff(v, {}) = v
      BY XorLaws
    <3> HIDE DEF v, j0
    <3> QED BY <1>3, <3>1, <3>2
  <2>3. \A j \in S \ {j0} : f[j] = g[j]
    <3>1. \A j \in S \ {j0} : Addend(c, b, k0, j) = Addend(a, b, k0, j)
      BY <1>4, <1>6 DEF Addend
    <3> QED BY <3>1
  <2>4. StepOf(c, b, k0) = XorOn(f, S) /\ StepOf(a, b, k0) = XorOn(g, S)
    BY DEF StepOf
  <2>5. j0 \in S
    BY <1>3
  <2> HIDE DEF f, g, S, v, j0, c
  <2>6. XorOn(f, S) = SymDiff(v, XorOn(g, S))
    BY <1>8, <2>1, <2>2, <2>3, <2>5, XorChange
  <2> QED BY <2>4, <2>6
<1>10. \A k \in (0..(W - 1)) \ {k0} : StepOf(c, b, k) = StepOf(a, b, k)
  <2> SUFFICES ASSUME NEW k \in 0..(W - 1), k # k0 PROVE StepOf(c, b, k) = StepOf(a, b, k)
    OBVIOUS
  <2>1. \A j \in 0..(T - 1) : Addend(c, b, k, j) = Addend(a, b, k, j)
    BY <1>6 DEF Addend
  <2>2. [j \in 0..(T - 1) |-> Addend(c, b, k, j)] = [j \in 0..(T - 1) |-> Addend(a, b, k, j)]
    BY <2>1
  <2> QED BY <2>2 DEF StepOf
<1> DEFINE f == [k \in 0..(W - 1) |-> StepOf(c, b, k)]
           g == [k \in 0..(W - 1) |-> StepOf(a, b, k)]
           S == 0..(W - 1)
<1>11. IsFiniteSet(S) /\ \A k \in S : g[k] \in Bits
  BY <1>1, FS_Interval, StepType
<1>12. k0 \in S /\ f[k0] = SymDiff(v, g[k0]) /\ \A k \in S \ {k0} : f[k] = g[k]
  <2> HIDE DEF v, c
  <2> QED BY <1>4, <1>9, <1>10
<1>13. CombOf(c, b) = XorOn(f, S) /\ CombOf(a, b) = XorOn(g, S)
  BY DEF CombOf
<1> HIDE DEF f, g, S, v, c
<1>14. XorOn(f, S) = SymDiff(v, XorOn(g, S))
  BY <1>8, <1>11, <1>12, XorChange
<1> QED BY <1>13, <1>14 DEF v, c

-----------------------------------------------------------------------------
(* The product.                                                            *)

LEMMA CombFacts ==
  ASSUME NEW a \in FieldElement, NEW b \in FieldElement
  PROVE  /\ CombOf(a, b) \in Bits /\ CombOf(a, b) \subseteq 0..(W * (2 * T) - 1)
         /\ Red(CombOf(a, b)) = Product(a, b)
<1> DEFINE U == 0..(W * (2 * T) - 1)
           G == {s \in FieldElement : /\ CombOf(s, b) \in Bits /\ CombOf(s, b) \subseteq U
                                      /\ Red(CombOf(s, b)) = Product(s, b)}
<1>0. /\ a \in Bits /\ b \in Bits /\ IsFiniteSet(a) /\ {} \in FieldElement
      /\ OT_SECURITY \in Nat
      /\ \A x \in a \cup b : x \in Nat /\ x < OT_SECURITY
  <2>1. a \in Bits /\ b \in Bits /\ OT_SECURITY \in Nat
    BY Degree
  <2>2. \A x \in a \cup b : x \in 0..(OT_SECURITY - 1)
    BY DEF FieldElement
  <2> QED BY <2>1, <2>2 DEF Bits, FieldElement
<1>1. {} \in G
  <2>1. CombOf({}, b) = {} /\ Product({}, b) = {}
    <3>1. OT_SECURITY \notin {} /\ OT_SECURITY \in Nat
      BY <1>0
    <3> QED BY <1>0, <3>1, CombNone, ProductAdds, BitsAdd
  <2> HIDE DEF U
  <2> QED BY <1>0, <2>1, RedFacts, BitsAdd
<1>2. ASSUME NEW s \in SUBSET a, NEW n \in a, s \in G, n \notin s PROVE s \cup {n} \in G
  <2> DEFINE v == Shift(b, n)
             t == s \cup {n}
             d == CombOf(s, b)
  <2>1. /\ s \in FieldElement /\ s \in Bits /\ t \in FieldElement
        /\ n \in 0..(OT_SECURITY - 1) /\ n \in Nat
    <3>1. s \in FieldElement /\ t \in FieldElement
      BY DEF FieldElement
    <3>2. n \in Nat /\ n \in 0..(OT_SECURITY - 1)
      BY <1>0
    <3> HIDE DEF t
    <3> QED BY <3>1, <3>2, Degree
  <2>2. CombOf(t, b) = SymDiff(v, d)
    BY <1>0, <1>2, <2>1, CombAdds
  <2>3. Product(t, b) = SymDiff(Red(v), Product(s, b))
    BY <1>0, <1>2, <2>1, ProductAdds
  <2>4. v \in Bits
    BY <1>0, <2>1, ShiftType
  <2>5. v \subseteq U
    <3> DEFINE q == W * T
               r == W * (2 * T)
    <3>1. r = q + q /\ q \in Nat /\ OT_SECURITY < q
      BY FieldSizes
    <3> HIDE DEF q, r
    <3>2. \A x \in b : x + n \in 0..(r - 1)
      <4> SUFFICES ASSUME NEW x \in b PROVE x + n \in 0..(r - 1)
        OBVIOUS
      <4>1. x \in Nat /\ x < OT_SECURITY /\ n < OT_SECURITY /\ OT_SECURITY \in Nat
        BY <1>0
      <4> QED BY <2>1, <3>1, <4>1
    <3> QED BY <3>2 DEF Shift, r
  <2>6. d \in Bits /\ d \subseteq U /\ Red(d) = Product(s, b)
    BY <1>2
  <2> HIDE DEF v, d, t, U
  <2>7. SymDiff(v, d) \in Bits /\ Red(SymDiff(v, d)) = SymDiff(Red(v), Red(d))
    BY <2>4, <2>6, RedFacts, BitsAdd
  <2>8. SymDiff(v, d) \subseteq U
    BY <2>5, <2>6 DEF SymDiff
  <2>9. t \in G
    BY <2>1, <2>2, <2>3, <2>6, <2>7, <2>8
  <2> HIDE DEF G
  <2> QED BY <2>9 DEF t
<1> HIDE DEF G
<1>3. a \in G
  BY <1>0, <1>1, <1>2, SetInduct
<1> QED BY <1>3 DEF G, U

\* field_mul, with its words, its two foldings and its masks, computes the product modulo f
\* (extension.rs 905-991): for every word size and number of words, and for every f whose
\* terms below the leading one leave room for the folding.
THEOREM FieldMulComputesTheProduct ==
  \A a, b \in FieldElement : FieldMul(a, b) = Product(a, b)
<1> SUFFICES ASSUME NEW a \in FieldElement, NEW b \in FieldElement
             PROVE  FieldMul(a, b) = Product(a, b)
  OBVIOUS
<1> DEFINE c == Comb(a, b)
<1>1. /\ c \in Bits /\ c \subseteq 0..(W * (2 * T) - 1) /\ Red(c) = Product(a, b)
  <2>1. c = CombOf(a, b)
    BY Degree, CombIs
  <2> HIDE DEF c
  <2> QED BY <2>1, CombFacts
<1> DEFINE d == FoldWords(c)
<1> HIDE DEF c
<1>2. d \in Bits /\ d \subseteq 0..(W * T - 1) /\ Red(d) = Red(c)
  BY <1>1, FoldWordsFacts
<1> HIDE DEF d
<1>3. FoldRest(d) \in FieldElement /\ Red(FoldRest(d)) = Red(d)
  BY <1>2, FoldRestFacts
<1>4. FieldMul(a, b) = FoldRest(d)
  BY DEF FieldMul, c, d
<1> QED BY <1>1, <1>2, <1>3, <1>4, RedFacts
=============================================================================
