--------------------------- MODULE Shamir_proofs ---------------------------
EXTENDS Shamir, FiniteSetTheorems, NaturalsInduction, WellFoundedInduction, TLAPS

-----------------------------------------------------------------------------
(* The field.  Numbers stand for the scalar they are modulo Prime.         *)

\* x is a multiple of Prime.
Zero(x) == \E k \in Int : x = k * Prime

LEMMA PrimeFact == Prime \in Nat /\ Prime > 1 /\ ShareCount \in Nat /\ ShareCount < Prime
BY FieldAssumption

LEMMA ZeroSum ==
  ASSUME NEW x \in Int, NEW y \in Int, Zero(x), Zero(y)
  PROVE  Zero(x + y) /\ Zero(x - y)
<1>1. PICK k \in Int : x = k * Prime
  BY DEF Zero
<1>2. PICK m \in Int : y = m * Prime
  BY DEF Zero
<1>3. x + y = (k + m) * Prime /\ x - y = (k - m) * Prime /\ k + m \in Int /\ k - m \in Int
  BY <1>1, <1>2, PrimeFact
<1> QED BY <1>3 DEF Zero

LEMMA ZeroTimes ==
  ASSUME NEW x \in Int, NEW c \in Int, Zero(x)
  PROVE  Zero(c * x) /\ Zero(x * c)
<1>1. PICK k \in Int : x = k * Prime
  BY DEF Zero
<1>2. c * x = (c * k) * Prime /\ x * c = (c * k) * Prime /\ c * k \in Int
  BY <1>1, PrimeFact
<1> QED BY <1>2 DEF Zero

\* A combination of two multiples is a multiple.  It has a name so that the provers need
\* not match products.
Combines(z, c, x, d, y) == z = c * x + d * y
LEMMA ZeroCombination ==
  ASSUME NEW x \in Int, NEW y \in Int, Zero(x), Zero(y), NEW c \in Int, NEW d \in Int,
         NEW z, Combines(z, c, x, d, y)
  PROVE  Zero(z)
<1>1. PICK k \in Int : x = k * Prime
  BY DEF Zero
<1>2. PICK m \in Int : y = m * Prime
  BY DEF Zero
<1>3. c * k + d * m \in Int
  OBVIOUS
<1>4. c * x = (c * k) * Prime /\ d * y = (d * m) * Prime
  BY <1>1, <1>2, PrimeFact
<1>5. z = (c * k + d * m) * Prime
  BY <1>4, PrimeFact DEF Combines
<1> QED BY <1>3, <1>5 DEF Zero

LEMMA ZeroZero == Zero(0)
<1>1. 0 = 0 * Prime /\ 0 \in Int
  BY PrimeFact
<1> QED BY <1>1 DEF Zero

\* What % does.
LEMMA Reduced ==
  ASSUME NEW a \in Int
  PROVE  a % Prime \in Scalar /\ a % Prime \in Int /\ Zero(a - (a % Prime)) /\ Zero((a % Prime) - a)
<1> DEFINE q == a \div Prime
           r == a % Prime
<1>1. q \in Int /\ a = Prime * q + r /\ r \in 0..(Prime - 1)
  BY PrimeFact
<1> HIDE DEF q, r
<1>2. r \in Int /\ -q \in Int
  BY <1>1, PrimeFact
<1>3. a - r = q * Prime /\ r - a = (-q) * Prime
  BY <1>1, <1>2, PrimeFact
<1>4. Zero(a - r) /\ Zero(r - a)
  BY <1>1, <1>2, <1>3 DEF Zero
<1> QED BY <1>1, <1>2, <1>4 DEF Scalar, r

LEMMA SmallZero ==
  ASSUME NEW x \in Int, Zero(x), -Prime < x, x < Prime
  PROVE  x = 0
<1>1. PICK k \in Int : x = k * Prime
  BY DEF Zero
<1>2. ASSUME k >= 1 PROVE FALSE
  <2>1. k * Prime >= Prime
    BY <1>2, PrimeFact
  <2> QED BY <2>1, <1>1, PrimeFact
<1>3. ASSUME k <= -1 PROVE FALSE
  <2>1. k * Prime <= -Prime
    BY <1>3, PrimeFact
  <2> QED BY <2>1, <1>1, PrimeFact
<1>4. k = 0
  BY <1>2, <1>3
<1> QED BY <1>1, <1>4, PrimeFact

LEMMA SameScalar ==
  ASSUME NEW a \in Scalar, NEW b \in Scalar, Zero(a - b)
  PROVE  a = b
<1>1. a \in Int /\ b \in Int /\ -Prime < a - b /\ a - b < Prime
  BY PrimeFact DEF Scalar
<1>2. a - b = 0
  BY <1>1, SmallZero
<1> QED BY <1>1, <1>2

LEMMA SameReduced ==
  ASSUME NEW a \in Int, NEW b \in Int
  PROVE  a % Prime = b % Prime <=> Zero(a - b)
<1> DEFINE u == a % Prime
           v == b % Prime
<1>1. u \in Scalar /\ v \in Scalar /\ u \in Int /\ v \in Int /\ Zero(a - u) /\ Zero(b - v) /\ Zero(u - a) /\ Zero(v - b)
  BY Reduced
<1> HIDE DEF u, v
<1>2. ASSUME u = v PROVE Zero(a - b)
  <2>1. Zero((a - u) - (b - v))
    BY <1>1, ZeroSum
  <2>2. (a - u) - (b - v) = a - b
    BY <1>1, <1>2
  <2> QED BY <2>1, <2>2
<1>3. ASSUME Zero(a - b) PROVE u = v
  <2>1. Zero((u - a) + (a - b))
    BY <1>1, <1>3, ZeroSum
  <2>2. Zero(((u - a) + (a - b)) - (v - b))
    BY <1>1, <2>1, ZeroSum
  <2>3. ((u - a) + (a - b)) - (v - b) = u - v
    BY <1>1
  <2>4. Zero(u - v)
    BY <2>2, <2>3
  <2> QED BY <1>1, <2>4, SameScalar
<1> QED BY <1>2, <1>3 DEF u, v

LEMMA LeastNat ==
  ASSUME NEW T, T \subseteq Nat, T # {}
  PROVE  \E m \in T : \A n \in T : m <= n
<1>1. IsWellFoundedOn(OpToRel(<, Nat), Nat)
  BY NatLessThanWellFounded
<1>2. \E m \in T : \A y \in T : ~ (<<y, m>> \in OpToRel(<, Nat))
  BY <1>1, WFMin
<1>3. PICK m \in T : \A y \in T : ~ (<<y, m>> \in OpToRel(<, Nat))
  BY <1>2
<1>4. \A y \in T : ~(y < m)
  BY <1>3 DEF OpToRel
<1> QED BY <1>4

\* The least positive combination of a and Prime divides Prime.
LEMMA HasInverse ==
  ASSUME NEW a \in Int, ~Zero(a)
  PROVE  \E y \in Scalar : Zero(a * y - 1)
<1> DEFINE D == {x \in Nat \ {0} : \E y \in Int : Zero(a * y - x)}
           r == a % Prime
<1>1. r \in Nat /\ r < Prime /\ Zero(a - r) /\ r \in Int
  BY Reduced, PrimeFact DEF Scalar
<1>2. r # 0
  BY <1>1
<1>3. r \in D
  <2> HIDE DEF r
  <2>1. Zero(a * 1 - r)
    BY <1>1
  <2> QED BY <1>1, <1>2, <2>1
<1>4. PICK d \in D : \A n \in D : d <= n
  <2>1. D \subseteq Nat /\ D # {}
    BY <1>3
  <2> HIDE DEF D
  <2> QED BY <2>1, LeastNat
<1>5. d \in Nat \ {0} /\ d \in Int /\ d < Prime
  <2>1. d <= r /\ d \in Nat \ {0}
    BY <1>3, <1>4
  <2> HIDE DEF r, D
  <2> QED BY <1>1, <2>1, PrimeFact
<1>6. PICK y \in Int : Zero(a * y - d)
  OBVIOUS
<1>7. d = 1
  <2> SUFFICES ASSUME d # 1 PROVE FALSE
    OBVIOUS
  <2> DEFINE q == Prime \div d
             e == Prime % d
  <2>1. e # 0
    <3>1. d \in 2..(Prime - 1)
      <4> HIDE DEF D
      <4> QED BY <1>5, PrimeFact
    <3> QED BY <3>1, FieldAssumption
  <2>2. q \in Int /\ Prime = d * q + e /\ e \in 0..(d - 1)
    BY <1>5, PrimeFact
  <2> HIDE DEF q, e
  <2>3. e \in Nat \ {0} /\ e < d /\ e \in Int
    BY <2>1, <2>2, <1>5
  <2>4. Zero((-q) * (a * y - d) - Prime)
    <3> DEFINE u == a * y - d
    <3>1. u \in Int /\ Zero(u) /\ -q \in Int
      BY <1>5, <1>6, <2>2
    <3>2. Zero(Prime)
      <4>1. Prime = 1 * Prime
        BY PrimeFact
      <4> QED BY <4>1 DEF Zero
    <3>3. Combines((-q) * (a * y - d) - Prime, -q, u, -1, Prime)
      BY <1>5, <2>2, PrimeFact DEF Combines
    <3> HIDE DEF u
    <3> QED BY <3>1, <3>2, <3>3, ZeroCombination, PrimeFact
  <2>5. (-q) * (a * y - d) - Prime = a * ((-q) * y) - e
    BY <1>5, <2>2, <2>3
  <2>6. (-q) * y \in Int /\ Zero(a * ((-q) * y) - e)
    BY <2>2, <2>4, <2>5
  <2>7. e \in D
    BY <2>3, <2>6
  <2> QED BY <2>7, <1>4, <2>3, <1>5
<1> DEFINE z == y % Prime
<1>8. z \in Scalar /\ z \in Int /\ Zero(z - y)
  BY Reduced
<1> HIDE DEF z
<1> DEFINE u == z - y
           v == a * y - 1
<1>9. u \in Int /\ v \in Int /\ Zero(u) /\ Zero(v)
  BY <1>6, <1>7, <1>8
<1>10. Combines(a * z - 1, a, u, 1, v)
  BY <1>8 DEF Combines
<1> HIDE DEF u, v
<1>11. Zero(a * z - 1)
  BY <1>9, <1>10, ZeroCombination
<1> QED BY <1>8, <1>11

\* A field has no zero divisors.
LEMMA NoDivisors ==
  ASSUME NEW a \in Int, NEW b \in Int, Zero(a * b), ~Zero(a)
  PROVE  Zero(b)
<1>1. PICK y \in Scalar : Zero(a * y - 1)
  BY HasInverse
<1> DEFINE u == a * b
           v == a * y - 1
<1>2. y \in Int
  BY PrimeFact DEF Scalar
<1>3. u \in Int /\ v \in Int /\ Zero(u) /\ Zero(v)
  BY <1>1, <1>2
<1>4. Combines(b, y, u, -b, v) /\ -b \in Int
  BY <1>2 DEF Combines
<1> HIDE DEF u, v
<1> QED BY <1>2, <1>3, <1>4, ZeroCombination

LEMMA InvertInverts ==
  ASSUME NEW a \in Int, ~Zero(a)
  PROVE  Invert(a % Prime) \in Scalar /\ Invert(a % Prime) \in Int /\ Zero(a * Invert(a % Prime) - 1)
<1> DEFINE r == a % Prime
<1>1. r \in Int /\ Zero(a - r) /\ Zero(r - a)
  BY Reduced
<1> HIDE DEF r
<1>2. 1 % Prime = 1
  BY PrimeFact
<1>3. PICK y \in Scalar : Zero(a * y - 1)
  BY HasInverse
<1>4. \A z \in Scalar : (r * z) % Prime = 1 <=> Zero(a * z - 1)
  <2> SUFFICES ASSUME NEW z \in Scalar PROVE (r * z) % Prime = 1 <=> Zero(a * z - 1)
    OBVIOUS
  <2>1. z \in Int
    BY PrimeFact DEF Scalar
  <2>2. (r * z) % Prime = 1 <=> Zero(r * z - 1)
    <3> DEFINE m == r * z
    <3>1. m \in Int
      BY <1>1, <2>1
    <3> HIDE DEF m
    <3>2. m % Prime = 1 % Prime <=> Zero(m - 1)
      BY <3>1, SameReduced
    <3> QED BY <1>2, <3>2 DEF m
  <2>3. ASSUME Zero(r * z - 1) PROVE Zero(a * z - 1)
    <3> DEFINE u == r * z - 1
               v == a - r
    <3>1. u \in Int /\ v \in Int /\ Zero(u) /\ Zero(v) /\ Combines(a * z - 1, 1, u, z, v)
      BY <1>1, <2>1, <2>3 DEF Combines
    <3> HIDE DEF u, v
    <3> QED BY <2>1, <3>1, ZeroCombination
  <2>4. ASSUME Zero(a * z - 1) PROVE Zero(r * z - 1)
    <3> DEFINE u == a * z - 1
               v == r - a
    <3>1. u \in Int /\ v \in Int /\ Zero(u) /\ Zero(v) /\ Combines(r * z - 1, 1, u, z, v)
      BY <1>1, <2>1, <2>4 DEF Combines
    <3> HIDE DEF u, v
    <3> QED BY <2>1, <3>1, ZeroCombination
  <2> QED BY <2>2, <2>3, <2>4
<1>5. Invert(r) \in Scalar /\ (r * Invert(r)) % Prime = 1
  BY <1>3, <1>4 DEF Invert
<1>6. Invert(r) \in Int /\ Zero(a * Invert(r) - 1)
  BY <1>4, <1>5, PrimeFact DEF Scalar
<1> QED BY <1>5, <1>6 DEF r

-----------------------------------------------------------------------------
(* Sums and products over finite sets.                                     *)

Sum(f, S) == SumFunctionOnSet(f, S)
Product(f, S) == FoldFunctionOnSet(Times, 1, f, S)

Sums == INSTANCE FiniteFolds WITH Op <- +, Base <- 0, Value <- Int
Products == INSTANCE FiniteFolds WITH Op <- Times, Base <- 1, Value <- Int

LEMMA SumFacts ==
  ASSUME NEW S, IsFiniteSet(S), NEW f, \A x \in S : f[x] \in Int
  PROVE  /\ Sum(f, {}) = 0
         /\ Sum(f, S) \in Int
         /\ \A x \in S : Sum(f, S) = f[x] + Sum(f, S \ {x})
         /\ \A g : (\A x \in S : f[x] = g[x]) => Sum(f, S) = Sum(g, S)
<1>0. Sums!IsFiniteSet(S)
  BY DEF IsFiniteSet, Sums!IsFiniteSet
<1>1. Sums!Monoid
  BY DEF Sums!Monoid
<1>2. \A g, T : Sum(g, T) = Sums!Fold(g, T)
  BY DEF Sum, SumFunctionOnSet, FoldFunctionOnSet, MapThenFoldSet,
         Sums!Fold, Sums!FoldFunctionOnSet, Sums!MapThenFoldSet
<1>3. Sums!Fold(f, {}) = 0
  BY Sums!FoldEmpty
<1>4. Sums!Fold(f, S) \in Int
  BY <1>0, <1>1, Sums!FoldType
<1>5. \A x \in S : Sums!Fold(f, S) = f[x] + Sums!Fold(f, S \ {x})
  BY <1>0, <1>1, Sums!FoldElement
<1>6. \A g : (\A x \in S : f[x] = g[x]) => Sums!Fold(f, S) = Sums!Fold(g, S)
  BY <1>0, Sums!FoldSame
<1> QED BY <1>2, <1>3, <1>4, <1>5, <1>6

LEMMA ProductFacts ==
  ASSUME NEW S, IsFiniteSet(S), NEW f, \A x \in S : f[x] \in Int
  PROVE  /\ Product(f, {}) = 1
         /\ Product(f, S) \in Int
         /\ \A x \in S : Product(f, S) = Times(f[x], Product(f, S \ {x}))
         /\ \A g : (\A x \in S : f[x] = g[x]) => Product(f, S) = Product(g, S)
<1>0. Products!IsFiniteSet(S)
  BY DEF IsFiniteSet, Products!IsFiniteSet
<1>1. Products!Monoid
  <2>1. \A a, b \in Int : Times(a, b) \in Int
    BY PrimeFact DEF Times
  <2>2. ASSUME NEW a \in Int, NEW b \in Int, NEW c \in Int
        PROVE  Times(a, Times(b, c)) = Times(b, Times(a, c))
    <3> DEFINE m == b * c
               n == a * c
               r == m % Prime
               s == n % Prime
               u == r - m
               v == s - n
    <3>1. m \in Int /\ n \in Int /\ r \in Int /\ s \in Int /\ Zero(u) /\ Zero(v)
      <4>1. m \in Int /\ n \in Int
        OBVIOUS
      <4> HIDE DEF m, n
      <4> QED BY <4>1, Reduced
    <3>2. Combines(a * r - b * s, a, u, -b, v) /\ -b \in Int
      <4> HIDE DEF r, s
      <4> QED BY <3>1 DEF Combines
    <3>3. Zero(a * r - b * s)
      <4>1. u \in Int /\ v \in Int
        BY <3>1
      <4> HIDE DEF u, v, r, s
      <4> QED BY <3>1, <3>2, <4>1, ZeroCombination
    <3> DEFINE i == a * r
               j == b * s
    <3>4. i \in Int /\ j \in Int /\ Zero(i - j)
      <4> HIDE DEF r, s
      <4> QED BY <3>1, <3>3
    <3>5. i % Prime = j % Prime
      <4> HIDE DEF i, j
      <4> QED BY <3>4, SameReduced
    <3> QED BY <3>5 DEF Times
  <2> QED BY <2>1, <2>2 DEF Products!Monoid
<1>2. \A g, T : Product(g, T) = Products!Fold(g, T)
  BY DEF Product, FoldFunctionOnSet, MapThenFoldSet,
         Products!Fold, Products!FoldFunctionOnSet, Products!MapThenFoldSet
<1>3. Products!Fold(f, {}) = 1
  BY Products!FoldEmpty
<1>4. Products!Fold(f, S) \in Int
  BY <1>0, <1>1, Products!FoldType
<1>5. \A x \in S : Products!Fold(f, S) = Times(f[x], Products!Fold(f, S \ {x}))
  BY <1>0, <1>1, Products!FoldElement
<1>6. \A g : (\A x \in S : f[x] = g[x]) => Products!Fold(f, S) = Products!Fold(g, S)
  BY <1>0, Products!FoldSame
<1> QED BY <1>2, <1>3, <1>4, <1>5, <1>6

LEMMA SmallestSet ==
  ASSUME NEW S, IsFiniteSet(S), NEW C \in SUBSET SUBSET S, C # {}
  PROVE  \E m \in C : \A u \in C : u \subseteq m => u = m
<1>1. Sums!IsFiniteSet(S)
  BY DEF IsFiniteSet, Sums!IsFiniteSet
<1> QED BY <1>1, Sums!Smallest

Mix(a, x, b, y, c, z) == a * x + b * y + c * z

\* What is zero for each element is zero for the sums.
LEMMA SumsCombine ==
  ASSUME NEW S, IsFiniteSet(S), NEW f, NEW g, NEW h,
         \A x \in S : f[x] \in Int /\ g[x] \in Int /\ h[x] \in Int,
         NEW a \in Int, NEW b \in Int, NEW c \in Int,
         \A x \in S : Zero(Mix(a, f[x], b, g[x], c, h[x]))
  PROVE  Zero(Mix(a, Sum(f, S), b, Sum(g, S), c, Sum(h, S)))
<1> DEFINE Total(T) == Mix(a, Sum(f, T), b, Sum(g, T), c, Sum(h, T))
           C == {T \in SUBSET S : ~Zero(Total(T))}
<1> SUFFICES ASSUME C # {} PROVE FALSE
  OBVIOUS
<1>1. PICK m \in C : \A u \in C : u \subseteq m => u = m
  <2>1. C \in SUBSET SUBSET S
    OBVIOUS
  <2> HIDE DEF C
  <2> QED BY <2>1, SmallestSet
<1>2. m \in SUBSET S /\ IsFiniteSet(m)
  BY FS_Subset
<1>3. PICK x : x \in m
  <2> SUFFICES ASSUME m = {} PROVE FALSE
    OBVIOUS
  <2>1. Sum(f, m) = 0 /\ Sum(g, m) = 0 /\ Sum(h, m) = 0
    BY <1>2, SumFacts
  <2>2. Total(m) = 0
    BY <2>1 DEF Mix
  <2> QED BY <2>2, ZeroZero
<1> DEFINE R == m \ {x}
           t == Mix(a, f[x], b, g[x], c, h[x])
           w == Total(R)
<1>4. R \in SUBSET S /\ IsFiniteSet(R) /\ x \in S
  BY <1>2, <1>3, FS_Subset
<1>5. /\ Sum(f, m) = f[x] + Sum(f, R) /\ Sum(f, R) \in Int
      /\ Sum(g, m) = g[x] + Sum(g, R) /\ Sum(g, R) \in Int
      /\ Sum(h, m) = h[x] + Sum(h, R) /\ Sum(h, R) \in Int
  BY <1>2, <1>3, <1>4, SumFacts
<1>6. Zero(w)
  BY <1>1, <1>3, <1>4
<1>7. t \in Int /\ w \in Int /\ Zero(t)
  <2> HIDE DEF R
  <2> QED BY <1>4, <1>5 DEF Mix
<1>8. Combines(Total(m), 1, t, 1, w)
  <2> HIDE DEF R
  <2> QED BY <1>4, <1>5 DEF Combines, Mix
<1>9. ~Zero(Total(m))
  OBVIOUS
<1> HIDE DEF Total, t, w
<1> QED BY <1>6, <1>7, <1>8, <1>9, ZeroCombination

-----------------------------------------------------------------------------
(* Interpolation.                                                          *)

Factor(j, k) == k * Invert((k - j) % Prime)

\* Indices are different modulo Prime, so each has an inverse.
LEMMA IndexFacts ==
  ASSUME NEW j \in Party, NEW k \in Party, j # k
  PROVE  /\ j \in Int /\ k \in Int /\ Factor(j, k) \in Int
         /\ ~Zero(k) /\ ~Zero(k - j)
         /\ Zero((k - j) * Factor(j, k) - k)
<1>1. /\ j \in Int /\ k \in Int /\ 0 < k /\ k < Prime
      /\ -Prime < k - j /\ k - j < Prime /\ k - j # 0 /\ k - j \in Int
  BY PrimeFact DEF Party
<1>2. ~Zero(k) /\ ~Zero(k - j)
  BY <1>1, SmallZero, PrimeFact
<1> DEFINE d == k - j
           i == Invert(d % Prime)
           u == d * i - 1
<1>3. d \in Int /\ ~Zero(d)
  BY <1>1, <1>2
<1>4. i \in Int /\ Zero(u)
  <2> HIDE DEF d
  <2> QED BY <1>3, InvertInverts
<1>5. u \in Int /\ Combines(d * (k * i) - k, k, u, 0, u) /\ d * (k * i) - k \in Int
  <2> HIDE DEF i
  <2> QED BY <1>1, <1>4 DEF Combines
<1>6. Zero(d * (k * i) - k)
  <2> HIDE DEF u
  <2> QED BY <1>1, <1>4, <1>5, ZeroCombination
<1>7. Factor(j, k) = k * i
  BY DEF Factor
<1>8. Factor(j, k) \in Int
  <2> HIDE DEF i
  <2> QED BY <1>1, <1>4, <1>7
<1> QED BY <1>1, <1>2, <1>6, <1>7, <1>8

LEMMA PartyFinite ==
  /\ IsFiniteSet(Party)
  /\ \A S \in SUBSET Party : IsFiniteSet(S)
<1>1. IsFiniteSet(Party)
  BY PrimeFact, FS_Interval DEF Party
<1> QED BY <1>1, FS_Subset

Factors(j) == [k \in Party |-> Factor(j, k)]

LEMMA LagrangeProduct ==
  ASSUME NEW S \in SUBSET Party, NEW j \in Party
  PROVE  Lagrange(j, S) = Product(Factors(j), S \ {j})
<1> DEFINE f == [k \in S \ {j} |-> Factor(j, k)]
           T == S \ {j}
<1>1. DOMAIN f = T /\ IsFiniteSet(T) /\ T \subseteq Party
  BY PartyFinite
<1>2. Lagrange(j, S) = Product(f, T)
  BY <1>1 DEF Lagrange, FoldFunction, Product, Factor
<1>3. \A k \in T : f[k] \in Int /\ f[k] = Factors(j)[k]
  BY <1>1, IndexFacts DEF Factors
<1> HIDE DEF f, T
<1>4. Product(f, T) = Product(Factors(j), T)
  BY <1>1, <1>3, ProductFacts
<1> QED BY <1>2, <1>4 DEF T

\* What another factor does to a product.
LEMMA FactorIn ==
  ASSUME NEW j \in Party, NEW T \in SUBSET (Party \ {j}), NEW k \in T
  PROVE  /\ Product(Factors(j), T) \in Int /\ Product(Factors(j), T \ {k}) \in Int
         /\ Zero(Product(Factors(j), T) - Factor(j, k) * Product(Factors(j), T \ {k}))
<1> DEFINE P == Product(Factors(j), T)
           Q == Product(Factors(j), T \ {k})
           F == Factor(j, k)
<1>1. IsFiniteSet(T) /\ IsFiniteSet(T \ {k})
  BY PartyFinite
<1>2. \A i \in T : Factors(j)[i] \in Int
  BY IndexFacts DEF Factors
<1>3. P \in Int /\ Q \in Int /\ F \in Int /\ P = Times(F, Q)
  BY <1>1, <1>2, ProductFacts DEF Factors
<1> HIDE DEF P, Q, F
<1> DEFINE m == F * Q
<1>4. m \in Int /\ P = m % Prime
  BY <1>3 DEF Times
<1> HIDE DEF m
<1>5. Zero(P - m)
  BY <1>4, Reduced
<1> QED BY <1>3, <1>5 DEF m, P, Q, F

LEMMA ProductNotZero ==
  ASSUME NEW j \in Party, NEW S \in SUBSET (Party \ {j})
  PROVE  ~Zero(Product(Factors(j), S))
<1> DEFINE C == {T \in SUBSET S : Zero(Product(Factors(j), T))}
<1> SUFFICES ASSUME C # {} PROVE FALSE
  OBVIOUS
<1>1. IsFiniteSet(S)
  BY PartyFinite
<1>2. PICK m \in C : \A u \in C : u \subseteq m => u = m
  <2>1. C \in SUBSET SUBSET S
    OBVIOUS
  <2> HIDE DEF C
  <2> QED BY <1>1, <2>1, SmallestSet
<1>3. PICK k : k \in m
  <2> SUFFICES ASSUME m = {} PROVE FALSE
    OBVIOUS
  <2>1. Product(Factors(j), m) = 1
    BY ProductFacts, FS_EmptySet
  <2>2. Zero(1)
    BY <2>1
  <2> QED BY <2>2, SmallZero, PrimeFact
<1> DEFINE R == m \ {k}
           P == Product(Factors(j), m)
           Q == Product(Factors(j), R)
           F == Factor(j, k)
           u == P - F * Q
           v == (k - j) * F - k
<1>4. /\ k \in Party /\ k # j /\ m \in SUBSET (Party \ {j}) /\ R \in SUBSET S /\ R # m
      /\ R \subseteq m /\ Zero(P)
  BY <1>3
<1>5. P \in Int /\ Q \in Int /\ Zero(u)
  BY <1>3, <1>4, FactorIn
<1>6. F \in Int /\ k \in Int /\ j \in Int /\ ~Zero(k) /\ Zero(v)
  BY <1>4, IndexFacts
<1>7. ~Zero(Q)
  BY <1>2, <1>4
<1> HIDE DEF P, Q, F, R, C
<1>8. Zero(F * Q)
  <2>1. u \in Int /\ F * Q \in Int /\ Combines(F * Q, 1, P, -1, u)
    BY <1>5, <1>6 DEF Combines
  <2> HIDE DEF u
  <2> QED BY <1>4, <1>5, <2>1, ZeroCombination
<1>9. ~Zero(F)
  <2> SUFFICES ASSUME Zero(F) PROVE FALSE
    OBVIOUS
  <2>1. v \in Int /\ k - j \in Int /\ Combines(k, k - j, F, -1, v)
    BY <1>6 DEF Combines
  <2> HIDE DEF v
  <2> QED BY <1>6, <2>1, ZeroCombination
<1> QED BY <1>5, <1>6, <1>7, <1>8, <1>9, NoDivisors

\* One factor of the coefficient more, and none is zero.
LEMMA LagrangeFacts ==
  ASSUME NEW S \in SUBSET Party, NEW j \in S
  PROVE  /\ Lagrange(j, S) \in Int
         /\ ~Zero(Lagrange(j, S))
         /\ \A k \in S \ {j} :
              Zero(Lagrange(j, S) * (k - j) - k * Lagrange(j, S \ {k}))
<1> DEFINE T == S \ {j}
<1>1. j \in Party /\ T \in SUBSET (Party \ {j}) /\ IsFiniteSet(T)
  BY PartyFinite
<1>2. Lagrange(j, S) = Product(Factors(j), T)
  BY <1>1, LagrangeProduct
<1>3. \A i \in T : Factors(j)[i] \in Int
  BY <1>1, IndexFacts DEF Factors
<1>4. Product(Factors(j), T) \in Int /\ ~Zero(Product(Factors(j), T))
  <2> HIDE DEF T
  <2> QED BY <1>1, <1>3, ProductFacts, ProductNotZero
<1>5. ASSUME NEW k \in S \ {j}
      PROVE  Zero(Lagrange(j, S) * (k - j) - k * Lagrange(j, S \ {k}))
  <2> DEFINE P == Product(Factors(j), T)
             Q == Product(Factors(j), T \ {k})
             F == Factor(j, k)
             u == P - F * Q
             v == (k - j) * F - k
  <2>1. Lagrange(j, S \ {k}) = Q
    <3>1. (S \ {k}) \ {j} = T \ {k} /\ S \ {k} \in SUBSET Party
      OBVIOUS
    <3> QED BY <1>1, <3>1, LagrangeProduct
  <2>2. P \in Int /\ Q \in Int /\ Zero(u)
    BY <1>1, FactorIn
  <2>3. F \in Int /\ k \in Int /\ j \in Int /\ Zero(v)
    BY <1>1, IndexFacts
  <2> HIDE DEF P, Q, F, T
  <2>4. /\ u \in Int /\ v \in Int /\ k - j \in Int
        /\ Combines(P * (k - j) - k * Q, k - j, u, Q, v)
    BY <2>2, <2>3 DEF Combines
  <2> HIDE DEF u, v
  <2>5. Zero(P * (k - j) - k * Q)
    BY <2>2, <2>3, <2>4, ZeroCombination
  <2> QED BY <1>2, <2>1, <2>5 DEF P
<1> QED BY <1>2, <1>4, <1>5

\* The interpolation before it is reduced.
Terms(points, S) == [j \in S |-> Lagrange(j, S) * points[j]]
At(points, S) == Sum(Terms(points, S), S)

LEMMA AtZeroFacts ==
  ASSUME NEW S \in SUBSET Party, NEW y, \A j \in S : y[j] \in Int
  PROVE  /\ \A j \in S : Terms(y, S)[j] \in Int
         /\ At(y, S) \in Int
         /\ AtZero(y, S) = At(y, S) % Prime
         /\ AtZero(y, S) \in Scalar
<1>1. \A j \in S : Terms(y, S)[j] \in Int
  <2> SUFFICES ASSUME NEW j \in S PROVE Lagrange(j, S) * y[j] \in Int
    BY DEF Terms
  <2>1. Lagrange(j, S) \in Int
    BY LagrangeFacts
  <2> QED BY <2>1
<1>2. At(y, S) \in Int
  BY <1>1, PartyFinite, SumFacts DEF At
<1>3. AtZero(y, S) = At(y, S) % Prime
  BY DEF AtZero, SumFunction, At, Sum, Terms
<1> QED BY <1>1, <1>2, <1>3, Reduced

Times1(y) == [j \in Party |-> j * y[j]]

\* What becomes of the interpolation when an index is left out.
LEMMA LeaveOut ==
  ASSUME NEW B \in SUBSET Party, NEW y, \A j \in B : y[j] \in Int, NEW v \in B
  PROVE  Zero(Mix(v, At(y, B \ {v}), -v, At(y, B), 1, At(Times1(y), B)))
<1> DEFINE R == B \ {v}
           f == Terms(y, R)
           g == Terms(y, B)
           h == Terms(Times1(y), B)
<1>1. R \in SUBSET Party /\ IsFiniteSet(R) /\ IsFiniteSet(B) /\ v \in Party /\ v \in Int
  BY PartyFinite, PrimeFact DEF Party
<1>2. \A j \in B : Times1(y)[j] = j * y[j] /\ Times1(y)[j] \in Int
  BY PrimeFact DEF Times1, Party
<1>3. /\ \A j \in R : f[j] \in Int
      /\ \A j \in B : g[j] \in Int /\ h[j] \in Int
  <2> HIDE DEF f, g, h
  <2>1. \A j \in R : f[j] \in Int
    BY <1>1, AtZeroFacts DEF f
  <2>2. \A j \in B : g[j] \in Int
    BY AtZeroFacts DEF g
  <2>3. \A j \in B : h[j] \in Int
    BY <1>2, AtZeroFacts DEF h
  <2> QED BY <2>1, <2>2, <2>3
<1>4. ASSUME NEW j \in R
      PROVE  Zero(Mix(v, f[j], -v, g[j], 1, h[j]))
  <2> DEFINE K == Lagrange(j, R)
             L == Lagrange(j, B)
             z == y[j]
             u == L * (v - j) - v * K
  <2>1. j \in Party /\ j # v /\ j \in Int /\ z \in Int
    BY PrimeFact DEF Party
  <2>2. K \in Int /\ L \in Int /\ Zero(u)
    BY <1>1, LagrangeFacts
  <2>3. f[j] = K * z /\ g[j] = L * z /\ h[j] = L * (j * z)
    BY <1>2 DEF Terms
  <2> HIDE DEF K, L, z, f, g, h
  <2>4. u \in Int /\ -z \in Int
        /\ Combines(Mix(v, f[j], -v, g[j], 1, h[j]), -z, u, 0, u)
    BY <1>1, <2>1, <2>2, <2>3 DEF Combines, Mix
  <2> HIDE DEF u
  <2> QED BY <2>2, <2>4, ZeroCombination
<1>5. Zero(Mix(v, Sum(f, R), -v, Sum(g, R), 1, Sum(h, R)))
  <2> HIDE DEF f, g, h, R
  <2>1. \A j \in R : f[j] \in Int /\ g[j] \in Int /\ h[j] \in Int
    BY <1>3 DEF R
  <2> DEFINE c == -v
  <2>2. c \in Int /\ 1 \in Int
    BY <1>1
  <2>3. \A j \in R : Zero(Mix(v, f[j], c, g[j], 1, h[j]))
    BY <1>4
  <2> HIDE DEF c
  <2>4. Zero(Mix(v, Sum(f, R), c, Sum(g, R), 1, Sum(h, R)))
    BY <1>1, <2>1, <2>2, <2>3, SumsCombine
  <2> QED BY <2>4 DEF c
<1>6. h[v] = v * g[v]
  <2>1. Lagrange(v, B) \in Int /\ y[v] \in Int
    BY LagrangeFacts
  <2>2. g[v] = Lagrange(v, B) * y[v] /\ h[v] = Lagrange(v, B) * (v * y[v])
    BY <1>2 DEF Terms
  <2> HIDE DEF f, g, h
  <2> QED BY <1>1, <2>1, <2>2
<1>7. Sum(g, B) = g[v] + Sum(g, R) /\ Sum(h, B) = h[v] + Sum(h, R)
  <2> HIDE DEF g, h
  <2> QED BY <1>1, <1>3, SumFacts
<1>8. Sum(f, R) \in Int /\ Sum(g, R) \in Int /\ Sum(h, R) \in Int
  <2> HIDE DEF f, g, h, R
  <2>1. \A j \in R : g[j] \in Int /\ h[j] \in Int
    BY <1>3 DEF R
  <2> QED BY <1>1, <1>3, <2>1, SumFacts
<1>9. Mix(v, Sum(f, R), -v, Sum(g, B), 1, Sum(h, B))
        = Mix(v, Sum(f, R), -v, Sum(g, R), 1, Sum(h, R))
  <2>1. g[v] \in Int
    BY <1>3
  <2> HIDE DEF f, g, h, R
  <2> QED BY <1>1, <1>6, <1>7, <1>8, <2>1 DEF Mix
<1>10. At(y, R) = Sum(f, R) /\ At(y, B) = Sum(g, B) /\ At(Times1(y), B) = Sum(h, B)
  BY DEF At
<1> HIDE DEF f, g, h
<1> QED BY <1>5, <1>9, <1>10

\* If two sets that leave one index of B out give the same, then so do all, and B itself.
LEMMA TwoPin ==
  ASSUME NEW B \in SUBSET Party, NEW y, \A j \in B : y[j] \in Int,
         NEW u \in B, NEW v \in B, u # v, AtZero(y, B \ {u}) = AtZero(y, B \ {v})
  PROVE  /\ Zero(At(Times1(y), B))
         /\ \A w \in B : AtZero(y, B \ {w}) = AtZero(y, B)
<1> DEFINE G(i) == At(y, B \ {i})
           N == At(y, B)
           M == At(Times1(y), B)
           X(i) == Mix(i, G(i), -i, N, 1, M)
<1>1. \A i \in B : i \in Party /\ i \in Int
  BY PrimeFact DEF Party
<1>2. \A i \in B : G(i) \in Int /\ AtZero(y, B \ {i}) = G(i) % Prime
  BY AtZeroFacts
<1>3. N \in Int /\ M \in Int
  <2>1. \A j \in B : Times1(y)[j] \in Int
    BY PrimeFact DEF Times1, Party
  <2> QED BY <2>1, AtZeroFacts
<1>4. \A i \in B : Zero(X(i))
  BY LeaveOut
<1>5. Zero(G(u) - G(v))
  <2> HIDE DEF G
  <2> QED BY <1>2, SameReduced
<1> HIDE DEF G, N, M
<1>6. \A i \in B : X(i) \in Int /\ ~Zero(i)
  <2>1. \A i \in B : ~Zero(i)
    BY <1>1, SmallZero, PrimeFact DEF Party
  <2>2. ASSUME NEW i \in B PROVE X(i) \in Int
    <3>1. i \in Int /\ G(i) \in Int
      BY <1>1, <1>2
    <3> QED BY <1>3, <3>1 DEF Mix
  <2> HIDE DEF X
  <2> QED BY <2>1, <2>2
<1>7. Zero(M)
  <2> DEFINE d == G(u) - G(v)
             e == v * X(u) + (-u) * X(v)
  <2>1. e \in Int /\ Zero(e)
    <3>1. Combines(e, v, X(u), -u, X(v)) /\ u \in Int /\ v \in Int /\ -u \in Int
      BY <1>1 DEF Combines
    <3>2. X(u) \in Int /\ X(v) \in Int
      BY <1>6
    <3>3. e \in Int
      <4> HIDE DEF X
      <4> QED BY <3>1, <3>2
    <3> HIDE DEF X, e
    <3> QED BY <1>4, <3>1, <3>2, <3>3, ZeroCombination
  <2>2. /\ d \in Int /\ Zero(d) /\ -(u * v) \in Int
        /\ Combines((v - u) * M, 1, e, -(u * v), d)
    <3>1. u \in Int /\ v \in Int /\ G(u) \in Int /\ G(v) \in Int
      BY <1>1, <1>2
    <3>2. X(u) \in Int /\ X(v) \in Int
      BY <1>6
    <3> QED BY <1>3, <1>5, <3>1, <3>2 DEF Combines, Mix
  <2> HIDE DEF e, d
  <2>3. Zero((v - u) * M)
    BY <2>1, <2>2, ZeroCombination
  <2>4. ~Zero(v - u) /\ v - u \in Int
    BY <1>1, IndexFacts
  <2> QED BY <1>3, <2>3, <2>4, NoDivisors
<1>8. ASSUME NEW i \in B PROVE Zero(G(i) - N)
  <2>0. i \in Int /\ G(i) \in Int
    BY <1>1, <1>2
  <2>1. Combines(i * (G(i) - N), 1, X(i), -1, M)
    BY <1>3, <2>0 DEF Combines, Mix
  <2>2. i * (G(i) - N) \in Int /\ G(i) - N \in Int
    BY <1>3, <2>0
  <2> HIDE DEF X
  <2>3. Zero(i * (G(i) - N))
    BY <1>3, <1>4, <1>6, <1>7, <2>1, <2>2, ZeroCombination
  <2> QED BY <1>1, <1>6, <2>2, <2>3, NoDivisors
<1>9. \A w \in B : G(w) % Prime = N % Prime
  BY <1>2, <1>3, <1>8, SameReduced
<1>10. AtZero(y, B) = N % Prime
  BY AtZeroFacts DEF N
<1> QED BY <1>2, <1>7, <1>9, <1>10 DEF M

-----------------------------------------------------------------------------
(* What the windows of step5 show.                                         *)

\* Where all windows agree on a public key, none is cut short by the indices' width.
LEMMA WindowsFit ==
  ASSUME NEW points, OnePolynomial(points), PublicKey(points) # 0, NEW i \in WindowStarts
  PROVE  Window(i) = i..(i + Threshold - 1) /\ AtZero(points, Window(i)) = PublicKey(points)
<1> DEFINE M == 2 ^ IndexWidth
           e == i + Threshold
<1>1. /\ M \in Nat /\ e \in Nat /\ 0 < e /\ e <= M /\ i \in Int /\ Threshold \in Int
      /\ Threshold > 0
  <2>1. ShareCount \in Nat /\ Threshold \in 1..ShareCount /\ M \in Nat /\ ShareCount < M
    BY FieldAssumption
  <2> HIDE DEF M
  <2> QED BY <2>1 DEF WindowStarts
<1>2. AtZero(points, Window(i)) = PublicKey(points)
  BY DEF OnePolynomial, PublicKey
<1>3. Window(i) = i..((e % M) - 1)
  BY DEF Window
<1> HIDE DEF M, e
<1>4. ASSUME e = M PROVE FALSE
  <2>1. e % M = 0
    BY <1>1, <1>4
  <2>2. Window(i) = {}
    BY <1>1, <1>3, <2>1 DEF WindowStarts
  <2>3. At(points, {}) = 0
    BY SumFacts, FS_EmptySet DEF At
  <2>4. AtZero(points, {}) = 0 % Prime
    BY <2>3, AtZeroFacts
  <2>5. 0 % Prime = 0
    BY PrimeFact
  <2> QED BY <1>2, <2>2, <2>4, <2>5
<1>5. e % M = e
  BY <1>1, <1>4
<1> QED BY <1>1, <1>2, <1>3, <1>5 DEF e

LEMMA PublicKeyType ==
  ASSUME NEW points, \A j \in Party : points[j] \in Int,
         OnePolynomial(points), PublicKey(points) # 0
  PROVE  PublicKey(points) \in Scalar
<1>1. 1 \in WindowStarts /\ Threshold <= ShareCount /\ Threshold \in Nat /\ ShareCount \in Nat
  BY FieldAssumption DEF WindowStarts
<1>2. Window(1) = 1..(1 + Threshold - 1)
  BY <1>1, WindowsFit
<1>3. Window(1) \in SUBSET Party
  BY <1>1, <1>2 DEF Party
<1> QED BY <1>3, AtZeroFacts DEF PublicKey

LEMMA Ends ==
  ASSUME NEW S \in SUBSET Party, S # {}
  PROVE  \E a, b \in S : \A x \in S : a <= x /\ x <= b
<1>1. Party \subseteq Nat /\ \A x \in Party : ShareCount - x \in Nat
  BY PrimeFact DEF Party
<1>2. PICK a \in S : \A x \in S : a <= x
  BY <1>1, LeastNat
<1> DEFINE T == {ShareCount - x : x \in S}
<1>3. T \subseteq Nat /\ T # {}
  BY <1>1
<1>4. PICK m \in T : \A n \in T : m <= n
  <2> HIDE DEF T
  <2> QED BY <1>3, LeastNat
<1>5. PICK b \in S : m = ShareCount - b
  OBVIOUS
<1>6. \A x \in S : x <= b
  <2> SUFFICES ASSUME NEW x \in S PROVE x <= b
    OBVIOUS
  <2>1. ShareCount - b <= ShareCount - x
    BY <1>4, <1>5
  <2>2. x \in Int /\ b \in Int
    BY <1>1
  <2> QED BY <2>1, <2>2, PrimeFact
<1> QED BY <1>2, <1>6

Spans(S, a, b) == a \in S /\ b \in S /\ \A x \in S : a <= x /\ x <= b

\* step5 compares enough: if all windows of successive indices interpolate to one public
\* key, so does every set of Threshold indices.
THEOREM WindowsPinThePolynomial ==
  ASSUME NEW points, \A j \in Party : points[j] \in Int,
         OnePolynomial(points), PublicKey(points) # 0,
         NEW S \in SUBSET Party, Cardinality(S) = Threshold
  PROVE  AtZero(points, S) = PublicKey(points)
<1> DEFINE Bad(U) == /\ U \in SUBSET Party /\ Cardinality(U) = Threshold
                     /\ AtZero(points, U) # PublicKey(points)
           D == {d \in Nat : \E U \in SUBSET Party : \E a, b \in U :
                               Bad(U) /\ Spans(U, a, b) /\ d = b - a}
<1> SUFFICES ASSUME Bad(S) PROVE FALSE
  OBVIOUS
<1>0. Threshold \in Nat /\ Threshold > 0 /\ ShareCount \in Nat
  BY FieldAssumption
<1>1. ASSUME NEW U, Bad(U)
      PROVE  /\ \E a, b \in U : Spans(U, a, b)
             /\ \A a, b \in U : Spans(U, a, b) => b - a \in D
  <2>1. U # {}
    BY <1>0, <1>1, FS_EmptySet
  <2>2. \E a, b \in U : Spans(U, a, b)
    BY <1>1, <2>1, Ends DEF Spans
  <2>3. \A a, b \in U : Spans(U, a, b) => b - a \in Nat
    BY <1>1, PrimeFact DEF Spans, Party
  <2> HIDE DEF Bad
  <2>4. U \in SUBSET Party
    BY <1>1 DEF Bad
  <2> QED BY <1>1, <2>2, <2>3, <2>4
<1>2. PICK d \in D : \A n \in D : d <= n
  <2>1. D # {} /\ D \subseteq Nat
    BY <1>1
  <2> HIDE DEF D
  <2> QED BY <2>1, LeastNat
<1>3. PICK U \in SUBSET Party : \E a, b \in U : Bad(U) /\ Spans(U, a, b) /\ d = b - a
  BY <1>2
<1>4. PICK a \in U, b \in U : Bad(U) /\ Spans(U, a, b) /\ d = b - a
  BY <1>3
<1>5. a \in Party /\ b \in Party /\ a \in Int /\ b \in Int /\ a <= b /\ IsFiniteSet(U)
  BY <1>4, PartyFinite, PrimeFact DEF Spans, Party
<1>6. U \subseteq a..b /\ a..b \subseteq Party /\ IsFiniteSet(a..b)
      /\ Cardinality(a..b) = b - a + 1
  <2>1. U \subseteq a..b /\ a..b \subseteq Party
    BY <1>4, <1>5, PrimeFact DEF Spans, Party
  <2>2. IsFiniteSet(a..b) /\ Cardinality(a..b) = b - a + 1
    <3> HIDE DEF D, Bad
    <3> QED BY <1>5, FS_Interval
  <2> QED BY <2>1, <2>2
<1>7. U # a..b
  <2> SUFFICES ASSUME U = a..b PROVE FALSE
    OBVIOUS
  <2>1. Threshold = b - a + 1
    BY <1>4, <1>6
  <2>2. a \in WindowStarts /\ a..(a + Threshold - 1) = U
    BY <1>0, <1>5, <2>1 DEF WindowStarts, Party
  <2>3. AtZero(points, U) = PublicKey(points)
    BY <2>2, WindowsFit
  <2> QED BY <1>4, <2>3
<1>8. PICK g \in a..b : g \notin U
  BY <1>6, <1>7
<1>9. g \in Party /\ g \in Int /\ a < g /\ g < b
  BY <1>4, <1>5, <1>6, <1>8 DEF Spans
<1> DEFINE B == U \cup {g}
<1>10. B \in SUBSET Party /\ IsFiniteSet(B) /\ Cardinality(B) = Threshold + 1
  BY <1>4, <1>5, <1>8, <1>9, FS_AddElement
<1>11. ASSUME NEW x \in {a, b} PROVE AtZero(points, B \ {x}) = PublicKey(points)
  <2> DEFINE R == B \ {x}
  <2> SUFFICES ASSUME AtZero(points, R) # PublicKey(points) PROVE FALSE
    OBVIOUS
  <2>1. R \in SUBSET Party /\ Cardinality(R) = Threshold
    <3>1. x \in B
      BY <1>4
    <3> HIDE DEF B, D, Bad
    <3>2. Cardinality(B \ {x}) = Cardinality(B) - 1
      BY <1>10, <3>1, FS_RemoveElement
    <3> QED BY <1>0, <1>10, <3>2
  <2>2. Bad(R)
    BY <2>1
  <2>3. PICK r \in R, s \in R : Spans(R, r, s)
    BY <1>1, <2>2
  <2>4. s - r \in D
    BY <1>1, <2>2, <2>3
  <2>5. \A z \in R : z \in Int /\ a <= z /\ z <= b /\ z # x
    BY <1>4, <1>5, <1>9, PrimeFact DEF Spans, Party
  <2>6. s - r < b - a
    BY <1>5, <2>3, <2>5
  <2>7. d <= s - r
    BY <1>2, <2>4
  <2>8. r \in Int /\ s \in Int
    BY <2>3, <2>5
  <2> HIDE DEF D, R, B
  <2> QED BY <1>4, <1>5, <2>6, <2>7, <2>8
<1>12. AtZero(points, B \ {g}) = AtZero(points, B \ {b})
  <2>1. a \in B /\ b \in B /\ g \in B /\ a # b
    BY <1>4, <1>5, <1>9
  <2>2. \A j \in B : points[j] \in Int
    BY <1>10
  <2>3. AtZero(points, B \ {a}) = AtZero(points, B \ {b})
    BY <1>11
  <2> HIDE DEF B, D, Bad
  <2>4. \A w \in B : AtZero(points, B \ {w}) = AtZero(points, B)
    BY <1>10, <2>1, <2>2, <2>3, TwoPin
  <2> QED BY <2>1, <2>4
<1>13. B \ {g} = U
  BY <1>8
<1> QED BY <1>4, <1>11, <1>12, <1>13

LEMMA SubsetOfSize ==
  ASSUME NEW H \in SUBSET Party, Cardinality(H) >= Threshold
  PROVE  \E U \in SUBSET H : Cardinality(U) = Threshold
<1> DEFINE C == {U \in SUBSET H : Cardinality(U) >= Threshold}
<1>1. IsFiniteSet(H) /\ Threshold \in Nat /\ Threshold > 0
  BY PartyFinite, FieldAssumption
<1>2. PICK m \in C : \A u \in C : u \subseteq m => u = m
  <2>1. C \in SUBSET SUBSET H /\ H \in C
    OBVIOUS
  <2> HIDE DEF C
  <2> QED BY <1>1, <2>1, SmallestSet
<1>3. m \in SUBSET H /\ IsFiniteSet(m) /\ Cardinality(m) \in Nat /\ Cardinality(m) >= Threshold
  BY <1>1, FS_Subset, FS_CardinalityType
<1>4. PICK x : x \in m
  BY <1>1, <1>3, FS_EmptySet
<1>5. Cardinality(m \ {x}) = Cardinality(m) - 1
  BY <1>3, <1>4, FS_RemoveElement
<1>6. m \ {x} \notin C
  BY <1>2, <1>4
<1>7. ~(Cardinality(m) - 1 >= Threshold)
  BY <1>3, <1>5, <1>6
<1> QED BY <1>1, <1>3, <1>7

LEMMA SamePoints ==
  ASSUME NEW S \in SUBSET Party, NEW f, NEW g, \A j \in S : f[j] = g[j]
  PROVE  AtZero(f, S) = AtZero(g, S)
BY DEF AtZero

\* Threshold points determine everything: two sets of points that pass step5 and agree
\* at Threshold indices agree at all, and on the public key.
THEOREM ThresholdPointsDetermineAll ==
  ASSUME NEW f \in [Party -> Scalar], OnePolynomial(f), PublicKey(f) # 0,
         NEW g \in [Party -> Scalar], OnePolynomial(g), PublicKey(g) # 0,
         NEW H \in SUBSET Party, Cardinality(H) >= Threshold, \A q \in H : f[q] = g[q]
  PROVE  PublicKey(f) = PublicKey(g) /\ f = g
<1>1. \A j \in Party : f[j] \in Int /\ g[j] \in Int
  BY PrimeFact DEF Scalar
<1>2. PICK U \in SUBSET H : Cardinality(U) = Threshold
  BY SubsetOfSize
<1>3. AtZero(f, U) = PublicKey(f) /\ AtZero(g, U) = PublicKey(g)
  BY <1>1, <1>2, WindowsPinThePolynomial
<1>4. PublicKey(f) = PublicKey(g)
  BY <1>2, <1>3, SamePoints
<1>5. PICK h : h \in U
  <2>1. Threshold # 0
    BY FieldAssumption
  <2>2. U # {}
    BY <1>2, <2>1, FS_EmptySet
  <2> QED BY <2>2
<1>6. ASSUME NEW x \in Party, x \notin U PROVE f[x] = g[x]
  <2> DEFINE R == U \ {h}
             A == R \cup {x}
  <2>1. /\ IsFiniteSet(U) /\ IsFiniteSet(R) /\ IsFiniteSet(A) /\ A \in SUBSET Party
        /\ R = A \ {x} /\ x \in A /\ R \subseteq H
    BY <1>2, <1>6, PartyFinite
  <2>2. Cardinality(A) = Threshold
    <3>1. Cardinality(R) = Cardinality(U) - 1
      BY <1>5, <2>1, FS_RemoveElement
    <3>2. Cardinality(A) = Cardinality(R) + 1
      BY <2>1, FS_AddElement
    <3> QED BY <1>2, <3>1, <3>2, FieldAssumption
  <2>3. AtZero(f, A) = AtZero(g, A)
    <3> HIDE DEF A
    <3> QED BY <1>1, <1>4, <2>1, <2>2, WindowsPinThePolynomial
  <2> DEFINE L == Lagrange(x, A)
             s == Sum(Terms(f, A), R)
  <2>4. /\ \A j \in A : Terms(f, A)[j] \in Int /\ Terms(g, A)[j] \in Int
        /\ At(f, A) \in Int /\ At(g, A) \in Int
        /\ AtZero(f, A) = At(f, A) % Prime /\ AtZero(g, A) = At(g, A) % Prime
    <3> HIDE DEF A
    <3> QED BY <1>1, <2>1, AtZeroFacts
  <2>5. /\ At(f, A) = Terms(f, A)[x] + s
        /\ At(g, A) = Terms(g, A)[x] + Sum(Terms(g, A), R)
    <3> HIDE DEF A, R
    <3> QED BY <2>1, <2>4, SumFacts DEF At
  <2>6. \A j \in R : Terms(f, A)[j] \in Int /\ Terms(f, A)[j] = Terms(g, A)[j]
    BY <2>1, <2>4 DEF Terms
  <2>7. Sum(Terms(g, A), R) = s /\ s \in Int
    <3> HIDE DEF A, R
    <3> QED BY <2>1, <2>6, SumFacts
  <2>8. Terms(f, A)[x] = L * f[x] /\ Terms(g, A)[x] = L * g[x]
    BY <2>1 DEF Terms
  <2>9. L \in Int /\ ~Zero(L)
    <3> HIDE DEF A
    <3> QED BY <2>1, LagrangeFacts
  <2>10. Zero(At(f, A) - At(g, A))
    <3> HIDE DEF A
    <3> QED BY <2>3, <2>4, SameReduced
  <2> HIDE DEF A, R, L, s
  <2>11. At(f, A) - At(g, A) = L * (f[x] - g[x]) /\ f[x] - g[x] \in Int
    BY <1>1, <2>5, <2>7, <2>8, <2>9
  <2> DEFINE e == f[x] - g[x]
  <2>12. Zero(L * e) /\ e \in Int
    BY <2>10, <2>11
  <2>13. Zero(e)
    <3> HIDE DEF e
    <3> QED BY <2>9, <2>12, NoDivisors
  <2> QED BY <2>13, SameScalar
<1> QED BY <1>2, <1>4, <1>6

-----------------------------------------------------------------------------
(* Interpolation of a polynomial's values.                                 *)

\* What is zero at each index is zero for the interpolations.
LEMMA AtCombines ==
  ASSUME NEW S \in SUBSET Party, NEW f, NEW g, NEW h,
         \A j \in S : f[j] \in Int /\ g[j] \in Int /\ h[j] \in Int,
         NEW a \in Int, NEW b \in Int, NEW c \in Int,
         \A j \in S : Zero(Mix(a, f[j], b, g[j], c, h[j]))
  PROVE  Zero(Mix(a, At(f, S), b, At(g, S), c, At(h, S)))
<1> DEFINE F == Terms(f, S)
           G == Terms(g, S)
           H == Terms(h, S)
<1>1. \A j \in S : F[j] \in Int /\ G[j] \in Int /\ H[j] \in Int
  BY AtZeroFacts
<1>2. ASSUME NEW j \in S PROVE Zero(Mix(a, F[j], b, G[j], c, H[j]))
  <2> DEFINE L == Lagrange(j, S)
             u == Mix(a, f[j], b, g[j], c, h[j])
  <2>1. L \in Int
    BY LagrangeFacts
  <2>2. F[j] = L * f[j] /\ G[j] = L * g[j] /\ H[j] = L * h[j]
    BY DEF Terms
  <2>3. f[j] \in Int /\ g[j] \in Int /\ h[j] \in Int
    OBVIOUS
  <2> HIDE DEF L, F, G, H
  <2>4. u \in Int /\ Zero(u)
    BY <2>3 DEF Mix
  <2>5. Combines(Mix(a, F[j], b, G[j], c, H[j]), L, u, 0, u)
    BY <2>1, <2>2, <2>3 DEF Mix, Combines
  <2> HIDE DEF u
  <2> QED BY <2>1, <2>4, <2>5, ZeroCombination
<1>3. IsFiniteSet(S)
  BY PartyFinite
<1>4. At(f, S) = Sum(F, S) /\ At(g, S) = Sum(G, S) /\ At(h, S) = Sum(H, S)
  BY DEF At
<1> HIDE DEF F, G, H
<1>5. Zero(Mix(a, Sum(F, S), b, Sum(G, S), c, Sum(H, S)))
  BY <1>1, <1>2, <1>3, SumsCombine
<1> QED BY <1>4, <1>5

One == [j \in Party |-> 1]

LEMMA OneReduced == 1 % Prime = 1 /\ 1 \in Scalar
BY PrimeFact DEF Scalar

\* The coefficients add up to one.
LEMMA AtOne ==
  ASSUME NEW S \in SUBSET Party, S # {}
  PROVE  AtZero(One, S) = 1
<1> DEFINE C == {T \in SUBSET S : T # {} /\ AtZero(One, T) # 1}
<1> SUFFICES ASSUME C # {} PROVE FALSE
  OBVIOUS
<1>1. PICK m \in C : \A u \in C : u \subseteq m => u = m
  <2>1. C \in SUBSET SUBSET S
    OBVIOUS
  <2> HIDE DEF C
  <2> QED BY <2>1, PartyFinite, SmallestSet
<1>2. m \in SUBSET Party /\ m # {} /\ AtZero(One, m) # 1 /\ \A j \in Party : One[j] \in Int /\ One[j] = 1
  BY DEF One
<1>3. PICK u \in m : TRUE
  BY <1>2
<1>4. CASE m = {u}
  <2>1. Lagrange(u, m) = 1
    <3>1. Lagrange(u, m) = Product(Factors(u), m \ {u})
      BY <1>2, LagrangeProduct
    <3>2. m \ {u} = {}
      BY <1>4
    <3> QED BY <3>1, <3>2, ProductFacts, FS_EmptySet
  <2>2. Terms(One, m)[u] = 1
    BY <1>2, <2>1 DEF Terms
  <2>3. At(One, m) = Terms(One, m)[u] + Sum(Terms(One, m), m \ {u})
    BY <1>2, AtZeroFacts, PartyFinite, SumFacts DEF At
  <2>4. Sum(Terms(One, m), m \ {u}) = 0
    <3>1. m \ {u} = {}
      BY <1>4
    <3>2. Sum(Terms(One, m), {}) = 0
      BY SumFacts, FS_EmptySet
    <3> QED BY <3>1, <3>2
  <2>5. At(One, m) = 1
    BY <2>2, <2>3, <2>4
  <2> QED BY <1>2, <2>5, AtZeroFacts, OneReduced
<1>5. ASSUME NEW v \in m, v # u PROVE FALSE
  <2>1. m \ {u} # {} /\ m \ {v} # {} /\ m \ {u} # m /\ m \ {v} # m
    BY <1>3, <1>5
  <2>2. AtZero(One, m \ {u}) = 1 /\ AtZero(One, m \ {v}) = 1
    BY <1>1, <2>1
  <2> HIDE DEF C
  <2>3. \A j \in m : One[j] \in Int
    BY <1>2
  <2>4. AtZero(One, m \ {u}) = AtZero(One, m \ {v})
    BY <2>2
  <2>5. \A w \in m : AtZero(One, m \ {w}) = AtZero(One, m)
    BY <1>2, <1>3, <1>5, <2>3, <2>4, TwoPin
  <2> QED BY <1>2, <1>3, <2>2, <2>5
<1> QED BY <1>4, <1>5

\* f is the recursive function of Evaluate, from lo on.
Horner(f, poly, j, lo) ==
  f = [k \in lo..(Threshold - 1) |->
         IF k = Threshold - 1 THEN poly[k] ELSE (f[k + 1] * j + poly[k]) % Prime]

LEMMA HornerExists ==
  ASSUME NEW poly, NEW j
  PROVE  \E f : Horner(f, poly, j, 0)
<1>0. Threshold \in Nat /\ Threshold > 0
  BY FieldAssumption
<1> DEFINE D == {d \in 0..(Threshold - 1) : ~ \E f : Horner(f, poly, j, Threshold - 1 - d)}
<1> SUFFICES ASSUME D # {} PROVE FALSE
  <2>1. Threshold - 1 \in 0..(Threshold - 1) /\ Threshold - 1 - (Threshold - 1) = 0
    BY <1>0
  <2> QED BY <2>1
<1>1. PICK d \in D : \A n \in D : d <= n
  <2>1. D \subseteq Nat
    BY <1>0
  <2> HIDE DEF D
  <2> QED BY <2>1, LeastNat
<1>2. d # 0
  <2> DEFINE f == [k \in (Threshold - 1)..(Threshold - 1) |-> poly[k]]
  <2>1. Horner(f, poly, j, Threshold - 1)
    BY <1>0 DEF Horner
  <2>2. Threshold - 1 - 0 = Threshold - 1
    BY <1>0
  <2> HIDE DEF f
  <2> QED BY <2>1, <2>2
<1> DEFINE lo == Threshold - 1 - d
<1>3. d - 1 \in 0..(Threshold - 1) /\ ~(d <= d - 1) /\ Threshold - 1 - (d - 1) = lo + 1
      /\ lo \in Nat /\ lo < Threshold - 1
  BY <1>0, <1>2
<1>4. PICK f : Horner(f, poly, j, lo + 1)
  BY <1>1, <1>3
<1> DEFINE g == [k \in lo..(Threshold - 1) |->
                  IF k = lo THEN (f[lo + 1] * j + poly[lo]) % Prime ELSE f[k]]
<1> HIDE DEF lo, D
<1>5. \A k \in (lo + 1)..(Threshold - 1) : g[k] = f[k]
  BY <1>0, <1>3
<1>6. \A k \in lo..(Threshold - 1) :
        g[k] = IF k = Threshold - 1 THEN poly[k] ELSE (g[k + 1] * j + poly[k]) % Prime
  <2> SUFFICES ASSUME NEW k \in lo..(Threshold - 1)
               PROVE  g[k] = IF k = Threshold - 1 THEN poly[k]
                             ELSE (g[k + 1] * j + poly[k]) % Prime
    OBVIOUS
  <2>1. CASE k = lo
    <3>1. lo + 1 \in (lo + 1)..(Threshold - 1) /\ k # Threshold - 1
      BY <1>0, <1>3, <2>1
    <3>2. g[k + 1] = f[lo + 1]
      BY <1>5, <2>1, <3>1
    <3>3. g[k] = (f[lo + 1] * j + poly[lo]) % Prime
      BY <2>1
    <3> QED BY <2>1, <3>1, <3>2, <3>3
  <2>2. CASE k # lo
    <3>1. k \in (lo + 1)..(Threshold - 1) /\ (k # Threshold - 1 => k + 1 \in (lo + 1)..(Threshold - 1))
      BY <1>0, <1>3, <2>2
    <3>2. f[k] = IF k = Threshold - 1 THEN poly[k] ELSE (f[k + 1] * j + poly[k]) % Prime
      BY <1>4, <3>1 DEF Horner
    <3> HIDE DEF g
    <3> QED BY <1>5, <3>1, <3>2
  <2> QED BY <2>1, <2>2
<1>7. Horner(g, poly, j, lo)
  <2>1. g = [k \in lo..(Threshold - 1) |-> g[k]]
    OBVIOUS
  <2> HIDE DEF g
  <2> QED BY <1>6, <2>1 DEF Horner
<1> QED BY <1>7 DEF lo, D

\* What the coefficients from k on contribute to the value at j.
From(poly, j, k) == (CHOOSE f : Horner(f, poly, j, 0))[k]

LEMMA FromFacts ==
  ASSUME NEW poly, \A k \in 0..(Threshold - 1) : poly[k] \in Int, NEW j \in Int
  PROVE  /\ Evaluate(poly, j) = From(poly, j, 0)
         /\ From(poly, j, Threshold - 1) = poly[Threshold - 1]
         /\ \A k \in 0..(Threshold - 2) :
              /\ From(poly, j, k) = (From(poly, j, k + 1) * j + poly[k]) % Prime
         /\ \A k \in 0..(Threshold - 1) : From(poly, j, k) \in Int
<1>0. Threshold \in Nat /\ Threshold > 0
  BY FieldAssumption
<1> DEFINE f == CHOOSE f : Horner(f, poly, j, 0)
<1>1. Horner(f, poly, j, 0)
  BY HornerExists
<1>2. Evaluate(poly, j) = f[0]
  BY DEF Evaluate, Horner
<1>3. \A k : From(poly, j, k) = f[k]
  BY DEF From
<1> HIDE DEF f
<1>4. \A k \in 0..(Threshold - 1) :
        f[k] = IF k = Threshold - 1 THEN poly[k] ELSE (f[k + 1] * j + poly[k]) % Prime
  BY <1>1 DEF Horner
<1>5. f[Threshold - 1] = poly[Threshold - 1]
  BY <1>0, <1>4
<1>6. ASSUME NEW k \in 0..(Threshold - 2) PROVE f[k] = (f[k + 1] * j + poly[k]) % Prime
  BY <1>0, <1>4
<1> DEFINE D == {d \in 0..(Threshold - 1) : f[Threshold - 1 - d] \notin Int}
<1>7. D = {}
  <2> SUFFICES ASSUME D # {} PROVE FALSE
    OBVIOUS
  <2>1. PICK d \in D : \A n \in D : d <= n
    <3>1. D \subseteq Nat
      BY <1>0
    <3> HIDE DEF D
    <3> QED BY <3>1, LeastNat
  <2>2. d \in Nat /\ d # 0 /\ d <= Threshold - 1
    BY <1>0, <1>5
  <2> DEFINE k == Threshold - 1 - d
  <2>3. k \in 0..(Threshold - 2) /\ k + 1 = Threshold - 1 - (d - 1) /\ d - 1 \in 0..(Threshold - 1)
    BY <1>0, <2>2
  <2>4. f[k + 1] \in Int
    BY <2>1, <2>2, <2>3
  <2>5. f[k] \notin Int
    OBVIOUS
  <2>6. poly[k] \in Int
    BY <1>0, <2>3
  <2> HIDE DEF k
  <2> DEFINE m == f[k + 1] * j + poly[k]
  <2>7. m \in Int /\ f[k] = m % Prime
    BY <1>6, <2>3, <2>4, <2>6
  <2> HIDE DEF m
  <2> QED BY <2>5, <2>7, Reduced
<1>8. ASSUME NEW k \in 0..(Threshold - 1) PROVE f[k] \in Int
  <2>1. Threshold - 1 - k \in 0..(Threshold - 1) /\ Threshold - 1 - (Threshold - 1 - k) = k
    BY <1>0
  <2> QED BY <1>7, <2>1
<1> QED BY <1>2, <1>3, <1>5, <1>6, <1>8

\* A combination in which one value stands for one and another for nothing.
LEMMA Isolate ==
  ASSUME NEW a \in Int, NEW c \in Int, NEW o \in Int, NEW m \in Int, NEW q \in Int,
         Zero(Mix(1, a, -c, o, m, q)), Zero(o - 1), Zero(q)
  PROVE  Zero(a - c)
<1> DEFINE t == c * (o - 1)
           n == m * q
           x == Mix(1, a, -c, o, m, q)
<1>1. o - 1 \in Int
  OBVIOUS
<1>2. t \in Int /\ Zero(t) /\ n \in Int /\ Zero(n)
  <2> DEFINE u == o - 1
  <2>1. u \in Int /\ Zero(u)
    OBVIOUS
  <2> HIDE DEF u
  <2>2. c * u \in Int /\ Zero(c * u)
    BY <2>1, ZeroTimes
  <2>3. m * q \in Int /\ Zero(m * q)
    BY ZeroTimes
  <2> QED BY <2>2, <2>3 DEF u
<1>3. x \in Int /\ Zero(x)
  BY DEF Mix
<1>4. a - c = (x + t) - n
  BY DEF Mix
<1> HIDE DEF x, t, n
<1>5. x + t \in Int /\ Zero(x + t)
  BY <1>2, <1>3, ZeroSum
<1>6. Zero((x + t) - n)
  BY <1>2, <1>5, ZeroSum
<1> QED BY <1>4, <1>6

\* Threshold values of a polynomial, or more, interpolate to its constant coefficient.
THEOREM InterpolationFindsTheConstant ==
  ASSUME NEW poly \in Polynomial, NEW S \in SUBSET Party, Cardinality(S) >= Threshold,
         NEW y, \A j \in S : y[j] = Evaluate(poly, j)
  PROVE  AtZero(y, S) = poly[0]
<1>0. Threshold \in Nat /\ Threshold > 0 /\ Party \subseteq Int
  BY FieldAssumption DEF Party
<1> DEFINE V(k) == [j \in Party |-> From(poly, j, k)]
           Fails(d, T) == /\ Cardinality(T) >= d + 1
                          /\ AtZero(V(Threshold - 1 - d), T) # poly[Threshold - 1 - d]
           D == {d \in 0..(Threshold - 1) : \E T \in SUBSET Party : Fails(d, T)}
<1>1. /\ \A k \in 0..(Threshold - 1) : poly[k] \in Scalar /\ poly[k] \in Int
      /\ \A k \in 0..(Threshold - 1) : \A j \in Party : From(poly, j, k) \in Int
      /\ \A k \in 0..(Threshold - 1) : \A j \in Party : V(k)[j] = From(poly, j, k)
  <2>1. \A k \in 0..(Threshold - 1) : poly[k] \in Scalar /\ poly[k] \in Int
    BY PrimeFact DEF Polynomial, Scalar
  <2> QED BY <1>0, <2>1, FromFacts
<1>2. D = {}
  <2> SUFFICES ASSUME D # {} PROVE FALSE
    OBVIOUS
  <2>1. PICK d \in D : \A n \in D : d <= n
    <3>1. D \subseteq Nat
      BY <1>0
    <3> HIDE DEF D
    <3> QED BY <3>1, LeastNat
  <2>2. PICK T \in SUBSET Party : Fails(d, T)
    OBVIOUS
  <2>3. d \in Nat /\ d <= Threshold - 1 /\ d \in Int
    BY <1>0
  <2> DEFINE k == Threshold - 1 - d
             c == poly[k]
             W == V(k)
             a == At(W, T)
             o == At(One, T)
  <2>4. /\ k \in 0..(Threshold - 1) /\ c \in Scalar /\ c \in Int /\ \A j \in T : W[j] \in Int
        /\ \A j \in T : W[j] = From(poly, j, k)
    BY <1>0, <1>1, <2>3
  <2>5. T # {} /\ IsFiniteSet(T) /\ Cardinality(T) \in Nat /\ Cardinality(T) >= d + 1
    BY <2>2, <2>3, FS_EmptySet, FS_CardinalityType, PartyFinite
  <2>6. /\ o \in Int /\ Zero(o - 1) /\ \A j \in T : One[j] = 1 /\ One[j] \in Int
    <3>1. \A j \in T : One[j] = 1 /\ One[j] \in Int
      BY DEF One
    <3>2. o \in Int /\ o % Prime = 1
      BY <2>5, <3>1, AtOne, AtZeroFacts
    <3> HIDE DEF o
    <3> QED BY <3>1, <3>2, OneReduced, SameReduced
  <2>7. a \in Int /\ AtZero(W, T) = a % Prime
    <3> HIDE DEF W
    <3> QED BY <2>4, AtZeroFacts
  <2>8. AtZero(W, T) # c
    BY <2>2
  <2>9. ASSUME Zero(a - c) PROVE FALSE
    <3>1. a % Prime = c % Prime
      <4> HIDE DEF a, c
      <4> QED BY <2>4, <2>7, <2>9, SameReduced
    <3>2. c % Prime = c
      <4> HIDE DEF c
      <4> QED BY <2>4, PrimeFact DEF Scalar
    <3> QED BY <2>7, <2>8, <3>1, <3>2
  <2> HIDE DEF D
  <2>10. CASE d = 0
    <3>1. k = Threshold - 1
      BY <1>0, <2>10
    <3>2. \A j \in T : From(poly, j, Threshold - 1) = poly[Threshold - 1]
      BY <1>0, <1>1, FromFacts
    <3>3. \A j \in T : W[j] = c
      BY <2>4, <3>1, <3>2
    <3> HIDE DEF W, c, k
    <3>4. ASSUME NEW j \in T PROVE Zero(Mix(1, W[j], -c, One[j], 0, One[j]))
      <4>1. Mix(1, W[j], -c, One[j], 0, One[j]) = 0
        BY <2>4, <2>6, <3>3 DEF Mix
      <4>2. 0 = 0 * Prime
        BY PrimeFact
      <4> QED BY <4>1, <4>2 DEF Zero
    <3>5. -c \in Int
      BY <2>4
    <3>6. Zero(Mix(1, a, -c, o, 0, o))
      <4>1. \A j \in T : W[j] \in Int /\ One[j] \in Int /\ One[j] \in Int
        BY <2>4, <2>6
      <4>2. 1 \in Int /\ 0 \in Int
        OBVIOUS
      <4>3. Zero(Mix(1, At(W, T), -c, At(One, T), 0, At(One, T)))
        <5> DEFINE m == -c
        <5>1. m \in Int /\ \A j \in T : Zero(Mix(1, W[j], m, One[j], 0, One[j]))
          BY <3>4, <3>5
        <5> HIDE DEF m
        <5>2. Zero(Mix(1, At(W, T), m, At(One, T), 0, At(One, T)))
          BY <4>1, <4>2, <5>1, AtCombines
        <5> QED BY <5>2 DEF m
      <4> QED BY <4>3
    <3> HIDE DEF a, o
    <3>7. Mix(1, a, -c, o, 0, o) = Mix(1, a, -c, o, 0, 0)
      BY <2>4, <2>6, <2>7 DEF Mix
    <3>8. Zero(0)
      <4>1. 0 = 0 * Prime
        BY PrimeFact
      <4> QED BY <4>1 DEF Zero
    <3>9. Zero(a - c)
      BY <2>4, <2>6, <2>7, <3>6, <3>7, <3>8, Isolate
    <3> QED BY <2>9, <3>9
  <2>11. CASE d # 0
    <3> DEFINE z == V(k + 1)
               q == At(Times1(z), T)
    <3>1. /\ d - 1 \in 0..(Threshold - 1) /\ k + 1 = Threshold - 1 - (d - 1)
          /\ k + 1 \in 0..(Threshold - 1) /\ k \in 0..(Threshold - 2) /\ ~(d <= d - 1)
      BY <1>0, <2>3, <2>11
    <3>2. \A j \in T : z[j] \in Int /\ z[j] = From(poly, j, k + 1)
      BY <1>1, <3>1
    <3>3. ASSUME NEW u \in T PROVE AtZero(z, T \ {u}) = poly[k + 1]
      <4>1. Cardinality(T \ {u}) = Cardinality(T) - 1
        BY <2>5, FS_RemoveElement
      <4>2. Cardinality(T \ {u}) >= (d - 1) + 1
        BY <2>3, <2>5, <4>1
      <4>3. d - 1 \notin D
        BY <2>1, <3>1
      <4>4. ~ Fails(d - 1, T \ {u})
        BY <3>1, <4>3 DEF D
      <4> QED BY <3>1, <4>2, <4>4
    <3>4. PICK u \in T : TRUE
      BY <2>5
    <3>5. PICK v \in T : u # v
      <4>1. Cardinality(T \ {u}) = Cardinality(T) - 1
        BY <2>5, FS_RemoveElement
      <4>2. T \ {u} # {}
        <5>1. Cardinality(T) - 1 >= 1
          BY <2>3, <2>5, <2>11
        <5>2. Cardinality(T \ {u}) # 0
          BY <2>5, <4>1, <5>1
        <5> QED BY <5>2, FS_EmptySet
      <4> QED BY <4>2
    <3> HIDE DEF z
    <3>6. AtZero(z, T \ {u}) = AtZero(z, T \ {v})
      BY <3>3
    <3>7. Zero(q)
      BY <3>2, <3>5, <3>6, TwoPin
    <3>8. \A j \in T : Times1(z)[j] = j * z[j] /\ Times1(z)[j] \in Int /\ j \in Int
      BY <1>0, <3>2 DEF Times1
    <3>9. q \in Int
      <4> DEFINE y1 == Times1(z)
      <4>1. \A j \in T : y1[j] \in Int
        BY <3>8
      <4> HIDE DEF y1
      <4>2. At(y1, T) \in Int
        BY <4>1, AtZeroFacts
      <4> QED BY <4>2 DEF y1
    <3>10. ASSUME NEW j \in T PROVE Zero(Mix(1, W[j], -1, Times1(z)[j], -c, One[j]))
      <4> DEFINE g == From(poly, j, k + 1) * j + poly[k]
                 r == From(poly, j, k)
      <4>1. j \in Int /\ j \in Party
        BY <3>8
      <4>2. r = g % Prime
        BY <1>1, <3>1, <4>1, FromFacts
      <4>3. g = j * z[j] + c /\ g \in Int
        BY <2>4, <3>2, <4>1
      <4>4. W[j] = r
        BY <2>4
      <4> HIDE DEF g, r, W, c
      <4>5. Zero((g % Prime) - g)
        BY <4>3, Reduced
      <4>6. W[j] = g % Prime /\ W[j] \in Int
        BY <2>4, <4>2, <4>4
      <4>7. Times1(z)[j] + c = g /\ Times1(z)[j] \in Int /\ One[j] = 1
        BY <2>6, <3>8, <4>3
      <4>8. Mix(1, W[j], -1, Times1(z)[j], -c, One[j]) = W[j] - g
        <5> DEFINE n == Times1(z)[j]
        <5>1. n \in Int /\ n + c = g
          BY <4>7
        <5> HIDE DEF n
        <5>2. Mix(1, W[j], -1, n, -c, 1) = W[j] - g
          BY <2>4, <4>6, <5>1 DEF Mix
        <5> QED BY <4>7, <5>2 DEF n
      <4> QED BY <4>5, <4>6, <4>8
    <3>11. Zero(Mix(1, a, -1, q, -c, o))
      <4> HIDE DEF W, c
      <4>1. \A j \in T : W[j] \in Int /\ Times1(z)[j] \in Int /\ One[j] \in Int
        BY <2>4, <2>6, <3>8
      <4>2. -c \in Int /\ 1 \in Int /\ -1 \in Int
        BY <2>4
      <4> DEFINE y1 == Times1(z)
      <4>3. \A j \in T : Zero(Mix(1, W[j], -1, y1[j], -c, One[j]))
        BY <3>10
      <4>4. \A j \in T : W[j] \in Int /\ y1[j] \in Int /\ One[j] \in Int
        BY <4>1
      <4> HIDE DEF y1
      <4>5. Zero(Mix(1, At(W, T), -1, At(y1, T), -c, At(One, T)))
        BY <4>2, <4>3, <4>4, AtCombines
      <4> QED BY <4>5 DEF y1
    <3> HIDE DEF a, o, q, c
    <3>12. Mix(1, a, -1, q, -c, o) = Mix(1, a, -c, o, -1, q)
      BY <2>4, <2>6, <2>7, <3>9 DEF Mix
    <3>13. Zero(a - c)
      BY <2>4, <2>6, <2>7, <3>7, <3>9, <3>11, <3>12, Isolate
    <3> QED BY <2>9, <3>13
  <2> QED BY <2>10, <2>11
<1>3. Threshold - 1 \in 0..(Threshold - 1) /\ Threshold - 1 - (Threshold - 1) = 0
      /\ (Threshold - 1) + 1 = Threshold
  BY <1>0
<1>4. AtZero(V(0), S) = poly[0]
  <2>1. ~ Fails(Threshold - 1, S)
    BY <1>2, <1>3
  <2> QED BY <1>3, <2>1
<1>5. \A j \in S : V(0)[j] = y[j]
  <2>1. \A j \in Party : V(0)[j] = From(poly, j, 0)
    BY <1>0, <1>1
  <2>2. \A j \in S : Evaluate(poly, j) = From(poly, j, 0)
    BY <1>0, <1>1, FromFacts
  <2> QED BY <2>1, <2>2
<1> HIDE DEF V
<1>6. AtZero(V(0), S) = AtZero(y, S)
  BY <1>5, SamePoints
<1> QED BY <1>4, <1>6

-----------------------------------------------------------------------------
(* Congruence.                                                             *)

Same(a, b) == Zero(a - b)

LEMMA SameSame ==
  ASSUME NEW a \in Int
  PROVE  Same(a, a) /\ Same(a % Prime, a) /\ Same(a, a % Prime)
<1>1. a - a = 0
  OBVIOUS
<1>2. Same(a, a)
  BY <1>1, ZeroZero DEF Same
<1> QED BY <1>2, Reduced DEF Same

LEMMA SameScalars ==
  ASSUME NEW a \in Int, NEW b \in Int
  PROVE  /\ Same(a, b) <=> a % Prime = b % Prime
         /\ Same(a, b) <=> Same(b, a)
         /\ Same(a, 0) <=> Zero(a)
<1>1. Same(a, b) <=> a % Prime = b % Prime
  BY SameReduced DEF Same
<1>2. Same(b, a) <=> b % Prime = a % Prime
  BY SameReduced DEF Same
<1>3. a - 0 = a
  OBVIOUS
<1> QED BY <1>1, <1>2, <1>3 DEF Same

LEMMA SameChain ==
  ASSUME NEW a \in Int, NEW b \in Int, NEW c \in Int, Same(a, b), Same(b, c)
  PROVE  Same(a, c)
BY SameScalars

LEMMA SamePlus ==
  ASSUME NEW a \in Int, NEW b \in Int, NEW c \in Int, NEW d \in Int, Same(a, b), Same(c, d)
  PROVE  Same(a + c, b + d) /\ Same(a - c, b - d)
<1> DEFINE x == a - b
           y == c - d
<1>1. x \in Int /\ y \in Int /\ Zero(x) /\ Zero(y)
  BY DEF Same
<1>2. (a + c) - (b + d) = x + y /\ (a - c) - (b - d) = x - y
  OBVIOUS
<1> HIDE DEF x, y
<1>3. Zero(x + y) /\ Zero(x - y)
  BY <1>1, ZeroSum
<1> QED BY <1>2, <1>3 DEF Same

LEMMA SameTimes ==
  ASSUME NEW a \in Int, NEW b \in Int, NEW c \in Int, NEW d \in Int, Same(a, b), Same(c, d)
  PROVE  Same(a * c, b * d)
<1> DEFINE x == a - b
           y == c - d
<1>1. x \in Int /\ y \in Int /\ Zero(x) /\ Zero(y)
  BY DEF Same
<1>2. Combines(a * c - b * d, c, x, b, y)
  BY DEF Combines
<1> DEFINE z == a * c - b * d
<1>3. Combines(z, c, x, b, y)
  BY <1>2
<1> HIDE DEF x, y, z
<1>4. Zero(z)
  BY <1>1, <1>3, ZeroCombination
<1> QED BY <1>4 DEF z, Same

LEMMA SameCancel ==
  ASSUME NEW a \in Int, NEW b \in Int, NEW c \in Int, Same(a * c, b * c), ~Zero(c)
  PROVE  Same(a, b)
<1> DEFINE x == a - b
<1>1. x \in Int /\ c * x = a * c - b * c
  OBVIOUS
<1>2. Zero(c * x)
  BY <1>1 DEF Same
<1> HIDE DEF x
<1>3. Zero(x)
  BY <1>1, <1>2, NoDivisors
<1> QED BY <1>3 DEF Same, x

LEMMA SameInverse ==
  ASSUME NEW a \in Int, ~Zero(a)
  PROVE  Invert(a % Prime) \in Int /\ Same(a * Invert(a % Prime), 1)
BY InvertInverts DEF Same

\* Sums of congruent values, of sums and of multiples.
LEMMA SameSums ==
  ASSUME NEW S, IsFiniteSet(S), NEW f, NEW g,
         \A x \in S : f[x] \in Int /\ g[x] \in Int /\ Same(f[x], g[x])
  PROVE  Same(Sum(f, S), Sum(g, S))
<1>1. ASSUME NEW x \in S PROVE Zero(Mix(1, f[x], -1, g[x], 0, g[x]))
  <2> DEFINE a == f[x]
             b == g[x]
  <2>1. a \in Int /\ b \in Int /\ Zero(a - b)
    BY DEF Same
  <2> HIDE DEF a, b
  <2>2. Mix(1, a, -1, b, 0, b) = a - b
    BY <2>1 DEF Mix
  <2> QED BY <2>1, <2>2 DEF a, b
<1>2. 1 \in Int /\ -1 \in Int /\ 0 \in Int
  OBVIOUS
<1> DEFINE a == Sum(f, S)
           b == Sum(g, S)
<1>3. a \in Int /\ b \in Int
  BY SumFacts
<1>4. Zero(Mix(1, a, -1, b, 0, b))
  BY <1>1, <1>2, SumsCombine
<1> HIDE DEF a, b
<1>5. Mix(1, a, -1, b, 0, b) = a - b
  BY <1>3 DEF Mix
<1> QED BY <1>4, <1>5 DEF Same, a, b

LEMMA SumOfMix ==
  ASSUME NEW S, IsFiniteSet(S), NEW f, NEW g, NEW h, NEW b \in Int, NEW c \in Int,
         \A x \in S : /\ f[x] \in Int /\ g[x] \in Int /\ h[x] \in Int
                      /\ Same(f[x], b * g[x] + c * h[x])
  PROVE  Same(Sum(f, S), b * Sum(g, S) + c * Sum(h, S))
<1>1. ASSUME NEW x \in S PROVE Zero(Mix(1, f[x], -b, g[x], -c, h[x]))
  <2> DEFINE i == f[x]
             j == g[x]
             k == h[x]
  <2>1. i \in Int /\ j \in Int /\ k \in Int /\ Zero(i - (b * j + c * k))
    BY DEF Same
  <2> HIDE DEF i, j, k
  <2>2. Mix(1, i, -b, j, -c, k) = i - (b * j + c * k)
    BY <2>1 DEF Mix
  <2> QED BY <2>1, <2>2 DEF i, j, k
<1>2. 1 \in Int /\ -b \in Int /\ -c \in Int
  OBVIOUS
<1> DEFINE i == Sum(f, S)
           j == Sum(g, S)
           k == Sum(h, S)
           m == -b
           n == -c
<1>3. i \in Int /\ j \in Int /\ k \in Int
  BY SumFacts
<1>4. Zero(Mix(1, i, m, j, n, k))
  <2>1. \A x \in S : Zero(Mix(1, f[x], m, g[x], n, h[x]))
    BY <1>1
  <2>2. m \in Int /\ n \in Int
    OBVIOUS
  <2> HIDE DEF m, n
  <2> QED BY <1>2, <2>1, <2>2, SumsCombine
<1> HIDE DEF i, j, k
<1>5. Mix(1, i, m, j, n, k) = i - (b * j + c * k)
  BY <1>3 DEF Mix
<1> QED BY <1>4, <1>5 DEF Same, i, j, k

\* A sum over the images of a one-to-one function.
Pairs(e, S, D) == /\ \A x, y \in S : e[x] = e[y] => x = y
                  /\ \A y : y \in D <=> \E x \in S : y = e[x]
Follows(g, f, e, S) == \A x \in S : g[x] = f[e[x]] /\ g[x] \in Int

LEMMA SumOfImages ==
  ASSUME NEW S, IsFiniteSet(S), NEW e, NEW D, Pairs(e, S, D), NEW f, NEW g, Follows(g, f, e, S)
  PROVE  IsFiniteSet(D) /\ Sum(f, D) = Sum(g, S)
<1> DEFINE Image(T) == {e[x] : x \in T}
           C == {T \in SUBSET S : ~ (IsFiniteSet(Image(T)) /\ Sum(f, Image(T)) = Sum(g, T))}
<1>0. /\ \A x \in S : g[x] = f[e[x]] /\ g[x] \in Int
      /\ \A x, y \in S : e[x] = e[y] => x = y
  BY DEF Follows, Pairs
<1>1. C = {}
  <2> SUFFICES ASSUME C # {} PROVE FALSE
    OBVIOUS
  <2>1. PICK m \in C : \A u \in C : u \subseteq m => u = m
    <3>1. C \in SUBSET SUBSET S
      OBVIOUS
    <3> HIDE DEF C
    <3> QED BY <3>1, SmallestSet
  <2>2. m \in SUBSET S /\ IsFiniteSet(m)
    BY FS_Subset
  <2>3. PICK x : x \in m
    <3> SUFFICES ASSUME m = {} PROVE FALSE
      OBVIOUS
    <3>1. Image(m) = {}
      OBVIOUS
    <3>2. IsFiniteSet({}) /\ Sum(f, {}) = 0 /\ Sum(g, {}) = 0
      BY FS_EmptySet, SumFacts
    <3> QED BY <3>1, <3>2
  <2> DEFINE R == m \ {x}
             y == e[x]
  <2>4. R \in SUBSET S /\ IsFiniteSet(R) /\ x \in S /\ R # m
    BY <2>2, <2>3, FS_Subset
  <2>5. IsFiniteSet(Image(R)) /\ Sum(f, Image(R)) = Sum(g, R)
    <3>1. R \subseteq m
      OBVIOUS
    <3> HIDE DEF R, Image
    <3> QED BY <2>1, <2>4, <3>1
  <2>6. Image(m) = Image(R) \cup {y} /\ y \in Image(m) /\ Image(m) \ {y} = Image(R)
    BY <1>0, <2>2, <2>3
  <2>7. IsFiniteSet(Image(m))
    <3> HIDE DEF Image, R, y
    <3> QED BY <2>5, <2>6, FS_AddElement
  <2>8. \A i \in Image(m) : f[i] \in Int
    BY <1>0, <2>2
  <2> HIDE DEF Image
  <2>9. Sum(f, Image(m)) = f[y] + Sum(f, Image(m) \ {y})
    <3> HIDE DEF y
    <3> QED BY <2>6, <2>7, <2>8, SumFacts
  <2>10. Sum(g, m) = g[x] + Sum(g, R)
    BY <1>0, <2>2, <2>3, SumFacts
  <2>11. Sum(f, Image(m)) = Sum(g, m)
    BY <1>0, <2>4, <2>5, <2>6, <2>9, <2>10
  <2> QED BY <2>7, <2>11
<1>2. IsFiniteSet(Image(S)) /\ Sum(f, Image(S)) = Sum(g, S)
  BY <1>1
<1>3. D = Image(S)
  BY DEF Pairs
<1> HIDE DEF Image
<1> QED BY <1>2, <1>3

\* What every two of a set owe each other adds up to nothing.
LEMMA DebtsCancel ==
  ASSUME NEW S, IsFiniteSet(S), NEW e,
         \A x, y \in S : e[x][y] \in Int,
         \A x, y \in S : x # y => Zero(e[x][y] + e[y][x])
  PROVE  /\ \A x \in S : Sum(e[x], S \ {x}) \in Int
         /\ Zero(Sum([x \in S |-> Sum(e[x], S \ {x})], S))
<1> DEFINE Of(T) == [x \in T |-> Sum(e[x], T \ {x})]
           C == {T \in SUBSET S : ~Zero(Sum(Of(T), T))}
<1>0. ASSUME NEW T \in SUBSET S, NEW x \in S PROVE Sum(e[x], T \ {x}) \in Int
  <2>1. IsFiniteSet(T \ {x}) /\ \A y \in T \ {x} : e[x][y] \in Int
    BY FS_Subset
  <2> QED BY <2>1, SumFacts
<1>1. C = {}
  <2> SUFFICES ASSUME C # {} PROVE FALSE
    OBVIOUS
  <2>1. PICK m \in C : \A u \in C : u \subseteq m => u = m
    <3>1. C \in SUBSET SUBSET S
      OBVIOUS
    <3> HIDE DEF C
    <3> QED BY <3>1, SmallestSet
  <2>2. m \in SUBSET S /\ IsFiniteSet(m) /\ ~Zero(Sum(Of(m), m))
    BY FS_Subset
  <2>3. PICK x : x \in m
    <3> SUFFICES ASSUME m = {} PROVE FALSE
      OBVIOUS
    <3> HIDE DEF Of
    <3>1. Sum(Of({}), {}) = 0
      BY FS_EmptySet, SumFacts
    <3> QED BY <2>2, <3>1, ZeroZero
  <2> DEFINE R == m \ {x}
             back == [y \in S |-> e[y][x]]
  <2>4. R \in SUBSET S /\ IsFiniteSet(R) /\ x \in S /\ R # m /\ R \subseteq m /\ x \notin R
    BY <2>2, <2>3, FS_Subset
  <2>5. Zero(Sum(Of(R), R))
    <3> HIDE DEF R, Of
    <3> QED BY <2>1, <2>4
  <2>6. \A y \in m : Of(m)[y] = Sum(e[y], m \ {y}) /\ Of(m)[y] \in Int
    BY <1>0, <2>2
  <2>7. \A y \in R : Of(R)[y] = Sum(e[y], R \ {y}) /\ Of(R)[y] \in Int
    BY <1>0, <2>4
  <2>8. \A y \in R : back[y] = e[y][x] /\ back[y] \in Int
    BY <2>4
  <2>9. \A y \in R : e[x][y] \in Int
    BY <2>4
  <2>10. ASSUME NEW y \in R PROVE Of(m)[y] = back[y] + Of(R)[y]
    <3>1. IsFiniteSet(m \ {y}) /\ x \in m \ {y} /\ (m \ {y}) \ {x} = R \ {y} /\ y \in m
      BY <2>2, <2>3, FS_Subset
    <3>2. \A z \in m \ {y} : e[y][z] \in Int
      BY <2>2
    <3>3. Sum(e[y], m \ {y}) = e[y][x] + Sum(e[y], (m \ {y}) \ {x})
      BY <3>1, <3>2, SumFacts
    <3> QED BY <2>6, <2>7, <2>8, <3>1, <3>3
  <2>11. Sum(Of(m), m) = Sum(e[x], R) + Sum(Of(m), R)
    <3> HIDE DEF Of
    <3>1. Sum(Of(m), m) = Of(m)[x] + Sum(Of(m), R)
      BY <2>2, <2>3, <2>6, SumFacts
    <3> QED BY <2>3, <2>6, <3>1
  <2> DEFINE a == Sum(Of(m), R)
             b == Sum(back, R)
             c == Sum(Of(R), R)
             d == Sum(e[x], R)
             fm == Of(m)
             fr == Of(R)
  <2>12. \A y \in R : fm[y] \in Int /\ back[y] \in Int /\ fr[y] \in Int
    BY <2>4, <2>6, <2>7, <2>8
  <2>13. Same(a, 1 * b + 1 * c)
    <3>1. ASSUME NEW y \in R PROVE Same(fm[y], 1 * back[y] + 1 * fr[y])
      <4>1. fm[y] = back[y] + fr[y]
        BY <2>10
      <4>2. fm[y] \in Int /\ back[y] \in Int /\ fr[y] \in Int
        BY <2>12
      <4> HIDE DEF fm, back, fr
      <4>3. fm[y] = 1 * back[y] + 1 * fr[y]
        BY <4>1, <4>2
      <4> QED BY <4>2, <4>3, SameSame
    <3>2. 1 \in Int
      OBVIOUS
    <3> HIDE DEF fm, back, fr, R
    <3>3. Same(Sum(fm, R), 1 * Sum(back, R) + 1 * Sum(fr, R))
      BY <2>4, <2>12, <3>1, <3>2, SumOfMix
    <3> QED BY <3>3 DEF fm, fr
  <2> DEFINE ex == e[x]
             zero == [y \in S |-> 0]
  <2>14. Zero(d + b)
    <3>1. \A y \in R : ex[y] \in Int /\ back[y] \in Int /\ Zero(ex[y] + back[y])
      BY <2>4, <2>8, <2>9
    <3> HIDE DEF ex, back, R
    <3>2. ASSUME NEW y \in R PROVE Zero(Mix(1, ex[y], 1, back[y], 0, back[y]))
      <4>1. ex[y] \in Int /\ back[y] \in Int
        BY <3>1
      <4>2. Mix(1, ex[y], 1, back[y], 0, back[y]) = ex[y] + back[y]
        BY <4>1 DEF Mix
      <4> QED BY <3>1, <4>2
    <3>3. 1 \in Int /\ 0 \in Int
      OBVIOUS
    <3> DEFINE i == Sum(ex, R)
               j == Sum(back, R)
    <3>4. Zero(Mix(1, i, 1, j, 0, j))
      BY <2>4, <3>1, <3>2, <3>3, SumsCombine
    <3>5. i \in Int /\ j \in Int
      BY <2>4, <3>1, SumFacts
    <3> HIDE DEF i, j
    <3>6. Mix(1, i, 1, j, 0, j) = i + j
      BY <3>5 DEF Mix
    <3> QED BY <3>4, <3>6 DEF i, j, ex
  <2>15. a \in Int /\ b \in Int /\ c \in Int /\ d \in Int
    <3>1. \A y \in R : e[x][y] \in Int
      BY <2>9
    <3> HIDE DEF R, back, Of
    <3> QED BY <2>4, <2>12, <3>1, SumFacts DEF fm, fr
  <2>16. Sum(Of(m), m) = d + a
    BY <2>11
  <2>17. Zero(c)
    BY <2>5
  <2>18. ~Zero(d + a)
    BY <2>2, <2>16
  <2> HIDE DEF a, b, c, d, R, Of, back
  <2>19. Zero(a - (1 * b + 1 * c))
    BY <2>13 DEF Same
  <2> DEFINE p == a - (1 * b + 1 * c)
             q == d + b
  <2>20. p \in Int /\ q \in Int /\ Zero(p) /\ Zero(q) /\ d + a = (p + q) + c
    BY <2>14, <2>15, <2>19
  <2> HIDE DEF p, q
  <2>21. p + q \in Int
    BY <2>20
  <2>23. Zero(p + q)
    BY <2>20, ZeroSum
  <2>22. Zero((p + q) + c)
    BY <2>15, <2>17, <2>21, <2>23, ZeroSum
  <2> QED BY <2>18, <2>20, <2>22
<1>2. Zero(Sum(Of(S), S))
  BY <1>1
<1> QED BY <1>0, <1>2
=============================================================================
