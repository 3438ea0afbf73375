---------------------------- MODULE FiniteFolds ----------------------------
(***************************************************************************)
(* Folds over finite sets: FoldFunctionOnSet of the community modules, for *)
(* an operation that may take its arguments in any order.  The library     *)
(* defines it by a recursive function and states no theorems about it.     *)
(***************************************************************************)
EXTENDS Functions, FiniteSetTheorems, WellFoundedInduction, TLAPS

CONSTANTS
  Op(_, _),     \* what is folded
  Base,         \* the fold over no element
  Value         \* what the folds and the values folded are among

Monoid ==
  /\ Base \in Value
  /\ \A a, b \in Value : Op(a, b) \in Value
  /\ \A a, b, c \in Value : Op(a, Op(b, c)) = Op(b, Op(a, c))

Fold(f, S) == FoldFunctionOnSet(Op, Base, f, S)

-----------------------------------------------------------------------------
\* A set of subsets of a finite set has a smallest one: induction over finite sets.
LEMMA Smallest ==
  ASSUME NEW S, IsFiniteSet(S), NEW C \in SUBSET SUBSET S, C # {}
  PROVE  \E m \in C : \A u \in C : u \subseteq m => u = m
<1>1. FiniteSubsetsOf(S) = SUBSET S
  BY FS_FiniteSubsetsOfFinite
<1>2. IsWellFoundedOn(StrictSubsetOrdering(S), SUBSET S)
  BY <1>1, FS_StrictSubsetOrderingWellFounded
<1>3. \E m \in C : \A u \in C : ~ (<<u, m>> \in StrictSubsetOrdering(S))
  BY <1>2, WFMin
<1> QED BY <1>3 DEF StrictSubsetOrdering

\* Induction over the subsets of a finite set: every one is among G.
LEMMA SetInduct ==
  ASSUME NEW S, IsFiniteSet(S), NEW G, {} \in G,
         \A s \in SUBSET S, x \in S : s \in G /\ x \notin s => s \cup {x} \in G
  PROVE  S \in G
<1> DEFINE C == {s \in SUBSET S : s \notin G}
<1> SUFFICES ASSUME C # {} PROVE FALSE
  OBVIOUS
<1>1. PICK m \in C : \A u \in C : u \subseteq m => u = m
  <2>1. C \in SUBSET SUBSET S
    OBVIOUS
  <2> HIDE DEF C
  <2> QED BY <2>1, Smallest
<1>2. PICK x \in m : TRUE
  OBVIOUS
<1>3. m \ {x} \in G /\ m = (m \ {x}) \cup {x}
  BY <1>1, <1>2
<1> QED BY <1>3

First(s) == CHOOSE x \in s : TRUE
\* g is the recursive function the fold over S is defined by.
Follows(g, f, S) ==
  g = [s \in SUBSET S |-> IF s = {} THEN Base ELSE Op(f[First(s)], g[s \ {First(s)}])]

LEMMA FoldDef ==
  ASSUME NEW f, NEW S
  PROVE  Fold(f, S) = (CHOOSE g : Follows(g, f, S))[S]
BY DEF Fold, FoldFunctionOnSet, MapThenFoldSet, Follows, First

LEMMA FollowsAgree ==
  ASSUME NEW f, NEW S, NEW T, IsFiniteSet(T), T \subseteq S,
         NEW g, Follows(g, f, S), NEW h, Follows(h, f, T)
  PROVE  \A u \in SUBSET T : g[u] = h[u]
<1> DEFINE C == {u \in SUBSET T : g[u] # h[u]}
<1> SUFFICES ASSUME C # {} PROVE FALSE
  OBVIOUS
<1>1. PICK u \in C : \A v \in C : v \subseteq u => v = u
  <2>1. C \in SUBSET SUBSET T
    OBVIOUS
  <2> HIDE DEF C
  <2> QED BY <2>1, Smallest
<1>2. u \in SUBSET T /\ u \in SUBSET S
  OBVIOUS
<1>3. g[u] = IF u = {} THEN Base ELSE Op(f[First(u)], g[u \ {First(u)}])
  BY <1>2 DEF Follows
<1>4. h[u] = IF u = {} THEN Base ELSE Op(f[First(u)], h[u \ {First(u)}])
  BY <1>2 DEF Follows
<1>5. u # {} => g[u \ {First(u)}] = h[u \ {First(u)}]
  <2>1. u # {} => First(u) \in u
    BY DEF First
  <2> QED BY <1>1, <1>2, <2>1
<1> QED BY <1>1, <1>3, <1>4, <1>5

LEMMA FollowerExists ==
  ASSUME NEW f, NEW S, IsFiniteSet(S)
  PROVE  \E g : Follows(g, f, S)
<1> DEFINE C == {s \in SUBSET S : ~ \E g : Follows(g, f, s)}
<1> SUFFICES ASSUME C # {} PROVE FALSE
  OBVIOUS
<1>1. PICK m \in C : \A u \in C : u \subseteq m => u = m
  <2>1. C \in SUBSET SUBSET S
    OBVIOUS
  <2> HIDE DEF C
  <2> QED BY <2>1, Smallest
<1> DEFINE G(u) == CHOOSE g : Follows(g, f, u)
           Step(u) == u \ {First(u)}
           g == [s \in SUBSET m |-> IF s = {} THEN Base ELSE Op(f[First(s)], G(Step(s))[Step(s)])]
<1>2. \A u \in SUBSET m : u # m => Follows(G(u), f, u)
  BY <1>1
<1>3. \A s \in SUBSET m : s # {} => Step(s) \in SUBSET m /\ Step(s) # m /\ Step(s) \in SUBSET s /\ Step(s) # s
  <2>1. \A s : s # {} => First(s) \in s
    BY DEF First
  <2> QED BY <2>1
<1>4. \A t \in SUBSET m : t # m => G(t)[t] = g[t]
  <2> SUFFICES ASSUME NEW t \in SUBSET m, t # m PROVE G(t)[t] = g[t]
    OBVIOUS
  <2>1. Follows(G(t), f, t)
    BY <1>2
  <2>2. G(t)[t] = IF t = {} THEN Base ELSE Op(f[First(t)], G(t)[Step(t)])
    <3> HIDE DEF G
    <3> QED BY <2>1 DEF Follows
  <2>3. t # {} => G(t)[Step(t)] = G(Step(t))[Step(t)]
    <3> SUFFICES ASSUME t # {} PROVE G(t)[Step(t)] = G(Step(t))[Step(t)]
      OBVIOUS
    <3>1. Step(t) \in SUBSET t /\ Step(t) \in SUBSET m /\ Step(t) # m
      BY <1>3
    <3>2. Follows(G(Step(t)), f, Step(t))
      BY <1>2, <3>1
    <3>3. IsFiniteSet(Step(t))
      BY <3>1, FS_Subset, m \in SUBSET S
    <3> HIDE DEF G, Step
    <3> QED BY <2>1, <3>1, <3>2, <3>3, FollowsAgree
  <2> HIDE DEF G
  <2> QED BY <2>2, <2>3
<1>5. Follows(g, f, m)
  <2> HIDE DEF G
  <2>1. g = [s \in SUBSET m |-> IF s = {} THEN Base ELSE Op(f[First(s)], g[Step(s)])]
    <3>1. \A s \in SUBSET m : s # {} => G(Step(s))[Step(s)] = g[Step(s)]
      <4> HIDE DEF g, Step
      <4> QED BY <1>3, <1>4
    <3> HIDE DEF Step
    <3> QED BY <3>1
  <2> HIDE DEF g
  <2> QED BY <2>1 DEF Follows
<1> QED BY <1>1, <1>5

-----------------------------------------------------------------------------
LEMMA FoldEmpty == ASSUME NEW f PROVE Fold(f, {}) = Base
<1>1. Follows(CHOOSE g : Follows(g, f, {}), f, {})
  BY FollowerExists, FS_EmptySet
<1> DEFINE g == CHOOSE g : Follows(g, f, {})
<1>2. Follows(g, f, {}) /\ Fold(f, {}) = g[{}]
  BY <1>1, FoldDef
<1> HIDE DEF g
<1> QED BY <1>2 DEF Follows

LEMMA FoldFirst ==
  ASSUME NEW f, NEW S, IsFiniteSet(S), S # {}
  PROVE  First(S) \in S /\ Fold(f, S) = Op(f[First(S)], Fold(f, S \ {First(S)}))
<1> DEFINE G(s) == CHOOSE g : Follows(g, f, s)
           R == S \ {First(S)}
<1>1. Follows(G(S), f, S) /\ Follows(G(R), f, R) /\ IsFiniteSet(R)
  BY FollowerExists, FS_Subset
<1>2. Fold(f, S) = G(S)[S] /\ Fold(f, R) = G(R)[R]
  BY FoldDef
<1>3. First(S) \in S
  BY DEF First
<1> HIDE DEF G
<1>4. G(S)[S] = Op(f[First(S)], G(S)[R])
  BY <1>1 DEF Follows
<1>5. G(S)[R] = G(R)[R]
  <2>1. R \subseteq S /\ R \in SUBSET R
    OBVIOUS
  <2> HIDE DEF R
  <2>2. ASSUME NEW g, NEW h, Follows(g, f, S), Follows(h, f, R) PROVE g[R] = h[R]
    BY <1>1, <2>1, <2>2, FollowsAgree
  <2> QED BY <1>1, <2>2
<1> QED BY <1>2, <1>3, <1>4, <1>5

LEMMA FoldType ==
  ASSUME Monoid, NEW S, IsFiniteSet(S), NEW f, \A x \in S : f[x] \in Value
  PROVE  Fold(f, S) \in Value
<1> DEFINE C == {s \in SUBSET S : Fold(f, s) \notin Value}
<1> SUFFICES ASSUME C # {} PROVE FALSE
  OBVIOUS
<1>1. PICK m \in C : \A u \in C : u \subseteq m => u = m
  <2>1. C \in SUBSET SUBSET S
    OBVIOUS
  <2> HIDE DEF C
  <2> QED BY <2>1, Smallest
<1>2. m # {} /\ IsFiniteSet(m)
  BY FoldEmpty, FS_Subset, m \in SUBSET S DEF Monoid
<1>3. First(m) \in m /\ Fold(f, m) = Op(f[First(m)], Fold(f, m \ {First(m)}))
  BY <1>2, FoldFirst
<1>4. Fold(f, m \ {First(m)}) \in Value
  BY <1>1, <1>3
<1>5. f[First(m)] \in Value /\ Fold(f, m) \notin Value
  BY <1>3
<1>6. \A x, y \in Value : Op(x, y) \in Value
  BY DEF Monoid
<1>7. Op(f[First(m)], Fold(f, m \ {First(m)})) \in Value
  BY <1>4, <1>5, <1>6
<1> HIDE DEF C
<1> QED BY <1>3, <1>5, <1>7

\* Any element may be the first one.
LEMMA FoldElement ==
  ASSUME Monoid, NEW S, IsFiniteSet(S), NEW f, \A y \in S : f[y] \in Value, NEW x \in S
  PROVE  Fold(f, S) = Op(f[x], Fold(f, S \ {x}))
<1> DEFINE C == {s \in SUBSET S : \E y \in s : Fold(f, s) # Op(f[y], Fold(f, s \ {y}))}
<1> SUFFICES ASSUME C # {} PROVE FALSE
  OBVIOUS
<1>1. PICK m \in C : \A u \in C : u \subseteq m => u = m
  <2>1. C \in SUBSET SUBSET S
    OBVIOUS
  <2> HIDE DEF C
  <2> QED BY <2>1, Smallest
<1>2. PICK y \in m : Fold(f, m) # Op(f[y], Fold(f, m \ {y}))
  OBVIOUS
<1> DEFINE a == First(m)
           R == m \ {a}
<1>3. a \in m /\ Fold(f, m) = Op(f[a], Fold(f, R))
  BY FoldFirst, FS_Subset, m \in SUBSET S
<1>4. a # y
  BY <1>2, <1>3
<1> HIDE DEF a
<1>5. R \subseteq S /\ R # m /\ R \subseteq m /\ y \in R
  BY <1>3, <1>4
<1>6. Fold(f, R) = Op(f[y], Fold(f, R \ {y}))
  BY <1>1, <1>5
<1> DEFINE Q == m \ {y}
<1>7. Q \subseteq S /\ Q # m /\ Q \subseteq m /\ a \in Q
  BY <1>3, <1>4
<1>8. Fold(f, Q) = Op(f[a], Fold(f, Q \ {a}))
  BY <1>1, <1>7
<1>9. Q \ {a} = R \ {y} /\ IsFiniteSet(R \ {y}) /\ R \ {y} \subseteq S
  BY FS_Subset, m \in SUBSET S
<1>10. Fold(f, R \ {y}) \in Value
  BY <1>9, FoldType
<1>11. f[a] \in Value /\ f[y] \in Value
  BY <1>3, <1>5
<1> HIDE DEF C, R, Q
<1>12. Fold(f, m) = Op(f[a], Op(f[y], Fold(f, R \ {y})))
  BY <1>3, <1>6
<1>13. Fold(f, Q) = Op(f[a], Fold(f, R \ {y}))
  BY <1>8, <1>9
<1>14. Op(f[a], Op(f[y], Fold(f, R \ {y}))) = Op(f[y], Op(f[a], Fold(f, R \ {y})))
  BY <1>10, <1>11 DEF Monoid
<1>15. Fold(f, m) = Op(f[y], Fold(f, Q))
  BY <1>12, <1>13, <1>14
<1> QED BY <1>2, <1>15 DEF Q

\* Only the values at the elements count.
LEMMA FoldSame ==
  ASSUME NEW S, IsFiniteSet(S), NEW f, NEW g, \A x \in S : f[x] = g[x]
  PROVE  Fold(f, S) = Fold(g, S)
<1> DEFINE C == {s \in SUBSET S : Fold(f, s) # Fold(g, s)}
<1> SUFFICES ASSUME C # {} PROVE FALSE
  OBVIOUS
<1>1. PICK m \in C : \A u \in C : u \subseteq m => u = m
  <2>1. C \in SUBSET SUBSET S
    OBVIOUS
  <2> HIDE DEF C
  <2> QED BY <2>1, Smallest
<1>2. m # {} /\ IsFiniteSet(m)
  BY FoldEmpty, FS_Subset, m \in SUBSET S
<1>3. /\ First(m) \in m
      /\ Fold(f, m) = Op(f[First(m)], Fold(f, m \ {First(m)}))
      /\ Fold(g, m) = Op(g[First(m)], Fold(g, m \ {First(m)}))
  BY <1>2, FoldFirst
<1> QED BY <1>1, <1>3

-----------------------------------------------------------------------------
(* Where the operation is associative too.                                 *)

Associative == \A a, b, c \in Value : Op(Op(a, b), c) = Op(a, Op(b, c))

\* What one value of f has more than that of g, the fold has more.
LEMMA FoldChange ==
  ASSUME Monoid, Associative, NEW S, IsFiniteSet(S), NEW f, NEW g, \A y \in S : g[y] \in Value,
         NEW x \in S, NEW v \in Value, f[x] = Op(v, g[x]), \A y \in S \ {x} : f[y] = g[y]
  PROVE  Fold(f, S) = Op(v, Fold(g, S))
<1> DEFINE R == S \ {x}
<1>1. IsFiniteSet(R)
  BY FS_Subset
<1>2. Fold(f, R) = Fold(g, R) /\ Fold(g, R) \in Value
  BY <1>1, FoldSame, FoldType
<1>3. \A y \in S : f[y] \in Value
  BY DEF Monoid
<1>4. Fold(f, S) = Op(f[x], Fold(f, R)) /\ Fold(g, S) = Op(g[x], Fold(g, R))
  BY <1>3, FoldElement
<1> HIDE DEF R
<1> QED BY <1>2, <1>4 DEF Associative

\* The fold of the values of two functions taken together.
LEMMA FoldMerge ==
  ASSUME Monoid, Associative, NEW S, IsFiniteSet(S), NEW f, NEW g, NEW h,
         \A x \in S : f[x] \in Value /\ g[x] \in Value /\ h[x] = Op(f[x], g[x]),
         Op(Base, Base) = Base
  PROVE  Fold(h, S) = Op(Fold(f, S), Fold(g, S))
<1> DEFINE C == {s \in SUBSET S : Fold(h, s) # Op(Fold(f, s), Fold(g, s))}
<1> SUFFICES ASSUME C # {} PROVE FALSE
  OBVIOUS
<1>1. PICK m \in C : \A u \in C : u \subseteq m => u = m
  <2>1. C \in SUBSET SUBSET S
    OBVIOUS
  <2> HIDE DEF C
  <2> QED BY <2>1, Smallest
<1>2. m # {} /\ IsFiniteSet(m)
  BY FoldEmpty, FS_Subset, m \in SUBSET S
<1> DEFINE a == First(m)
           R == m \ {a}
<1>3. /\ a \in m
      /\ Fold(f, m) = Op(f[a], Fold(f, R))
      /\ Fold(g, m) = Op(g[a], Fold(g, R))
      /\ Fold(h, m) = Op(h[a], Fold(h, R))
  BY <1>2, FoldFirst
<1>4. Fold(h, R) = Op(Fold(f, R), Fold(g, R))
  BY <1>1, <1>3
<1>5. Fold(f, R) \in Value /\ Fold(g, R) \in Value
  BY FoldType, FS_Subset, <1>2, m \in SUBSET S
<1>6. f[a] \in Value /\ g[a] \in Value /\ h[a] = Op(f[a], g[a])
  BY <1>3
<1>7. Fold(h, m) # Op(Fold(f, m), Fold(g, m))
  OBVIOUS
<1> DEFINE p == Fold(f, R)
           q == Fold(g, R)
<1> HIDE DEF C, a, R, p, q
<1>8. Op(Op(f[a], g[a]), Op(p, q)) = Op(f[a], Op(p, Op(g[a], q)))
  <2>1. p \in Value /\ q \in Value
    BY <1>5 DEF p, q
  <2>2. Op(p, q) \in Value /\ Op(g[a], Op(p, q)) = Op(p, Op(g[a], q))
    BY <1>6, <2>1 DEF Monoid
  <2> QED BY <1>6, <2>1, <2>2 DEF Associative
<1>9. Op(Op(f[a], p), Op(g[a], q)) = Op(f[a], Op(p, Op(g[a], q)))
  <2>1. p \in Value /\ q \in Value
    BY <1>5 DEF p, q
  <2>2. Op(g[a], q) \in Value
    BY <1>6, <2>1 DEF Monoid
  <2> QED BY <1>6, <2>1, <2>2 DEF Associative
<1> QED BY <1>3, <1>4, <1>6, <1>7, <1>8, <1>9 DEF p, q
=============================================================================
