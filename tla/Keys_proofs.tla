----------------------------- MODULE Keys_proofs -----------------------------
(***************************************************************************)
(* Theorems about Keys, for every number of parties, threshold, field,     *)
(* curve, dealt polynomial, refresh and sequence of derivations, and for   *)
(* every hash.                                                             *)
(*                                                                         *)
(* None of the properties is inductive.  What is (KInv): all keys are of   *)
(* one tree, whose chain codes tell its nodes apart (OneTree); wherever    *)
(* its owner is in the tree, a share is the key there and an offset of its *)
(* own, and the offsets interpolate to zero (SharesFit); the two ends of a *)
(* pair have one seed and different signs (SeedsPair).  From the last two  *)
(* follows that the shares of a key add up to it, and that signing, in     *)
(* which what two parties owe each other cancels (DebtsCancel), gives a    *)
(* signature under it.                                                     *)
(***************************************************************************)
EXTENDS Keys, Shamir_proofs, SequenceTheorems

\* What is assumed of the hash: TLC cannot evaluate it for a module's ASSUME.
HashesAreNumbers == \A inputs \in Seq(Nat) : Hash(inputs) \in Nat

-----------------------------------------------------------------------------
(* Derivation.  The objects of a group are at nodes of one tree of keys.   *)

Key == [pk : Scalar, chain_code : Seq(Nat)]
Data == [depth : Nat, poly_point : Scalar, pk : Scalar, chain_code : Seq(Nat)]
KeyOfData(d) == [pk |-> d.pk, chain_code |-> d.chain_code]
Child(k, n) == [pk |-> (Tweak(k.chain_code, k.pk, n) + k.pk) % Prime,
                chain_code |-> ChildChainCode(k.chain_code, k.pk, n)]

LEMMA ScalarFacts ==
  /\ Scalar \subseteq Int /\ Scalar \subseteq Nat /\ 0 \in Scalar
  /\ \A a \in Scalar : a % Prime = a
BY PrimeFact DEF Scalar

LEMMA TweakType ==
  ASSUME HashesAreNumbers, NEW k \in Key, NEW n \in Nat
  PROVE  /\ Tweak(k.chain_code, k.pk, n) \in Nat
         /\ Child(k, n) \in Key
<1>1. HmacInput(k.chain_code, k.pk, n) \in Seq(Nat)
  <2>1. k.chain_code \in Seq(Nat) /\ k.pk \in Nat
    BY ScalarFacts DEF Key
  <2> DEFINE pk == k.pk
  <2>2. <<pk, n>> \in Seq(Nat)
    <3> HIDE DEF pk
    <3> QED BY <2>1 DEF pk
  <2> QED BY <2>1, <2>2, ConcatProperties DEF HmacInput
<1>2. Tweak(k.chain_code, k.pk, n) \in Nat
  <2> DEFINE h == Hash(HmacInput(k.chain_code, k.pk, n))
  <2>1. h \in Nat /\ HashRange \in Nat /\ HashRange > 0
    BY <1>1, KeysAssumption DEF HashesAreNumbers
  <2> HIDE DEF h
  <2>2. h % HashRange \in Nat
    BY <2>1
  <2> QED BY <2>2 DEF h, Tweak
<1>3. k.pk \in Int
  BY ScalarFacts DEF Key
<1> DEFINE t == Tweak(k.chain_code, k.pk, n)
<1>4. t + k.pk \in Int
  BY <1>2, <1>3
<1> HIDE DEF t
<1>5. (t + k.pk) % Prime \in Scalar
  BY <1>4, Reduced
<1> QED BY <1>1, <1>2, <1>5 DEF t, Child, ChildChainCode, Key

\* Deriving adds one tweak to share and public key.
LEMMA ChildDataFacts ==
  ASSUME HashesAreNumbers, NEW d \in Data, NEW n \in Nat, NEW c \in Int,
         Zero((d.poly_point - d.pk) - c)
  PROVE  LET e == ChildData(d, n)
         IN  /\ e \in Data
             /\ KeyOfData(e) = Child(KeyOfData(d), n)
             /\ Zero((e.poly_point - e.pk) - c)
<1> DEFINE k == KeyOfData(d)
           e == ChildData(d, n)
           t == Tweak(d.chain_code, d.pk, n)
           a == d.poly_point + t
           b == t + d.pk
<1>1. k \in Key /\ k.pk = d.pk /\ k.chain_code = d.chain_code /\ d.pk \in Int /\ d.poly_point \in Int
  BY ScalarFacts DEF KeyOfData, Key, Data
<1>2. t \in Nat /\ Child(k, n) \in Key
  <2> HIDE DEF k
  <2> QED BY <1>1, TweakType
<1>3. e.poly_point = a % Prime /\ e.pk = b % Prime /\ e.depth = d.depth + 1
      /\ e.chain_code = ChildChainCode(d.chain_code, d.pk, n)
      /\ e = [depth |-> e.depth, poly_point |-> e.poly_point, pk |-> e.pk, chain_code |-> e.chain_code]
  BY DEF ChildData
<1>4. KeyOfData(e) = Child(k, n)
  BY <1>1, <1>3 DEF Child, KeyOfData
<1>5. a \in Int /\ b \in Int
  BY <1>1, <1>2
<1>6. /\ a % Prime \in Scalar /\ a % Prime \in Int /\ Zero((a % Prime) - a)
      /\ b % Prime \in Scalar /\ b % Prime \in Int /\ Zero((b % Prime) - b)
  <2> HIDE DEF a, b
  <2> QED BY <1>5, Reduced
<1>7. e \in Data
  <2>1. e.chain_code \in Seq(Nat)
    BY <1>2, <1>4 DEF Key, KeyOfData
  <2>2. e.depth \in Nat
    BY <1>3 DEF Data
  <2> HIDE DEF e, a, b
  <2> QED BY <1>3, <1>6, <2>1, <2>2 DEF Data
<1>8. Zero((e.poly_point - e.pk) - c)
  <2> DEFINE x == e.poly_point - a
             y == e.pk - b
             z == (d.poly_point - d.pk) - c
  <2>1. x \in Int /\ y \in Int /\ z \in Int /\ Zero(x) /\ Zero(y) /\ Zero(z)
    <3> HIDE DEF a, b, e
    <3> QED BY <1>1, <1>3, <1>5, <1>6
  <2>2. (e.poly_point - e.pk) - c = (x - y) + z
    <3>1. e.poly_point \in Int /\ e.pk \in Int
      BY <1>3, <1>6
    <3> HIDE DEF e
    <3> QED BY <1>1, <1>2, <3>1
  <2> HIDE DEF x, y, z
  <2>3. x - y \in Int /\ Zero(x - y)
    BY <2>1, ZeroSum
  <2> QED BY <2>1, <2>2, <2>3, ZeroSum
<1> QED BY <1>4, <1>7, <1>8

\* Keys by the paths that lead to them.
Tree(t) ==
  /\ \A w \in DOMAIN t : w \in Seq(Nat) /\ t[w] \in Key
  /\ \A w \in Seq(Nat), n \in Nat :
       Append(w, n) \in DOMAIN t => w \in DOMAIN t /\ t[Append(w, n)] = Child(t[w], n)
  /\ <<>> \in DOMAIN t => t[<<>>].chain_code = <<>>
Extends(u, t) == DOMAIN t \subseteq DOMAIN u /\ \A w \in DOMAIN t : u[w] = t[w]

LEMMA NotTheRoot == ASSUME NEW w \in Seq(Nat), NEW n \in Nat PROVE Append(w, n) # <<>>
OBVIOUS

LEMMA TreeGrows ==
  ASSUME HashesAreNumbers, NEW t, Tree(t), NEW w \in DOMAIN t, NEW n \in Nat
  PROVE  \E u : /\ Tree(u) /\ Extends(u, t)
                /\ Append(w, n) \in DOMAIN u /\ u[Append(w, n)] = Child(t[w], n)
<1>1. w \in Seq(Nat) /\ t[w] \in Key /\ Append(w, n) \in Seq(Nat)
  BY DEF Tree
<1>2. CASE Append(w, n) \in DOMAIN t
  <2>1. t[Append(w, n)] = Child(t[w], n)
    BY <1>1, <1>2 DEF Tree
  <2> QED BY <1>2, <2>1 DEF Extends
<1>3. CASE Append(w, n) \notin DOMAIN t
  <2> DEFINE u == [v \in DOMAIN t \cup {Append(w, n)} |->
                     IF v = Append(w, n) THEN Child(t[w], n) ELSE t[v]]
  <2>1. Extends(u, t) /\ u[Append(w, n)] = Child(t[w], n)
    BY <1>3 DEF Extends
  <2>2. \A v \in DOMAIN u : v \in Seq(Nat) /\ u[v] \in Key
    BY <1>1, TweakType DEF Tree
  <2>3. ASSUME NEW v \in Seq(Nat), NEW m \in Nat, Append(v, m) \in DOMAIN u
        PROVE  v \in DOMAIN u /\ u[Append(v, m)] = Child(u[v], m)
    <3>1. CASE Append(v, m) \in DOMAIN t
      <4>1. v \in DOMAIN t /\ t[Append(v, m)] = Child(t[v], m)
        BY <3>1 DEF Tree
      <4>2. u[Append(v, m)] = t[Append(v, m)] /\ u[v] = t[v]
        BY <2>1, <3>1, <4>1 DEF Extends
      <4> QED BY <4>1, <4>2
    <3>2. CASE Append(v, m) = Append(w, n)
      <4>1. v = w /\ m = n
        BY <1>1, <3>2, AppendInjective
      <4>2. u[v] = t[w]
        BY <2>1, <4>1 DEF Extends
      <4> HIDE DEF u
      <4> QED BY <2>1, <4>1, <4>2 DEF Extends
    <3> QED BY <2>3, <3>1, <3>2
  <2>4. Tree(u)
    <3>1. <<>> \in DOMAIN u => u[<<>>].chain_code = <<>>
      <4>1. Append(w, n) # <<>>
        BY <1>1, NotTheRoot
      <4>2. <<>> \in DOMAIN u => <<>> \in DOMAIN t /\ u[<<>>] = t[<<>>]
        BY <4>1
      <4> QED BY <4>2 DEF Tree
    <3> HIDE DEF u
    <3> QED BY <2>2, <2>3, <3>1 DEF Tree
  <2>5. Append(w, n) \in DOMAIN u
    OBVIOUS
  <2> QED BY <2>1, <2>4, <2>5
<1> QED BY <1>2, <1>3

LEMMA SameAppended ==
  ASSUME NEW x \in Seq(Nat), NEW y \in Seq(Nat), NEW m \in Nat, NEW n \in Nat,
         Append(x, m) = Append(y, n)
  PROVE  x = y /\ m = n
BY AppendInjective

LEMMA AppendTwo ==
  ASSUME NEW u \in Seq(Nat), NEW i \in Nat, NEW j \in Nat
  PROVE  u \o <<i, j>> = Append(Append(u, i), j)
OBVIOUS

LEMMA SameEnds ==
  ASSUME NEW v \in Seq(Nat), NEW w \in Seq(Nat), NEW a \in Nat, NEW b \in Nat,
         NEW c \in Nat, NEW d \in Nat, v \o <<a, b>> = w \o <<c, d>>
  PROVE  v = w /\ b = d
<1>1. v \o <<a, b>> = Append(Append(v, a), b) /\ w \o <<c, d>> = Append(Append(w, c), d)
  BY AppendTwo
<1>2. Append(v, a) \in Seq(Nat) /\ Append(w, c) \in Seq(Nat)
  BY AppendProperties
<1> DEFINE x == Append(v, a)
           y == Append(w, c)
<1>3. x \in Seq(Nat) /\ y \in Seq(Nat) /\ Append(x, b) = Append(y, d)
  BY <1>1, <1>2
<1> HIDE DEF x, y
<1>4. x = y /\ b = d
  BY <1>3, SameAppended
<1>5. Append(v, a) = Append(w, c)
  BY <1>4 DEF x, y
<1> QED BY <1>4, <1>5, SameAppended

\* A chain code tells the path that led to it.
LEMMA ChainCodesTellPaths ==
  ASSUME NEW t, Tree(t)
  PROVE  \A w, v \in DOMAIN t : t[w].chain_code = t[v].chain_code => w = v
<1> DEFINE C == {n \in Nat : \E w, v \in DOMAIN t :
                   Len(w) = n /\ t[w].chain_code = t[v].chain_code /\ w # v}
<1>0. \A w \in DOMAIN t : w \in Seq(Nat) /\ t[w] \in Key /\ Len(w) \in Nat
  BY DEF Tree
<1> SUFFICES ASSUME C # {} PROVE FALSE
  BY <1>0
<1>1. PICK n \in C : \A m \in C : n <= m
  <2>1. C \subseteq Nat
    OBVIOUS
  <2> HIDE DEF C
  <2> QED BY <2>1, LeastNat
<1>2. PICK w \in DOMAIN t, v \in DOMAIN t :
        Len(w) = n /\ t[w].chain_code = t[v].chain_code /\ w # v
  OBVIOUS
<1>3. ASSUME NEW u \in DOMAIN t, u # <<>>
      PROVE  \E u1 \in DOMAIN t, a \in Nat :
               /\ u = Append(u1, a) /\ Len(u) = Len(u1) + 1
               /\ t[u1].pk \in Nat /\ t[u1].chain_code \in Seq(Nat)
               /\ t[u].chain_code = t[u1].chain_code \o <<t[u1].pk, a>>
  <2>1. PICK u1 \in Seq(Nat), a \in Nat : u = Append(u1, a)
    BY <1>0, <1>3, SequenceEmptyOrAppend
  <2>2. u1 \in DOMAIN t /\ t[u] = Child(t[u1], a)
    BY <2>1 DEF Tree
  <2>3. t[u1].pk \in Nat /\ t[u1].chain_code \in Seq(Nat)
    BY <1>0, <2>2, ScalarFacts DEF Key
  <2>4. t[u].chain_code = t[u1].chain_code \o <<t[u1].pk, a>>
    BY <2>2 DEF Child, ChildChainCode, HmacInput
  <2>5. Len(u) = Len(u1) + 1
    BY <2>1, AppendProperties
  <2> QED BY <2>1, <2>2, <2>3, <2>4, <2>5
<1>4. \A u \in DOMAIN t : u = <<>> <=> t[u].chain_code = <<>>
  <2> SUFFICES ASSUME NEW u \in DOMAIN t PROVE u = <<>> <=> t[u].chain_code = <<>>
    OBVIOUS
  <2>1. CASE u = <<>>
    BY <2>1 DEF Tree
  <2>2. CASE u # <<>>
    <3>1. PICK u1 \in DOMAIN t, a \in Nat :
               /\ t[u1].pk \in Nat /\ t[u1].chain_code \in Seq(Nat)
               /\ t[u].chain_code = t[u1].chain_code \o <<t[u1].pk, a>>
      BY <1>3, <2>2
    <3> DEFINE k == t[u1].pk
               cc == t[u1].chain_code
    <3>2. k \in Nat /\ cc \in Seq(Nat) /\ t[u].chain_code = cc \o <<k, a>>
      BY <3>1
    <3> HIDE DEF k, cc
    <3>3. cc \o <<k, a>> # <<>>
      BY <3>2, ConcatEqualIffEmpty
    <3> QED BY <2>2, <3>2, <3>3
  <2> QED BY <2>1, <2>2
<1>5. w # <<>> /\ v # <<>>
  BY <1>2, <1>4
<1>6. PICK w1 \in DOMAIN t, a \in Nat :
               /\ w = Append(w1, a) /\ Len(w) = Len(w1) + 1
               /\ t[w1].pk \in Nat /\ t[w1].chain_code \in Seq(Nat)
               /\ t[w].chain_code = t[w1].chain_code \o <<t[w1].pk, a>>
  BY <1>3, <1>5
<1>7. PICK v1 \in DOMAIN t, b \in Nat :
               /\ v = Append(v1, b)
               /\ t[v1].pk \in Nat /\ t[v1].chain_code \in Seq(Nat)
               /\ t[v].chain_code = t[v1].chain_code \o <<t[v1].pk, b>>
  BY <1>3, <1>5
<1>8. t[w1].chain_code = t[v1].chain_code /\ a = b
  <2> DEFINE x == t[w1].chain_code
             y == t[v1].chain_code
             k == t[w1].pk
             l == t[v1].pk
  <2>1. /\ x \in Seq(Nat) /\ y \in Seq(Nat) /\ k \in Nat /\ l \in Nat
        /\ x \o <<k, a>> = y \o <<l, b>>
    BY <1>2, <1>6, <1>7
  <2> HIDE DEF x, y, k, l
  <2>2. x = y /\ a = b
    BY <2>1, SameEnds
  <2> QED BY <2>2 DEF x, y
<1>9. w1 # v1
  BY <1>2, <1>6, <1>7, <1>8
<1>10. Len(w1) \in C
  BY <1>0, <1>8, <1>9
<1>11. ~(n <= Len(w1)) /\ Len(w1) \in Nat
  BY <1>0, <1>2, <1>6
<1> QED BY <1>1, <1>10, <1>11

\* at is the recursive function of DataAlong, up to the length n.
Along(at, data, path, n) ==
  at = [i \in 0..n |->
          IF i = 0 THEN data
          ELSE IF at[i - 1] = None \/ ~DataHasChild(at[i - 1], path[i]) THEN None
          ELSE ChildData(at[i - 1], path[i])]

LEMMA AlongExists ==
  ASSUME NEW data, NEW path, NEW n \in Nat
  PROVE  \E at : Along(at, data, path, n)
<1> DEFINE C == {m \in Nat : ~ \E at : Along(at, data, path, m)}
<1> SUFFICES ASSUME C # {} PROVE FALSE
  OBVIOUS
<1>1. PICK m \in C : \A l \in C : m <= l
  <2>1. C \subseteq Nat
    OBVIOUS
  <2> HIDE DEF C
  <2> QED BY <2>1, LeastNat
<1>2. CASE m = 0
  <2> DEFINE at == [i \in 0..0 |-> data]
  <2>1. at = [i \in 0..0 |->
          IF i = 0 THEN data
          ELSE IF at[i - 1] = None \/ ~DataHasChild(at[i - 1], path[i]) THEN None
          ELSE ChildData(at[i - 1], path[i])]
    OBVIOUS
  <2> HIDE DEF at
  <2> QED BY <1>2, <2>1 DEF Along
<1>3. CASE m # 0
  <2>1. m - 1 \in Nat /\ ~(m <= m - 1)
    BY <1>3
  <2>2. PICK f : Along(f, data, path, m - 1)
    BY <1>1, <2>1
  <2> DEFINE last == IF f[m - 1] = None \/ ~DataHasChild(f[m - 1], path[m]) THEN None
                     ELSE ChildData(f[m - 1], path[m])
             at == [i \in 0..m |-> IF i = m THEN last ELSE f[i]]
  <2>3. \A i \in 0..(m - 1) : at[i] = f[i]
    OBVIOUS
  <2> DEFINE Next1(g, i) == IF i = 0 THEN data
                            ELSE IF g[i - 1] = None \/ ~DataHasChild(g[i - 1], path[i]) THEN None
                            ELSE ChildData(g[i - 1], path[i])
  <2>4. ASSUME NEW i \in 0..m PROVE at[i] = Next1(at, i)
    <3>1. CASE i = m
      <4>1. m - 1 \in 0..(m - 1) /\ i # 0
        BY <1>3, <3>1
      <4>2. at[i - 1] = f[m - 1] /\ at[i] = last
        BY <2>3, <3>1, <4>1
      <4> HIDE DEF at
      <4> QED BY <3>1, <4>1, <4>2
    <3>2. CASE i # m
      <4>1. i \in 0..(m - 1) /\ (i # 0 => i - 1 \in 0..(m - 1))
        BY <3>2
      <4>2. f[i] = Next1(f, i)
        BY <2>2, <4>1 DEF Along
      <4> HIDE DEF at
      <4> QED BY <2>3, <4>1, <4>2
    <3> QED BY <3>1, <3>2
  <2>5. at = [i \in 0..m |-> at[i]]
    OBVIOUS
  <2>6. at = [i \in 0..m |-> Next1(at, i)]
    <3> HIDE DEF at, Next1
    <3> QED BY <2>4, <2>5
  <2> HIDE DEF at
  <2>7. Along(at, data, path, m)
    BY <2>6 DEF Along
  <2> QED BY <2>7
<1> QED BY <1>2, <1>3

LEMMA AlongFacts ==
  ASSUME NEW data, NEW path \in Seq(Nat)
  PROVE  LET at == DataAlong(data, path)
         IN  /\ at[0] = data
             /\ \A i \in 1..Len(path) :
                  at[i] # None => /\ at[i - 1] # None
                                  /\ DataHasChild(at[i - 1], path[i])
                                  /\ at[i] = ChildData(at[i - 1], path[i])
<1> DEFINE at == CHOOSE at : Along(at, data, path, Len(path))
<1>1. Len(path) \in Nat
  OBVIOUS
<1>2. Along(at, data, path, Len(path))
  <2>1. \E f : Along(f, data, path, Len(path))
    BY <1>1, AlongExists
  <2> QED BY <2>1
<1>3. DataAlong(data, path) = at
  BY DEF DataAlong, Along
<1> HIDE DEF at
<1>4. at[0] = data
  BY <1>1, <1>2 DEF Along
<1>5. ASSUME NEW i \in 1..Len(path), at[i] # None
      PROVE  at[i - 1] # None /\ DataHasChild(at[i - 1], path[i])
             /\ at[i] = ChildData(at[i - 1], path[i])
  <2>1. i \in 0..Len(path) /\ i # 0
    BY <1>1
  <2> QED BY <1>2, <1>5, <2>1 DEF Along
<1> QED BY <1>3, <1>4, <1>5

\* What holds of one derivation holds of a path.
LEMMA PathFacts ==
  ASSUME HashesAreNumbers, NEW t, Tree(t), NEW w \in DOMAIN t,
         NEW d \in Data, t[w] = KeyOfData(d), NEW c \in Int, Zero((d.poly_point - d.pk) - c),
         NEW path \in Seq(Nat), DataAlong(d, path)[Len(path)] # None
  PROVE  LET e == DataAlong(d, path)[Len(path)]
         IN  /\ e \in Data /\ Zero((e.poly_point - e.pk) - c)
             /\ \E u : /\ Tree(u) /\ Extends(u, t)
                       /\ w \o path \in DOMAIN u /\ u[w \o path] = KeyOfData(e)
<1> DEFINE at == DataAlong(d, path)
           Way(i) == w \o SubSeq(path, 1, i)
           Fine(i) == /\ at[i] \in Data /\ Zero((at[i].poly_point - at[i].pk) - c)
                      /\ \E u : /\ Tree(u) /\ Extends(u, t)
                                /\ Way(i) \in DOMAIN u /\ u[Way(i)] = KeyOfData(at[i])
           C == {i \in 0..Len(path) : at[i] # None /\ ~Fine(i)}
<1>1. w \in Seq(Nat) /\ Len(path) \in Nat /\ \A i \in 1..Len(path) : path[i] \in Nat
  BY DEF Tree
<1>2. /\ at[0] = d
      /\ \A i \in 1..Len(path) :
           at[i] # None => /\ at[i - 1] # None
                           /\ DataHasChild(at[i - 1], path[i])
                           /\ at[i] = ChildData(at[i - 1], path[i])
  BY AlongFacts
<1> HIDE DEF at
<1>3. Way(0) = w
  <2>1. SubSeq(path, 1, 0) = <<>>
    BY SubSeqProperties
  <2> QED BY <1>1, <2>1, ConcatEmptySeq
<1>4. Way(Len(path)) = w \o path
  <2>1. SubSeq(path, 1, Len(path)) = path
    BY SubSeqFull
  <2> QED BY <2>1
<1>5. ASSUME NEW i \in 1..Len(path)
      PROVE  Way(i) = Append(Way(i - 1), path[i])
  OBVIOUS
<1>6. C = {}
  <2> SUFFICES ASSUME C # {} PROVE FALSE
    OBVIOUS
  <2>1. PICK i \in C : \A l \in C : i <= l
    <3>1. C \subseteq Nat
      BY <1>1
    <3> HIDE DEF C
    <3> QED BY <3>1, LeastNat
  <2>2. i \in 0..Len(path) /\ at[i] # None /\ ~Fine(i)
    OBVIOUS
  <2>3. CASE i = 0
    <3>1. Tree(t) /\ Extends(t, t)
      BY DEF Extends
    <3> HIDE DEF Way
    <3>2. Fine(0)
      BY <1>2, <1>3, <3>1
    <3> QED BY <2>2, <2>3, <3>2
  <2>4. CASE i # 0
    <3> HIDE DEF Way
    <3>1. i \in 1..Len(path) /\ i - 1 \in 0..Len(path) /\ ~(i <= i - 1)
      BY <1>1, <2>2, <2>4
    <3>2. at[i - 1] # None /\ at[i] = ChildData(at[i - 1], path[i]) /\ path[i] \in Nat
      BY <1>1, <1>2, <2>2, <3>1
    <3>3. Fine(i - 1)
      BY <2>1, <3>1, <3>2
    <3>4. /\ at[i] \in Data /\ Zero((at[i].poly_point - at[i].pk) - c)
          /\ KeyOfData(at[i]) = Child(KeyOfData(at[i - 1]), path[i])
      BY <3>2, <3>3, ChildDataFacts
    <3>5. PICK u : /\ Tree(u) /\ Extends(u, t)
                   /\ Way(i - 1) \in DOMAIN u /\ u[Way(i - 1)] = KeyOfData(at[i - 1])
      BY <3>3
    <3>6. PICK v : /\ Tree(v) /\ Extends(v, u)
                   /\ Append(Way(i - 1), path[i]) \in DOMAIN v
                   /\ v[Append(Way(i - 1), path[i])] = Child(u[Way(i - 1)], path[i])
      BY <3>2, <3>5, TreeGrows
    <3>7. Extends(v, t)
      BY <3>5, <3>6 DEF Extends
    <3>8. Way(i) \in DOMAIN v /\ v[Way(i)] = KeyOfData(at[i])
      BY <1>5, <3>1, <3>4, <3>5, <3>6
    <3>9. Fine(i)
      BY <3>4, <3>6, <3>7, <3>8
    <3> QED BY <2>2, <3>9
  <2> QED BY <2>3, <2>4
<1>7. Fine(Len(path))
  BY <1>1, <1>6 DEF at
<1> HIDE DEF Way
<1> QED BY <1>4, <1>7 DEF at

-----------------------------------------------------------------------------
(* Shares.                                                                 *)

\* What the shares of a key differ from it by: values that interpolate to zero.
Offset(z) ==
  /\ z \in [Party -> Int]
  /\ \A S \in SUBSET Party : Cardinality(S) >= Threshold => Zero(At(z, S))

LEMMA EvaluateType ==
  ASSUME NEW poly \in Polynomial, NEW j \in Int
  PROVE  Evaluate(poly, j) \in Scalar /\ Evaluate(poly, j) \in Int
<1>0. Threshold \in Nat /\ Threshold > 0
  BY FieldAssumption
<1>1. \A k \in 0..(Threshold - 1) : poly[k] \in Scalar /\ poly[k] \in Int
  BY ScalarFacts DEF Polynomial
<1>2. /\ Evaluate(poly, j) = From(poly, j, 0)
      /\ From(poly, j, Threshold - 1) = poly[Threshold - 1]
      /\ \A k \in 0..(Threshold - 2) : From(poly, j, k) = (From(poly, j, k + 1) * j + poly[k]) % Prime
      /\ \A k \in 0..(Threshold - 1) : From(poly, j, k) \in Int
  BY <1>1, FromFacts
<1>3. CASE Threshold = 1
  BY <1>0, <1>1, <1>2, <1>3
<1>4. CASE Threshold # 1
  <2>1. 0 \in 0..(Threshold - 2) /\ 0 \in 0..(Threshold - 1) /\ 1 \in 0..(Threshold - 1)
    BY <1>0, <1>4
  <2> DEFINE m == From(poly, j, 1) * j + poly[0]
  <2>2. m \in Int
    BY <1>1, <1>2, <2>1
  <2>3. Evaluate(poly, j) = m % Prime
    BY <1>2, <2>1
  <2> HIDE DEF m
  <2> QED BY <2>2, <2>3, Reduced
<1> QED BY <1>3, <1>4

LEMMA NotEmpty ==
  ASSUME NEW S \in SUBSET Party, Cardinality(S) >= Threshold
  PROVE  S # {}
BY FS_EmptySet, FieldAssumption

LEMMA OneFacts ==
  ASSUME NEW S \in SUBSET Party, S # {}
  PROVE  At(One, S) \in Int /\ Zero(At(One, S) - 1) /\ \A j \in S : One[j] = 1 /\ One[j] \in Int
<1> DEFINE o == At(One, S)
<1>1. \A j \in S : One[j] = 1 /\ One[j] \in Int
  BY DEF One
<1>2. o \in Int /\ o % Prime = 1
  BY <1>1, AtOne, AtZeroFacts
<1> HIDE DEF o
<1>3. Zero(o - 1)
  BY <1>2, OneReduced, SameReduced
<1> QED BY <1>1, <1>2, <1>3 DEF o

\* Values that are a constant and an offset interpolate to the constant, and only those.
LEMMA ConstantAndOffset ==
  ASSUME NEW S \in SUBSET Party, S # {}, NEW k \in Int, NEW y, NEW z,
         \A j \in S : y[j] \in Int /\ z[j] \in Int /\ Zero((y[j] - k) - z[j])
  PROVE  /\ At(y, S) \in Int /\ At(z, S) \in Int
         /\ Zero(At(z, S)) <=> Zero(At(y, S) - k)
<1> DEFINE a == At(y, S)
           b == At(z, S)
           o == At(One, S)
<1>1. a \in Int /\ b \in Int /\ o \in Int /\ Zero(o - 1) /\ -k \in Int
  <2>1. \A j \in S : y[j] \in Int /\ z[j] \in Int
    OBVIOUS
  <2>2. a \in Int
    BY <2>1, AtZeroFacts
  <2>3. b \in Int
    BY <2>1, AtZeroFacts
  <2>4. o \in Int /\ Zero(o - 1)
    BY OneFacts
  <2> QED BY <2>2, <2>3, <2>4
<1>2. Zero(Mix(1, a, -1, b, -k, o))
  <2> DEFINE m == -k
  <2>1. \A j \in S : y[j] \in Int /\ z[j] \in Int /\ One[j] \in Int
    BY OneFacts
  <2>2. ASSUME NEW j \in S PROVE Zero(Mix(1, y[j], -1, z[j], m, One[j]))
    <3>1. One[j] = 1 /\ y[j] \in Int /\ z[j] \in Int /\ Zero((y[j] - k) - z[j])
      BY OneFacts
    <3>2. Mix(1, y[j], -1, z[j], m, 1) = (y[j] - k) - z[j]
      BY <3>1 DEF Mix
    <3> QED BY <3>1, <3>2
  <2> HIDE DEF m
  <2>3. m \in Int /\ 1 \in Int /\ -1 \in Int
    BY DEF m
  <2>4. Zero(Mix(1, At(y, S), -1, At(z, S), m, At(One, S)))
    BY <2>1, <2>2, <2>3, AtCombines
  <2> QED BY <2>4 DEF m
<1> HIDE DEF a, b, o
<1>3. Mix(1, a, -1, b, -k, o) = Mix(1, a, -k, o, -1, b)
  BY <1>1 DEF Mix
<1>4. ASSUME Zero(b) PROVE Zero(a - k)
  BY <1>1, <1>2, <1>3, <1>4, Isolate
<1>5. ASSUME Zero(a - k) PROVE Zero(b)
  <2> DEFINE x == Mix(1, a, -1, b, -k, o)
             u == a - k
             t == k * (o - 1)
  <2>1. x \in Int /\ u \in Int
    BY <1>1 DEF Mix
  <2>2. t \in Int /\ Zero(t)
    <3> DEFINE v == o - 1
    <3>1. v \in Int /\ Zero(v)
      BY <1>1
    <3> HIDE DEF v
    <3>2. k * v \in Int
      BY <3>1
    <3>3. Zero(k * v)
      BY <3>1, ZeroTimes
    <3> QED BY <3>2, <3>3 DEF v
  <2>3. b = (u - t) - x
    BY <1>1 DEF Mix
  <2>4. Zero(x) /\ Zero(u)
    BY <1>2, <1>5
  <2> HIDE DEF x, u, t
  <2>5. u - t \in Int /\ Zero(u - t)
    BY <2>1, <2>2, <2>4, ZeroSum
  <2> QED BY <2>1, <2>3, <2>4, <2>5, ZeroSum
<1> QED BY <1>1, <1>4, <1>5 DEF a, b

\* The shares of a polynomial differ from its constant coefficient by an offset.
LEMMA PolynomialOffset ==
  ASSUME NEW poly \in Polynomial
  PROVE  Offset([p \in Party |-> Evaluate(poly, p) - poly[0]])
<1> DEFINE y == [p \in Party |-> Evaluate(poly, p)]
           z == [p \in Party |-> Evaluate(poly, p) - poly[0]]
<1>1. poly[0] \in Int /\ poly[0] \in Scalar /\ Party \subseteq Int
  <2>1. 0 \in 0..(Threshold - 1)
    BY FieldAssumption
  <2>2. poly[0] \in Scalar
    BY <2>1 DEF Polynomial
  <2>3. Party \subseteq Int
    BY DEF Party
  <2> QED BY <2>2, <2>3, ScalarFacts
<1>2. \A p \in Party : y[p] \in Int /\ z[p] \in Int /\ y[p] = Evaluate(poly, p) /\ z[p] = y[p] - poly[0]
  BY <1>1, EvaluateType
<1>3. z \in [Party -> Int]
  <2>1. z = [p \in Party |-> z[p]]
    OBVIOUS
  <2> HIDE DEF z
  <2> QED BY <1>2, <2>1
<1> HIDE DEF y, z
<1>4. ASSUME NEW S \in SUBSET Party, Cardinality(S) >= Threshold PROVE Zero(At(z, S))
  <2>1. S # {}
    BY <1>4, NotEmpty
  <2>2. AtZero(y, S) = poly[0]
    BY <1>2, <1>4, InterpolationFindsTheConstant
  <2> DEFINE k == poly[0]
             a == At(y, S)
  <2>3. k \in Int /\ k % Prime = k
    BY <1>1, ScalarFacts
  <2>4. a \in Int /\ a % Prime = k
    BY <1>2, <2>2, AtZeroFacts
  <2>5. ASSUME NEW j \in S PROVE y[j] \in Int /\ z[j] \in Int /\ Zero((y[j] - k) - z[j])
    <3>1. y[j] \in Int /\ z[j] = y[j] - k
      BY <1>2
    <3> HIDE DEF k
    <3>2. (y[j] - k) - z[j] = 0
      BY <2>3, <3>1
    <3> QED BY <2>3, <3>1, <3>2, ZeroZero
  <2> HIDE DEF a, k
  <2>6. Zero(a - k)
    BY <2>3, <2>4, SameReduced
  <2> QED BY <2>1, <2>3, <2>5, <2>6, ConstantAndOffset DEF a
<1> QED BY <1>3, <1>4 DEF Offset, z

LEMMA OffsetsAdd ==
  ASSUME NEW f, Offset(f), NEW g, Offset(g)
  PROVE  Offset([p \in Party |-> f[p] + g[p]])
<1> DEFINE h == [p \in Party |-> f[p] + g[p]]
<1>1. h \in [Party -> Int] /\ \A p \in Party : h[p] = f[p] + g[p] /\ f[p] \in Int /\ g[p] \in Int
  BY DEF Offset
<1> HIDE DEF h
<1>2. ASSUME NEW S \in SUBSET Party, Cardinality(S) >= Threshold PROVE Zero(At(h, S))
  <2> DEFINE a == At(f, S)
             b == At(g, S)
             c == At(h, S)
             x == Mix(1, c, -1, a, -1, b)
  <2>1. \A j \in S : h[j] \in Int /\ f[j] \in Int /\ g[j] \in Int
    BY <1>1
  <2>2. ASSUME NEW j \in S PROVE Zero(Mix(1, h[j], -1, f[j], -1, g[j]))
    <3>1. Mix(1, h[j], -1, f[j], -1, g[j]) = 0
      BY <1>1, <2>1 DEF Mix
    <3> QED BY <3>1, ZeroZero
  <2>3. 1 \in Int /\ -1 \in Int
    OBVIOUS
  <2>4. Zero(x)
    BY <2>1, <2>2, <2>3, AtCombines
  <2>5. a \in Int /\ b \in Int /\ c \in Int /\ Zero(a) /\ Zero(b)
    BY <1>2, <2>1, AtZeroFacts DEF Offset
  <2> HIDE DEF a, b, c
  <2>6. x \in Int /\ c = x + (a + b) /\ a + b \in Int
    BY <2>5 DEF Mix
  <2>7. Zero(a + b)
    BY <2>5, ZeroSum
  <2> HIDE DEF x
  <2>8. Zero(x + (a + b))
    BY <2>4, <2>6, <2>7, ZeroSum
  <2> QED BY <2>6, <2>8 DEF c
<1> QED BY <1>1, <1>2 DEF Offset, h

-----------------------------------------------------------------------------
(* The invariant.                                                          *)

Pair == [lowest_index : BOOLEAN, index_counterparty : Party, seed : Nat]
Object == [session_id : Nat, poly_point : Scalar, pk : Scalar, zero_share : SUBSET Pair,
           derivation_data : Data]
Package == [verifying_key : Scalar, chain_code : Seq(Nat), verifying_shares : [Party -> Scalar]]
Holder == 0..ShareCount

\* The key of an object, and at 0 of the package.
KeyAt(i) ==
  IF i = 0 THEN [pk |-> package.verifying_key, chain_code |-> package.chain_code]
  ELSE KeyOfData(party[i].derivation_data)

Shape ==
  /\ party \in [Party -> Object]
  /\ package \in Package
  /\ refreshes \in Nat
  /\ where \in [Holder -> Seq(Nat)]

\* An object has its share and its key twice, and is of the last refresh.
ObjectsWhole ==
  \A p \in Party :
    /\ party[p].derivation_data.poly_point = party[p].poly_point
    /\ party[p].derivation_data.pk = party[p].pk
    /\ party[p].session_id = refreshes

\* Every key is the one its path leads to.
OneTree == \E t : /\ Tree(t)
                  /\ \A i \in Holder : where[i] \in DOMAIN t /\ t[where[i]] = KeyAt(i)

\* Wherever its owner is in the tree, a share is the key and the same offset; so are
\* those of the package until the first refresh.
SharesFit ==
  \E z : /\ Offset(z)
         /\ \A p \in Party :
              /\ Zero((party[p].poly_point - party[p].pk) - z[p])
              /\ refreshes = 0 =>
                   Zero((package.verifying_shares[p] - package.verifying_key) - z[p])

\* The two parties of a pair have one seed for their zero shares, and different signs.
PairOf(seed, p, q) == [lowest_index |-> p < q, index_counterparty |-> q, seed |-> seed[p][q]]
SeedsPair ==
  \E seed : /\ \A p, q \in Party : seed[p][q] \in Nat /\ seed[p][q] = seed[q][p]
            /\ \A p \in Party :
                 party[p].zero_share = {PairOf(seed, p, q) : q \in Party \ {p}}

KInv == Shape /\ ObjectsWhole /\ OneTree /\ SharesFit /\ SeedsPair

LEMMA HolderFacts == Party \subseteq Holder /\ 0 \in Holder /\ 0 \notin Party
BY FieldAssumption DEF Party, Holder

LEMMA ReKeyedFields ==
  ASSUME NEW p, NEW poly
  PROVE  /\ ReKeyed(p, poly).session_id = 0
         /\ ReKeyed(p, poly).poly_point = Evaluate(poly, p)
         /\ ReKeyed(p, poly).pk = poly[0]
         /\ ReKeyed(p, poly).zero_share = SeedPairs(p)
         /\ ReKeyed(p, poly).derivation_data.poly_point = Evaluate(poly, p)
         /\ ReKeyed(p, poly).derivation_data.pk = poly[0]
         /\ ReKeyed(p, poly).derivation_data.chain_code = <<>>
BY DEF ReKeyed

LEMMA WithDataFields ==
  ASSUME NEW o \in Object, NEW d \in Data
  PROVE  /\ WithData(o, d) \in Object
         /\ WithData(o, d).poly_point = d.poly_point /\ WithData(o, d).pk = d.pk
         /\ WithData(o, d).derivation_data = d
         /\ WithData(o, d).session_id = o.session_id
         /\ WithData(o, d).zero_share = o.zero_share
<1>1. d.poly_point \in Scalar /\ d.pk \in Scalar
  BY DEF Data
<1>2. WithData(o, d) \in Object
  BY <1>1 DEF WithData, Object
<1> QED BY <1>2 DEF WithData, Object

LEMMA KInvInit == Init => KInv
<1> SUFFICES ASSUME Init PROVE KInv
  OBVIOUS
<1>1. PICK poly \in SecretPolynomial :
        /\ party = [p \in Party |-> ReKeyed(p, poly)]
        /\ package = ReKeyPackage(poly)
  BY DEF Init
<1>2. refreshes = 0 /\ where = [i \in Holder |-> <<>>]
  BY DEF Init, Holder
<1>3. poly \in Polynomial
  BY KeysAssumption
<1>4. poly[0] \in Scalar /\ \A p \in Party : Evaluate(poly, p) \in Scalar
  <2>1. 0 \in 0..(Threshold - 1) /\ Party \subseteq Int
    BY FieldAssumption DEF Party
  <2> QED BY <1>3, <2>1, EvaluateType DEF Polynomial
<1>5. ASSUME NEW p \in Party PROVE SeedPairs(p) \in SUBSET Pair
  <2>1. ShareCount \in Nat /\ p \in 1..ShareCount
    BY FieldAssumption DEF Party
  <2>2. ASSUME NEW q \in 1..(p - 1)
        PROVE  q \in Party /\ CommonSeeds[q][p - q] \in Nat
    <3>1. q \in 1..(ShareCount - 1) /\ p - q \in 1..(ShareCount - q)
      BY <2>1
    <3>2. CommonSeeds[q][p - q] = 10 * q + (p - q)
      BY <3>1 DEF CommonSeeds
    <3>3. 10 * q + (p - q) \in Nat
      BY <2>1, <3>1
    <3> QED BY <2>1, <3>2, <3>3 DEF Party
  <2>3. ASSUME NEW q \in (p + 1)..ShareCount
        PROVE  q \in Party /\ CommonSeeds[p][q - p] \in Nat
    <3>1. p \in 1..(ShareCount - 1) /\ q - p \in 1..(ShareCount - p)
      BY <2>1
    <3>2. CommonSeeds[p][q - p] = 10 * p + (q - p)
      BY <3>1 DEF CommonSeeds
    <3>3. 10 * p + (q - p) \in Nat
      BY <2>1, <3>1
    <3> QED BY <2>1, <3>2, <3>3 DEF Party
  <2>4. ASSUME NEW x \in SeedPairs(p) PROVE x \in Pair
    <3>1. CASE \E q \in 1..(p - 1) :
                 x = [lowest_index |-> FALSE, index_counterparty |-> q, seed |-> CommonSeeds[q][p - q]]
      BY <2>2, <3>1 DEF Pair
    <3>2. CASE \E q \in (p + 1)..ShareCount :
                 x = [lowest_index |-> TRUE, index_counterparty |-> q, seed |-> CommonSeeds[p][q - p]]
      BY <2>3, <3>2 DEF Pair
    <3> QED BY <3>1, <3>2 DEF SeedPairs
  <2> QED BY <2>4
<1>6. ASSUME NEW p \in Party
      PROVE  /\ party[p].session_id = 0
             /\ party[p].zero_share = SeedPairs(p)
             /\ party[p].poly_point = Evaluate(poly, p)
             /\ party[p].pk = poly[0]
             /\ party[p].derivation_data.poly_point = Evaluate(poly, p)
             /\ party[p].derivation_data.pk = poly[0]
             /\ party[p].derivation_data.chain_code = <<>>
  <2>1. party[p] = ReKeyed(p, poly)
    BY <1>1
  <2> QED BY <2>1, ReKeyedFields
<1>7. Shape
  <2>1. ASSUME NEW p \in Party PROVE ReKeyed(p, poly) \in Object
    <3> DEFINE e == Evaluate(poly, p)
               k == poly[0]
               s == SeedPairs(p)
               d == [depth |-> 0, poly_point |-> e, pk |-> k, chain_code |-> <<>>]
    <3>1. e \in Scalar /\ k \in Scalar /\ s \in SUBSET Pair
      BY <1>4, <1>5
    <3>2. ReKeyed(p, poly) = [session_id |-> 0, poly_point |-> e, pk |-> k, zero_share |-> s,
                              derivation_data |-> d]
      BY DEF ReKeyed
    <3> HIDE DEF e, k, s
    <3>3. d \in Data
      BY <3>1 DEF Data
    <3> HIDE DEF d
    <3> QED BY <3>1, <3>2, <3>3 DEF Object
  <2>2. package \in Package
    BY <1>1, <1>4 DEF ReKeyPackage, Package
  <2> QED BY <1>1, <1>2, <2>1, <2>2 DEF Shape
<1>8. ObjectsWhole
  BY <1>2, <1>6 DEF ObjectsWhole
<1>9. OneTree
  <2> DEFINE k == [pk |-> poly[0], chain_code |-> <<>>]
             t == [w \in {<<>>} |-> k]
  <2>1. k \in Key
    BY <1>4 DEF Key
  <2>2. Tree(t)
    <3>1. \A w \in Seq(Nat), n \in Nat : Append(w, n) # <<>>
      BY NotTheRoot
    <3> HIDE DEF k
    <3>2. DOMAIN t = {<<>>} /\ t[<<>>] = k /\ <<>> \in Seq(Nat)
      OBVIOUS
    <3>3. k.chain_code = <<>>
      BY DEF k
    <3> HIDE DEF t, k
    <3>4. \A w \in DOMAIN t : w \in Seq(Nat) /\ t[w] \in Key
      BY <2>1, <3>2
    <3>5. \A w \in Seq(Nat), n \in Nat : Append(w, n) \notin DOMAIN t
      BY <3>1, <3>2
    <3> QED BY <3>2, <3>3, <3>4, <3>5 DEF Tree
  <2>3. ASSUME NEW i \in Holder PROVE where[i] = <<>> /\ KeyAt(i) = k
    <3>1. CASE i = 0
      BY <1>1, <1>2, <3>1 DEF KeyAt, ReKeyPackage
    <3>2. CASE i # 0
      <4>1. i \in Party
        BY <3>2, FieldAssumption DEF Holder, Party
      <4>2. KeyOfData(party[i].derivation_data) = k
        BY <1>6, <4>1 DEF KeyOfData
      <4> QED BY <1>2, <3>2, <4>2 DEF KeyAt
    <3> QED BY <3>1, <3>2
  <2>4. \A i \in Holder : where[i] \in DOMAIN t /\ t[where[i]] = KeyAt(i)
    BY <2>3
  <2> QED BY <2>2, <2>4 DEF OneTree
<1>10. SharesFit
  <2> DEFINE z == [p \in Party |-> Evaluate(poly, p) - poly[0]]
  <2>1. Offset(z)
    BY <1>3, PolynomialOffset
  <2>2. ASSUME NEW p \in Party
        PROVE  /\ Zero((party[p].poly_point - party[p].pk) - z[p])
               /\ Zero((package.verifying_shares[p] - package.verifying_key) - z[p])
    <3> DEFINE e == Evaluate(poly, p)
               k == poly[0]
    <3>1. party[p].poly_point = e /\ party[p].pk = k /\ z[p] = e - k
      BY <1>6
    <3>2. package.verifying_shares[p] = e /\ package.verifying_key = k
      BY <1>1 DEF ReKeyPackage
    <3>3. e \in Int /\ k \in Int
      BY <1>4, ScalarFacts
    <3> HIDE DEF e, k, z
    <3>4. (e - k) - (e - k) = 0
      BY <3>3
    <3> QED BY <3>1, <3>2, <3>4, ZeroZero
  <2> QED BY <2>1, <2>2 DEF SharesFit
<1>11. SeedsPair
  <2> DEFINE seed == [p \in Party |-> [q \in Party |-> IF p < q THEN 10 * p + (q - p)
                                                      ELSE 10 * q + (p - q)]]
  <2>1. ShareCount \in Nat /\ Party = 1..ShareCount
    BY FieldAssumption DEF Party
  <2>2. \A p, q \in Party : seed[p][q] = IF p < q THEN 10 * p + (q - p) ELSE 10 * q + (p - q)
    OBVIOUS
  <2> HIDE DEF seed
  <2>3. \A p, q \in Party : seed[p][q] \in Nat /\ seed[p][q] = seed[q][p]
    BY <2>1, <2>2
  <2>4. ASSUME NEW p \in Party, NEW q \in 1..(p - 1)
        PROVE  /\ q \in Party \ {p}
               /\ PairOf(seed, p, q) = [lowest_index |-> FALSE, index_counterparty |-> q,
                                        seed |-> CommonSeeds[q][p - q]]
    <3>1. q \in Int /\ p \in Int /\ 1 <= q /\ q <= p - 1 /\ p <= ShareCount
      BY <2>1
    <3>2. q \in Party \ {p} /\ ~(p < q) /\ q \in 1..(ShareCount - 1) /\ p - q \in 1..(ShareCount - q)
      BY <2>1, <3>1
    <3>3. CommonSeeds[q][p - q] = seed[p][q]
      BY <2>2, <3>2 DEF CommonSeeds
    <3>4. (p < q) = FALSE
      BY <3>2
    <3> QED BY <3>2, <3>3, <3>4 DEF PairOf
  <2>5. ASSUME NEW p \in Party, NEW q \in (p + 1)..ShareCount
        PROVE  /\ q \in Party \ {p}
               /\ PairOf(seed, p, q) = [lowest_index |-> TRUE, index_counterparty |-> q,
                                        seed |-> CommonSeeds[p][q - p]]
    <3>0. q \in Int /\ p \in Int /\ p + 1 <= q /\ q <= ShareCount /\ 1 <= p
      BY <2>1
    <3>1. q \in Party \ {p} /\ p < q /\ p \in 1..(ShareCount - 1) /\ q - p \in 1..(ShareCount - p)
      BY <2>1, <3>0
    <3>2. CommonSeeds[p][q - p] = seed[p][q]
      BY <2>2, <3>1 DEF CommonSeeds
    <3> QED BY <3>1, <3>2 DEF PairOf
  <2>6. ASSUME NEW p \in Party
        PROVE  party[p].zero_share = {PairOf(seed, p, q) : q \in Party \ {p}}
    <3>1. \A q \in Party \ {p} : q \in 1..(p - 1) \/ q \in (p + 1)..ShareCount
      BY <2>1
    <3>2. ASSUME NEW x \in SeedPairs(p) PROVE x \in {PairOf(seed, p, q) : q \in Party \ {p}}
      <4>1. CASE \E q \in 1..(p - 1) :
                   x = [lowest_index |-> FALSE, index_counterparty |-> q, seed |-> CommonSeeds[q][p - q]]
        BY <2>4, <4>1
      <4>2. CASE \E q \in (p + 1)..ShareCount :
                   x = [lowest_index |-> TRUE, index_counterparty |-> q, seed |-> CommonSeeds[p][q - p]]
        BY <2>5, <4>2
      <4> QED BY <3>2, <4>1, <4>2 DEF SeedPairs
    <3>3. ASSUME NEW q \in Party \ {p} PROVE PairOf(seed, p, q) \in SeedPairs(p)
      <4>1. CASE q \in 1..(p - 1)
        BY <2>4, <4>1 DEF SeedPairs
      <4>2. CASE q \in (p + 1)..ShareCount
        BY <2>5, <4>2 DEF SeedPairs
      <4> QED BY <3>1, <4>1, <4>2
    <3>4. SeedPairs(p) = {PairOf(seed, p, q) : q \in Party \ {p}}
      BY <3>2, <3>3
    <3> QED BY <1>6, <3>4
  <2> QED BY <2>3, <2>6 DEF SeedsPair
<1> QED BY <1>7, <1>8, <1>9, <1>10, <1>11 DEF KInv

-----------------------------------------------------------------------------
(* Its steps.                                                              *)

\* An object that takes over data derived from its own, along the way w.
LEMMA DerivedKept ==
  ASSUME HashesAreNumbers, KInv, NEW p \in Party, NEW d \in Data, NEW w \in Seq(Nat),
         \A c \in Int : Zero((party[p].poly_point - party[p].pk) - c) => Zero((d.poly_point - d.pk) - c),
         \A t : /\ Tree(t) /\ where[p] \in DOMAIN t
                /\ t[where[p]] = KeyOfData(party[p].derivation_data)
                => \E u : /\ Tree(u) /\ Extends(u, t)
                          /\ where[p] \o w \in DOMAIN u /\ u[where[p] \o w] = KeyOfData(d),
         party' = [party EXCEPT ![p] = WithData(@, d)],
         where' = [where EXCEPT ![p] = @ \o w],
         UNCHANGED <<package, refreshes>>
  PROVE  KInv'
<1>1. Shape /\ ObjectsWhole /\ p \in Holder /\ p # 0
  BY HolderFacts DEF KInv
<1>2. /\ party'[p] = WithData(party[p], d)
      /\ \A q \in Party \ {p} : party'[q] = party[q]
      /\ where'[p] = where[p] \o w
      /\ \A i \in Holder \ {p} : where'[i] = where[i]
  BY <1>1 DEF Shape
<1>3. party[p] \in Object
  BY <1>1 DEF Shape
<1>4. /\ party'[p] \in Object
      /\ party'[p].poly_point = d.poly_point /\ party'[p].pk = d.pk
      /\ party'[p].derivation_data = d /\ party'[p].session_id = party[p].session_id
      /\ party'[p].zero_share = party[p].zero_share
  BY <1>2, <1>3, WithDataFields
<1>5. Shape'
  <2>1. where[p] \o w \in Seq(Nat)
    BY <1>1, ConcatProperties DEF Shape
  <2>2. where' \in [Holder -> Seq(Nat)]
    BY <1>1, <2>1 DEF Shape
  <2>3. party' \in [Party -> Object]
    <3>1. party' = [q \in Party |-> party'[q]]
      BY <1>1 DEF Shape
    <3>2. \A q \in Party : party'[q] \in Object
      BY <1>1, <1>2, <1>4 DEF Shape
    <3> QED BY <3>1, <3>2
  <2> QED BY <1>1, <2>2, <2>3 DEF Shape
<1>6. ObjectsWhole'
  BY <1>1, <1>2, <1>4 DEF ObjectsWhole
<1>7. OneTree'
  <2>1. PICK t : Tree(t) /\ \A i \in Holder : where[i] \in DOMAIN t /\ t[where[i]] = KeyAt(i)
    BY DEF KInv, OneTree
  <2>2. t[where[p]] = KeyOfData(party[p].derivation_data) /\ where[p] \in DOMAIN t
    BY <1>1, <2>1 DEF KeyAt
  <2>3. PICK u : /\ Tree(u) /\ Extends(u, t)
                 /\ where[p] \o w \in DOMAIN u /\ u[where[p] \o w] = KeyOfData(d)
    BY <2>1, <2>2
  <2>4. ASSUME NEW i \in Holder PROVE where'[i] \in DOMAIN u /\ u[where'[i]] = KeyAt(i)'
    <3>1. CASE i = p
      BY <1>1, <1>2, <1>4, <2>3, <3>1 DEF KeyAt
    <3>2. CASE i # p
      <4>1. KeyAt(i)' = KeyAt(i)
        <5>1. i # 0 => i \in Party
          BY FieldAssumption DEF Holder, Party
        <5> QED BY <1>2, <3>2, <5>1 DEF KeyAt
      <4> QED BY <1>2, <2>1, <2>3, <3>2, <4>1 DEF Extends
    <3> QED BY <3>1, <3>2
  <2> QED BY <2>3, <2>4 DEF OneTree
<1>8. SharesFit'
  <2>1. PICK z : /\ Offset(z)
                 /\ \A q \in Party :
                      /\ Zero((party[q].poly_point - party[q].pk) - z[q])
                      /\ refreshes = 0 =>
                           Zero((package.verifying_shares[q] - package.verifying_key) - z[q])
    BY DEF KInv, SharesFit
  <2>2. z[p] \in Int
    BY <2>1 DEF Offset
  <2>3. Zero((party'[p].poly_point - party'[p].pk) - z[p])
    BY <1>4, <2>1, <2>2
  <2>4. \A q \in Party : Zero((party'[q].poly_point - party'[q].pk) - z[q])
    BY <1>2, <2>1, <2>3
  <2> QED BY <2>1, <2>4 DEF SharesFit
<1>9. SeedsPair'
  <2>1. \A q \in Party : party'[q].zero_share = party[q].zero_share
    BY <1>2, <1>4
  <2>2. PICK seed : /\ \A q, r \in Party : seed[q][r] \in Nat /\ seed[q][r] = seed[r][q]
                    /\ \A q \in Party :
                         party[q].zero_share = {PairOf(seed, q, r) : r \in Party \ {q}}
    BY DEF KInv, SeedsPair
  <2> QED BY <2>1, <2>2 DEF SeedsPair
<1> QED BY <1>5, <1>6, <1>7, <1>8, <1>9 DEF KInv

LEMMA ChildKept ==
  ASSUME HashesAreNumbers, KInv, NEW p \in Party, NEW n \in ChildNumber, PartyDerivesChild(p, n)
  PROVE  KInv'
<1> DEFINE d == party[p].derivation_data
           e == ChildData(d, n)
<1>1. party[p] \in Object /\ d \in Data /\ d.poly_point = party[p].poly_point /\ d.pk = party[p].pk
      /\ where[p] \in Seq(Nat) /\ n \in Nat
  BY HolderFacts, KeysAssumption DEF KInv, Shape, ObjectsWhole, Object
<1>2. party' = [party EXCEPT ![p] = WithData(@, e)] /\ UNCHANGED <<package, refreshes>>
  BY DEF PartyDerivesChild
<1>3. where' = [where EXCEPT ![p] = @ \o <<n>>]
  <2>1. Append(where[p], n) = where[p] \o <<n>>
    BY <1>1, AppendIsConcat
  <2>2. where' = [where EXCEPT ![p] = Append(where[p], n)]
    BY DEF PartyDerivesChild
  <2> QED BY <2>1, <2>2
<1> HIDE DEF d
<1>4. ASSUME NEW c \in Int, Zero((party[p].poly_point - party[p].pk) - c)
      PROVE  e \in Data /\ KeyOfData(e) = Child(KeyOfData(d), n) /\ Zero((e.poly_point - e.pk) - c)
  BY <1>1, <1>4, ChildDataFacts
<1>5. e \in Data /\ KeyOfData(e) = Child(KeyOfData(d), n)
  <2> DEFINE c == d.poly_point - d.pk
  <2>1. c \in Int /\ d.poly_point \in Int /\ d.pk \in Int
    <3>1. d.poly_point \in Scalar /\ d.pk \in Scalar
      BY <1>1 DEF Data
    <3>2. d.poly_point \in Int /\ d.pk \in Int
      BY <3>1, ScalarFacts
    <3> QED BY <3>2
  <2>2. (party[p].poly_point - party[p].pk) - c = 0
    BY <1>1, <2>1
  <2> HIDE DEF c, e
  <2> QED BY <1>4, <2>1, <2>2, ZeroZero
<1>6. ASSUME NEW t, Tree(t), where[p] \in DOMAIN t, t[where[p]] = KeyOfData(d)
      PROVE  \E u : /\ Tree(u) /\ Extends(u, t)
                    /\ where[p] \o <<n>> \in DOMAIN u /\ u[where[p] \o <<n>>] = KeyOfData(e)
  <2>1. Append(where[p], n) = where[p] \o <<n>>
    BY <1>1, AppendIsConcat
  <2>2. PICK u : /\ Tree(u) /\ Extends(u, t)
                 /\ Append(where[p], n) \in DOMAIN u
                 /\ u[Append(where[p], n)] = Child(t[where[p]], n)
    BY <1>1, <1>6, TreeGrows
  <2> HIDE DEF e
  <2> QED BY <1>5, <1>6, <2>1, <2>2
<1> DEFINE w == <<n>>
<1>7. w \in Seq(Nat)
  BY <1>1
<1> HIDE DEF e, w
<1> QED BY <1>2, <1>3, <1>4, <1>5, <1>6, <1>7, DerivedKept DEF w, d

LEMMA PathKept ==
  ASSUME HashesAreNumbers, KInv, NEW p \in Party, NEW path \in Path, PartyDerivesFromPath(p, path)
  PROVE  KInv'
<1> DEFINE d == party[p].derivation_data
           e == DataAlong(d, path)[Len(path)]
<1>1. party[p] \in Object /\ d \in Data /\ d.poly_point = party[p].poly_point /\ d.pk = party[p].pk
      /\ where[p] \in Seq(Nat) /\ path \in Seq(Nat)
  BY HolderFacts, KeysAssumption DEF KInv, Shape, ObjectsWhole, Object
<1>2. /\ party' = [party EXCEPT ![p] = WithData(@, e)] /\ UNCHANGED <<package, refreshes>>
      /\ where' = [where EXCEPT ![p] = @ \o path]
      /\ e # None
  BY DEF PartyDerivesFromPath
<1> HIDE DEF d
<1>3. ASSUME NEW c \in Int, Zero((party[p].poly_point - party[p].pk) - c),
             NEW t, Tree(t), where[p] \in DOMAIN t, t[where[p]] = KeyOfData(d)
      PROVE  /\ e \in Data /\ Zero((e.poly_point - e.pk) - c)
             /\ \E u : /\ Tree(u) /\ Extends(u, t)
                       /\ where[p] \o path \in DOMAIN u /\ u[where[p] \o path] = KeyOfData(e)
  BY <1>1, <1>2, <1>3, PathFacts
<1> HIDE DEF e
<1>4. \E t : Tree(t) /\ where[p] \in DOMAIN t /\ t[where[p]] = KeyOfData(d)
  <2>1. p \in Holder /\ p # 0
    BY HolderFacts
  <2> QED BY <2>1 DEF KInv, OneTree, KeyAt, d
<1>5. \E c \in Int : Zero((party[p].poly_point - party[p].pk) - c)
  BY DEF KInv, SharesFit, Offset
<1>6. e \in Data
  BY <1>3, <1>4, <1>5
<1>7. \A c \in Int : Zero((party[p].poly_point - party[p].pk) - c) => Zero((e.poly_point - e.pk) - c)
  BY <1>3, <1>4
<1>8. \A t : /\ Tree(t) /\ where[p] \in DOMAIN t /\ t[where[p]] = KeyOfData(d)
             => \E u : /\ Tree(u) /\ Extends(u, t)
                       /\ where[p] \o path \in DOMAIN u /\ u[where[p] \o path] = KeyOfData(e)
  BY <1>3, <1>5
<1> QED BY <1>1, <1>2, <1>6, <1>7, <1>8, DerivedKept DEF d

LEMMA PackageKept ==
  ASSUME HashesAreNumbers, KInv, NEW n \in ChildNumber, PackageDerives(n)
  PROVE  KInv'
<1> DEFINE k == package.verifying_key
           cc == package.chain_code
           t1 == Tweak(cc, k, n)
           a == t1 + k
<1>1. Shape /\ 0 \in Holder /\ n \in Nat /\ package \in Package
  BY HolderFacts, KeysAssumption DEF KInv, Shape
<1>2. /\ package' = [verifying_key |-> a % Prime, chain_code |-> ChildChainCode(cc, k, n),
                     verifying_shares |-> [p \in Party |-> (t1 + package.verifying_shares[p]) % Prime]]
      /\ where' = [where EXCEPT ![0] = Append(@, n)]
      /\ UNCHANGED <<party, refreshes>>
  BY DEF PackageDerives, ChildPackage, PackageTweak, Tweak
<1>3. KeyAt(0) = [pk |-> k, chain_code |-> cc] /\ KeyAt(0) \in Key /\ KeyAt(0).pk = k
      /\ KeyAt(0).chain_code = cc
  BY <1>1 DEF KeyAt, Key, Package
<1>4. t1 \in Nat /\ Child(KeyAt(0), n) \in Key
  <2> DEFINE key == KeyAt(0)
  <2>1. key \in Key /\ key.pk = k /\ key.chain_code = cc
    BY <1>3
  <2> HIDE DEF key
  <2>2. Tweak(key.chain_code, key.pk, n) \in Nat /\ Child(key, n) \in Key
    BY <1>1, <2>1, TweakType
  <2> QED BY <2>1, <2>2 DEF key
<1>5. KeyAt(0)' = Child(KeyAt(0), n)
  BY <1>2, <1>3 DEF KeyAt, Child
<1>6. k \in Int /\ \A p \in Party : package.verifying_shares[p] \in Int
  <2>1. k \in Scalar /\ \A p \in Party : package.verifying_shares[p] \in Scalar
    BY <1>1 DEF Package
  <2> QED BY <2>1, ScalarFacts
<1>7. a \in Int /\ \A p \in Party : t1 + package.verifying_shares[p] \in Int
  BY <1>4, <1>6
<1>8. Shape'
  <2>1. KeyAt(0)' \in Key
    BY <1>4, <1>5
  <2>2. package'.verifying_key \in Scalar /\ package'.chain_code \in Seq(Nat)
    BY <2>1 DEF KeyAt, Key
  <2>3. ASSUME NEW p \in Party PROVE (t1 + package.verifying_shares[p]) % Prime \in Scalar
    <3> DEFINE b == t1 + package.verifying_shares[p]
    <3>1. b \in Int
      BY <1>7
    <3> HIDE DEF b
    <3>2. b % Prime \in Scalar
      BY <3>1, Reduced
    <3> QED BY <3>2 DEF b
  <2>4. package' \in Package
    <3> HIDE DEF a, t1, k, cc
    <3> QED BY <1>2, <2>2, <2>3 DEF Package
  <2>5. where' \in [Holder -> Seq(Nat)]
    <3>1. Append(where[0], n) \in Seq(Nat)
      BY <1>1 DEF Shape
    <3> QED BY <1>1, <1>2, <3>1 DEF Shape
  <2> QED BY <1>1, <1>2, <2>4, <2>5 DEF Shape
<1>9. ObjectsWhole' /\ SeedsPair'
  <2>1. ObjectsWhole /\ SeedsPair /\ party' = party /\ refreshes' = refreshes
    BY <1>2 DEF KInv
  <2>2. ObjectsWhole'
    BY <2>1 DEF ObjectsWhole
  <2>3. SeedsPair'
    BY <2>1 DEF SeedsPair
  <2> QED BY <2>2, <2>3
<1>10. OneTree'
  <2>1. PICK t : Tree(t) /\ \A i \in Holder : where[i] \in DOMAIN t /\ t[where[i]] = KeyAt(i)
    BY DEF KInv, OneTree
  <2>2. PICK u : /\ Tree(u) /\ Extends(u, t)
                 /\ Append(where[0], n) \in DOMAIN u
                 /\ u[Append(where[0], n)] = Child(t[where[0]], n)
    BY <1>1, <2>1, TreeGrows
  <2>3. ASSUME NEW i \in Holder PROVE where'[i] \in DOMAIN u /\ u[where'[i]] = KeyAt(i)'
    <3>1. CASE i = 0
      <4>1. where'[i] = Append(where[0], n)
        BY <1>1, <1>2, <3>1 DEF Shape
      <4> QED BY <1>1, <1>5, <2>1, <2>2, <3>1, <4>1
    <3>2. CASE i # 0
      <4>1. KeyAt(i)' = KeyAt(i)
        BY <1>2, <3>2 DEF KeyAt
      <4>2. where'[i] = where[i]
        BY <1>1, <1>2, <3>2 DEF Shape
      <4> QED BY <2>1, <2>2, <4>1, <4>2 DEF Extends
    <3> QED BY <3>1, <3>2
  <2> QED BY <2>2, <2>3 DEF OneTree
<1>11. SharesFit'
  <2>1. PICK z : /\ Offset(z)
                 /\ \A p \in Party :
                      /\ Zero((party[p].poly_point - party[p].pk) - z[p])
                      /\ refreshes = 0 =>
                           Zero((package.verifying_shares[p] - package.verifying_key) - z[p])
    BY DEF KInv, SharesFit
  <2>2. ASSUME NEW p \in Party, refreshes = 0
        PROVE  Zero((package'.verifying_shares[p] - package'.verifying_key) - z[p])
    <3> DEFINE v == package.verifying_shares[p]
               b == t1 + v
               r == b % Prime
               q == a % Prime
    <3>1. package'.verifying_shares[p] = r /\ package'.verifying_key = q
      BY <1>2
    <3>2. a \in Int /\ b \in Int /\ v \in Int /\ t1 \in Int /\ k \in Int /\ z[p] \in Int
      BY <1>4, <1>6, <1>7, <2>1 DEF Offset
    <3>3. Zero((v - k) - z[p])
      BY <2>1, <2>2
    <3>4. a = t1 + k /\ b = t1 + v
      OBVIOUS
    <3> HIDE DEF a, b, v, t1, k
    <3>5. r \in Int /\ q \in Int /\ Zero(r - b) /\ Zero(q - a)
      BY <3>2, Reduced
    <3> HIDE DEF r, q
    <3>6. Zero((r - b) - (q - a)) /\ (r - b) - (q - a) \in Int
      <4> DEFINE x == r - b
                 y == q - a
      <4>1. x \in Int /\ y \in Int /\ Zero(x) /\ Zero(y)
        BY <3>2, <3>5
      <4> HIDE DEF x, y
      <4>2. Zero(x - y)
        BY <4>1, ZeroSum
      <4>3. x - y \in Int
        BY <4>1
      <4> QED BY <4>2, <4>3 DEF x, y
    <3>7. (r - q) - z[p] = ((r - b) - (q - a)) + ((v - k) - z[p])
      BY <3>2, <3>4, <3>5
    <3> DEFINE x == (r - b) - (q - a)
               y == (v - k) - z[p]
    <3>8. y \in Int /\ x \in Int
      BY <3>2, <3>6
    <3> HIDE DEF x, y
    <3>9. Zero(x + y)
      BY <3>3, <3>6, <3>8, ZeroSum DEF x, y
    <3> QED BY <3>1, <3>7, <3>9 DEF x, y
  <2> QED BY <1>2, <2>1, <2>2 DEF SharesFit
<1> QED BY <1>8, <1>9, <1>10, <1>11 DEF KInv

LEMMA RefreshedFields ==
  ASSUME NEW o \in Object, NEW correction \in Int, NEW sid \in Nat
  PROVE  LET share == (o.poly_point + correction) % Prime
         IN  /\ RefreshedObject(o, correction, sid) \in Object
             /\ RefreshedObject(o, correction, sid).poly_point = share
             /\ RefreshedObject(o, correction, sid).pk = o.pk
             /\ RefreshedObject(o, correction, sid).session_id = sid
             /\ RefreshedObject(o, correction, sid).derivation_data.poly_point = share
             /\ RefreshedObject(o, correction, sid).derivation_data.pk = o.pk
             /\ RefreshedObject(o, correction, sid).derivation_data.chain_code
                  = o.derivation_data.chain_code
             /\ RefreshedObject(o, correction, sid).zero_share
                  = {[pair EXCEPT !.seed = @ + 100] : pair \in o.zero_share}
<1> DEFINE m == o.poly_point + correction
           share == m % Prime
           seeds == {[pair EXCEPT !.seed = @ + 100] : pair \in o.zero_share}
           d == o.derivation_data
           e == [d EXCEPT !.poly_point = share, !.pk = o.pk]
<1>1. o.poly_point \in Scalar /\ o.pk \in Scalar /\ d \in Data /\ o.zero_share \in SUBSET Pair
  BY DEF Object
<1>2. share \in Scalar
  <2>1. m \in Int
    <3>1. o.poly_point \in Int
      BY <1>1, ScalarFacts
    <3> QED BY <3>1
  <2> HIDE DEF m
  <2> QED BY <2>1, Reduced
<1>3. seeds \in SUBSET Pair
  BY <1>1 DEF Pair
<1> HIDE DEF m, share, seeds, d
<1>4. e \in Data /\ e.poly_point = share /\ e.pk = o.pk /\ e.chain_code = d.chain_code
  BY <1>1, <1>2 DEF Data
<1>5. RefreshedObject(o, correction, sid) =
        [o EXCEPT !.session_id = sid, !.poly_point = share, !.zero_share = seeds,
                  !.derivation_data = e]
  <2>1. RefreshedObject(o, correction, sid) =
          [o EXCEPT !.session_id = sid, !.poly_point = share, !.zero_share = seeds,
                    !.derivation_data.poly_point = share, !.derivation_data.pk = o.pk]
    BY DEF RefreshedObject, m, share, seeds
  <2> DEFINE n == [o EXCEPT !.session_id = sid, !.poly_point = share, !.zero_share = seeds]
  <2>2. [o EXCEPT !.session_id = sid, !.poly_point = share, !.zero_share = seeds,
                  !.derivation_data.poly_point = share, !.derivation_data.pk = o.pk]
        = [o EXCEPT !.session_id = sid, !.poly_point = share, !.zero_share = seeds,
                    !.derivation_data = e]
    <3>1. [o EXCEPT !.session_id = sid, !.poly_point = share, !.zero_share = seeds,
                    !.derivation_data.poly_point = share, !.derivation_data.pk = o.pk]
          = [n EXCEPT !.derivation_data.poly_point = share, !.derivation_data.pk = o.pk]
      OBVIOUS
    <3>2. n.derivation_data = d
      BY DEF Object, d
    <3>3. [o EXCEPT !.session_id = sid, !.poly_point = share, !.zero_share = seeds,
                    !.derivation_data = e] = [n EXCEPT !.derivation_data = e]
      OBVIOUS
    <3> HIDE DEF n
    <3>4. [n EXCEPT !.derivation_data.poly_point = share, !.derivation_data.pk = o.pk]
          = [n EXCEPT !.derivation_data = [n.derivation_data EXCEPT !.poly_point = share, !.pk = o.pk]]
      OBVIOUS
    <3> QED BY <3>1, <3>2, <3>3, <3>4
  <2> QED BY <2>1, <2>2
<1> HIDE DEF e
<1>6. RefreshedObject(o, correction, sid) \in Object
  BY <1>1, <1>2, <1>3, <1>4, <1>5 DEF Object
<1>7. /\ RefreshedObject(o, correction, sid).poly_point = share
      /\ RefreshedObject(o, correction, sid).pk = o.pk
      /\ RefreshedObject(o, correction, sid).session_id = sid
      /\ RefreshedObject(o, correction, sid).derivation_data = e
      /\ RefreshedObject(o, correction, sid).zero_share = seeds
  BY <1>5 DEF Object
<1> QED BY <1>4, <1>6, <1>7 DEF share, m, seeds, d

LEMMA RefreshKept ==
  ASSUME KInv, NEW poly \in ZeroPolynomial, RefreshEverywhere(poly)
  PROVE  KInv'
<1> DEFINE corr(p) == Evaluate(poly, p)
           sid == refreshes + 1
           o(p) == RefreshedObject(party[p], corr(p), sid)
<1>1. poly \in Polynomial /\ poly[0] = 0
  BY KeysAssumption
<1>2. Shape /\ ObjectsWhole /\ sid \in Nat /\ sid # 0
      /\ \A p \in Party : party[p] \in Object /\ corr(p) \in Int
  <2>1. Shape /\ ObjectsWhole
    BY DEF KInv
  <2>2. \A p \in Party : p \in Int
    BY DEF Party
  <2> QED BY <1>1, <2>1, <2>2, EvaluateType DEF Shape
<1>3. /\ party' = [p \in Party |-> o(p)] /\ refreshes' = sid
      /\ UNCHANGED <<package, where>>
  BY DEF RefreshEverywhere
<1> HIDE DEF sid, corr
<1>4. ASSUME NEW p \in Party
      PROVE  /\ party'[p] = o(p)
             /\ o(p) \in Object
             /\ o(p).poly_point = (party[p].poly_point + corr(p)) % Prime
             /\ o(p).pk = party[p].pk
             /\ o(p).session_id = sid
             /\ o(p).derivation_data.poly_point = o(p).poly_point
             /\ o(p).derivation_data.pk = party[p].pk
             /\ o(p).derivation_data.chain_code = party[p].derivation_data.chain_code
             /\ o(p).zero_share = {[pair EXCEPT !.seed = @ + 100] : pair \in party[p].zero_share}
  BY <1>2, <1>3, RefreshedFields
<1> HIDE DEF o
<1>5. Shape'
  BY <1>2, <1>3, <1>4 DEF Shape
<1>6. ObjectsWhole'
  BY <1>3, <1>4 DEF ObjectsWhole
<1>7. OneTree'
  <2>1. ASSUME NEW i \in Holder PROVE KeyAt(i)' = KeyAt(i)
    <3>1. CASE i = 0
      BY <1>3, <3>1 DEF KeyAt
    <3>2. CASE i # 0
      <4>1. i \in Party
        BY <3>2, FieldAssumption DEF Holder, Party
      <4>2. party'[i].derivation_data.pk = party[i].derivation_data.pk
            /\ party'[i].derivation_data.chain_code = party[i].derivation_data.chain_code
        BY <1>2, <1>4, <4>1 DEF ObjectsWhole
      <4> QED BY <3>2, <4>2 DEF KeyAt, KeyOfData
    <3> QED BY <3>1, <3>2
  <2> QED BY <1>3, <2>1 DEF KInv, OneTree
<1>8. SharesFit'
  <2>1. PICK z : /\ Offset(z)
                 /\ \A p \in Party : Zero((party[p].poly_point - party[p].pk) - z[p])
    BY DEF KInv, SharesFit
  <2> DEFINE g == [p \in Party |-> corr(p) - poly[0]]
             y == [p \in Party |-> z[p] + g[p]]
  <2>2. Offset(g)
    BY <1>1, PolynomialOffset DEF corr
  <2>3. \A p \in Party : g[p] = corr(p) /\ y[p] = z[p] + corr(p) /\ z[p] \in Int
    BY <1>1, <1>2, <2>1 DEF Offset
  <2> HIDE DEF g
  <2>4. Offset(y)
    BY <2>1, <2>2, OffsetsAdd
  <2> HIDE DEF y
  <2>5. ASSUME NEW p \in Party PROVE Zero((party'[p].poly_point - party'[p].pk) - y[p])
    <3> DEFINE v == party[p].poly_point
               k == party[p].pk
               c == corr(p)
               m == v + c
               r == m % Prime
    <3>1. party'[p].poly_point = r /\ party'[p].pk = k /\ y[p] = z[p] + c
      BY <1>4, <2>3
    <3>2. v \in Int /\ k \in Int /\ c \in Int /\ z[p] \in Int
      <4>1. v \in Scalar /\ k \in Scalar
        BY <1>2 DEF Object
      <4> QED BY <1>2, <2>3, <4>1, ScalarFacts
    <3>3. Zero((v - k) - z[p])
      BY <2>1
    <3>4. m = v + c /\ m \in Int
      BY <3>2
    <3> HIDE DEF v, k, c, m
    <3>5. r \in Int /\ Zero(r - m)
      BY <3>4, Reduced
    <3> HIDE DEF r
    <3>6. (r - k) - (z[p] + c) = (r - m) + ((v - k) - z[p])
      BY <3>2, <3>4, <3>5
    <3> DEFINE a == r - m
               b == (v - k) - z[p]
    <3>7. a \in Int /\ b \in Int /\ Zero(a) /\ Zero(b)
      BY <3>2, <3>3, <3>4, <3>5
    <3> HIDE DEF a, b
    <3>8. Zero(a + b)
      BY <3>7, ZeroSum
    <3> QED BY <3>1, <3>6, <3>8 DEF a, b
  <2> QED BY <1>2, <1>3, <2>4, <2>5 DEF SharesFit
<1>9. SeedsPair'
  <2>1. PICK seed : /\ \A p, q \in Party : seed[p][q] \in Nat /\ seed[p][q] = seed[q][p]
                    /\ \A p \in Party :
                         party[p].zero_share = {PairOf(seed, p, q) : q \in Party \ {p}}
    BY DEF KInv, SeedsPair
  <2> DEFINE new == [p \in Party |-> [q \in Party |-> seed[p][q] + 100]]
  <2>2. \A p, q \in Party : new[p][q] = seed[p][q] + 100
    OBVIOUS
  <2> HIDE DEF new
  <2>3. \A p, q \in Party : new[p][q] \in Nat /\ new[p][q] = new[q][p]
    BY <2>1, <2>2
  <2>4. ASSUME NEW p \in Party
        PROVE  party'[p].zero_share = {PairOf(new, p, q) : q \in Party \ {p}}
    <3>1. \A q \in Party : [PairOf(seed, p, q) EXCEPT !.seed = @ + 100] = PairOf(new, p, q)
      BY <2>2 DEF PairOf
    <3> QED BY <1>4, <2>1, <3>1
  <2> QED BY <2>3, <2>4 DEF SeedsPair
<1> QED BY <1>5, <1>6, <1>7, <1>8, <1>9 DEF KInv

LEMMA KInvInductive == ASSUME HashesAreNumbers PROVE KInv /\ [Next]_vars => KInv'
<1> SUFFICES ASSUME KInv, [Next]_vars PROVE KInv'
  OBVIOUS
<1>1. ASSUME UNCHANGED <<party, package, refreshes, where>> PROVE KInv'
  <2>1. party' = party /\ package' = package /\ refreshes' = refreshes /\ where' = where
    BY <1>1
  <2>2. Shape'
    BY <2>1 DEF KInv, Shape
  <2>3. ObjectsWhole'
    BY <2>1 DEF KInv, ObjectsWhole
  <2>4. OneTree'
    <3>1. \A i : KeyAt(i)' = KeyAt(i)
      BY <2>1 DEF KeyAt
    <3> QED BY <2>1, <3>1 DEF KInv, OneTree
  <2>5. SharesFit'
    BY <2>1 DEF KInv, SharesFit
  <2>6. SeedsPair'
    BY <2>1 DEF KInv, SeedsPair
  <2> QED BY <2>2, <2>3, <2>4, <2>5, <2>6 DEF KInv
<1>2. CASE UNCHANGED vars
  BY <1>1, <1>2 DEF vars
<1>3. ASSUME NEW p \in Party, NEW n \in ChildNumber, PartyDerivesChild(p, n) PROVE KInv'
  BY <1>3, ChildKept
<1>4. ASSUME NEW p \in Party, NEW path \in Path, PartyDerivesFromPath(p, path) PROVE KInv'
  BY <1>4, PathKept
<1>5. ASSUME NEW n \in ChildNumber, PackageDerives(n) PROVE KInv'
  BY <1>5, PackageKept
<1>6. ASSUME NEW poly \in ZeroPolynomial, RefreshEverywhere(poly) PROVE KInv'
  BY <1>6, RefreshKept
<1>7. ASSUME NEW S, NEW msg, NEW draw, NEW normalize, Sign(S, msg, draw, normalize) PROVE KInv'
  BY <1>1, <1>7 DEF Sign
<1> QED BY <1>2, <1>3, <1>4, <1>5, <1>6, <1>7 DEF Next

-----------------------------------------------------------------------------
(* What it implies for keys and packages.                                  *)

\* Whoever derived by one path has one key.
LEMMA OneKeyAtNode ==
  ASSUME KInv, NEW i \in Holder, NEW j \in Holder, where[i] = where[j]
  PROVE  KeyAt(i) = KeyAt(j)
BY DEF KInv, OneTree

LEMMA ObjectFacts ==
  ASSUME KInv, NEW p \in Party
  PROVE  /\ party[p] \in Object /\ party[p].derivation_data \in Data
         /\ party[p].poly_point \in Scalar /\ party[p].poly_point \in Int
         /\ party[p].pk \in Scalar /\ party[p].pk \in Int
         /\ party[p].derivation_data.poly_point = party[p].poly_point
         /\ KeyAt(p) = [pk |-> party[p].pk, chain_code |-> party[p].derivation_data.chain_code]
<1>1. party[p] \in Object
  BY DEF KInv, Shape
<1>2. party[p].poly_point \in Scalar /\ party[p].pk \in Scalar /\ party[p].derivation_data \in Data
  BY <1>1 DEF Object
<1>3. p # 0
  BY HolderFacts
<1> QED BY <1>1, <1>2, <1>3, ScalarFacts DEF KInv, ObjectsWhole, KeyAt, KeyOfData

\* The shares of Threshold parties or more at one node interpolate to its key.
LEMMA SharesOfNode ==
  ASSUME KInv, NEW S \in SUBSET Party, Cardinality(S) >= Threshold,
         NEW k \in Scalar, \A q \in S : party[q].pk = k,
         NEW y, \A q \in S : y[q] = party[q].poly_point
  PROVE  AtZero(y, S) = k
<1>1. PICK z : Offset(z) /\ \A p \in Party : Zero((party[p].poly_point - party[p].pk) - z[p])
  BY DEF KInv, SharesFit
<1>2. k \in Int /\ k % Prime = k /\ S # {}
  BY ScalarFacts, NotEmpty
<1>3. \A q \in S : y[q] \in Int /\ z[q] \in Int /\ Zero((y[q] - k) - z[q])
  BY <1>1, ObjectFacts DEF Offset
<1>4. Zero(At(z, S))
  BY <1>1 DEF Offset
<1>5. At(y, S) \in Int /\ Zero(At(y, S) - k)
  BY <1>2, <1>3, <1>4, ConstantAndOffset
<1>6. AtZero(y, S) = At(y, S) % Prime
  BY <1>3, AtZeroFacts
<1> QED BY <1>2, <1>5, <1>6, SameReduced

\* For every number of parties, threshold, field, hash, dealt polynomial and refresh:
\* parties that have derived by one path have one key, and any Threshold of them the
\* shares of it (derivation.rs 156-294, refresh.rs 704-731).
THEOREM OneKeyPerPath ==
  ASSUME HashesAreNumbers
  PROVE  Spec => []SamePathSameKey
<1>1. KInv => SamePathSameKey
  <2> SUFFICES ASSUME KInv, NEW S \in SUBSET Party, Cardinality(S) = Threshold,
                      \A p, q \in S : where[p] = where[q], NEW p \in S
               PROVE  /\ \A q \in S : party[p].derivation_data.chain_code
                                       = party[q].derivation_data.chain_code
                      /\ AtZero([q \in S |-> party[q].poly_point], S) = party[p].pk
                      /\ AtZero([q \in S |-> party[q].derivation_data.poly_point], S) = party[p].pk
    BY DEF SamePathSameKey
  <2>1. ASSUME NEW q \in S
        PROVE  /\ party[p].derivation_data.chain_code = party[q].derivation_data.chain_code
               /\ party[q].pk = party[p].pk
    <3>1. KeyAt(p) = KeyAt(q)
      BY HolderFacts, OneKeyAtNode
    <3> DEFINE k == KeyAt(p)
               l == KeyAt(q)
    <3>2. /\ k.pk = party[p].pk /\ k.chain_code = party[p].derivation_data.chain_code
          /\ l.pk = party[q].pk /\ l.chain_code = party[q].derivation_data.chain_code
      BY ObjectFacts
    <3> HIDE DEF k, l
    <3> QED BY <3>1, <3>2 DEF k, l
  <2>2. party[p].pk \in Scalar /\ Cardinality(S) >= Threshold
    BY ObjectFacts, FieldAssumption
  <2> DEFINE y == [q \in S |-> party[q].poly_point]
             y2 == [q \in S |-> party[q].derivation_data.poly_point]
  <2>3. \A q \in S : y[q] = party[q].poly_point /\ y2[q] = party[q].poly_point
    BY ObjectFacts
  <2> HIDE DEF y, y2
  <2>4. AtZero(y, S) = party[p].pk /\ AtZero(y2, S) = party[p].pk
    BY <2>1, <2>2, <2>3, SharesOfNode
  <2> QED BY <2>1, <2>4 DEF y, y2
<1> QED BY <1>1, KInvInit, KInvInductive, PTL DEF Spec

\* Likewise the package follows every party at its place in the tree: it derives what the
\* party can, to the same key and, until a refresh, the same shares (derivation.rs
\* 305-360).
THEOREM PackageFollows ==
  ASSUME HashesAreNumbers
  PROVE  Spec => []PackageFollowsParty
<1>1. KInv => PackageFollowsParty
  <2> SUFFICES ASSUME KInv, NEW p \in Party, where[p] = where[0]
               PROVE  /\ package.verifying_key = party[p].pk
                      /\ package.chain_code = party[p].derivation_data.chain_code
                      /\ refreshes = 0 => package.verifying_shares[p] = party[p].poly_point
                      /\ \A n \in ChildNumber : DataHasChild(party[p].derivation_data, n) =>
                           PackageHasChild(package, n)
    BY DEF PackageFollowsParty
  <2>1. package.verifying_key = party[p].pk /\ package.chain_code = party[p].derivation_data.chain_code
    <3>1. KeyAt(0) = KeyAt(p)
      BY HolderFacts, OneKeyAtNode
    <3>2. KeyAt(0) = [pk |-> package.verifying_key, chain_code |-> package.chain_code]
      BY DEF KeyAt
    <3>3. KeyAt(p) = [pk |-> party[p].pk, chain_code |-> party[p].derivation_data.chain_code]
      BY ObjectFacts
    <3> QED BY <3>1, <3>2, <3>3
  <2>2. ASSUME refreshes = 0 PROVE package.verifying_shares[p] = party[p].poly_point
    <3>1. PICK z : /\ Offset(z)
                   /\ Zero((party[p].poly_point - party[p].pk) - z[p])
                   /\ Zero((package.verifying_shares[p] - package.verifying_key) - z[p])
      BY <2>2 DEF KInv, SharesFit
    <3> DEFINE v == party[p].poly_point
               u == package.verifying_shares[p]
               k == party[p].pk
    <3>2. u \in Scalar /\ v \in Scalar /\ k \in Int /\ z[p] \in Int
      <4>1. u \in Scalar
        BY DEF KInv, Shape, Package
      <4> QED BY <3>1, <4>1, ObjectFacts DEF Offset
    <3>3. u \in Int /\ v \in Int
      BY <3>2, ScalarFacts
    <3>4. Zero((v - k) - z[p]) /\ Zero((u - k) - z[p])
      BY <2>1, <3>1
    <3> HIDE DEF u, v, k
    <3> DEFINE a == (v - k) - z[p]
               b == (u - k) - z[p]
    <3>5. a \in Int /\ b \in Int /\ Zero(a) /\ Zero(b) /\ u - v = b - a
      BY <3>2, <3>3, <3>4
    <3> HIDE DEF a, b
    <3>6. Zero(u - v)
      BY <3>5, ZeroSum
    <3>7. u = v
      BY <3>2, <3>6, SameScalar
    <3> QED BY <3>7 DEF u, v
  <2>3. ASSUME NEW n \in ChildNumber, DataHasChild(party[p].derivation_data, n)
        PROVE  PackageHasChild(package, n)
    <3>1. party[p].derivation_data.pk = party[p].pk
      BY DEF KInv, ObjectsWhole
    <3> QED BY <2>1, <2>3, <3>1 DEF DataHasChild, HasChild, PackageHasChild, PackageTweak, Tweak
  <2> QED BY <2>1, <2>2, <2>3
<1> QED BY <1>1, KInvInit, KInvInductive, PTL DEF Spec

-----------------------------------------------------------------------------
(* Signatures.  Every equation is between numbers that stand for scalars.  *)

LEMMA TotalFacts ==
  ASSUME NEW S, IsFiniteSet(S), NEW f, DOMAIN f = S, \A x \in S : f[x] \in Int
  PROVE  /\ Total(f) \in Scalar /\ Total(f) \in Int
         /\ Sum(f, S) \in Int /\ Same(Total(f), Sum(f, S))
<1>1. SumFunction(f) = Sum(f, S)
  BY DEF SumFunction, Sum, SumFunctionOnSet, FoldFunction
<1>2. Sum(f, S) \in Int
  BY SumFacts
<1> QED BY <1>1, <1>2, Reduced, SameSame DEF Total

LEMMA NegFacts ==
  ASSUME NEW a \in Int
  PROVE  Neg(a) \in Scalar /\ Neg(a) \in Int /\ Same(Neg(a), -a)
<1>1. Prime - a \in Int /\ Prime \in Int
  BY PrimeFact
<1> DEFINE b == Prime - a
<1>2. b - (-a) = 1 * Prime
  BY <1>1
<1>3. Same(b, -a)
  BY <1>2 DEF Same, Zero
<1>5. Neg(a) = b % Prime
  BY DEF Neg
<1>7. b \in Int /\ -a \in Int
  BY <1>1
<1> HIDE DEF b
<1> DEFINE c == b % Prime
<1>4. c \in Scalar /\ c \in Int /\ Same(c, b)
  BY <1>7, Reduced, SameSame
<1> HIDE DEF c
<1>6. Same(c, -a)
  BY <1>3, <1>4, <1>7, SameChain
<1> QED BY <1>4, <1>5, <1>6 DEF c

\* Signers have one root exactly when they are at one place of the tree.
LEMMA RootTellsPath ==
  ASSUME KInv, NEW S \in SUBSET Party
  PROVE  RootsAgree(S) <=> \A p, q \in S : where[p] = where[q]
<1>1. ASSUME NEW p \in S, NEW q \in S
      PROVE  Root(p) = Root(q) <=> where[p] = where[q]
  <2>1. PICK t : Tree(t) /\ \A i \in Holder : where[i] \in DOMAIN t /\ t[where[i]] = KeyAt(i)
    BY DEF KInv, OneTree
  <2> DEFINE c == party[p].derivation_data.chain_code
             d == party[q].derivation_data.chain_code
  <2>2. p \in Holder /\ q \in Holder
    BY HolderFacts
  <2>3. t[where[p]].chain_code = c /\ t[where[q]].chain_code = d
    <3>1. KeyAt(p).chain_code = c /\ KeyAt(q).chain_code = d
      BY ObjectFacts
    <3> QED BY <2>1, <2>2, <3>1
  <2>4. c = d <=> where[p] = where[q]
    <3> HIDE DEF c, d
    <3> QED BY <2>1, <2>2, <2>3, ChainCodesTellPaths
  <2>5. c \in Seq(Nat) /\ d \in Seq(Nat) /\ refreshes \in Nat
    BY ObjectFacts DEF Data, KInv, Shape
  <2>6. Root(p) = <<refreshes>> \o c /\ Root(q) = <<refreshes>> \o d
    BY DEF Root, KInv, ObjectsWhole
  <2> HIDE DEF c, d
  <2>7. <<refreshes>> \o c = <<refreshes>> \o d => c = d
    <3> DEFINE r == <<refreshes>>
    <3>1. r \in Seq(Nat)
      BY <2>5
    <3> HIDE DEF r
    <3> QED BY <2>5, <3>1, ConcatSimplifications DEF r
  <2> QED BY <2>4, <2>6, <2>7
<1>2. ASSUME RootsAgree(S) PROVE \A p, q \in S : where[p] = where[q]
  BY <1>1, <1>2 DEF RootsAgree
<1>3. ASSUME \A p, q \in S : where[p] = where[q] PROVE RootsAgree(S)
  BY <1>1, <1>3 DEF RootsAgree
<1> QED BY <1>2, <1>3

LEMMA OneKeyOfSigners ==
  ASSUME KInv, NEW S \in SUBSET Party, \A p, q \in S : where[p] = where[q],
         NEW p \in S, NEW q \in S
  PROVE  party[p].pk = party[q].pk
<1>1. KeyAt(p) = KeyAt(q)
  BY HolderFacts, OneKeyAtNode
<1>2. KeyAt(p).pk = party[p].pk /\ KeyAt(q).pk = party[q].pk
  BY ObjectFacts
<1> QED BY <1>1, <1>2

LEMMA RootType ==
  ASSUME KInv, NEW p \in Party
  PROVE  Root(p) \in Seq(Nat)
<1>1. party[p].derivation_data.chain_code \in Seq(Nat) /\ party[p].session_id \in Nat
  BY ObjectFacts DEF Data, Object
<1> QED BY <1>1 DEF Root

\* What q adds for p, and p for q, is nothing together.
Fragment(root, seed) == Hash(root \o <<seed>>) % Prime
Owes(root, seed, p, q) ==
  IF p < q THEN Neg(Fragment(root, seed[p][q])) ELSE Fragment(root, seed[p][q])

LEMMA OwesFacts ==
  ASSUME HashesAreNumbers, NEW root \in Seq(Nat), NEW seed,
         \A p, q \in Party : seed[p][q] \in Nat /\ seed[p][q] = seed[q][p],
         NEW p \in Party, NEW q \in Party
  PROVE  /\ Fragment(root, seed[p][q]) \in Int
         /\ Owes(root, seed, p, q) \in Int
         /\ p # q => Zero(Owes(root, seed, p, q) + Owes(root, seed, q, p))
<1> DEFINE s == seed[p][q]
           input == root \o <<s>>
           h == Hash(input)
           f == Fragment(root, s)
<1>1. s \in Nat /\ seed[q][p] = s
  OBVIOUS
<1>2. input \in Seq(Nat)
  <2> HIDE DEF s
  <2> QED BY <1>1
<1>3. h \in Int
  <2> HIDE DEF input
  <2> QED BY <1>2 DEF HashesAreNumbers
<1>4. f = h % Prime
  BY DEF Fragment
<1>5. f \in Int
  <2> HIDE DEF h, f
  <2> QED BY <1>3, <1>4, Reduced
<1>6. Neg(f) \in Int /\ Zero(Neg(f) + f)
  <2> HIDE DEF f
  <2>1. Neg(f) \in Int /\ Same(Neg(f), -f)
    BY <1>5, NegFacts
  <2>2. Neg(f) + f = Neg(f) - (-f)
    BY <1>5, <2>1
  <2> QED BY <2>1, <2>2 DEF Same
<1>7. p \in Int /\ q \in Int
  BY DEF Party
<1>8. Owes(root, seed, p, q) = IF p < q THEN Neg(f) ELSE f
  BY DEF Owes
<1>9. Owes(root, seed, q, p) = IF q < p THEN Neg(f) ELSE f
  BY <1>1 DEF Owes
<1>10. f = Fragment(root, seed[p][q])
  OBVIOUS
<1> HIDE DEF f, s
<1>11. ASSUME p # q PROVE Zero(Owes(root, seed, p, q) + Owes(root, seed, q, p))
  <2>1. p < q \/ q < p
    BY <1>7, <1>11
  <2>2. f + Neg(f) = Neg(f) + f
    BY <1>5, <1>6
  <2>3. CASE p < q
    <3>1. (q < p) = FALSE
      BY <1>7, <2>3
    <3> QED BY <1>6, <1>8, <1>9, <2>3, <3>1
  <2>4. CASE q < p
    <3>1. (p < q) = FALSE
      BY <1>7, <2>4
    <3> QED BY <1>6, <1>8, <1>9, <2>2, <2>4, <3>1
  <2> QED BY <2>1, <2>3, <2>4
<1> QED BY <1>5, <1>6, <1>8, <1>10, <1>11

LEMMA ZeroShareIsSum ==
  ASSUME HashesAreNumbers, NEW root \in Seq(Nat), NEW seed,
         \A p, q \in Party : seed[p][q] \in Nat /\ seed[p][q] = seed[q][p],
         NEW S \in SUBSET Party, NEW p \in S,
         party[p].zero_share = {PairOf(seed, p, q) : q \in Party \ {p}},
         NEW e, \A q \in Party : e[q] = Owes(root, seed, p, q)
  PROVE  /\ ZeroShare(p, S \ {p}, root) \in Int
         /\ Sum(e, S \ {p}) \in Int
         /\ Same(ZeroShare(p, S \ {p}, root), Sum(e, S \ {p}))
<1> DEFINE R == S \ {p}
           im == [q \in Party |-> PairOf(seed, p, q)]
           D == {x \in party[p].zero_share : x.index_counterparty \in R}
           F == [pair \in D |-> IF pair.lowest_index
                                THEN Neg(Hash(root \o <<pair.seed>>) % Prime)
                                ELSE Hash(root \o <<pair.seed>>) % Prime]
<1>1. R \in SUBSET Party /\ p \in Party /\ IsFiniteSet(R) /\ R \subseteq Party \ {p}
  BY PartyFinite
<1>2. ASSUME NEW q \in Party
      PROVE  /\ im[q].lowest_index = (p < q) /\ im[q].index_counterparty = q
             /\ im[q].seed = seed[p][q]
  BY DEF PairOf
<1>3. D = {im[q] : q \in R}
  <2>1. ASSUME NEW x \in D PROVE x \in {im[q] : q \in R}
    <3>1. PICK q \in Party \ {p} : x = im[q]
      OBVIOUS
    <3>2. q \in R
      BY <1>2, <3>1
    <3> QED BY <3>1, <3>2
  <2>2. ASSUME NEW q \in R PROVE im[q] \in D
    <3>1. im[q] \in party[p].zero_share
      BY <1>1
    <3> QED BY <1>1, <1>2, <3>1
  <2> HIDE DEF D, im
  <2> QED BY <2>1, <2>2
<1>4. \A x, y \in R : im[x] = im[y] => x = y
  BY <1>1, <1>2
<1>5. ASSUME NEW q \in R PROVE F[im[q]] = e[q] /\ e[q] \in Int
  <2>1. im[q] \in D
    BY <1>3
  <2>2. q \in Party
    BY <1>1
  <2> DEFINE x == im[q]
  <2>3. x.lowest_index = (p < q) /\ x.seed = seed[p][q]
    BY <1>2, <2>2
  <2>4. F[x] = IF x.lowest_index THEN Neg(Hash(root \o <<x.seed>>) % Prime)
                                 ELSE Hash(root \o <<x.seed>>) % Prime
    BY <2>1
  <2> HIDE DEF F, x, D, im
  <2>5. F[x] = Owes(root, seed, p, q)
    BY <2>3, <2>4 DEF Owes, Fragment
  <2>6. Owes(root, seed, p, q) \in Int
    BY <1>1, <2>2, OwesFacts
  <2>7. e[q] = Owes(root, seed, p, q)
    BY <2>2
  <2> QED BY <2>5, <2>6, <2>7 DEF x
<1>6. ZeroShare(p, R, root) = Total(F)
  BY DEF ZeroShare
<1>7. DOMAIN F = D
  OBVIOUS
<1> HIDE DEF R, im, D, F
<1> DEFINE g == [q \in R |-> F[im[q]]]
<1>9. \A q \in R : g[q] = F[im[q]] /\ g[q] = e[q] /\ g[q] \in Int
  BY <1>5
<1> HIDE DEF g
<1>8. IsFiniteSet(D) /\ Sum(F, D) = Sum(g, R)
  <2>1. Pairs(im, R, D)
    BY <1>3, <1>4 DEF Pairs
  <2>2. Follows(g, F, im, R)
    BY <1>9 DEF Follows
  <2> QED BY <1>1, <2>1, <2>2, SumOfImages
<1>10. Sum(g, R) = Sum(e, R) /\ Sum(e, R) \in Int
  BY <1>1, <1>5, <1>9, SumFacts
<1>11. \A x \in D : F[x] \in Int
  BY <1>3, <1>5
<1>12. Total(F) \in Int /\ Same(Total(F), Sum(F, D))
  BY <1>7, <1>8, <1>11, TotalFacts
<1> QED BY <1>6, <1>8, <1>10, <1>12 DEF R

\* The zero shares of signers at one place of the tree add up to nothing.
LEMMA ZeroSharesCancel ==
  ASSUME HashesAreNumbers, KInv, NEW S \in SUBSET Party, NEW root \in Seq(Nat)
  PROVE  /\ \A p \in S : ZeroShare(p, S \ {p}, root) \in Int
         /\ Zero(Sum([p \in S |-> ZeroShare(p, S \ {p}, root)], S))
<1>1. PICK seed : /\ \A p, q \in Party : seed[p][q] \in Nat /\ seed[p][q] = seed[q][p]
                  /\ \A p \in Party :
                       party[p].zero_share = {PairOf(seed, p, q) : q \in Party \ {p}}
  BY DEF KInv, SeedsPair
<1> DEFINE e == [p \in Party |-> [q \in Party |-> Owes(root, seed, p, q)]]
           f == [p \in S |-> ZeroShare(p, S \ {p}, root)]
           g == [p \in S |-> Sum(e[p], S \ {p})]
<1>2. \A p, q \in Party : e[p][q] = Owes(root, seed, p, q)
  OBVIOUS
<1>3. IsFiniteSet(S) /\ S \subseteq Party
  BY PartyFinite
<1>4. \A p \in S : f[p] = ZeroShare(p, S \ {p}, root) /\ g[p] = Sum(e[p], S \ {p})
  OBVIOUS
<1> HIDE DEF e, f, g
<1>5. /\ \A x, y \in S : e[x][y] \in Int
      /\ \A x, y \in S : x # y => Zero(e[x][y] + e[y][x])
  <2>1. ASSUME NEW x \in S, NEW y \in S
        PROVE  e[x][y] \in Int /\ (x # y => Zero(e[x][y] + e[y][x]))
    <3>1. x \in Party /\ y \in Party
      BY <1>3
    <3>2. e[x][y] = Owes(root, seed, x, y) /\ e[y][x] = Owes(root, seed, y, x)
      BY <1>2, <3>1
    <3>3. /\ Owes(root, seed, x, y) \in Int
          /\ x # y => Zero(Owes(root, seed, x, y) + Owes(root, seed, y, x))
      BY <1>1, <3>1, OwesFacts
    <3> QED BY <3>2, <3>3
  <2> QED BY <2>1
<1>6. ASSUME NEW p \in S PROVE f[p] \in Int /\ g[p] \in Int /\ Same(f[p], g[p])
  <2>1. p \in Party /\ party[p].zero_share = {PairOf(seed, p, q) : q \in Party \ {p}}
    BY <1>1, <1>3
  <2> DEFINE d == e[p]
  <2>2. \A q \in Party : d[q] = Owes(root, seed, p, q)
    BY <1>2, <1>3
  <2> HIDE DEF d
  <2>3. /\ ZeroShare(p, S \ {p}, root) \in Int /\ Sum(d, S \ {p}) \in Int
        /\ Same(ZeroShare(p, S \ {p}, root), Sum(d, S \ {p}))
    BY <1>1, <2>1, <2>2, ZeroShareIsSum
  <2> QED BY <1>4, <2>3 DEF d
<1>7. Zero(Sum(g, S))
  BY <1>3, <1>5, DebtsCancel DEF g
<1> DEFINE a == Sum(f, S)
           b == Sum(g, S)
<1>8. a \in Int /\ b \in Int /\ Same(a, b)
  BY <1>3, <1>6, SumFacts, SameSums
<1> HIDE DEF a, b
<1>9. Zero(b)
  BY <1>7 DEF b
<1>10. Zero(a)
  <2>1. Same(b, 0) /\ 0 \in Int
    BY <1>8, <1>9, SameScalars
  <2>2. Same(a, 0)
    BY <1>8, <2>1, SameChain
  <2> QED BY <1>8, <2>2, SameScalars
<1> QED BY <1>4, <1>6, <1>10 DEF a, f

\* The key shares of Threshold signers at one place of the tree add up to its key.
LEMMA KeySharesAddUp ==
  ASSUME HashesAreNumbers, KInv, NEW S \in SUBSET Party, Cardinality(S) = Threshold,
         \A p, q \in S : where[p] = where[q], NEW p0 \in S,
         NEW f, DOMAIN f = S, \A q \in S : f[q] = KeyShare(q, S)
  PROVE  /\ \A q \in S : f[q] \in Int
         /\ Sum(f, S) \in Int
         /\ Same(Sum(f, S), party[p0].pk)
         /\ Total(f) = party[p0].pk
<1> DEFINE root == Root(p0)
           pk == party[p0].pk
           y == [q \in S |-> party[q].poly_point]
           t == Terms(y, S)
           z == [p \in S |-> ZeroShare(p, S \ {p}, root)]
           a == Sum(f, S)
           b == Sum(t, S)
           c == Sum(z, S)
<1>1. IsFiniteSet(S) /\ S \subseteq Party /\ Cardinality(S) >= Threshold
  BY PartyFinite, FieldAssumption
<1>2. pk \in Scalar /\ pk \in Int /\ \A q \in S : party[q].pk = pk
  BY <1>1, ObjectFacts, OneKeyOfSigners
<1>3. root \in Seq(Nat) /\ \A q \in S : Root(q) = root
  <2>1. RootsAgree(S)
    BY RootTellsPath
  <2> QED BY <1>1, <2>1, RootType DEF RootsAgree
<1>4. \A q \in S : y[q] = party[q].poly_point /\ y[q] \in Int
  BY <1>1, ObjectFacts
<1>5. \A q \in S : z[q] = ZeroShare(q, S \ {q}, root)
  OBVIOUS
<1>6. Zero(c) /\ \A q \in S : z[q] \in Int
  <2> HIDE DEF root
  <2> QED BY <1>3, ZeroSharesCancel
<1>7. AtZero(y, S) = pk
  <2> HIDE DEF pk, y
  <2> QED BY <1>1, <1>2, <1>4, SharesOfNode
<1>8. \A q \in S : t[q] \in Int /\ t[q] = Lagrange(q, S) * y[q] /\ Lagrange(q, S) \in Int
  <2>1. \A q \in S : t[q] \in Int
    <3> HIDE DEF y
    <3> QED BY <1>1, <1>4, AtZeroFacts
  <2>2. \A q \in S : t[q] = Lagrange(q, S) * y[q]
    BY DEF Terms
  <2> QED BY <1>1, <2>1, <2>2, LagrangeFacts
<1>9. b \in Int /\ pk = b % Prime
  <2> HIDE DEF y
  <2> QED BY <1>1, <1>4, <1>7, AtZeroFacts DEF At
<1> HIDE DEF root, pk, y, t, z
<1>10. ASSUME NEW q \in S
       PROVE  f[q] \in Int /\ Same(f[q], 1 * t[q] + 1 * z[q])
  <2> DEFINE l == Lagrange(q, S)
             u == t[q]
             v == z[q]
             w == u + v
  <2>1. f[q] = (party[q].poly_point * l + v) % Prime
    <3>1. v = ZeroShare(q, S \ {q}, Root(q))
      BY <1>3, <1>5
    <3>2. KeyShare(q, S) = (party[q].poly_point * l + ZeroShare(q, S \ {q}, Root(q))) % Prime
      BY DEF KeyShare
    <3> HIDE DEF v, l
    <3> QED BY <3>1, <3>2
  <2>2. u \in Int /\ v \in Int /\ u = l * y[q] /\ l \in Int /\ y[q] \in Int
    <3>1. u \in Int /\ u = l * y[q] /\ l \in Int
      BY <1>8
    <3> HIDE DEF u, v, l
    <3> QED BY <1>4, <1>6, <3>1 DEF v
  <2>3. f[q] = (y[q] * l + v) % Prime
    BY <1>4, <2>1
  <2> HIDE DEF l, u, v
  <2>4. y[q] * l + v = w /\ w \in Int /\ w = 1 * u + 1 * v
    BY <2>2
  <2>5. f[q] = w % Prime /\ w \in Int
    BY <2>3, <2>4
  <2>6. f[q] \in Int /\ Same(f[q], w)
    <3> HIDE DEF w
    <3> QED BY <2>5, Reduced, SameSame
  <2> QED BY <2>4, <2>6 DEF u, v
<1>11. \A q \in S : f[q] \in Int
  BY <1>10
<1>12. Same(a, 1 * b + 1 * c)
  <2>1. 1 \in Int
    OBVIOUS
  <2> QED BY <1>1, <1>6, <1>8, <1>10, <2>1, SumOfMix
<1>13. c \in Int /\ a \in Int
  BY <1>1, <1>6, <1>11, SumFacts
<1> HIDE DEF a, b, c
<1>14. Same(1 * b + 1 * c, b)
  <2>1. (1 * b + 1 * c) - b = c
    BY <1>9, <1>13
  <2> QED BY <1>6, <2>1 DEF Same
<1>15. Same(b, pk)
  BY <1>9, SameSame
<1>16. Same(a, pk)
  <2>1. 1 * b + 1 * c \in Int
    BY <1>9, <1>13
  <2> DEFINE m == 1 * b + 1 * c
  <2>2. Same(a, m) /\ Same(m, b) /\ m \in Int
    BY <1>12, <1>14, <2>1
  <2> HIDE DEF m
  <2>3. Same(a, b)
    BY <1>9, <1>13, <2>2, SameChain
  <2> QED BY <1>2, <1>9, <1>13, <1>15, <2>3, SameChain
<1>17. Total(f) \in Scalar /\ Total(f) \in Int /\ Same(Total(f), a)
  BY <1>1, <1>11, TotalFacts DEF a
<1>18. Same(Total(f), pk)
  BY <1>2, <1>13, <1>16, <1>17, SameChain
<1>19. Total(f) = pk
  BY <1>2, <1>17, <1>18, SameScalar DEF Same
<1> QED BY <1>11, <1>13, <1>16, <1>19 DEF a, pk

\* The multiplications of all pairs share the product of two sums: what the two of a pair
\* take off and add is one debt.
LEMMA ProductShared ==
  ASSUME NEW S, IsFiniteSet(S), NEW k, NEW mask, NEW chi, NEW rest, NEW mine, NEW share,
         \A p \in S : k[p] \in Int /\ mask[p] \in Int /\ \A q \in S : chi[p][q] \in Int,
         \A p \in S : /\ rest[p] \in Int
                      /\ Same(rest[p], Sum(mask, S) - Sum([q \in S |-> chi[q][p]], S \ {p})),
         \A p \in S : /\ mine[p] \in Int
                      /\ Same(mine[p], Sum([q \in S |-> k[q] * chi[p][q]], S \ {p})),
         \A p \in S : share[p] \in Int /\ Same(share[p], k[p] * rest[p] + mine[p])
  PROVE  /\ Sum(share, S) \in Int /\ Sum(k, S) \in Int /\ Sum(mask, S) \in Int
         /\ Same(Sum(share, S), Sum(k, S) * Sum(mask, S))
<1> DEFINE m == Sum(mask, S)
           e == [p \in S |-> [q \in S |-> k[q] * chi[p][q] - k[p] * chi[q][p]]]
           d == [p \in S |-> Sum(e[p], S \ {p})]
<1>1. m \in Int /\ Sum(k, S) \in Int /\ Sum(share, S) \in Int
  BY SumFacts
<1>2. \A p, q \in S : /\ e[p][q] = k[q] * chi[p][q] - k[p] * chi[q][p]
                      /\ k[q] * chi[p][q] \in Int /\ k[p] * chi[q][p] \in Int
  OBVIOUS
<1>3. \A p, q \in S : e[p][q] \in Int
  BY <1>2
<1>4. \A p, q \in S : p # q => Zero(e[p][q] + e[q][p])
  <2>1. ASSUME NEW p \in S, NEW q \in S PROVE Zero(e[p][q] + e[q][p])
    <3> DEFINE u == k[q] * chi[p][q]
               v == k[p] * chi[q][p]
    <3>1. e[p][q] = u - v /\ e[q][p] = v - u /\ u \in Int /\ v \in Int
      BY <1>2
    <3> HIDE DEF u, v, e
    <3>2. e[p][q] + e[q][p] = 0
      BY <3>1
    <3> QED BY <3>2, ZeroZero
  <2> QED BY <2>1
<1>5. \A p \in S : d[p] = Sum(e[p], S \ {p})
  OBVIOUS
<1> HIDE DEF e
<1>6. (\A p \in S : d[p] \in Int) /\ Zero(Sum(d, S))
  BY <1>3, <1>4, <1>5, DebtsCancel
<1> HIDE DEF d, m
<1>7. ASSUME NEW p \in S PROVE Same(share[p], m * k[p] + 1 * d[p])
  <2> DEFINE R == S \ {p}
             f == e[p]
             g == [q \in S |-> k[q] * chi[p][q]]
             h == [q \in S |-> chi[q][p]]
             kp == k[p]
             G == Sum(g, R)
             H == Sum(h, R)
             D == d[p]
  <2>1. IsFiniteSet(R) /\ kp \in Int
    BY FS_Subset
  <2>2. \A q \in R : /\ f[q] = g[q] - kp * h[q]
                     /\ f[q] \in Int /\ g[q] \in Int /\ h[q] \in Int
    BY <1>2, <1>3
  <2>3. rest[p] \in Int /\ Same(rest[p], m - H) /\ mine[p] \in Int /\ Same(mine[p], G)
    BY DEF m
  <2>4. D = Sum(f, R) /\ D \in Int
    BY <1>5, <1>6
  <2> HIDE DEF f, g, h, R, kp
  <2>5. \A q \in R : Same(f[q], 1 * g[q] + (-kp) * h[q])
    <3>1. ASSUME NEW q \in R PROVE Same(f[q], 1 * g[q] + (-kp) * h[q])
      <4> DEFINE i == f[q]
                 j == g[q]
                 l == h[q]
      <4>1. i = j - kp * l /\ i \in Int /\ j \in Int /\ l \in Int
        BY <2>2
      <4> HIDE DEF i, j, l
      <4>2. i = 1 * j + (-kp) * l
        BY <2>1, <4>1
      <4> QED BY <4>1, <4>2, SameSame DEF i, j, l
    <3> QED BY <3>1
  <2>6. G \in Int /\ H \in Int
    BY <2>1, <2>2, SumFacts
  <2>7. Same(Sum(f, R), 1 * G + (-kp) * H)
    <3>1. 1 \in Int /\ -kp \in Int
      BY <2>1
    <3> DEFINE n == -kp
    <3>2. n \in Int /\ 1 \in Int
      BY <3>1
    <3>3. \A q \in R : Same(f[q], 1 * g[q] + n * h[q])
      BY <2>5
    <3> HIDE DEF n
    <3>4. Same(Sum(f, R), 1 * G + n * H)
      BY <2>1, <2>2, <3>2, <3>3, SumOfMix
    <3> QED BY <3>4 DEF n
  <2> HIDE DEF G, H, D
  <2> DEFINE r == rest[p]
             w == mine[p]
             s == share[p]
  <2>8. /\ r \in Int /\ w \in Int /\ s \in Int
        /\ Same(r, m - H) /\ Same(w, G) /\ Same(s, kp * r + w) /\ Same(D, 1 * G + (-kp) * H)
    BY <2>3, <2>4, <2>7 DEF kp
  <2> HIDE DEF r, w, s
  <2> DEFINE x == m - H
             a == kp * r
             b == kp * x
  <2>9. x \in Int
    BY <1>1, <2>6
  <2>10. a \in Int /\ b \in Int
    <3> HIDE DEF x
    <3> QED BY <2>1, <2>8, <2>9
  <2>11. Same(a, b)
    <3> HIDE DEF x
    <3>1. Same(kp, kp) /\ Same(r, x)
      BY <2>1, <2>8, SameSame DEF x
    <3> QED BY <2>1, <2>8, <2>9, <3>1, SameTimes
  <2>12. Same(a + w, b + G)
    <3> HIDE DEF a, b
    <3> QED BY <2>6, <2>8, <2>10, <2>11, SamePlus
  <2> DEFINE y == 1 * G + (-kp) * H
             o == m * kp
  <2>13. b + G = o + y /\ y \in Int /\ o \in Int
    BY <1>1, <2>1, <2>6
  <2>14. Same(s, a + w)
    BY <2>8
  <2> HIDE DEF a, b, y, o
  <2>15. Same(y, D) /\ Same(o, o)
    BY <2>4, <2>8, <2>13, SameScalars, SameSame DEF y
  <2>16. Same(o + y, o + D)
    BY <2>4, <2>13, <2>15, SamePlus
  <2>17. a + w \in Int /\ b + G \in Int /\ o + D \in Int
    BY <2>4, <2>6, <2>8, <2>10, <2>13
  <2>18. Same(s, b + G)
    BY <2>8, <2>12, <2>14, <2>17, SameChain
  <2>19. Same(s, o + D)
    BY <2>8, <2>13, <2>16, <2>17, <2>18, SameChain
  <2>20. o + D = m * k[p] + 1 * d[p]
    BY <2>4 DEF o, D, kp
  <2> QED BY <2>19, <2>20 DEF s
<1>8. Same(Sum(share, S), m * Sum(k, S) + 1 * Sum(d, S))
  <2>1. 1 \in Int
    OBVIOUS
  <2> QED BY <1>1, <1>6, <1>7, <2>1, SumOfMix
<1> DEFINE a == Sum(share, S)
           b == Sum(k, S)
           c == Sum(d, S)
<1>9. c \in Int
  BY <1>6, SumFacts
<1>10. a \in Int /\ b \in Int /\ Zero(c) /\ Same(a, m * b + 1 * c)
  BY <1>1, <1>6, <1>8
<1> HIDE DEF a, b, c
<1> DEFINE i == m * b + 1 * c
           j == b * m
<1>11. i - j = c /\ i \in Int /\ j \in Int
  BY <1>1, <1>9, <1>10
<1>12. Same(i, j) /\ Same(a, i)
  BY <1>10, <1>11 DEF Same
<1> HIDE DEF i, j
<1>13. Same(a, j)
  BY <1>10, <1>11, <1>12, SameChain
<1> QED BY <1>1, <1>13 DEF a, b, j, m

LEMMA DrawFacts ==
  ASSUME NEW draw \in Draw, NEW p \in Party
  PROVE  /\ draw[p].instance_key \in Int /\ draw[p].inversion_mask \in Int
         /\ \A q \in Party : draw[p].chi[q] \in Int
<1> DEFINE r == draw[p]
<1>1. r \in [instance_key : Scalar, inversion_mask : Scalar, chi : [Party -> Scalar]]
  BY KeysAssumption
<1> HIDE DEF r
<1>2. r.instance_key \in Scalar /\ r.inversion_mask \in Scalar /\ \A q \in Party : r.chi[q] \in Scalar
  BY <1>1
<1> QED BY <1>2, ScalarFacts DEF r

\* What p multiplies its own factor by, what it adds as the other end of the
\* multiplications, and its share of the product.
FirstSum(p, S, draw) ==
  draw[p].inversion_mask
    + Total([q \in S \ {p} |-> (draw[q].inversion_mask + Neg(draw[q].chi[p])) % Prime])
ReceiverSum(k, p, S, draw) == Total([q \in S \ {p} |-> k[q] * draw[p].chi[q]])
ShareOf(k, p, S, draw) == k[p] * FirstSum(p, S, draw) + ReceiverSum(k, p, S, draw)

LEMMA FirstSumFacts ==
  ASSUME NEW S \in SUBSET Party, NEW draw \in Draw, NEW p \in S,
         NEW mask, \A q \in S : mask[q] = draw[q].inversion_mask,
         NEW h, \A q \in S : h[q] = draw[q].chi[p]
  PROVE  /\ FirstSum(p, S, draw) \in Int
         /\ Same(FirstSum(p, S, draw), Sum(mask, S) - Sum(h, S \ {p}))
<1> DEFINE R == S \ {p}
           g == [q \in R |-> (draw[q].inversion_mask + Neg(draw[q].chi[p])) % Prime]
           G == Sum(g, R)
           H == Sum(h, R)
           M == Sum(mask, R)
           T == Total(g)
           mp == mask[p]
<1>1. IsFiniteSet(S) /\ IsFiniteSet(R) /\ R \subseteq S /\ S \subseteq Party
  BY PartyFinite
<1>2. \A q \in S : mask[q] \in Int /\ h[q] \in Int
  BY <1>1, DrawFacts
<1>3. \A q \in R : g[q] = (mask[q] + Neg(h[q])) % Prime
  OBVIOUS
<1>4. DOMAIN g = R
  OBVIOUS
<1> HIDE DEF g, R
<1>5. ASSUME NEW q \in R PROVE g[q] \in Int /\ Same(g[q], 1 * mask[q] + (-1) * h[q])
  <2> DEFINE x == mask[q]
             y == h[q]
             n == Neg(y)
             s == x + n
             t == x + (-y)
  <2>1. x \in Int /\ y \in Int /\ g[q] = s % Prime
    BY <1>1, <1>2, <1>3
  <2> HIDE DEF x, y
  <2>2. n \in Int /\ Same(n, -y) /\ -y \in Int
    BY <2>1, NegFacts
  <2> HIDE DEF n
  <2>3. s \in Int /\ t \in Int /\ t = 1 * x + (-1) * y
    BY <2>1, <2>2
  <2>4. Same(s, t)
    BY <2>1, <2>2, SameSame, SamePlus
  <2> HIDE DEF s, t
  <2>5. s % Prime \in Int /\ Same(s % Prime, s)
    BY <2>3, Reduced, SameSame
  <2>6. Same(s % Prime, t)
    BY <2>3, <2>4, <2>5, SameChain
  <2> QED BY <2>1, <2>3, <2>5, <2>6 DEF x, y
<1>6. Same(G, 1 * M + (-1) * H)
  <2>1. 1 \in Int /\ -1 \in Int
    OBVIOUS
  <2> QED BY <1>1, <1>2, <1>5, <2>1, SumOfMix
<1>7. G \in Int /\ H \in Int /\ M \in Int /\ T \in Int /\ Same(T, G)
  BY <1>1, <1>2, <1>4, <1>5, SumFacts, TotalFacts
<1>8. Sum(mask, S) = mp + M /\ mp \in Int
  BY <1>1, <1>2, SumFacts DEF R
<1>9. FirstSum(p, S, draw) = mp + T
  BY DEF FirstSum, g, R
<1> HIDE DEF G, H, M, T, mp
<1> DEFINE i == 1 * M + (-1) * H
<1>10. i \in Int /\ mp + i = (mp + M) - H
  BY <1>7, <1>8
<1>11. Same(G, i)
  BY <1>6
<1> HIDE DEF i
<1>12. Same(T, i)
  BY <1>7, <1>10, <1>11, SameChain
<1>13. Same(mp + T, mp + i)
  BY <1>7, <1>8, <1>10, <1>12, SameSame, SamePlus
<1>14. mp + T \in Int
  BY <1>7, <1>8
<1> QED BY <1>8, <1>9, <1>10, <1>13, <1>14 DEF H, R

Masks(mask, S, draw) == \A p \in S : mask[p] = draw[p].inversion_mask
Shares(share, k, S, draw) == \A p \in S : k[p] \in Int /\ share[p] = ShareOf(k, p, S, draw)

LEMMA SharesOfProduct ==
  ASSUME NEW S \in SUBSET Party, NEW draw \in Draw, NEW mask, Masks(mask, S, draw),
         NEW k, NEW share, Shares(share, k, S, draw)
  PROVE  /\ \A p \in S : share[p] \in Int
         /\ Sum(share, S) \in Int /\ Sum(k, S) \in Int /\ Sum(mask, S) \in Int
         /\ Same(Sum(share, S), Sum(k, S) * Sum(mask, S))
<1> DEFINE chi == [p \in S |-> draw[p].chi]
           rest == [p \in S |-> FirstSum(p, S, draw)]
           mine == [p \in S |-> ReceiverSum(k, p, S, draw)]
<1>1. IsFiniteSet(S) /\ S \subseteq Party
  BY PartyFinite
<1>2. \A p \in S : k[p] \in Int /\ mask[p] \in Int /\ \A q \in S : chi[p][q] \in Int
  BY <1>1, DrawFacts DEF Masks, Shares
<1>3. ASSUME NEW p \in S
      PROVE  /\ rest[p] \in Int
             /\ Same(rest[p], Sum(mask, S) - Sum([q \in S |-> chi[q][p]], S \ {p}))
  <2> DEFINE h == [q \in S |-> chi[q][p]]
  <2>1. \A q \in S : h[q] = draw[q].chi[p]
    OBVIOUS
  <2> HIDE DEF h
  <2>2. /\ FirstSum(p, S, draw) \in Int
        /\ Same(FirstSum(p, S, draw), Sum(mask, S) - Sum(h, S \ {p}))
    BY <2>1, FirstSumFacts DEF Masks
  <2> QED BY <2>2 DEF h
<1>4. ASSUME NEW p \in S
      PROVE  /\ mine[p] \in Int
             /\ Same(mine[p], Sum([q \in S |-> k[q] * chi[p][q]], S \ {p}))
  <2> DEFINE R == S \ {p}
             f == [q \in S |-> k[q] * chi[p][q]]
             g == [q \in R |-> k[q] * draw[p].chi[q]]
  <2>1. IsFiniteSet(R) /\ DOMAIN g = R
    BY <1>1, FS_Subset
  <2>2. \A q \in R : g[q] = f[q]
    OBVIOUS
  <2>3. \A q \in R : g[q] \in Int
    <3>1. \A q \in R : g[q] = k[q] * chi[p][q] /\ k[q] \in Int /\ chi[p][q] \in Int
      BY <1>2
    <3> HIDE DEF g, R
    <3> QED BY <3>1
  <2>4. mine[p] = Total(g)
    BY DEF ReceiverSum
  <2> HIDE DEF f, g, R
  <2>5. Total(g) \in Int /\ Same(Total(g), Sum(g, R)) /\ Sum(g, R) = Sum(f, R)
    BY <2>1, <2>2, <2>3, TotalFacts, SumFacts
  <2> QED BY <2>4, <2>5 DEF f, R
<1>5. \A p \in S : share[p] = k[p] * rest[p] + mine[p]
  BY DEF ShareOf, Shares
<1> HIDE DEF rest, mine, chi
<1>6. ASSUME NEW p \in S PROVE share[p] \in Int /\ Same(share[p], k[p] * rest[p] + mine[p])
  <2> DEFINE x == k[p] * rest[p] + mine[p]
  <2>1. x \in Int
    <3> DEFINE a == k[p]
               b == rest[p]
               c == mine[p]
    <3>1. a \in Int /\ b \in Int /\ c \in Int
      BY <1>2, <1>3, <1>4
    <3> HIDE DEF a, b, c
    <3>2. a * b + c \in Int
      BY <3>1
    <3> QED BY <3>2 DEF a, b, c
  <2>2. share[p] = x
    BY <1>5
  <2> HIDE DEF x
  <2>3. Same(x, x)
    BY <2>1, SameSame
  <2> QED BY <2>1, <2>2, <2>3 DEF x
<1>7. \A p \in S : share[p] \in Int /\ Same(share[p], k[p] * rest[p] + mine[p])
  BY <1>6
<1>8. \A p \in S : /\ rest[p] \in Int
                   /\ Same(rest[p], Sum(mask, S) - Sum([q \in S |-> chi[q][p]], S \ {p}))
  BY <1>3
<1>9. \A p \in S : /\ mine[p] \in Int
                   /\ Same(mine[p], Sum([q \in S |-> k[q] * chi[p][q]], S \ {p}))
  BY <1>4
<1>10. /\ Sum(share, S) \in Int /\ Sum(k, S) \in Int /\ Sum(mask, S) \in Int
       /\ Same(Sum(share, S), Sum(k, S) * Sum(mask, S))
  BY <1>1, <1>2, <1>7, <1>8, <1>9, ProductShared
<1> QED BY <1>6, <1>10

Broadcasts(b, S, msg, draw, rx) ==
  DOMAIN b = S /\ \A q \in S : b[q] = Broadcast(q, S, msg, draw, rx)
SumOfU(b) == Total([q \in DOMAIN b |-> b[q].u])
SumOfW(b) == Total([q \in DOMAIN b |-> b[q].w])

\* The sums of the broadcasts: a nonce's u is the instance key times the mask, and w the
\* mask times what signature and key have to satisfy.
LEMMA BroadcastsAddUp ==
  ASSUME HashesAreNumbers, KInv, NEW S \in SUBSET Party, Cardinality(S) = Threshold,
         \A p, q \in S : where[p] = where[q], NEW p0 \in S,
         NEW msg \in Int, NEW draw \in Draw, NEW rx \in Int,
         NEW b, Broadcasts(b, S, msg, draw, rx), NEW mask, Masks(mask, S, draw)
  PROVE  LET M == Sum(mask, S)
             R == InstancePoint(S, draw)
         IN  /\ SumOfU(b) \in Scalar /\ SumOfW(b) \in Scalar /\ R \in Scalar /\ M \in Int
             /\ Same(SumOfU(b), R * M)
             /\ Same(SumOfW(b), (msg + rx * party[p0].pk) * M)
<1> DEFINE ik == [p \in S |-> draw[p].instance_key]
           ks == [p \in S |-> KeyShare(p, S)]
           us == [p \in S |-> ShareOf(ik, p, S, draw)]
           vs == [p \in S |-> ShareOf(ks, p, S, draw)]
           bu == [q \in DOMAIN b |-> b[q].u]
           bw == [q \in DOMAIN b |-> b[q].w]
           U == Total(bu)
           W == Total(bw)
           M == Sum(mask, S)
           R == InstancePoint(S, draw)
           pk == party[p0].pk
           K == Sum(ks, S)
           I == Sum(ik, S)
           SU == Sum(us, S)
           SV == Sum(vs, S)
           SBU == Sum(bu, S)
           SBW == Sum(bw, S)
<1>1. IsFiniteSet(S) /\ S \subseteq Party
  BY PartyFinite
<1>2. DOMAIN ik = S /\ DOMAIN ks = S /\ DOMAIN bu = S /\ DOMAIN bw = S
  BY DEF Broadcasts
<1>3. /\ \A p \in S : ik[p] = draw[p].instance_key
      /\ \A p \in S : ks[p] = KeyShare(p, S)
      /\ \A p \in S : us[p] = ShareOf(ik, p, S, draw)
      /\ \A p \in S : vs[p] = ShareOf(ks, p, S, draw)
  OBVIOUS
<1>4. \A p \in S : bu[p] = b[p].u /\ bw[p] = b[p].w
  BY DEF Broadcasts
<1>5. R = Total(ik)
  BY DEF InstancePoint
<1>6. ASSUME NEW p \in S
      PROVE  /\ bu[p] = us[p] % Prime
             /\ bw[p] = (msg * mask[p] + (vs[p] % Prime) * rx) % Prime
  <2> DEFINE T == S \ {p}
  <2>1. /\ [q \in T |-> draw[q].instance_key * draw[p].chi[q]]
             = [q \in T |-> ik[q] * draw[p].chi[q]]
        /\ [q \in T |-> KeyShare(q, S) * draw[p].chi[q]] = [q \in T |-> ks[q] * draw[p].chi[q]]
    BY <1>3
  <2>2. ik[p] = draw[p].instance_key /\ ks[p] = KeyShare(p, S) /\ mask[p] = draw[p].inversion_mask
    BY <1>3 DEF Masks
  <2> DEFINE c == Broadcast(p, S, msg, draw, rx)
  <2>3. c.u = us[p] % Prime
    BY <1>3, <2>1, <2>2 DEF Broadcast, ShareOf, FirstSum, ReceiverSum
  <2>4. c.w = (msg * mask[p] + (vs[p] % Prime) * rx) % Prime
    BY <1>3, <2>1, <2>2 DEF Broadcast, ShareOf, FirstSum, ReceiverSum
  <2>5. b[p] = c
    BY DEF Broadcasts
  <2> HIDE DEF c
  <2> QED BY <1>4, <2>3, <2>4, <2>5
<1> HIDE DEF ik, ks, us, vs, bu, bw
<1>7. \A p \in S : ik[p] \in Int /\ mask[p] \in Int
  BY <1>1, <1>3, DrawFacts DEF Masks
<1>8. (\A p \in S : ks[p] \in Int) /\ K \in Int /\ Same(K, pk) /\ pk \in Int
  BY <1>1, <1>2, <1>3, KeySharesAddUp, ObjectFacts
<1>9. /\ \A p \in S : us[p] \in Int
      /\ SU \in Int /\ I \in Int /\ M \in Int /\ Same(SU, I * M)
  <2>1. Shares(us, ik, S, draw) /\ Masks(mask, S, draw)
    BY <1>3, <1>7 DEF Shares, Masks
  <2> QED BY <2>1, SharesOfProduct
<1>10. /\ \A p \in S : vs[p] \in Int
       /\ SV \in Int /\ Same(SV, K * M)
  <2>1. Shares(vs, ks, S, draw) /\ Masks(mask, S, draw)
    BY <1>3, <1>8 DEF Shares, Masks
  <2> QED BY <2>1, SharesOfProduct
<1>11. R \in Scalar /\ R \in Int /\ Same(R, I)
  <2> HIDE DEF R
  <2> QED BY <1>1, <1>2, <1>5, <1>7, TotalFacts
<1>12. ASSUME NEW p \in S PROVE bu[p] \in Int /\ us[p] \in Int /\ Same(bu[p], us[p])
  <2> DEFINE x == us[p]
  <2>1. x \in Int /\ bu[p] = x % Prime
    BY <1>6, <1>9
  <2> HIDE DEF x
  <2>2. x % Prime \in Int /\ Same(x % Prime, x)
    BY <2>1, Reduced, SameSame
  <2> QED BY <2>1, <2>2 DEF x
<1>13. U \in Scalar /\ U \in Int /\ SBU \in Int /\ Same(U, SBU) /\ Same(SBU, SU)
  BY <1>1, <1>2, <1>12, TotalFacts, SameSums
<1>14. ASSUME NEW p \in S PROVE bw[p] \in Int /\ Same(bw[p], msg * mask[p] + rx * vs[p])
  <2> DEFINE x == vs[p]
             m == mask[p]
             y == x % Prime
             i == msg * m
             n == i + y * rx
  <2>1. x \in Int /\ m \in Int /\ bw[p] = n % Prime
    BY <1>6, <1>7, <1>10
  <2> HIDE DEF x, m
  <2>2. y \in Int /\ Same(y, x)
    BY <2>1, Reduced, SameSame
  <2> HIDE DEF y
  <2>3. y * rx \in Int /\ x * rx \in Int /\ Same(y * rx, x * rx)
    BY <2>1, <2>2, SameSame, SameTimes
  <2>4. i \in Int /\ x * rx = rx * x
    BY <2>1
  <2>5. n \in Int
    BY <2>3, <2>4
  <2>6. Same(i, i)
    BY <2>4, SameSame
  <2> HIDE DEF i
  <2> DEFINE j == x * rx
             l == y * rx
  <2>7. j \in Int /\ l \in Int /\ Same(l, j) /\ j = rx * x
    BY <2>3, <2>4
  <2>8. n = i + l
    OBVIOUS
  <2> HIDE DEF j, l, n
  <2>13. Same(i + l, i + j)
    BY <2>4, <2>6, <2>7, SamePlus
  <2>9. Same(n, i + j) /\ i + j \in Int
    BY <2>4, <2>7, <2>8, <2>13
  <2>10. n % Prime \in Int /\ Same(n % Prime, n)
    BY <2>5, Reduced, SameSame
  <2>11. Same(n % Prime, i + j)
    BY <2>5, <2>9, <2>10, SameChain
  <2>12. i + j = msg * m + rx * x
    BY <2>7 DEF i
  <2> QED BY <2>1, <2>10, <2>11, <2>12 DEF m, x
<1>15. Same(SBW, msg * M + rx * SV)
  <2>1. \A p \in S : /\ bw[p] \in Int /\ mask[p] \in Int /\ vs[p] \in Int
                     /\ Same(bw[p], msg * mask[p] + rx * vs[p])
    BY <1>7, <1>10, <1>14
  <2> QED BY <1>1, <2>1, SumOfMix
<1>16. W \in Scalar /\ W \in Int /\ SBW \in Int /\ Same(W, SBW)
  BY <1>1, <1>2, <1>14, TotalFacts
<1> HIDE DEF U, W, M, R, pk, K, I, SU, SV, SBU, SBW
<1>17. Same(U, R * M)
  <2>1. I * M \in Int /\ R * M \in Int
    BY <1>9, <1>11
  <2>2. Same(M, M) /\ Same(I, R)
    BY <1>9, <1>11, SameSame, SameScalars
  <2>3. Same(I * M, R * M)
    BY <1>9, <1>11, <2>2, SameTimes
  <2>4. Same(U, SU)
    BY <1>9, <1>13, SameChain
  <2>5. Same(U, I * M)
    BY <1>9, <1>13, <2>1, <2>4, SameChain
  <2> QED BY <1>13, <2>1, <2>3, <2>5, SameChain
<1>18. Same(W, (msg + rx * pk) * M)
  <2> DEFINE a == msg * M
             c == rx * SV
             d == K * M
             e == pk * M
             f == rx * d
             g == rx * e
  <2>1. a \in Int /\ c \in Int /\ d \in Int /\ e \in Int /\ f \in Int /\ g \in Int
    BY <1>8, <1>9, <1>10
  <2>2. Same(SV, d) /\ Same(M, M) /\ Same(K, pk) /\ Same(rx, rx)
    BY <1>8, <1>9, <1>10, SameSame
  <2>3. Same(d, e)
    BY <1>8, <1>9, <2>2, SameTimes
  <2>4. a + g = (msg + rx * pk) * M
    BY <1>8, <1>9
  <2>5. Same(SBW, a + c)
    BY <1>15
  <2> HIDE DEF d, e
  <2>6. Same(SV, e)
    BY <1>10, <2>1, <2>2, <2>3, SameChain
  <2>7. Same(c, g)
    BY <1>10, <2>1, <2>2, <2>6, SameTimes
  <2> HIDE DEF a, c, g
  <2>8. Same(a, a)
    BY <2>1, SameSame
  <2>9. Same(a + c, a + g) /\ a + c \in Int /\ a + g \in Int
    BY <2>1, <2>7, <2>8, SamePlus
  <2>10. Same(W, a + c)
    BY <1>16, <2>5, <2>9, SameChain
  <2>11. Same(W, a + g)
    BY <1>16, <2>9, <2>10, SameChain
  <2> QED BY <2>4, <2>11
<1> QED BY <1>9, <1>11, <1>13, <1>16, <1>17, <1>18 DEF U, W, M, R, pk, bu, bw, SumOfU, SumOfW

LEMMA NotZero ==
  ASSUME NEW a \in Scalar
  PROVE  Zero(a) <=> a = 0
<1>1. a \in Int /\ -Prime < a /\ a < Prime
  BY PrimeFact DEF Scalar
<1> QED BY <1>1, SmallZero, ZeroZero

LEMMA RangeIsScalar ==
  /\ 1..(Prime - 1) = Scalar \ {0}
  /\ \A a \in Scalar : a \in Int /\ a % Prime = a /\ 0 <= a /\ a < Prime
BY PrimeFact DEF Scalar

\* s times the instance key is what a signature of the message has to be.
LEMMA Quotient ==
  ASSUME NEW R \in Int, NEW M \in Int, NEW t \in Int, NEW U \in Scalar, NEW W \in Scalar, U # 0,
         Same(U, R * M), Same(W, t * M), NEW s, s = (W * Invert(U)) % Prime
  PROVE  s \in Scalar /\ Same(s * R, t)
<1> DEFINE v == Invert(U)
           n == W * v
<1>1. U \in Int /\ W \in Int /\ ~Zero(U) /\ U % Prime = U
  BY NotZero, RangeIsScalar
<1>2. v \in Int /\ Same(U * v, 1)
  BY <1>1, SameInverse
<1> HIDE DEF v
<1>3. n \in Int
  BY <1>1, <1>2
<1>4. s = n % Prime
  BY DEF v
<1> HIDE DEF n
<1>5. s \in Scalar /\ s \in Int /\ Same(s, n)
  BY <1>3, <1>4, Reduced, SameSame
<1>6. Same(s * U, W)
  <2> DEFINE a == U * v
             c == W * a
             d == n * U
             e == s * U
  <2>1. a \in Int /\ d \in Int /\ e \in Int
    BY <1>1, <1>2, <1>3, <1>5
  <2>2. c = d
    BY <1>1, <1>2 DEF n
  <2>3. Same(e, d)
    BY <1>1, <1>3, <1>5, SameSame, SameTimes
  <2> HIDE DEF a
  <2>4. Same(a, 1) /\ Same(W, W) /\ 1 \in Int
    BY <1>1, <1>2, SameSame DEF a
  <2>5. Same(c, W * 1)
    BY <1>1, <2>1, <2>4, SameTimes
  <2>6. W * 1 = W
    BY <1>1
  <2> HIDE DEF c, d, e
  <2>7. Same(e, W)
    BY <1>1, <2>1, <2>2, <2>3, <2>5, <2>6, SameChain
  <2> QED BY <2>7 DEF e
<1>7. ~Zero(M)
  <2> SUFFICES ASSUME Zero(M) PROVE FALSE
    OBVIOUS
  <2>1. Zero(R * M) /\ R * M \in Int
    BY ZeroTimes
  <2> DEFINE a == R * M
  <2>2. Zero(a) /\ a \in Int /\ Same(U, a) /\ 0 \in Int
    BY <2>1
  <2> HIDE DEF a
  <2>3. Same(a, 0)
    BY <2>2, SameScalars
  <2>4. Same(U, 0)
    BY <1>1, <2>2, <2>3, SameChain
  <2> QED BY <1>1, <2>2, <2>4, SameScalars
<1>8. Same((s * R) * M, t * M)
  <2> DEFINE a == R * M
             c == s * a
             d == s * U
             e == t * M
  <2>1. a \in Int /\ d \in Int /\ e \in Int /\ c = (s * R) * M
    BY <1>1, <1>5
  <2>2. Same(a, U) /\ Same(s, s)
    BY <1>1, <1>5, <2>1, SameScalars, SameSame
  <2> HIDE DEF a
  <2>3. c \in Int
    BY <1>5, <2>1
  <2>4. Same(c, d)
    BY <1>1, <1>5, <2>1, <2>2, SameTimes
  <2>5. Same(d, W) /\ Same(W, e)
    BY <1>6
  <2> HIDE DEF c, d, e
  <2>6. Same(c, W)
    BY <1>1, <2>1, <2>3, <2>4, <2>5, SameChain
  <2>7. Same(c, e)
    BY <1>1, <2>1, <2>3, <2>5, <2>6, SameChain
  <2> QED BY <2>1, <2>7 DEF e
<1>9. s * R \in Int
  BY <1>5
<1> DEFINE g == s * R
<1> HIDE DEF g
<1>10. g \in Int /\ Same(g * M, t * M)
  BY <1>8, <1>9 DEF g
<1>11. Same(g, t)
  BY <1>7, <1>10, SameCancel
<1> QED BY <1>5, <1>11 DEF g

\* With the other sign s belongs to the negative of the point, which has the same
\* x-coordinate.
LEMMA EitherSign ==
  ASSUME NEW R \in Scalar, R # 0, NEW s \in Scalar, s # 0, NEW t \in Int, Same(s * R, t),
         NEW high \in BOOLEAN, NEW low, low = IF high THEN Neg(s) ELSE s
  PROVE  /\ low \in 1..(Prime - 1)
         /\ high => low = Prime - s
         /\ \E point \in Scalar \ {0} :
              XCoordinate(point) = XCoordinate(R) /\ Same(low * point, t)
<1>1. CASE ~high
  BY <1>1, RangeIsScalar
<1>2. CASE high
  <2> DEFINE P == Prime - R
             n == Prime - s
  <2>1. Prime \in Int /\ R \in Int /\ s \in Int /\ 0 < R /\ R < Prime /\ 0 < s /\ s < Prime
    BY PrimeFact, RangeIsScalar
  <2>2. P \in Scalar \ {0} /\ n \in Scalar \ {0}
    BY <2>1 DEF Scalar
  <2>3. low = n
    BY <1>2, <2>2, RangeIsScalar DEF Neg
  <2>4. XCoordinate(P) = XCoordinate(R)
    BY <2>2, KeysAssumption
  <2>5. Same(n, -s) /\ Same(P, -R)
    <3>1. n - (-s) = 1 * Prime /\ P - (-R) = 1 * Prime
      BY <2>1
    <3> QED BY <3>1 DEF Same, Zero
  <2>6. P \in Int /\ n \in Int /\ -s \in Int /\ -R \in Int /\ (-s) * (-R) = s * R
    BY <2>1
  <2> HIDE DEF P, n
  <2>7. Same(n * P, (-s) * (-R)) /\ n * P \in Int /\ s * R \in Int
    BY <2>1, <2>5, <2>6, SameTimes
  <2>8. Same(n * P, s * R)
    BY <2>6, <2>7
  <2>9. Same(n * P, t)
    BY <2>7, <2>8, SameChain
  <2>10. n \in 1..(Prime - 1)
    BY <2>2, RangeIsScalar
  <2> QED BY <1>2, <2>2, <2>3, <2>4, <2>9, <2>10 DEF n
<1> QED BY <1>1, <1>2

LEMMA PointOfSignature ==
  ASSUME NEW msg \in Int, NEW pk \in Int, NEW rx \in Int, NEW point \in Scalar,
         NEW s \in 1..(Prime - 1), Same(s * point, msg + pk * rx)
  PROVE  SignaturePoint(msg, pk, rx, s) = point
<1> DEFINE v == Invert(s)
           t == msg + pk * rx
           n == t * v
           c == s * v
           d == point * c
           e == s * point
<1>1. s \in Scalar /\ s \in Int /\ ~Zero(s) /\ s % Prime = s /\ point \in Int
  BY NotZero, RangeIsScalar
<1>2. v \in Int /\ Same(c, 1)
  BY <1>1, SameInverse
<1>3. SignaturePoint(msg, pk, rx, s) = n % Prime
  BY DEF SignaturePoint
<1>4. t \in Int /\ Same(e, t)
  OBVIOUS
<1> HIDE DEF v, t
<1>5. n \in Int /\ c \in Int /\ e \in Int /\ d = e * v
  BY <1>1, <1>2, <1>4
<1> HIDE DEF c, e
<1>6. Same(point, point) /\ Same(1, c) /\ 1 \in Int /\ Same(v, v)
  BY <1>1, <1>2, <1>5, SameScalars, SameSame
<1>7. Same(point * 1, d) /\ point * 1 = point /\ d \in Int
  BY <1>1, <1>5, <1>6, SameTimes
<1>8. Same(e * v, n)
  BY <1>2, <1>4, <1>5, <1>6, SameTimes
<1> HIDE DEF d, n
<1>9. Same(point, n)
  BY <1>1, <1>5, <1>7, <1>8, SameChain
<1>10. n % Prime \in Scalar /\ n % Prime \in Int /\ Same(n, n % Prime)
  BY <1>5, Reduced, SameSame
<1>11. Same(point, n % Prime)
  BY <1>1, <1>5, <1>9, <1>10, SameChain
<1> QED BY <1>3, <1>10, <1>11, SameScalar DEF Same

\* Of the two points with one x-coordinate the recovery id names one.
LEMMA KeyRecovered ==
  ASSUME NEW msg \in Int, NEW pk \in Scalar, NEW point \in Scalar, point # 0,
         NEW x \in 1..(Prime - 1), x = XCoordinate(point),
         NEW s \in Int, Same(s * point, msg + pk * x),
         NEW rec_id, rec_id = IF YIsOdd(point) THEN 1 ELSE 0
  PROVE  Recovered(msg, x % Prime, s, rec_id) = pk
<1> DEFINE Fits(k) == /\ XCoordinate(k) = x + (rec_id \div 2) * Prime
                      /\ YIsOdd(k) <=> rec_id % 2 = 1
           q == CHOOSE k \in 1..(Prime - 1) : Fits(k)
<1>1. /\ point \in 1..(Prime - 1) /\ x \in Scalar /\ x \in Int /\ x # 0 /\ x % Prime = x
      /\ Prime \in Int /\ pk \in Int /\ point \in Int
  BY PrimeFact, RangeIsScalar
<1>2. /\ rec_id \div 2 = 0 /\ (rec_id % 2 = 1 <=> YIsOdd(point))
  <2>1. CASE YIsOdd(point)
    BY <2>1
  <2>2. CASE ~YIsOdd(point)
    BY <2>2
  <2> QED BY <2>1, <2>2
<1>3. x + (rec_id \div 2) * Prime = x
  BY <1>1, <1>2
<1>4. Fits(point)
  BY <1>2, <1>3
<1>5. ASSUME NEW k \in 1..(Prime - 1), Fits(k) PROVE k = point
  <2>1. k \in Scalar \ {0} /\ k \in Int /\ XCoordinate(k) = XCoordinate(point)
    BY <1>3, <1>5, RangeIsScalar
  <2>2. k \in {point, Prime - point}
    BY <2>1, KeysAssumption
  <2>3. (2 * k > Prime) <=> (2 * point > Prime)
    BY <1>2, <1>5 DEF YIsOdd
  <2>4. ASSUME k = Prime - point PROVE k = point
    BY <1>1, <2>1, <2>3, <2>4
  <2> QED BY <2>2, <2>4
<1>6. q = point
  <2> HIDE DEF Fits
  <2>1. q \in 1..(Prime - 1) /\ Fits(q)
    BY <1>1, <1>4
  <2> HIDE DEF q
  <2> QED BY <1>5, <2>1
<1> DEFINE n == Neg(msg)
           v == Invert(x)
           e == s * point
           m == v * (e + n)
<1>7. Recovered(msg, x % Prime, s, rec_id) = m % Prime
  BY <1>1, <1>6 DEF Recovered
<1> HIDE DEF q
<1>8. n \in Int /\ Same(n, -msg) /\ -msg \in Int
  BY NegFacts
<1>9. v \in Int /\ Same(x * v, 1)
  BY <1>1, NotZero, SameInverse
<1> DEFINE t == msg + pk * x
           a == pk * x
           c == x * v
<1>10. e \in Int /\ t \in Int /\ a \in Int /\ Same(e, t) /\ t + (-msg) = a
  BY <1>1
<1> HIDE DEF n, v, e
<1> HIDE DEF t
<1>11. Same(e + n, t + (-msg)) /\ e + n \in Int
  BY <1>8, <1>10, SamePlus
<1>12. Same(e + n, a)
  BY <1>10, <1>11
<1> DEFINE g == e + n
<1>13. g \in Int /\ Same(g, a) /\ Same(v, v)
  BY <1>9, <1>11, <1>12, SameSame
<1>14. c \in Int /\ v * a = pk * c
  BY <1>1, <1>9
<1> HIDE DEF g, a
<1>15. Same(v * g, v * a) /\ v * g \in Int /\ v * a \in Int
  BY <1>9, <1>10, <1>13, SameTimes
<1>16. Same(c, 1) /\ Same(pk, pk) /\ 1 \in Int
  BY <1>1, <1>9, SameSame
<1> HIDE DEF c
<1>17. Same(pk * c, pk * 1) /\ pk * 1 = pk
  BY <1>1, <1>14, <1>16, SameTimes
<1>18. m \in Int /\ Same(m, v * a)
  BY <1>15 DEF g
<1> HIDE DEF m
<1>19. Same(v * a, pk)
  BY <1>14, <1>17
<1>20. Same(m, pk)
  BY <1>1, <1>15, <1>18, <1>19, SameChain
<1>21. m % Prime \in Scalar /\ m % Prime \in Int /\ Same(m % Prime, m)
  BY <1>18, Reduced, SameSame
<1>22. Same(m % Prime, pk)
  BY <1>1, <1>18, <1>20, <1>21, SameChain
<1> QED BY <1>7, <1>21, <1>22, SameScalar DEF Same

\* Phase 4 of broadcasts that add up: a signature from which the key is found, or a draw that
\* no signature comes from.
NoSignature(msg, pk, x, res) ==
  \/ res = Aborted("ZeroDenominator")
  \/ /\ res = Aborted("SignatureVerificationFailed")
     /\ x \in 1..(Prime - 1) => (msg + pk * x) % Prime = 0
Signature(msg, pk, x, normalize, res) ==
  /\ res.signed
  /\ normalize => ~IsHigh(res.s)
  /\ Recovered(msg, x % Prime, res.s, res.rec_id) = pk

LEMMA Phase4Facts ==
  ASSUME NEW msg \in Nat, NEW pk \in Scalar, NEW R \in Scalar, R # 0, NEW M \in Int,
         NEW x, x = XCoordinate(R), NEW b, NEW normalize \in BOOLEAN,
         NEW U \in Scalar, U = SumOfU(b), NEW W \in Scalar, W = SumOfW(b),
         Same(U, R * M), Same(W, (msg + (x % Prime) * pk) * M),
         NEW res, res = Phase4(msg, pk, x, b, normalize)
  PROVE  NoSignature(msg, pk, x, res) \/ Signature(msg, pk, x, normalize, res)
<1> DEFINE s == (W * Invert(U)) % Prime
           high == normalize /\ IsHigh(s)
           low == IF high THEN Neg(s) ELSE s
           verified == VerifyEcdsa(msg, pk, x, low)
<1>1. res = IF U = 0 THEN Aborted("ZeroDenominator")
            ELSE IF ~verified THEN Aborted("SignatureVerificationFailed")
            ELSE [signed |-> TRUE, s |-> low, rec_id |-> RecoveryId(msg, pk, x, low)]
  BY DEF Phase4, SumOfU, SumOfW
<1> SUFFICES ASSUME U # 0 PROVE NoSignature(msg, pk, x, res) \/ Signature(msg, pk, x, normalize, res)
  BY <1>1 DEF NoSignature
<1> HIDE DEF verified
<1>2. CASE x \notin 1..(Prime - 1)
  <2>1. ~verified
    BY <1>2 DEF verified, VerifyEcdsa
  <2> QED BY <1>1, <1>2, <2>1 DEF NoSignature
<1>3. CASE x \in 1..(Prime - 1)
  <2> DEFINE t == msg + pk * x
             t1 == msg + (x % Prime) * pk
  <2>1. /\ x \in Int /\ x % Prime = x /\ pk \in Int /\ R \in Int /\ msg \in Int
        /\ \A a \in Scalar : a \in Int
    BY <1>3, RangeIsScalar
  <2>2. t1 = t /\ t \in Int
    BY <2>1
  <2>3. Same(W, t * M)
    <3>1. Same(W, t1 * M)
      OBVIOUS
    <3> HIDE DEF t, t1
    <3> QED BY <2>2, <3>1
  <2> HIDE DEF t1
  <2>4. s \in Scalar /\ Same(s * R, t)
    <3> HIDE DEF t
    <3> QED BY <2>1, <2>2, <2>3, Quotient
  <2>5. high \in BOOLEAN
    OBVIOUS
  <2> HIDE DEF s
  <2>6. CASE s = 0
    <3>1. ~high
      BY <2>6, PrimeFact DEF IsHigh
    <3>2. ~verified
      BY <2>6, <3>1 DEF verified, VerifyEcdsa
    <3>3. t % Prime = 0
      <4>1. s * R = 0 /\ 0 \in Int
        BY <2>1, <2>6
      <4> HIDE DEF t
      <4>2. Same(0, t)
        BY <2>4, <4>1
      <4>3. t % Prime = 0 % Prime
        BY <2>2, <4>1, <4>2, SameScalars
      <4> QED BY <4>3, ScalarFacts
    <3> QED BY <1>1, <3>2, <3>3 DEF NoSignature
  <2>7. CASE s # 0
    <3>1. /\ low \in 1..(Prime - 1)
          /\ high => low = Prime - s
          /\ \E point \in Scalar \ {0} :
               XCoordinate(point) = XCoordinate(R) /\ Same(low * point, t)
      <4> DEFINE c == high
                 l == low
      <4>1. c \in BOOLEAN /\ l = IF c THEN Neg(s) ELSE s
        BY <2>5
      <4> HIDE DEF c, l, t
      <4>2. /\ l \in 1..(Prime - 1)
            /\ c => l = Prime - s
            /\ \E point \in Scalar \ {0} :
                 XCoordinate(point) = XCoordinate(R) /\ Same(l * point, t)
        BY <2>2, <2>4, <2>7, <4>1, EitherSign
      <4> QED BY <4>2 DEF c, l
    <3>2. PICK point \in Scalar \ {0} : XCoordinate(point) = x /\ Same(low * point, t)
      BY <3>1
    <3>3. normalize => ~IsHigh(low)
      <4>1. Prime \in Int /\ s \in Int
        BY <2>1, <2>4, PrimeFact
      <4>2. ASSUME normalize, IsHigh(s) PROVE ~IsHigh(low)
        <5>1. low = Prime - s /\ 2 * s > Prime
          BY <3>1, <4>2 DEF IsHigh
        <5> HIDE DEF low
        <5>2. ~(2 * low > Prime)
          BY <4>1, <5>1
        <5> QED BY <5>2 DEF IsHigh
      <4>3. ASSUME normalize, ~IsHigh(s) PROVE ~IsHigh(low)
        BY <4>3
      <4> QED BY <4>2, <4>3
    <3>4. low \in 1..(Prime - 1) /\ low \in Int
      BY <3>1
    <3> HIDE DEF low, high
    <3>5. SignaturePoint(msg, pk, x, low) = point
      BY <2>1, <3>2, <3>4, PointOfSignature
    <3>6. verified
      BY <1>3, <2>1, <3>2, <3>4, <3>5 DEF verified, VerifyEcdsa
    <3> DEFINE rec_id == RecoveryId(msg, pk, x, low)
    <3>7. rec_id = IF YIsOdd(point) THEN 1 ELSE 0
      BY <2>1, <3>5 DEF RecoveryId
    <3>8. res.signed /\ res.s = low /\ res.rec_id = rec_id
      BY <1>1, <3>6
    <3> HIDE DEF rec_id
    <3>9. Recovered(msg, x % Prime, low, rec_id) = pk
      BY <1>3, <2>1, <3>2, <3>4, <3>7, KeyRecovered
    <3> QED BY <3>3, <3>8, <3>9 DEF Signature
  <2> QED BY <2>6, <2>7
<1> QED BY <1>2, <1>3

\* How a signature ends, in every state.
LEMMA SignedFacts ==
  ASSUME HashesAreNumbers, KInv, NEW S \in SUBSET Party, Cardinality(S) = Threshold,
         NEW msg \in Message, NEW draw \in Draw, NEW normalize \in BOOLEAN,
         NEW res, res = Signed(S, msg, draw, normalize), NEW x, x = XCoordinate(InstancePoint(S, draw))
  PROVE  IF \A p, q \in S : where[p] = where[q]
         THEN \/ res = Aborted("PolynomialInconsistency") /\ InstancePoint(S, draw) = 0
              \/ \A p \in S : \/ NoSignature(msg, party[p].pk, x, res)
                              \/ Signature(msg, party[p].pk, x, normalize, res)
         ELSE res = Aborted("RootMismatch")
<1> DEFINE p0 == CHOOSE i \in S : \A q \in S : i <= q
           R == InstancePoint(S, draw)
           pk == party[p0].pk
           b == [q \in S |-> Broadcast(q, S, msg, draw, x % Prime)]
           ks == [q \in S |-> KeyShare(q, S)]
           mask == [q \in S |-> draw[q].inversion_mask]
<1>1. res = IF ~RootsAgree(S) THEN Aborted("RootMismatch")
            ELSE IF Total(ks) # pk \/ R = 0 THEN Aborted("PolynomialInconsistency")
            ELSE Phase4(msg, pk, x, b, normalize)
  BY DEF Signed
<1>2. S # {} /\ p0 \in S /\ p0 \in Party
  <2>1. S # {}
    BY NotEmpty, FieldAssumption
  <2>2. \E i \in S : \A q \in S : i <= q
    BY <2>1, Ends
  <2> QED BY <2>1, <2>2
<1>3. msg \in Nat /\ msg \in Int
  BY KeysAssumption
<1> HIDE DEF p0
<1>4. CASE ~ \A p, q \in S : where[p] = where[q]
  <2>1. ~RootsAgree(S)
    BY <1>4, RootTellsPath
  <2> QED BY <1>1, <1>4, <2>1
<1>5. CASE \A p, q \in S : where[p] = where[q]
  <2>1. RootsAgree(S) /\ \A p \in S : party[p].pk = pk
    BY <1>2, <1>5, RootTellsPath, OneKeyOfSigners
  <2>2. Total(ks) = pk
    <3>1. DOMAIN ks = S /\ \A q \in S : ks[q] = KeyShare(q, S)
      OBVIOUS
    <3> HIDE DEF ks
    <3> QED BY <1>2, <1>5, <3>1, KeySharesAddUp
  <2>3. CASE R = 0
    BY <1>1, <1>5, <2>1, <2>3
  <2>4. CASE R # 0
    <3>1. res = Phase4(msg, pk, x, b, normalize)
      BY <1>1, <2>1, <2>2, <2>4
    <3> DEFINE rx == x % Prime
               U == SumOfU(b)
               W == SumOfW(b)
               M == Sum(mask, S)
    <3>2. Broadcasts(b, S, msg, draw, rx)
      BY DEF Broadcasts
    <3>3. Masks(mask, S, draw)
      BY DEF Masks
    <3>4. R \in Scalar
      <4> DEFINE ik == [p \in S |-> draw[p].instance_key]
      <4>1. IsFiniteSet(S) /\ DOMAIN ik = S /\ \A p \in S : ik[p] \in Int
        BY PartyFinite, DrawFacts
      <4>2. R = Total(ik)
        BY DEF InstancePoint
      <4> HIDE DEF ik, R
      <4> QED BY <4>1, <4>2, TotalFacts
    <3>5. x \in Int /\ rx \in Int
      <4>1. x \in 0..(2 * Prime - 1)
        BY <3>4, KeysAssumption
      <4>2. x \in Int
        BY <4>1
      <4> QED BY <4>2, Reduced
    <3> HIDE DEF b, mask, rx
    <3>6. /\ U \in Scalar /\ W \in Scalar /\ M \in Int
          /\ Same(U, R * M)
          /\ Same(W, (msg + rx * pk) * M)
      BY <1>2, <1>3, <1>5, <3>2, <3>3, <3>5, BroadcastsAddUp
    <3>7. pk \in Scalar
      BY <1>2, ObjectFacts
    <3> HIDE DEF U, W, M, R, pk
    <3>8. NoSignature(msg, pk, x, res) \/ Signature(msg, pk, x, normalize, res)
      BY <1>3, <2>4, <3>1, <3>4, <3>6, <3>7, Phase4Facts DEF U, W, R, rx
    <3> QED BY <1>5, <2>1, <3>8
  <2> QED BY <2>3, <2>4
<1> QED BY <1>4, <1>5

\* What both theorems say of the state in which a signature was made; none comes after.
SignatureEnds ==
  outcome # None =>
    \E S \in SUBSET Party :
      LET res == outcome.result
          x == XCoordinate(outcome.point)
      IN  /\ outcome.signers = S
          /\ IF \A p, q \in S : where[p] = where[q]
             THEN \/ res = Aborted("PolynomialInconsistency") /\ outcome.point = 0
                  \/ \A p \in S :
                       \/ NoSignature(outcome.message, party[p].pk, x, res)
                       \/ Signature(outcome.message, party[p].pk, x, outcome.normalize, res)
             ELSE res = Aborted("RootMismatch")
          /\ S # {}

LEMMA SignatureEndsInv ==
  ASSUME HashesAreNumbers, KInv, SignatureEnds, [Next]_vars
  PROVE  SignatureEnds'
<1>1. CASE UNCHANGED vars
  BY <1>1 DEF SignatureEnds, vars, NoSignature, Signature
<1>2. ASSUME outcome = None, outcome' = outcome PROVE SignatureEnds'
  BY <1>2 DEF SignatureEnds
<1>3. ASSUME NEW S \in SUBSET Party, NEW msg \in Message, NEW draw \in Draw,
             NEW normalize \in BOOLEAN, Sign(S, msg, draw, normalize)
      PROVE  SignatureEnds'
  <2> DEFINE R == InstancePoint(S, draw)
             res == Signed(S, msg, draw, normalize)
             x == XCoordinate(R)
             end == [signers |-> S, message |-> msg, point |-> R,
                     normalize |-> normalize, result |-> res]
  <2>1. Cardinality(S) = Threshold /\ outcome' = end /\ party' = party /\ where' = where
    BY <1>3 DEF Sign
  <2>2. S # {}
    BY <2>1, NotEmpty, FieldAssumption
  <2>3. IF \A p, q \in S : where[p] = where[q]
        THEN \/ res = Aborted("PolynomialInconsistency") /\ R = 0
             \/ \A p \in S : \/ NoSignature(msg, party[p].pk, x, res)
                             \/ Signature(msg, party[p].pk, x, normalize, res)
        ELSE res = Aborted("RootMismatch")
    BY <2>1, SignedFacts
  <2>4. /\ end.signers = S /\ end.message = msg /\ end.point = R
        /\ end.normalize = normalize /\ end.result = res
    OBVIOUS
  <2> HIDE DEF R, res, end
  <2>5. /\ outcome'.signers = S /\ outcome'.message = msg /\ outcome'.point = R
        /\ outcome'.normalize = normalize /\ outcome'.result = res
    BY <2>1, <2>4
  <2>6. IF \A p, q \in S : where'[p] = where'[q]
        THEN \/ outcome'.result = Aborted("PolynomialInconsistency") /\ outcome'.point = 0
             \/ \A p \in S :
                  \/ NoSignature(outcome'.message, party'[p].pk, XCoordinate(outcome'.point),
                                 outcome'.result)
                  \/ Signature(outcome'.message, party'[p].pk, XCoordinate(outcome'.point),
                               outcome'.normalize, outcome'.result)
        ELSE outcome'.result = Aborted("RootMismatch")
    BY <2>1, <2>3, <2>5
  <2> QED BY <2>2, <2>5, <2>6 DEF SignatureEnds, NoSignature, Signature
<1>4. ASSUME outcome = None, NEW p \in Party, NEW n \in ChildNumber, PartyDerivesChild(p, n)
      PROVE  SignatureEnds'
  BY <1>2, <1>4 DEF PartyDerivesChild
<1>5. ASSUME outcome = None, NEW p \in Party, NEW path \in Path, PartyDerivesFromPath(p, path)
      PROVE  SignatureEnds'
  BY <1>2, <1>5 DEF PartyDerivesFromPath
<1>6. ASSUME outcome = None, NEW n \in ChildNumber, PackageDerives(n) PROVE SignatureEnds'
  BY <1>2, <1>6 DEF PackageDerives
<1>7. ASSUME outcome = None, NEW poly \in ZeroPolynomial, RefreshEverywhere(poly)
      PROVE  SignatureEnds'
  BY <1>2, <1>7 DEF RefreshEverywhere
<1> QED BY <1>1, <1>3, <1>4, <1>5, <1>6, <1>7 DEF Next

LEMMA SignatureEndsAlways ==
  ASSUME HashesAreNumbers
  PROVE  Spec => [](KInv /\ SignatureEnds)
<1>1. Init => KInv /\ SignatureEnds
  BY KInvInit DEF Init, SignatureEnds
<1>2. KInv /\ SignatureEnds /\ [Next]_vars => KInv' /\ SignatureEnds'
  BY KInvInductive, SignatureEndsInv
<1> QED BY <1>1, <1>2, PTL DEF Spec

\* Threshold signers at one place of the key tree end with a signature under its key, but
\* for draws no signature comes from, and others with RootMismatch (zero_shares.rs 105-130,
\* signing.rs 494-521, 946-961, 1001-1044, 1105-1181).
THEOREM SignersOfOneKeySign ==
  ASSUME HashesAreNumbers
  PROVE  Spec => []OneKeySigns
<1>1. KInv /\ SignatureEnds => OneKeySigns
  <2> SUFFICES ASSUME KInv, SignatureEnds, outcome # None PROVE OneKeySigns
    BY DEF OneKeySigns
  <2> DEFINE S == outcome.signers
             res == outcome.result
             x == XCoordinate(outcome.point)
             m == outcome.message
             SamePlace(T) == \A p, q \in T : where[p] = where[q]
  <2>1. /\ S \in SUBSET Party /\ S # {}
        /\ IF SamePlace(S)
           THEN \/ res = Aborted("PolynomialInconsistency") /\ outcome.point = 0
                \/ \A p \in S : \/ NoSignature(m, party[p].pk, x, res)
                                \/ Signature(m, party[p].pk, x, outcome.normalize, res)
           ELSE res = Aborted("RootMismatch")
    BY DEF SignatureEnds
  <2> DEFINE Unlucky == \/ x \notin 1..(Prime - 1)
                        \/ \E p \in S : (m + party[p].pk * x) % Prime = 0
             Explained == \/ ~SamePlace(S) /\ res.reason = "RootMismatch"
                          \/ SamePlace(S) /\ res.reason = "PolynomialInconsistency" /\ outcome.point = 0
                          \/ SamePlace(S) /\ res.reason = "ZeroDenominator"
                          \/ SamePlace(S) /\ res.reason = "SignatureVerificationFailed" /\ Unlucky
  <2> SUFFICES (res.signed => SamePlace(S)) /\ (~res.signed => Explained)
    BY DEF OneKeySigns
  <2>2. \A reason : Aborted(reason).signed = FALSE /\ Aborted(reason).reason = reason
    BY DEF Aborted
  <2> HIDE DEF S, res, x, m
  <2>3. CASE ~SamePlace(S)
    BY <2>1, <2>2, <2>3
  <2>4. CASE SamePlace(S) /\ res = Aborted("PolynomialInconsistency") /\ outcome.point = 0
    BY <2>2, <2>4
  <2>5. ASSUME SamePlace(S), NEW p \in S, NoSignature(m, party[p].pk, x, res)
        PROVE  ~res.signed /\ Explained
    BY <2>2, <2>5 DEF NoSignature
  <2>6. ASSUME SamePlace(S), NEW p \in S, Signature(m, party[p].pk, x, outcome.normalize, res)
        PROVE  res.signed
    BY <2>6 DEF Signature
  <2> HIDE DEF Explained, SamePlace
  <2> QED BY <2>1, <2>3, <2>4, <2>5, <2>6
<1>2. Spec => [](KInv /\ SignatureEnds)
  BY SignatureEndsAlways
<1> QED BY <1>1, <1>2, PTL

\* From every signature and its recovery id the public key is found, and a normalized s
\* is low (signing.rs 1026-1077).
THEOREM RecoveryIdFindsTheKey ==
  ASSUME HashesAreNumbers
  PROVE  Spec => []RecoveryFindsTheKey
<1>1. KInv /\ SignatureEnds => RecoveryFindsTheKey
  <2> SUFFICES ASSUME KInv, SignatureEnds, outcome # None, outcome.result.signed,
                      NEW p \in outcome.signers
               PROVE  /\ outcome.normalize => ~IsHigh(outcome.result.s)
                      /\ Recovered(outcome.message, XCoordinate(outcome.point) % Prime,
                                   outcome.result.s, outcome.result.rec_id) = party[p].pk
    <3> SUFFICES ASSUME KInv, SignatureEnds, outcome # None, outcome.result.signed
                 PROVE  RecoveryFindsTheKey
      BY DEF RecoveryFindsTheKey
    <3>1. outcome.signers # {}
      BY DEF SignatureEnds
    <3> QED BY <3>1 DEF RecoveryFindsTheKey
  <2>1. \A reason : Aborted(reason).signed = FALSE
    BY DEF Aborted
  <2>2. Signature(outcome.message, party[p].pk, XCoordinate(outcome.point), outcome.normalize,
                  outcome.result)
    BY <2>1 DEF SignatureEnds, NoSignature
  <2> QED BY <2>2 DEF Signature
<1>2. Spec => [](KInv /\ SignatureEnds)
  BY SignatureEndsAlways
<1> QED BY <1>1, <1>2, PTL
=============================================================================
