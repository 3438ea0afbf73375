----------------------------- MODULE Dkg_proofs -----------------------------
(***************************************************************************)
(* Theorems about Dkg, for every number of parties, threshold, field and   *)
(* set of faulty parties.  What interpolation yields is in Shamir_proofs.  *)
(***************************************************************************)
EXTENDS Dkg, Shamir_proofs

\* The variables are functions on the parties.
Shape ==
  /\ stage \in [Party -> Stage]
  /\ point = [p \in Party |-> point[p]]
  /\ result = [p \in Party |-> result[p]]

\* Who revealed its proof has run phase 2, and so has a share that phase 2 will not
\* replace.
SendersBegan == \A q \in sent3 : q \in Party /\ stage[q] # "new"

\* What a finished party was shown of an honest one: the share it keeps.
ViewsAuthentic ==
  \A p \in Finished : \A q \in Honest :
    /\ q \in sent3
    /\ result[p].verifying_shares[q] = point[q]

\* Messages go out in order; what is kept is of its type.
InOrder ==
  /\ dealt \in [Party -> SUBSET Dealings]
  /\ point \in [Party -> Scalar \cup {None}]
  /\ sent2 \subseteq Honest /\ sent3 \subseteq sent2
  /\ \A p \in Honest : stage[p] \in {"phase2", "phase3"} => p \in sent2

\* A result passed the comparison of the windows.
ResultsChecked ==
  \A p \in Finished :
    /\ result[p].verifying_shares \in [Party -> Scalar]
    /\ OnePolynomial(result[p].verifying_shares)
    /\ result[p].pk = PublicKey(result[p].verifying_shares)
    /\ result[p].pk # 0

IInv == Shape /\ SendersBegan /\ ViewsAuthentic /\ InOrder /\ ResultsChecked

-----------------------------------------------------------------------------
\* What phase 4 accepts has a committed point of every party, and an honest party's is its
\* own.
LEMMA AcceptedViews ==
  ASSUME NEW p \in Honest, NEW in \in Inputs(p), Accepts(p, in)
  PROVE  \A q \in Honest : /\ q \in sent3
                           /\ in.points[q] = point[q]
<1>1. in.points \in Points /\ in.codes \in Codes
  BY DEF Inputs
<1>2. DOMAIN in.codes = Party
  BY DEF Accepts
<1>3. DOMAIN in.codes = Revealed
  BY <1>1 DEF Codes
<1>4. Honest \subseteq sent3
  BY <1>2, <1>3 DEF Revealed, Honest
<1>5. \A q \in sent3 : in.points[q] = point[q]
  BY <1>1 DEF Points
<1> QED BY <1>4, <1>5

LEMMA AcceptedPoints ==
  ASSUME NEW p \in Honest, NEW in \in Inputs(p), Accepts(p, in)
  PROVE  /\ in.points \in [Party -> Scalar]
         /\ OnePolynomial(in.points)
         /\ PublicKey(in.points) # 0
<1>1. in.points \in Points /\ in.codes \in Codes
  BY DEF Inputs
<1>2. DOMAIN in.codes = Party /\ DOMAIN in.codes = Revealed
  BY <1>1 DEF Accepts, Codes
<1>3. in.points \in [Party -> Scalar]
  BY <1>1, <1>2 DEF Points
<1> QED BY <1>3 DEF Accepts

\* Only phase 2 writes a share, and only that of a party which had none.
LEMMA SharesStay ==
  ASSUME IInv, [Next]_vars
  PROVE  /\ sent3 \subseteq sent3'
         /\ \A q \in sent3 : point'[q] = point[q] /\ stage'[q] # "new"
<1> USE DEF IInv, Shape, SendersBegan
<1>1. ASSUME NEW p \in Honest, NEW fragments, Phase2(p, fragments)
      PROVE  /\ sent3 \subseteq sent3'
             /\ \A q \in sent3 : point'[q] = point[q] /\ stage'[q] # "new"
  BY <1>1 DEF Phase2, Stage
<1>2. ASSUME NEW p \in Honest,
             \/ \E poly \in Dealings : Phase1(p, poly)
             \/ Phase3(p)
             \/ \E in \in Inputs(p) : Phase4(p, in) \/ Phase4Rejects(p, in)
             \/ Phase4OutOfOrder(p)
      PROVE  /\ sent3 \subseteq sent3'
             /\ \A q \in sent3 : point'[q] = point[q] /\ stage'[q] # "new"
  BY <1>2 DEF Phase1, Phase3, Phase4, Phase4Rejects, Phase4OutOfOrder, Abort, Stage
<1> QED BY <1>1, <1>2 DEF Next, vars

LEMMA ShapeKept ==
  ASSUME Shape, [Next]_vars
  PROVE  Shape'
<1> USE DEF Shape
<1>1. ASSUME NEW p \in Honest, NEW fragments, Phase2(p, fragments)
      PROVE  Shape'
  <2> DEFINE v == SumFunction(fragments) % Prime
  <2>1. stage' = [stage EXCEPT ![p] = "phase2"] /\ point' = [point EXCEPT ![p] = v]
    BY <1>1 DEF Phase2
  <2> HIDE DEF v
  <2> QED BY <1>1, <2>1 DEF Phase2, Stage
<1>2. ASSUME NEW p \in Honest,
             \/ \E poly \in Dealings : Phase1(p, poly)
             \/ Phase3(p)
             \/ Phase4OutOfOrder(p)
      PROVE  Shape'
  BY <1>2 DEF Phase1, Phase3, Phase4OutOfOrder, Abort, Stage
<1>3. ASSUME NEW p \in Honest, NEW in \in Inputs(p), Phase4(p, in) \/ Phase4Rejects(p, in)
      PROVE  Shape'
  BY <1>3 DEF Phase4, Phase4Rejects, Abort, Stage
<1> QED BY <1>1, <1>2, <1>3 DEF Next, vars

LEMMA SendersBeganKept ==
  ASSUME IInv, [Next]_vars
  PROVE  SendersBegan'
<1>1. \A q \in sent3' : q \in sent3 \/ (q \in Party /\ stage'[q] # "new")
  BY DEF Next, Honest, IInv, Shape, Phase1, Phase2, Phase3, Phase4, Phase4Rejects,
         Phase4OutOfOrder, Abort, vars
<1> QED BY <1>1, SharesStay DEF SendersBegan, IInv

\* Who is finished was so before, with the same result, or runs phase 4 now.
LEMMA FinishedOnce ==
  ASSUME IInv, [Next]_vars, NEW p \in Finished'
  PROVE  \/ p \in Finished /\ result'[p] = result[p]
         \/ \E in \in Inputs(p) : Phase4(p, in)
<1>1. p \in Honest /\ p \in Party /\ stage'[p] = "done"
  BY DEF Finished, Honest
<1>2. ASSUME NEW r \in Honest,
             \/ \E poly \in Dealings : Phase1(r, poly)
             \/ \E fragments \in [Party -> Scalar] : Phase2(r, fragments)
             \/ Phase3(r)
             \/ Phase4OutOfOrder(r)
      PROVE  p \in Finished /\ result'[p] = result[p]
  BY <1>1, <1>2 DEF Finished, Honest, IInv, Shape, Phase1, Phase2, Phase3,
                    Phase4OutOfOrder, Abort
<1>3. ASSUME NEW r \in Honest, NEW in \in Inputs(r), Phase4Rejects(r, in)
      PROVE  p \in Finished /\ result'[p] = result[p]
  BY <1>1, <1>3 DEF Finished, Honest, IInv, Shape, Phase4Rejects, Abort
<1>4. ASSUME NEW r \in Honest, NEW in \in Inputs(r), Phase4(r, in), r # p
      PROVE  p \in Finished /\ result'[p] = result[p]
  BY <1>1, <1>4 DEF Finished, Honest, IInv, Shape, Phase4
<1>5. CASE UNCHANGED vars
  BY <1>1, <1>5 DEF Finished, vars
<1> QED BY <1>2, <1>3, <1>4, <1>5 DEF Next
LEMMA ViewsAuthenticKept ==
  ASSUME IInv, [Next]_vars
  PROVE  ViewsAuthentic'
<1> SUFFICES ASSUME NEW p \in Finished', NEW q \in Honest
             PROVE  /\ q \in sent3'
                    /\ result'[p].verifying_shares[q] = point'[q]
  BY DEF ViewsAuthentic
<1>1. CASE p \in Finished /\ result'[p] = result[p]
  BY <1>1, SharesStay DEF IInv, ViewsAuthentic
<1>2. ASSUME NEW in \in Inputs(p), Phase4(p, in)
      PROVE  /\ q \in sent3'
             /\ result'[p].verifying_shares[q] = point'[q]
  <2>1. p \in Honest /\ p \in Party
    BY DEF Finished, Honest
  <2>2. result'[p] = [pk |-> PublicKey(in.points), verifying_shares |-> in.points,
                      chain_code |-> in.codes]
    BY <1>2, <2>1 DEF Phase4, IInv, Shape
  <2>3. q \in sent3 /\ in.points[q] = point[q]
    BY <1>2, <2>1, AcceptedViews DEF Phase4
  <2> QED BY <1>2, <2>2, <2>3 DEF Phase4
<1> QED BY <1>1, <1>2, FinishedOnce

LEMMA InOrderKept ==
  ASSUME IInv, [Next]_vars
  PROVE  InOrder'
<1> USE DEF IInv, Shape, InOrder
<1>0. Honest \subseteq Party
  BY DEF Honest
<1>1. ASSUME NEW p \in Honest, NEW poly \in Dealings, Phase1(p, poly)
      PROVE  InOrder'
  BY <1>0, <1>1 DEF Phase1
<1>2. ASSUME NEW p \in Honest, NEW fragments \in [Party -> Scalar], Phase2(p, fragments)
      PROVE  InOrder'
  <2> DEFINE v == SumFunction(fragments) % Prime
  <2>1. v \in Scalar
    <3>1. \A q \in Party : fragments[q] \in Int
      BY PrimeFact DEF Scalar
    <3>2. Sum(fragments, Party) \in Int
      BY <3>1, PartyFinite, SumFacts
    <3> QED BY <3>2, Reduced DEF SumFunction, Sum
  <2>2. stage' = [stage EXCEPT ![p] = "phase2"] /\ point' = [point EXCEPT ![p] = v]
    BY <1>2 DEF Phase2
  <2> HIDE DEF v
  <2> QED BY <1>0, <1>2, <2>1, <2>2 DEF Phase2
<1>3. ASSUME NEW p \in Honest, Phase3(p)
      PROVE  InOrder'
  BY <1>0, <1>3 DEF Phase3
<1>4. ASSUME NEW p \in Honest, NEW in, Phase4(p, in) \/ Phase4Rejects(p, in)
      PROVE  InOrder'
  BY <1>0, <1>4 DEF Phase4, Phase4Rejects, Abort
<1>5. ASSUME NEW p \in Honest, Phase4OutOfOrder(p)
      PROVE  InOrder'
  BY <1>0, <1>5 DEF Phase4OutOfOrder, Abort
<1>6. CASE UNCHANGED vars
  BY <1>6 DEF vars
<1> QED BY <1>1, <1>2, <1>3, <1>4, <1>5, <1>6 DEF Next

LEMMA ResultsCheckedKept ==
  ASSUME IInv, [Next]_vars
  PROVE  ResultsChecked'
<1> SUFFICES ASSUME NEW p \in Finished'
             PROVE  /\ result'[p].verifying_shares \in [Party -> Scalar]
                    /\ OnePolynomial(result'[p].verifying_shares)
                    /\ result'[p].pk = PublicKey(result'[p].verifying_shares)
                    /\ result'[p].pk # 0
  BY DEF ResultsChecked
<1>1. CASE p \in Finished /\ result'[p] = result[p]
  BY <1>1 DEF IInv, ResultsChecked
<1>2. ASSUME NEW in \in Inputs(p), Phase4(p, in)
      PROVE  /\ result'[p].verifying_shares \in [Party -> Scalar]
             /\ OnePolynomial(result'[p].verifying_shares)
             /\ result'[p].pk = PublicKey(result'[p].verifying_shares)
             /\ result'[p].pk # 0
  <2>1. p \in Honest /\ p \in Party
    BY DEF Finished, Honest
  <2>2. result'[p] = [pk |-> PublicKey(in.points), verifying_shares |-> in.points,
                      chain_code |-> in.codes]
    BY <1>2, <2>1 DEF Phase4, IInv, Shape
  <2>3. Accepts(p, in)
    BY <1>2 DEF Phase4
  <2> QED BY <2>1, <2>2, <2>3, AcceptedPoints
<1> QED BY <1>1, <1>2, FinishedOnce

LEMMA Inductive == Spec => []IInv
<1>1. Init => IInv
  BY DEF Init, IInv, Shape, SendersBegan, ViewsAuthentic, InOrder, ResultsChecked, Finished,
         Honest, Stage
<1>2. IInv /\ [Next]_vars => IInv'
  BY ShapeKept, SendersBeganKept, ViewsAuthenticKept, InOrderKept, ResultsCheckedKept DEF IInv
<1> QED BY <1>1, <1>2, PTL DEF Spec

-----------------------------------------------------------------------------
\* Every reachable state is well typed; in particular a finished party has a public key
\* and a verifying share of every party.
THEOREM TypeCorrect == Spec => []TypeOK
<1>1. IInv => TypeOK
  <2> SUFFICES ASSUME IInv PROVE TypeOK
    OBVIOUS
  <2>1. \A p \in Finished : result[p].pk \in Scalar
    <3> SUFFICES ASSUME NEW p \in Finished PROVE result[p].pk \in Scalar
      OBVIOUS
    <3> DEFINE f == result[p].verifying_shares
    <3>1. f \in [Party -> Scalar] /\ OnePolynomial(f) /\ result[p].pk = PublicKey(f) /\ PublicKey(f) # 0
      BY DEF IInv, ResultsChecked
    <3> HIDE DEF f
    <3>2. \A j \in Party : f[j] \in Int
      BY <3>1, PrimeFact DEF Scalar
    <3> QED BY <3>1, <3>2, PublicKeyType
  <2> QED BY <2>1 DEF IInv, Shape, InOrder, ResultsChecked, TypeOK
<1> QED BY <1>1, Inductive, PTL

\* The share a finished party holds of an honest one is that party's, for ever: phase 2 runs
\* once, the broadcast proof is of what it kept, and phase 4 wants everybody's messages.
THEOREM ViewsMatchHolds == Spec => []ViewsMatch
<1>1. IInv => ViewsMatch
  BY DEF IInv, SendersBegan, ViewsAuthentic, ViewsMatch
<1> QED BY <1>1, Inductive, PTL

\* Whatever faulty parties told whom: when Threshold parties are honest, all that finish
\* have one public key and the same verifying shares.
THEOREM KeyAgreementHolds == Spec => []KeyAgreement
<1>1. IInv => KeyAgreement
  <2> SUFFICES ASSUME IInv, Cardinality(Honest) >= Threshold, NEW p \in Finished, NEW q \in Finished
               PROVE  /\ result[p].pk = result[q].pk
                      /\ result[p].verifying_shares = result[q].verifying_shares
    BY DEF KeyAgreement
  <2> DEFINE f == result[p].verifying_shares
             g == result[q].verifying_shares
  <2>1. /\ f \in [Party -> Scalar] /\ OnePolynomial(f)
        /\ result[p].pk = PublicKey(f) /\ PublicKey(f) # 0
        /\ g \in [Party -> Scalar] /\ OnePolynomial(g)
        /\ result[q].pk = PublicKey(g) /\ PublicKey(g) # 0
    BY DEF IInv, ResultsChecked
  <2>2. Honest \in SUBSET Party /\ \A h \in Honest : f[h] = g[h]
    BY DEF Honest, IInv, ViewsAuthentic
  <2> HIDE DEF f, g
  <2>3. PublicKey(f) = PublicKey(g) /\ f = g
    BY <2>1, <2>2, ThresholdPointsDetermineAll
  <2> QED BY <2>1, <2>3 DEF f, g
<1> QED BY <1>1, Inductive, PTL

\* Any Threshold honest parties that finished hold, between them, the secret of the key
\* each of them stored.
THEOREM AnyThresholdCanSign == Spec => []AnyThresholdSigns
<1>1. IInv => AnyThresholdSigns
  <2> SUFFICES ASSUME IInv, NEW S \in kSubset(Threshold, Finished), NEW p \in S
               PROVE  AtZero(point, S) = result[p].pk
    BY DEF AnyThresholdSigns
  <2>1. S \in SUBSET Finished /\ Cardinality(S) = Threshold /\ S \in SUBSET Party /\ p \in Finished
        /\ S \subseteq Honest
    BY DEF kSubset, Finished, Honest
  <2> DEFINE f == result[p].verifying_shares
  <2>2. /\ f \in [Party -> Scalar] /\ OnePolynomial(f)
        /\ result[p].pk = PublicKey(f) /\ PublicKey(f) # 0
    BY <2>1 DEF IInv, ResultsChecked
  <2>3. \A h \in S : f[h] = point[h]
    BY <2>1 DEF IInv, ViewsAuthentic
  <2>4. \A h \in Party : f[h] \in Int
    BY <2>2, PrimeFact DEF Scalar
  <2> HIDE DEF f
  <2>5. AtZero(f, S) = PublicKey(f)
    BY <2>1, <2>2, <2>4, WindowsPinThePolynomial
  <2>6. AtZero(f, S) = AtZero(point, S)
    BY <2>1, <2>3, SamePoints
  <2> QED BY <2>2, <2>5, <2>6
<1> QED BY <1>1, Inductive, PTL
=============================================================================
