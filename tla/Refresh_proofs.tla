--------------------------- MODULE Refresh_proofs ---------------------------
(***************************************************************************)
(* Refreshes that are begun from a common epoch, over a relay that keeps   *)
(* the messages of an attempt apart, never leave two honest parties with   *)
(* objects that carry one session id and do not fit each other: for any    *)
(* number of parties, honest or not, and of attempts, complete or fast,    *)
(* alone and while the parties sign.                                       *)
(*                                                                         *)
(* EpochsMatch is not inductive: it says nothing of a party that is one    *)
(* attempt behind.  What makes it so is that two parties in one attempt    *)
(* began from one epoch (Together), and that the object of a party that    *)
(* finished an attempt is the object of any party still in it, extended by *)
(* that attempt (Behind), over a correction all honest parties committed   *)
(* to (Done).                                                              *)
(***************************************************************************)
EXTENDS RefreshSigning, TLAPS

\* A party opens in phase 3 only what it committed to in phase 2 of the same attempt.
InOrder ==
  \A p \in Honest : \A a \in Attempt : a \in opened[p] => committed[p][a] # None

\* The attempt under way was begun, and is not the one the object comes from.
Active ==
  \A p \in Honest :
    /\ attempt[p] # None => attempt[p] \in begun[p] /\ party[p].session_id # attempt[p]
    /\ party[p].session_id \in Attempt => party[p].session_id \in begun[p]

\* All honest parties committed to the correction of a finished attempt and opened it.
Done ==
  \A p, q \in Honest : \A a \in Attempt :
    party[p].session_id = a =>
      /\ committed[q][a] = committed[p][a]
      /\ committed[q][a] # None
      /\ a \in opened[q]
      /\ \A r \in Party : None \notin committed[q][a][r]

Together ==
  \A p, q \in Honest :
    attempt[p] # None /\ attempt[p] = attempt[q] =>
      party[p].session_id = party[q].session_id

\* The object of q is that of p after attempt a.
Extends(q, p, a) ==
  /\ party[q].share = Append(party[p].share, committed[q][a])
  /\ party[q].zero[p] = Pair(q, a, p, a)
  /\ party[q].ot[p] = IF a \in Fast THEN Append(party[p].ot[q], Pair(q, a, p, a))
                      ELSE <<Pair(q, a, p, a)>>
Behind ==
  \A p, q \in Honest :
    attempt[p] # None /\ party[q].session_id = attempt[p] => Extends(q, p, attempt[p])

IInv == TypeOK /\ InOrder /\ Active /\ Done /\ Together /\ Behind /\ EpochsMatch

-----------------------------------------------------------------------------
LEMMA InitInv == Init => IInv
<1> SUFFICES ASSUME Init PROVE IInv
  OBVIOUS
<1>1. TypeOK
  BY RefreshAssumption DEF Init, TypeOK
<1>2. InOrder /\ Active /\ Done /\ Together /\ Behind
  BY RefreshAssumption DEF Init, InOrder, Active, Done, Together, Behind, Honest
<1>3. EpochsMatch
  BY RefreshAssumption DEF Init, EpochsMatch, Matches, Honest
<1> QED BY <1>1, <1>2, <1>3 DEF IInv

\* A polynomial is dealt from a common epoch: whoever is in the attempt is of that epoch,
\* and nobody has finished it, or this party would have begun it before.
LEMMA Phase1Inv ==
  ASSUME Coordinated, IInv, NEW p \in Honest, NEW a \in Attempt, Phase1(p, a)
  PROVE  IInv'
<1> USE DEF IInv, Honest
<1>1. SameEpoch /\ a \notin begun[p] /\ UNCHANGED <<party, committed, opened>>
  BY DEF Phase1, MayBegin
<1>2. /\ attempt' = [attempt EXCEPT ![p] = a]
      /\ begun' = [begun EXCEPT ![p] = @ \cup {a}]
  BY DEF Phase1
<1>3. TypeOK'
  BY <1>1, <1>2 DEF TypeOK
<1>4. /\ attempt'[p] = a /\ begun'[p] = begun[p] \cup {a}
      /\ \A q \in Party \ {p} : attempt'[q] = attempt[q] /\ begun'[q] = begun[q]
  BY <1>2 DEF TypeOK
<1>5. \A q \in Honest : party[q].session_id # a
  BY <1>1 DEF Active, SameEpoch
<1>6. InOrder' /\ Done' /\ EpochsMatch'
  BY <1>1 DEF InOrder, Done, EpochsMatch, Matches
<1>7. Active'
  BY <1>1, <1>4, <1>5 DEF Active
<1>8. Together'
  BY <1>1, <1>4 DEF Together, SameEpoch
<1>9. Behind'
  BY <1>1, <1>4, <1>5 DEF Behind, Extends
<1> QED BY <1>3, <1>6, <1>7, <1>8, <1>9

LEMMA Phase2Inv ==
  ASSUME IInv, NEW p \in Honest, NEW f \in Fragments(p), Phase2(p, f)
  PROVE  IInv'
<1> USE DEF IInv, Honest
<1> DEFINE a == attempt[p]
<1>1. /\ a \in Attempt /\ committed[p][a] = None
      /\ committed' = [committed EXCEPT ![p][a] = f]
      /\ UNCHANGED <<party, begun, attempt, opened>>
  BY DEF Phase2, TypeOK, Mine
<1>2. f \in Correction
  BY DEF Fragments
<1>3. TypeOK'
  BY <1>1, <1>2 DEF TypeOK
\* What was committed stays, and only what was not is.
<1>4. \A q \in Party : \A b \in Attempt :
        committed[q][b] # None => committed'[q][b] = committed[q][b]
  BY <1>1 DEF TypeOK
<1>5. committed'[p][a] # None
  BY <1>1, <1>2, RefreshAssumption DEF TypeOK
<1>6. InOrder'
  BY <1>1, <1>4 DEF InOrder
<1>7. Active' /\ Together' /\ EpochsMatch'
  BY <1>1 DEF Active, Together, EpochsMatch, Matches
<1>8. Done'
  BY <1>1, <1>4 DEF Done
<1>9. Behind'
  <2> SUFFICES ASSUME NEW q \in Honest, NEW r \in Honest,
                      attempt[q] # None, party[r].session_id = attempt[q]
               PROVE  Extends(r, q, attempt[q])'
    BY <1>1 DEF Behind
  <2>1. attempt[q] \in Attempt
    BY DEF TypeOK
  <2>2. committed'[r][attempt[q]] = committed[r][attempt[q]]
    BY <1>4, <2>1 DEF Done
  <2>3. Extends(r, q, attempt[q])
    BY DEF Behind
  <2> QED BY <1>1, <2>2, <2>3 DEF Extends
<1> QED BY <1>3, <1>6, <1>7, <1>8, <1>9

LEMMA Phase3Inv ==
  ASSUME IInv, NEW p \in Honest, Phase3(p)
  PROVE  IInv'
<1> USE DEF IInv, Honest
<1>1. /\ attempt[p] \in Attempt /\ committed[p][attempt[p]] # None
      /\ opened' = [opened EXCEPT ![p] = @ \cup {attempt[p]}]
      /\ UNCHANGED <<party, begun, attempt, committed>>
  BY DEF Phase3, TypeOK, Mine
<1>2. TypeOK'
  BY <1>1 DEF TypeOK
<1>3. \A q \in Party : opened[q] \subseteq opened'[q]
                      /\ opened'[q] \subseteq opened[q] \cup (IF q = p THEN {attempt[p]} ELSE {})
  BY <1>1 DEF TypeOK
<1>4. InOrder'
  BY <1>1, <1>3 DEF InOrder
<1>5. Done'
  BY <1>1, <1>3 DEF Done
<1>6. Active' /\ Together' /\ Behind' /\ EpochsMatch'
  BY <1>1 DEF Active, Together, Behind, Extends, EpochsMatch, Matches
<1> QED BY <1>2, <1>4, <1>5, <1>6

\* What a party knows of the honest ones when phase 4 accepts.
LEMMA AcceptedInput ==
  ASSUME Routed, IInv, NEW p \in Honest, NEW in \in Inputs(p), Ready(p), Accepts(p, in)
  PROVE  /\ attempt[p] \in Attempt
         /\ \A q \in Honest : /\ committed[q][attempt[p]] = Mine(p)
                              /\ attempt[p] \in opened[q]
         /\ Mine(p) # None
         /\ \A r \in Party : None \notin Mine(p)[r]
         /\ \A q \in Honest \ {p} : in.zero3[q] = attempt[p]
         /\ attempt[p] \notin Fast => \A q \in Honest \ {p} : in.mul[q] = attempt[p]
<1> DEFINE a == attempt[p]
<1>1. a \in Attempt /\ a \in opened[p]
  BY DEF Ready, IInv, TypeOK, Honest
<1>2. Mine(p) # None
  BY <1>1 DEF IInv, InOrder, Mine
<1>3. \A q \in Honest : committed[q][a] = Mine(p)
  BY DEF Accepts, OnePolynomial, Honest
<1>4. \A r \in Party : None \notin Mine(p)[r]
  BY DEF Accepts, ZeroAtZero
<1>5. in.zero3 \in Received(Party \ {p}, opened, a)
  BY DEF Inputs
<1>6. ASSUME NEW q \in Honest \ {p} PROVE in.zero3[q] = a /\ a \in opened[q]
  <2>1. in.zero3[q] \in {None} \cup (opened[q] \cap {a})
    BY <1>5 DEF Received, Offered, Honest
  <2>2. in.zero3[q] # None
    BY DEF Accepts, SeedsOpen, Honest
  <2> QED BY <2>1, <2>2
<1>7. a \notin Fast => \A q \in Honest \ {p} : in.mul[q] = a
  BY DEF Accepts, SetUpVerifies, Honest
<1> QED BY <1>1, <1>2, <1>3, <1>4, <1>6, <1>7

\* The refreshed object extends the one it replaces, towards every honest party.
LEMMA RefreshedExtends ==
  ASSUME Routed, IInv, NEW p \in Honest, NEW in \in Inputs(p), Ready(p), Accepts(p, in),
         NEW q \in Honest \ {p}
  PROVE  /\ Refreshed(p, in).session_id = attempt[p]
         /\ Refreshed(p, in).share = Append(party[p].share, Mine(p))
         /\ Refreshed(p, in).zero[q] = Pair(p, attempt[p], q, attempt[p])
         /\ Refreshed(p, in).ot[q] =
              IF attempt[p] \in Fast
              THEN Append(party[p].ot[q], Pair(p, attempt[p], q, attempt[p]))
              ELSE <<Pair(p, attempt[p], q, attempt[p])>>
<1>1. in.zero3[q] = attempt[p] /\ q \in Party /\ q # p
      /\ (attempt[p] \notin Fast => in.mul[q] = attempt[p])
  BY AcceptedInput DEF Honest
<1>2. ZeroShare(p, in.zero3)[q] = Pair(p, attempt[p], q, attempt[p])
  BY <1>1 DEF ZeroShare
<1>3. NewOt(p, in)[q] = IF attempt[p] \in Fast
                        THEN Append(party[p].ot[q], Pair(p, attempt[p], q, attempt[p]))
                        ELSE <<Pair(p, attempt[p], q, attempt[p])>>
  BY <1>1, <1>2 DEF NewOt
<1> QED BY <1>2, <1>3 DEF Refreshed, NewParty, NewShare

LEMMA PairCommutes ==
  ASSUME NEW p, NEW a, NEW q, NEW b
  PROVE  Pair(p, a, q, b) = Pair(q, b, p, a)
BY DEF Pair

\* The party that finishes joins those that finished before it, and those still in the
\* attempt are behind it.
LEMMA Phase4Inv ==
  ASSUME Routed, IInv, NEW p \in Honest, NEW in \in Inputs(p), Phase4(p, in)
  PROVE  IInv'
<1> DEFINE a == attempt[p]
           new == Refreshed(p, in)
<1>1. /\ Ready(p) /\ Accepts(p, in)
      /\ party' = [party EXCEPT ![p] = new]
      /\ attempt' = [attempt EXCEPT ![p] = None]
      /\ UNCHANGED <<begun, committed, opened>>
  BY DEF Phase4
<1>2. /\ a \in Attempt
      /\ \A q \in Honest : committed[q][a] = Mine(p) /\ a \in opened[q]
      /\ Mine(p) # None
      /\ \A r \in Party : None \notin Mine(p)[r]
  BY <1>1, AcceptedInput
<1>3. /\ new.session_id = a /\ new.peers = Party \ {p}
  BY DEF Refreshed, NewParty
<1>4. ASSUME NEW q \in Honest \ {p}
      PROVE  /\ new.share = Append(party[p].share, Mine(p))
             /\ new.zero[q] = Pair(p, a, q, a)
             /\ new.ot[q] = IF a \in Fast THEN Append(party[p].ot[q], Pair(p, a, q, a))
                            ELSE <<Pair(p, a, q, a)>>
  BY <1>1, RefreshedExtends
<1>5. /\ party'[p] = new /\ attempt'[p] = None
      /\ \A q \in Party \ {p} : party'[q] = party[q] /\ attempt'[q] = attempt[q]
  BY <1>1 DEF IInv, TypeOK, Honest
<1> HIDE DEF new
<1>6. TypeOK'
  BY <1>1, <1>2, <1>3, <1>5 DEF IInv, TypeOK
<1>7. InOrder'
  BY <1>1, <1>3, <1>5 DEF IInv, InOrder, Honest
<1>8. Active'
  <2>1. a \in begun[p] /\ a # None
    BY <1>2, RefreshAssumption DEF IInv, Active
  <2> QED BY <1>1, <1>3, <1>5, <2>1 DEF IInv, Active, Honest
<1>9. Done'
  <2>1. ASSUME NEW r \in Honest, NEW q \in Honest, NEW b \in Attempt,
               party'[r].session_id = b
        PROVE  /\ committed[q][b] = committed[r][b]
               /\ committed[q][b] # None
               /\ b \in opened[q]
               /\ \A t \in Party : None \notin committed[q][b][t]
    <3>1. CASE r = p
      BY <1>2, <1>3, <1>5, <2>1, <3>1
    <3>2. CASE r # p
      BY <1>5, <2>1, <3>2 DEF IInv, Done, Honest
    <3> QED BY <3>1, <3>2
  <2> QED BY <1>1, <2>1 DEF Done
<1>10. Together'
  BY <1>5 DEF IInv, Together, Honest
<1>11. Behind'
  <2> SUFFICES ASSUME NEW r \in Honest, NEW q \in Honest,
                      attempt'[r] # None, party'[q].session_id = attempt'[r]
               PROVE  Extends(q, r, attempt[r])'
    BY DEF Behind
  <2>1. r # p /\ r \in Party /\ party'[r] = party[r] /\ attempt'[r] = attempt[r]
    BY <1>5 DEF Honest
  <2>2. ASSUME q # p PROVE Extends(q, r, attempt[r])'
    <3>1. party'[q] = party[q]
      BY <1>5, <2>2 DEF Honest
    <3>2. Extends(q, r, attempt[r])
      BY <2>1, <3>1 DEF IInv, Behind
    <3> QED BY <1>1, <2>1, <3>1, <3>2 DEF Extends, Pair
  <2>3. ASSUME q = p PROVE Extends(q, r, attempt[r])'
    <3>1. attempt[r] = a
      BY <1>3, <1>5, <2>1, <2>3
    <3>2. Matches(p, r)
      BY <1>2, <2>1, <3>1 DEF IInv, Together, EpochsMatch, TypeOK
    <3>3. committed'[p][a] = Mine(p) /\ attempt'[r] = a
      BY <1>1, <2>1, <3>1 DEF Mine
    <3>4. party'[q] = new /\ committed'[q][a] = Mine(p) /\ r \in Honest \ {p}
      BY <1>5, <2>1, <2>3, <3>3
    <3>5. party[p].share = party[r].share /\ party[p].ot[r] = party[r].ot[p]
      BY <3>2 DEF Matches
    <3>6. /\ new.share = Append(party[r].share, Mine(p))
          /\ new.zero[r] = Pair(p, a, r, a)
          /\ new.ot[r] = IF a \in Fast THEN Append(party[r].ot[p], Pair(p, a, r, a))
                         ELSE <<Pair(p, a, r, a)>>
      BY <1>4, <3>4, <3>5
    <3>7. attempt'[r] = a /\ party'[r] = party[r]
      BY <2>1, <3>3
    <3> QED BY <2>3, <3>4, <3>6, <3>7 DEF Extends, Pair
  <2> QED BY <2>2, <2>3
<1>12. EpochsMatch'
  <2>1. ASSUME NEW q \in Honest \ {p}, party[q].session_id = a
        PROVE  /\ new.share = party[q].share
               /\ new.ot[q] = party[q].ot[p]
               /\ new.zero[q] = party[q].zero[p]
    <3>1. Extends(q, p, a)
      BY <1>2, <2>1, RefreshAssumption DEF IInv, Behind
    <3>2. committed[q][a] = Mine(p)
      BY <1>2
    <3> QED BY <1>4, <3>1, <3>2, PairCommutes DEF Extends
  <2> SUFFICES ASSUME NEW r \in Honest, NEW q \in Honest,
                      party'[r].session_id = party'[q].session_id
               PROVE  Matches(r, q)'
    BY DEF EpochsMatch
  <2>2. CASE r = p /\ q # p
    BY <1>3, <1>5, <2>1, <2>2 DEF Matches, Honest
  <2>3. CASE r # p /\ q = p
    BY <1>3, <1>5, <2>1, <2>3 DEF Matches, Honest
  <2>4. CASE r # p /\ q # p
    BY <1>5, <2>4 DEF IInv, EpochsMatch, Matches, Honest
  <2>5. CASE r = q
    BY <2>5 DEF Matches
  <2> QED BY <2>2, <2>3, <2>4, <2>5
<1> QED BY <1>6, <1>7, <1>8, <1>9, <1>10, <1>11, <1>12 DEF IInv

LEMMA NextInv == ASSUME Coordinated, Routed, IInv, [Next]_vars PROVE IInv'
<1>1. ASSUME NEW p \in Honest, Deal(p) PROVE IInv'
  BY <1>1, Phase1Inv DEF Deal
<1>2. ASSUME NEW p \in Honest, Commit(p) PROVE IInv'
  BY <1>2, Phase2Inv DEF Commit
<1>3. ASSUME NEW p \in Honest, Phase3(p) PROVE IInv'
  BY <1>3, Phase3Inv
<1>4. ASSUME NEW p \in Honest, Finish(p) PROVE IInv'
  <2>1. ASSUME NEW in \in Inputs(p), Phase4(p, in) PROVE IInv'
    BY <2>1, Phase4Inv
  <2>2. ASSUME UNCHANGED vars PROVE IInv'
    BY <2>2 DEF vars, IInv, TypeOK, InOrder, Active, Done, Together, Behind, Extends,
                EpochsMatch, Matches
  <2> QED BY <1>4, <2>1, <2>2 DEF Finish, Phase4Rejects
<1>5. ASSUME UNCHANGED vars PROVE IInv'
  BY <1>5 DEF vars, IInv, TypeOK, InOrder, Active, Done, Together, Behind, Extends,
              EpochsMatch, Matches
<1> QED BY <1>1, <1>2, <1>3, <1>4, <1>5 DEF Next

\* Under the discipline of the applications and of the relay the invariant holds, and with
\* it the property signing relies on: two objects with one session id fit each other.
THEOREM EpochsAlwaysMatch ==
  ASSUME Coordinated, Routed
  PROVE  Spec => []EpochsMatch
<1>1. Init => IInv
  BY InitInv
<1>2. IInv /\ [Next]_vars => IInv'
  BY NextInv
<1>3. IInv => EpochsMatch
  BY DEF IInv
<1> QED BY <1>1, <1>2, <1>3, PTL DEF Spec

\* Every reachable state of the refreshes is well typed: each party holds an object of the
\* key generation or of an attempt, with multiplication state for all others.
THEOREM TypeCorrect ==
  ASSUME Coordinated, Routed
  PROVE  Spec => []TypeOK
<1>1. Init => IInv
  BY InitInv
<1>2. IInv /\ [Next]_vars => IInv'
  BY NextInv
<1>3. IInv => TypeOK
  BY DEF IInv
<1> QED BY <1>1, <1>2, <1>3, PTL DEF Spec

\* The messages that are out let a party finish an attempt somebody has finished, unless
\* the share it would get is trivial.
LEMMA SoundInput ==
  ASSUME IInv, NEW p \in Honest, NEW q \in Honest, attempt[q] # None,
         party[p].session_id = attempt[q]
  PROVE  Ready(q) /\ (TrivialShare(q, NewShare(q)) \/ \E in \in Inputs(q) : Accepts(q, in))
<1> DEFINE a == attempt[q]
           others == Party \ {q}
           all == [r \in Party |-> a]
           rest == [r \in others |-> a]
           set_up == [r \in (IF a \in Fast THEN {} ELSE others) |-> a]
           in == [proofs |-> all, zero2 |-> rest, zero3 |-> rest, mul |-> set_up]
<1>1. a \in Attempt /\ \A r \in Honest : /\ committed[r][a] = committed[p][a]
                                       /\ committed[r][a] # None
                                       /\ a \in opened[r]
                                       /\ \A t \in Party : None \notin committed[r][a][t]
  BY DEF IInv, TypeOK, Done, Honest
<1>2. \A r \in Party : a \in Offered(r, HasCommitted[r], a) /\ a \in Offered(r, opened[r], a)
  BY <1>1 DEF Offered, HasCommitted, Honest
<1>3. in \in Inputs(q)
  <2>1. all \in Received(Party, HasCommitted, a)
    BY <1>1, <1>2 DEF Received
  <2>2. rest \in Received(others, HasCommitted, a) /\ rest \in Received(others, opened, a)
    BY <1>1, <1>2 DEF Received
  <2>3. set_up \in Received(IF a \in Fast THEN {} ELSE others, opened, a)
    BY <1>1, <1>2 DEF Received
  <2> HIDE DEF all, rest, set_up
  <2> QED BY <2>1, <2>2, <2>3 DEF Inputs
<1>4. OnePolynomial(q, all) /\ ZeroAtZero(q)
  BY <1>1 DEF OnePolynomial, ZeroAtZero, Mine
<1>5. SeedsOpen(q, rest, rest)
  BY <1>1, RefreshAssumption DEF SeedsOpen
<1>6. IF a \in Fast THEN HasMulState(q) ELSE SetUpVerifies(q, set_up)
  BY DEF HasMulState, SetUpVerifies, IInv, TypeOK, Honest
<1>7. ASSUME ~TrivialShare(q, NewShare(q)) PROVE Accepts(q, in)
  BY <1>4, <1>5, <1>6, <1>7 DEF Accepts
<1>8. Ready(q)
  BY <1>1 DEF Ready
<1> QED BY <1>3, <1>7, <1>8

\* A refresh that succeeded at one honest party can still succeed at every honest party that
\* is in it, except one whose new share would be trivial.
THEOREM HalfDoneCanAlwaysFinish ==
  ASSUME Coordinated, Routed
  PROVE  Spec => []HalfDoneCanFinish
<1>1. Init => IInv
  BY InitInv
<1>2. IInv /\ [Next]_vars => IInv'
  BY NextInv
<1>3. IInv => HalfDoneCanFinish
  BY SoundInput DEF HalfDoneCanFinish
<1> QED BY <1>1, <1>2, <1>3, PTL DEF Spec

-----------------------------------------------------------------------------
(***************************************************************************)
(* The life of a key, where the parties refresh while they sign.  Signing  *)
(* leaves the variables of module Refresh alone, so what is proved of      *)
(* Refresh holds of the composition.  Refreshing replaces the Party        *)
(* objects signing is run with, so of what is proved of Signing holds what *)
(* does not rest on a party keeping its objects: the lemmas on one step    *)
(* are those of Signing_proofs, with a new invariant for the objects that  *)
(* sessions have borrowed.                                                 *)
(*                                                                         *)
(* EpochsMatch relates the objects parties hold now, a ban is about the    *)
(* objects two sessions borrowed, perhaps epochs apart.  So the invariant  *)
(* follows an object from the moment its party replaces it: its session id *)
(* is then one that no honest party is refreshing to, nor ever will be     *)
(* (LeftBehind), hence no object made later is of its epoch (Borrowings),  *)
(* and one made before fits it (Fits).                                     *)
(***************************************************************************)

P == INSTANCE Signing_proofs WITH
  shares <- [p \in Party |-> {party[p]}],
  Keyrings <- {[p \in Party |-> {FirstKey}]}

-----------------------------------------------------------------------------
(* What module Signing assumes of its constants holds of those it is given *)
(* here, and the two instances of it are the same.                         *)

LEMMA SigningAssumptions ==
  /\ ShareCount \in Nat \ {0}
  /\ Threshold \in Nat \ {0}
  /\ MaxDelivery \in Nat
  /\ Faulty \subseteq P!Party
  /\ AllowRetry \in BOOLEAN
  /\ \A p \in P!Party : /\ None \notin Requests[p]
                       /\ \A d \in Requests[p] : d.counterparties \in Seq(Nat \ {0})
  /\ \A ring \in {[p \in Party |-> {FirstKey}]} : \A p, q \in P!Party :
       \A k \in ring[p], l \in ring[q] : k.session_id = l.session_id => k.ot[q] = l.ot[p]
BY SigningAssumption, RefreshAssumption DEF Party, P!Party

LEMMA SameCardinality == ASSUME NEW T PROVE S!Cardinality(T) = P!Cardinality(T)
BY DEF S!Cardinality, P!Cardinality

LEMMA SamePhase1 == ASSUME NEW s PROVE S!Phase1(s) <=> P!Phase1(s)
BY DEF S!Phase1, P!Phase1, S!Owner, P!Owner, S!SignPhase1, P!SignPhase1, S!Counterparties,
       P!Counterparties, S!ValidRequest, P!ValidRequest, S!WellFormed, P!WellFormed,
       S!RightCount, P!RightCount, S!GoodCounterparty, P!GoodCounterparty, S!MayStart,
       P!MayStart, S!Fresh, P!Fresh, S!Session, P!Session, S!Party, P!Party,
       S!SignPhase1Refused, P!SignPhase1Refused, S!Abort, P!Abort

LEMMA SamePhase2 == ASSUME NEW s PROVE S!Phase2(s) <=> P!Phase2(s)
BY DEF S!Phase2, P!Phase2, S!SignPhase2, P!SignPhase2, S!Sender, P!Sender, S!Owner, P!Owner,
       S!AgreedInputs, P!AgreedInputs, S!RoutingVerdict, P!RoutingVerdict, S!Counterparties,
       P!Counterparties, S!SameVersion, P!SameVersion, S!SameRoot, P!SameRoot, S!RootDigest,
       P!RootDigest, S!MulSenderVerdict, P!MulSenderVerdict, S!COTeConsistent, P!COTeConsistent,
       S!SameOt, P!SameOt, S!SignPhase2Rejects, P!SignPhase2Rejects, S!Abort, P!Abort,
       S!SignPhase2MulFails, P!SignPhase2MulFails, S!Cheaters, P!Cheaters, S!BanReasons,
       P!BanReasons, S!Deliveries, P!Deliveries

LEMMA SamePhase3 == ASSUME NEW s PROVE S!Phase3(s) <=> P!Phase3(s)
BY DEF S!Phase3, P!Phase3, S!SignPhase3, P!SignPhase3, S!Phase3Verdict, P!Phase3Verdict,
       S!MulVerifies, P!MulVerifies, S!RootDigest, P!RootDigest, S!SameOt, P!SameOt, S!Owner,
       P!Owner, S!Decommits, P!Decommits, S!RoutingVerdict, P!RoutingVerdict, S!Counterparties,
       P!Counterparties, S!Sender, P!Sender, S!PublicSharesSumToPk, P!PublicSharesSumToPk,
       S!Signers, P!Signers, S!SameSeed, P!SameSeed, S!SignPhase3Rejects, P!SignPhase3Rejects,
       S!Abort, P!Abort, S!SignPhase3Stops, P!SignPhase3Stops, S!Cheaters, P!Cheaters,
       S!BanReasons, P!BanReasons, S!Deliveries, P!Deliveries

LEMMA SamePhase4 == ASSUME NEW s PROVE S!Phase4(s) <=> P!Phase4(s)
<1>1. ASSUME NEW b, NEW in PROVE S!SumsToSignature(s, b, in) <=> P!SumsToSignature(s, b, in)
  <2>1. \A g : S!Cardinality({i \in DOMAIN in : in[i].from = g})
               = P!Cardinality({i \in DOMAIN in : in[i].from = g})
    BY SameCardinality
  <2> QED BY <2>1, ZenonT(60) DEF S!SumsToSignature, P!SumsToSignature, S!Group, P!Group
<1>2. \A b, in : S!SumsToSignature(s, b, in) <=> P!SumsToSignature(s, b, in)
  BY <1>1
<1> QED BY <1>2, ZenonT(60)
  DEF S!Phase4, P!Phase4, S!SignPhase4, P!SignPhase4, S!Group, P!Group, S!OwnBroadcasts,
       P!OwnBroadcasts, S!SignPhase4Rejects, P!SignPhase4Rejects, S!Abort, P!Abort, S!Owner,
       P!Owner, S!Phase4OutOfOrder, P!Phase4OutOfOrder, S!Deliveries, P!Deliveries

LEMMA SameMisbehave == S!Misbehave <=> P!Misbehave
<1>1. \A T : S!Altered(T) = P!Altered(T)
  BY DEF S!Altered, P!Altered
<1>2. S!MayAlter <=> P!MayAlter
  BY <1>1, SameCardinality DEF S!MayAlter, P!MayAlter
<1> QED
  BY <1>2, ZenonT(60)
  DEF S!Misbehave, P!Misbehave, S!Party, P!Party, S!Fault12, P!Fault12, S!Fault23, P!Fault23,
       S!Alter12, P!Alter12, S!Sender, P!Sender, S!Owner, P!Owner, S!Alter23, P!Alter23,
       S!Alter34, P!Alter34

LEMMA SameNext == S!Next <=> P!Next
<1>1. S!Session = P!Session
  BY DEF S!Session, P!Session, S!Party, P!Party
<1>2. S!Next <=> \/ \E s \in S!Session : S!Phase1(s) \/ S!Phase2(s) \/ S!Phase3(s) \/ S!Phase4(s)
                 \/ S!Misbehave
  BY DEF S!Next
<1>3. P!Next <=> \/ \E s \in P!Session : P!Phase1(s) \/ P!Phase2(s) \/ P!Phase3(s) \/ P!Phase4(s)
                 \/ P!Misbehave
  BY DEF P!Next
<1> QED BY <1>1, <1>2, <1>3, SamePhase1, SamePhase2, SamePhase3, SamePhase4, SameMisbehave, Zenon

LEMMA SameInit == S!Init <=> P!Init
BY DEF S!Init, P!Init, S!Session, P!Session, S!Party, P!Party

-----------------------------------------------------------------------------
(* The composition refreshes.                                              *)

\* A step of the composition is a step of the refreshes or leaves them as they are.
LEMMA LifeStep == [LifeNext]_<<refreshVars, signingVars>> => [Next]_vars
<1>1. RefreshStep => Next
  BY DEF RefreshStep, Next
<1>2. SigningStep => UNCHANGED vars
  BY DEF SigningStep, refreshVars, vars
<1>3. UNCHANGED <<refreshVars, signingVars>> => UNCHANGED vars
  BY DEF refreshVars, vars
<1> QED BY <1>1, <1>2, <1>3 DEF LifeNext

\* Refreshing while sessions sign is still refreshing: LifeSpec implements Spec.
LEMMA LifeImplementsRefresh == LifeSpec => Spec
<1>1. LifeInit => Init
  BY DEF LifeInit
<1> QED BY <1>1, LifeStep, PTL DEF LifeSpec, Spec

\* Two sessions whose objects carry one session id borrow objects of one epoch, in every
\* interleaving of refreshes with signing.
THEOREM EpochsMatchWhileSigning ==
  ASSUME Coordinated, Routed
  PROVE  LifeSpec => []EpochsMatch
BY LifeImplementsRefresh, EpochsAlwaysMatch, PTL

-----------------------------------------------------------------------------
(* The composition signs.                                                  *)

\* A step of the composition is a step of signing, or one of Refresh that leaves the
\* sessions, the messages and the signatures as they are.
LEMMA LifeCases ==
  ASSUME [LifeNext]_<<refreshVars, signingVars>>
  PROVE  \/ P!Next /\ UNCHANGED vars
         \/ UNCHANGED signingVars /\ [Next]_vars
<1>1. SigningStep => P!Next /\ UNCHANGED vars
  BY SameNext DEF SigningStep, refreshVars, vars
<1>2. RefreshStep => UNCHANGED signingVars
  BY DEF RefreshStep
<1>3. UNCHANGED <<refreshVars, signingVars>> => UNCHANGED signingVars /\ UNCHANGED vars
  BY DEF refreshVars, vars
<1> QED BY <1>1, <1>2, <1>3, LifeStep DEF LifeNext

\* What is said of sessions and messages does not name the objects parties hold.
LEMMA SigningKept ==
  ASSUME UNCHANGED signingVars
  PROVE  /\ P!IInv => P!IInv'
         /\ P!CInv => P!CInv'
         /\ P!UnusedIsEmpty => P!UnusedIsEmpty'
         /\ P!SignIdsUnique => P!SignIdsUnique'
         /\ P!BansAreDeserved => P!BansAreDeserved'
         /\ UNCHANGED P!Abstract!vars
<1> USE DEF signingVars
<1>1. P!WellTyped => P!WellTyped'
  BY DEF P!WellTyped
<1>2. P!HeardAgrees => P!HeardAgrees'
  BY DEF P!HeardAgrees, P!Began, P!SameVersion, P!RootDigest, P!COTeConsistent, P!SameOt
<1>3. P!SendersBegan => P!SendersBegan'
  BY DEF P!SendersBegan, P!Began
<1>4. P!AnswersHeard => P!AnswersHeard'
  BY DEF P!AnswersHeard
<1>5. P!BroadcastsAddUp => P!BroadcastsAddUp'
  BY DEF P!BroadcastsAddUp, P!Signers, P!Counterparties, P!RootDigest, P!Began
<1>6. P!RequestsValid => P!RequestsValid'
  BY DEF P!RequestsValid, P!ValidRequest, P!WellFormed, P!RightCount, P!GoodCounterparty
<1>7. P!GroupsAreCoalitions => P!GroupsAreCoalitions'
  BY DEF P!GroupsAreCoalitions, P!Abstract!Coalition, P!Group
<1>8. UNCHANGED P!Abstract!vars
  BY DEF P!Abstract!vars, P!Group
<1>9. P!UnusedIsEmpty => P!UnusedIsEmpty'
  BY DEF P!UnusedIsEmpty
<1>10. P!SignIdsUnique => P!SignIdsUnique'
  BY DEF P!SignIdsUnique
<1>11. P!BansAreDeserved => P!BansAreDeserved'
  BY DEF P!BansAreDeserved
<1> QED BY <1>1, <1>2, <1>3, <1>4, <1>5, <1>6, <1>7, <1>8, <1>9, <1>10, <1>11 DEF P!CInv, P!IInv

LEMMA CInvLives ==
  /\ LifeInit => P!CInv
  /\ P!CInv /\ [LifeNext]_<<refreshVars, signingVars>> => P!CInv'
<1>1. LifeInit => P!CInv
  BY SameInit, P!CInvInit, SigningAssumptions DEF LifeInit
<1>2. P!CInv /\ P!Next => P!CInv'
  BY P!CInvInductive, SigningAssumptions
<1> QED BY <1>1, <1>2, LifeCases, SigningKept

\* While the key moves from epoch to epoch a signature takes the consent of one session of
\* each of exactly Threshold parties to its nonce and message, over one sharing of the key.
THEOREM SignsByConsentWhileRefreshing == LifeSpec => SignsByConsent
<1>2. P!CInv /\ P!Next => [P!Abstract!Next]_(P!Abstract!vars)
  BY P!ConsentStep, SigningAssumptions
<1>3. P!CInv /\ [LifeNext]_<<refreshVars, signingVars>> => [P!Abstract!Next]_(P!Abstract!vars)
  BY <1>2, LifeCases, SigningKept
<1>4. \A g : S!Abstract!Coalition(g) <=> P!Abstract!Coalition(g)
  BY DEF S!Abstract!Coalition, P!Abstract!Coalition, S!Abstract!Session, P!Abstract!Session,
         S!Abstract!Cardinality, P!Abstract!Cardinality, S!Party, P!Party
<1>5. S!Abstract!Next <=> P!Abstract!Next
  BY <1>4 DEF S!Abstract!Next, P!Abstract!Next, S!Abstract!Consent, P!Abstract!Consent,
              S!Abstract!Publish, P!Abstract!Publish, S!Group, P!Group
<1>6. [P!Abstract!Next]_(P!Abstract!vars) => [S!Abstract!Next]_(S!Abstract!vars)
  BY <1>5 DEF S!Abstract!vars, P!Abstract!vars, S!Group, P!Group
<1>7. LifeInit => S!Abstract!Init
  BY DEF LifeInit, S!Init, S!Abstract!Init
<1> QED BY <1>3, <1>6, <1>7, CInvLives, PTL
        DEF LifeSpec, SignsByConsent, S!SignsByConsent, S!Abstract!Spec

-----------------------------------------------------------------------------
(* The objects sessions have borrowed.                                     *)

\* No honest party is refreshing to the epoch e, and all have it behind them, so none ever
\* will: an attempt is begun once.
LeftBehind(e) ==
  \A q \in Honest : /\ attempt[q] # None => attempt[q] # e
                    /\ e \in begun[q] \cup {FirstKey.session_id}

\* A refresh is begun from an epoch everybody is at.
Left == \A p \in Honest : attempt[p] # None => LeftBehind(party[p].session_id)

\* Only refreshes make objects, and faulty parties have none made.
FirstObject ==
  \A p \in Party :
    p \in Faulty \/ party[p].session_id = FirstKey.session_id => party[p] = FirstKey

\* A session borrowed the object its party still holds, or one of an epoch left behind.
Borrowings ==
  \A s \in P!Session : P!Began(s) =>
    \/ key[s] = party[P!Owner(s)]
    \/ /\ P!Owner(s) \in Honest
       /\ LeftBehind(key[s].session_id)
       /\ key[s].session_id # party[P!Owner(s)].session_id

\* A borrowed object and one that is held fit, when they carry one session id.
Fits ==
  \A s \in P!Session : \A q \in Party :
    P!Began(s) /\ key[s].session_id = party[q].session_id =>
      key[s].ot[q] = party[q].ot[P!Owner(s)]

Refreshing == IInv /\ Left /\ FirstObject
LInv == Refreshing /\ P!IInv /\ P!UnusedIsEmpty /\ Borrowings /\ Fits /\ P!KeysFit

\* The objects parties hold fit, faulty or not.
ObjectsFit ==
  \A p, q \in Party :
    party[p].session_id = party[q].session_id => party[p].ot[q] = party[q].ot[p]

LEMMA HeldObjectsFit == IInv /\ FirstObject => ObjectsFit
<1> SUFFICES ASSUME IInv, FirstObject, NEW p \in Party, NEW q \in Party,
                    party[p].session_id = party[q].session_id
             PROVE  party[p].ot[q] = party[q].ot[p]
  BY DEF ObjectsFit
<1>1. CASE p \in Honest /\ q \in Honest
  BY <1>1 DEF IInv, EpochsMatch, Matches
<1>2. CASE p \notin Honest \/ q \notin Honest
  <2>1. party[p] = FirstKey /\ party[q] = FirstKey
    BY <1>2 DEF FirstObject, Honest
  <2> QED BY <2>1, RefreshAssumption
<1> QED BY <1>1, <1>2

\* An attempt that is begun is none that was begun before, or left behind.
LEMMA DealKeeps ==
  ASSUME Coordinated, Refreshing, NEW p \in Honest, NEW a \in Attempt, Phase1(p, a)
  PROVE  /\ Left' /\ FirstObject' /\ UNCHANGED party
         /\ \A e : LeftBehind(e) => LeftBehind(e)'
<1>1. /\ SameEpoch /\ a \notin begun[p]
      /\ UNCHANGED party
      /\ attempt' = [attempt EXCEPT ![p] = a]
      /\ begun' = [begun EXCEPT ![p] = @ \cup {a}]
  BY DEF Phase1, MayBegin
<1>2. /\ \A q \in Honest : begun[q] \subseteq begun'[q]
      /\ attempt'[p] = a
      /\ \A q \in Honest \ {p} : attempt'[q] = attempt[q]
  BY <1>1 DEF Refreshing, IInv, TypeOK, Honest
<1>3. a # FirstKey.session_id
  BY RefreshAssumption
<1>4. \A e : LeftBehind(e) => LeftBehind(e)'
  BY <1>1, <1>2, <1>3 DEF LeftBehind
<1>5. LeftBehind(party[p].session_id)
  <2>1. \A q \in Honest : party[q].session_id = party[p].session_id
    BY <1>1 DEF SameEpoch
  <2>2. party[p].session_id \in Attempt \cup {FirstKey.session_id}
    BY DEF Refreshing, IInv, TypeOK, Honest
  <2> QED BY <2>1, <2>2 DEF LeftBehind, Refreshing, IInv, Active
<1>6. Left'
  <2>1. \A q \in Honest : party'[q].session_id = party[p].session_id
    BY <1>1 DEF SameEpoch
  <2> QED BY <1>4, <1>5, <2>1 DEF Left
<1>7. FirstObject'
  BY <1>1 DEF Refreshing, FirstObject
<1> QED BY <1>1, <1>4, <1>6, <1>7

\* The object a refresh replaces is of an epoch left behind, and carries another session id
\* than the new one, which nobody has left behind.
LEMMA FinishKeeps ==
  ASSUME Refreshing, NEW p \in Honest, NEW in, Phase4(p, in)
  PROVE  /\ Left' /\ FirstObject'
         /\ \A e : LeftBehind(e) => LeftBehind(e)'
         /\ attempt[p] \in Attempt /\ ~LeftBehind(attempt[p])
         /\ party'[p].session_id = attempt[p]
         /\ party[p].session_id # attempt[p]
         /\ LeftBehind(party[p].session_id)
         /\ \A q \in Party \ {p} : party'[q] = party[q]
<1>1. /\ attempt[p] # None
      /\ party' = [party EXCEPT ![p] = Refreshed(p, in)]
      /\ attempt' = [attempt EXCEPT ![p] = None]
      /\ UNCHANGED begun
  BY DEF Phase4, Ready
<1>2. /\ party'[p] = Refreshed(p, in) /\ attempt'[p] = None
      /\ \A q \in Party \ {p} : party'[q] = party[q] /\ attempt'[q] = attempt[q]
  BY <1>1 DEF Refreshing, IInv, TypeOK, Honest
<1>3. party'[p].session_id = attempt[p]
  BY <1>2 DEF Refreshed, NewParty
<1>4. attempt[p] \in Attempt /\ ~LeftBehind(attempt[p])
  BY <1>1 DEF Refreshing, IInv, TypeOK, Honest, LeftBehind
<1>5. party[p].session_id # attempt[p] /\ LeftBehind(party[p].session_id)
  BY <1>1 DEF Refreshing, IInv, Active, Left
<1>6. \A e : LeftBehind(e) => LeftBehind(e)'
  BY <1>1, <1>2 DEF LeftBehind, Honest
<1>7. Left'
  BY <1>2, <1>6 DEF Refreshing, Left, Honest
<1>8. FirstObject'
  BY <1>2, <1>3, <1>4, RefreshAssumption DEF Refreshing, FirstObject, Honest
<1> QED BY <1>2, <1>3, <1>4, <1>5, <1>6, <1>7, <1>8

\* Where the objects stay as they are, and an epoch left behind is left for good, so does
\* what is said of sessions.
LEMMA BorrowingsKept ==
  ASSUME UNCHANGED signingVars, UNCHANGED party, Borrowings, Fits, P!KeysFit,
         \A e : LeftBehind(e) => LeftBehind(e)'
  PROVE  Borrowings' /\ Fits' /\ P!KeysFit'
<1>1. \A s : P!Began(s)' <=> P!Began(s)
  BY DEF signingVars, P!Began
<1> QED BY <1>1 DEF signingVars, Borrowings, Fits, P!KeysFit, P!SameOt

LEMMA RefreshKeeps ==
  ASSUME Coordinated, Routed, LInv, UNCHANGED signingVars, [Next]_vars
  PROVE  Refreshing' /\ Borrowings' /\ Fits' /\ P!KeysFit'
<1>1. IInv'
  BY NextInv DEF LInv, Refreshing
<1>2. ASSUME UNCHANGED <<party, begun, attempt>>
      PROVE  Left' /\ FirstObject' /\ Borrowings' /\ Fits' /\ P!KeysFit'
  <2>1. \A e : LeftBehind(e) => LeftBehind(e)'
    BY <1>2 DEF LeftBehind
  <2> QED BY <1>2, <2>1, BorrowingsKept DEF LInv, Refreshing, Left, FirstObject
<1>3. ASSUME NEW p \in Honest, NEW a \in Attempt, Phase1(p, a)
      PROVE  Left' /\ FirstObject' /\ Borrowings' /\ Fits' /\ P!KeysFit'
  BY <1>3, DealKeeps, BorrowingsKept DEF LInv
<1>4. ASSUME NEW p \in Honest, NEW in \in Inputs(p), Phase4(p, in)
      PROVE  Left' /\ FirstObject' /\ Borrowings' /\ Fits' /\ P!KeysFit'
  <2> DEFINE a == attempt[p]
  <2>1. /\ Left' /\ FirstObject'
        /\ \A e : LeftBehind(e) => LeftBehind(e)'
        /\ a \in Attempt /\ ~LeftBehind(a)
        /\ party'[p].session_id = a /\ party[p].session_id # a
        /\ LeftBehind(party[p].session_id)
        /\ \A q \in Party \ {p} : party'[q] = party[q]
    BY <1>4, FinishKeeps DEF LInv
  <2>2. \A s : P!Began(s)' <=> P!Began(s)
    BY DEF signingVars, P!Began
  <2>3. key' = key
    BY DEF signingVars
  <2>4. \A s \in P!Session : P!Owner(s) \in Party
    BY DEF P!Session, P!Owner, P!Party, Party
  <2>5. Borrowings'
    BY <2>1, <2>2, <2>3, <2>4 DEF LInv, Borrowings
  <2>6. ObjectsFit'
    BY <1>1, <2>1, HeldObjectsFit, PTL
  <2>7. Fits'
    <3> SUFFICES ASSUME NEW s \in P!Session, NEW q \in Party, P!Began(s),
                        key[s].session_id = party'[q].session_id
                 PROVE  key[s].ot[q] = party'[q].ot[P!Owner(s)]
      BY <2>2, <2>3 DEF Fits
    <3>1. CASE q # p
      BY <2>1, <3>1 DEF LInv, Fits
    <3>2. CASE q = p
      <4>1. key[s] = party[P!Owner(s)] /\ P!Owner(s) # p
        BY <2>1, <3>2 DEF LInv, Borrowings
      <4>2. key[s] = party'[P!Owner(s)]
        BY <2>1, <2>4, <4>1
      <4> QED BY <2>4, <2>6, <3>2, <4>2 DEF ObjectsFit
    <3> QED BY <3>1, <3>2
  <2>8. P!KeysFit'
    BY <2>2, <2>3 DEF LInv, P!KeysFit, P!SameOt
  <2> QED BY <2>1, <2>5, <2>7, <2>8
<1>5. ASSUME NEW p \in Honest, Commit(p) \/ Phase3(p) \/ Phase4Rejects(p)
      PROVE  UNCHANGED <<party, begun, attempt>>
  BY <1>5 DEF Commit, Phase2, Phase3, Phase4Rejects, vars
<1>6. UNCHANGED vars => UNCHANGED <<party, begun, attempt>>
  BY DEF vars
<1> QED BY <1>1, <1>2, <1>3, <1>4, <1>5, <1>6 DEF Next, Deal, Finish, Refreshing

\* A session borrows the object its party holds, which fits all that were borrowed before.
LEMMA SigningKeeps ==
  ASSUME LInv, P!Next, UNCHANGED vars
  PROVE  Refreshing' /\ Borrowings' /\ Fits' /\ P!KeysFit'
<1>1. Refreshing' /\ UNCHANGED party /\ \A e : LeftBehind(e) => LeftBehind(e)'
  BY DEF vars, LInv, Refreshing, IInv, TypeOK, InOrder, Active, Done, Together, Behind, Extends,
         EpochsMatch, Matches, Left, FirstObject, LeftBehind
<1>2. \A s \in P!Session : P!Began(s) => P!Began(s)' /\ key'[s] = key[s]
  BY P!StepKeeps, SigningAssumptions DEF LInv, P!IInv
<1>3. \A s \in P!Session : P!Owner(s) \in Party
  BY DEF P!Session, P!Owner, P!Party, Party
<1>4. \A s \in P!Session : ~P!Began(s) /\ P!Began(s)' => key'[s] = party[P!Owner(s)]
  <2>1. \A s \in P!Session : ~P!Began(s) /\ P!Began(s)' =>
          key'[s] \in [p \in Party |-> {party[p]}][P!Owner(s)]
    BY P!BeginsOnHeldKey, SigningAssumptions DEF LInv, P!IInv
  <2> QED BY <1>3, <2>1
<1>5. Borrowings'
  BY <1>1, <1>2, <1>4 DEF LInv, Borrowings
<1>6. Fits'
  <2>1. ObjectsFit
    BY HeldObjectsFit DEF LInv, Refreshing
  <2> QED BY <1>1, <1>2, <1>3, <1>4, <2>1 DEF LInv, Fits, ObjectsFit
<1>7. P!KeysFit'
  <2> SUFFICES ASSUME NEW s \in P!Session, NEW t \in P!Session, P!Began(s)', P!Began(t)',
                      key'[s].session_id = key'[t].session_id
               PROVE  key'[s].ot[P!Owner(t)] = key'[t].ot[P!Owner(s)]
    BY DEF P!KeysFit, P!SameOt
  <2>1. CASE P!Began(s) /\ P!Began(t)
    BY <1>2, <2>1 DEF LInv, P!KeysFit, P!SameOt
  <2>2. CASE ~P!Began(s)
    BY <1>1, <1>3, <1>4, <1>6, <2>2 DEF Fits
  <2>3. CASE ~P!Began(t)
    BY <1>1, <1>3, <1>4, <1>6, <2>3 DEF Fits
  <2> QED BY <2>1, <2>2, <2>3
<1> QED BY <1>1, <1>5, <1>6, <1>7

LEMMA LInvInit == LifeInit => LInv
<1> SUFFICES ASSUME LifeInit PROVE LInv
  OBVIOUS
<1>1. IInv
  BY InitInv DEF LifeInit
<1>2. P!IInv
  BY CInvLives DEF P!CInv
<1>3. Left /\ FirstObject
  BY DEF LifeInit, Init, Left, FirstObject, Honest
<1>4. \A s \in P!Session : stage[s] = "unused" /\ data[s] = None
  BY SameInit DEF LifeInit, P!Init
<1> QED BY <1>1, <1>2, <1>3, <1>4
        DEF LInv, Refreshing, P!UnusedIsEmpty, Borrowings, Fits, P!KeysFit, P!Began

LEMMA LInvStep ==
  ASSUME Coordinated, Routed, LInv, [LifeNext]_<<refreshVars, signingVars>>
  PROVE  LInv'
<1>1. CASE P!Next /\ UNCHANGED vars
  <2>1. P!IInv'
    BY <1>1, P!IInvInductive, SigningAssumptions DEF LInv
  <2>2. P!UnusedIsEmpty'
    BY <1>1, P!UnusedIsEmptyKept, SigningAssumptions DEF LInv, P!IInv
  <2> QED BY <1>1, <2>1, <2>2, SigningKeeps DEF LInv
<1>2. CASE UNCHANGED signingVars /\ [Next]_vars
  <2>1. P!IInv' /\ P!UnusedIsEmpty'
    BY <1>2, SigningKept DEF LInv
  <2> QED BY <1>2, <2>1, RefreshKeeps DEF LInv
<1> QED BY <1>1, <1>2, LifeCases

\* Applications that begin a refresh only from a common epoch, over a relay that keeps
\* attempts apart, and that retry no sign_id, ban only parties that sent them a message
\* spoiling a check that leaks OT state: however refreshes, sessions on objects that have
\* since been replaced, and parties an epoch behind interleave.
THEOREM BansDeservedWhileRefreshing ==
  ASSUME Coordinated, Routed, ~AllowRetry
  PROVE  LifeSpec => []BansAreDeserved
<1> DEFINE Unbanned == P!SignIdsUnique /\ P!BansAreDeserved
<1>1. LifeInit => Unbanned
  BY SameInit DEF LifeInit, P!Init, P!SignIdsUnique, P!BansAreDeserved
<1>2. LInv /\ Unbanned /\ [LifeNext]_<<refreshVars, signingVars>> => Unbanned'
  <2>1. LInv /\ Unbanned /\ P!Next => Unbanned'
    <3>1. LInv /\ P!SignIdsUnique /\ P!Next => P!SignIdsUnique'
      BY P!SignIdsUniqueKept, SigningAssumptions DEF LInv, P!IInv
    <3>2. LInv /\ Unbanned /\ P!Next => P!BansAreDeserved'
      BY P!BansAreDeservedKept, SigningAssumptions DEF LInv
    <3> QED BY <3>1, <3>2
  <2> QED BY <2>1, LifeCases, SigningKept
<1>3. P!BansAreDeserved => BansAreDeserved
  BY DEF BansAreDeserved, S!BansAreDeserved, P!BansAreDeserved, S!Sender, P!Sender,
         S!Owner, P!Owner, S!Party, P!Party
<1> QED BY <1>1, <1>2, <1>3, LInvInit, LInvStep, PTL DEF LifeSpec
=============================================================================
