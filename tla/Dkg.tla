-------------------------------- MODULE Dkg --------------------------------
(***************************************************************************)
(* One distributed key generation (dkls23-core/src/protocols/dkg.rs) as    *)
(* every party drives it through its DkgSession (dkg_session.rs).          *)
(* Messages of a round are there once their sender ran the phase; a party  *)
(* may call a phase before they are, may lose or mix up fragments, and may *)
(* be handed duplicated and misrouted messages.  phase1 can be called      *)
(* again at any time and draws another polynomial.  The parties in Faulty  *)
(* tell every other party whatever they like: fragments of no polynomial,  *)
(* another committed point and another chain code to each.                 *)
(*                                                                         *)
(* No failure of the key generation is a ban, so the order of the checks   *)
(* of phase 4 makes no difference and they are one predicate.              *)
(***************************************************************************)
EXTENDS Shamir, SequencesExt

CONSTANTS
  Faulty,       \* the parties that do not follow the protocol
  Dealings,     \* the polynomials an honest party may draw
  MaxDeals,     \* how often a party calls phase1
  ForeignCodes, \* the auxiliary chain codes of faulty parties
  None          \* "no value", different from every other value

ASSUME DealingsAssumption ==
  /\ Faulty \subseteq Party
  /\ Dealings \subseteq Polynomial
  /\ MaxDeals \in Nat

VARIABLES
  dealt,        \* the polynomials each party drew in phase 1
  stage,        \* which of DkgSession's Option fields are Some
  point,        \* poly_point
  sent2, sent3, \* the parties whose messages of phase 2 and phase 3 are out
  result        \* the Party and PublicKeyPackage of a finished session

vars == <<dealt, stage, point, sent2, sent3, result>>

Honest == Party \ Faulty
Stage == {"new", "phase2", "phase3", "done", "aborted"}
\* The three kinds of message that go to one counterparty.
Kind == {"zero2", "zero3", "mul"}
AuxChainCode(q) == IF q \in Faulty THEN ForeignCodes ELSE {q}

-----------------------------------------------------------------------------
(* What a phase may be called with.                                        *)

\* The sums p may be handed as the fragment of q: one fragment, none, or those of
\* several polynomials.  poly_fragments is a vector of scalars that names no sender,
\* and phase 2 does not count it.
FragmentSums(q, p) ==
  IF q \in Faulty THEN Scalar
  ELSE {SumFunction([poly \in S |-> Evaluate(poly, p)]) % Prime : S \in SUBSET dealt[q]}

\* The messages of one kind sent so far, those meant for p, and p's batch: these in
\* some order, or with one message of any receiver put in or in the place of another.
Messages(kind) ==
  LET senders == (IF kind = "zero2" THEN sent2 ELSE sent3) \cup Faulty
  IN  {m \in [from : senders, to : Party] : m.from # m.to}
Batch(kind, p) == SetToSeq({m \in Messages(kind) : m.to = p})
Spoilt(kind, p) ==
  LET batch == Batch(kind, p)
  IN  {Append(batch, m) : m \in Messages(kind)}
        \cup {[batch EXCEPT ![i] = m] : i \in DOMAIN batch, m \in Messages(kind)}

\* points: the committed point of each party, from its ProofCommitment.
\* codes: the auxiliary chain code each party reveals.
\* routed: the messages of each kind.
\* unsound: the faulty parties one of whose messages does not verify, which gives
\* ProofVerificationFailed, ZeroShareDecommitFailed, MultiplicationVerificationFailed,
\* ChainCodeCommitmentFailed or ProtocolVersionMismatch.
Revealed == sent3 \cup Faulty
Points == {f \in [Revealed -> Scalar] : \A q \in sent3 : f[q] = point[q]}
Codes == {f \in [Revealed -> UNION {AuxChainCode(q) : q \in Party}] :
            \A q \in Revealed : f[q] \in AuxChainCode(q)}
Whole(p) == [kind \in Kind |-> Batch(kind, p)]
Mishaps(p) == UNION {{[Whole(p) EXCEPT ![kind] = msgs] : msgs \in Spoilt(kind, p)} : kind \in Kind}
Inputs(p) == [points : Points, codes : Codes, routed : {Whole(p)} \cup Mishaps(p),
              unsound : SUBSET Faulty]

-----------------------------------------------------------------------------
(* The checks of phase 4.                                                  *)

\* MisroutedMessage, UnexpectedSender, DuplicateSender, WrongMessageCount.
Routed(p, msgs) ==
  /\ \A i \in DOMAIN msgs : /\ msgs[i].to = p
                            /\ msgs[i].from \in Party \ {p}
                            /\ \A j \in 1..(i - 1) : msgs[j].from # msgs[i].from
  /\ Len(msgs) = ShareCount - 1

Accepts(p, in) ==
  /\ in.unsound = {}
  /\ OnePolynomial(in.points)
  /\ PublicKey(in.points) \notin {0, 1}         \* TrivialPublicKey
  /\ point[p] \notin {0, 1}                     \* TrivialKeyShare
  /\ \A kind \in Kind : Routed(p, in.routed[kind])
  /\ DOMAIN in.codes = Party                    \* MissingMessageFromParty

-----------------------------------------------------------------------------
Init ==
  /\ dealt = [p \in Party |-> {}]
  /\ stage = [p \in Party |-> "new"]
  /\ point = [p \in Party |-> None]
  /\ sent2 = {}
  /\ sent3 = {}
  /\ result = [p \in Party |-> None]

Phase1(p, poly) ==
  /\ stage[p] \notin {"done", "aborted"}
  /\ Cardinality(dealt[p]) < MaxDeals
  /\ dealt' = [dealt EXCEPT ![p] = @ \cup {poly}]
  /\ UNCHANGED <<stage, point, sent2, sent3, result>>

\* mutant: a second call of phase 2 is not refused
Phase2Again(p, fragments) ==
  /\ stage[p] \in {"new", "phase2", "phase3"}
  /\ stage' = [stage EXCEPT ![p] = "phase2"]
  /\ point' = [point EXCEPT ![p] = SumFunction(fragments) % Prime]
  /\ sent2' = sent2 \cup {p}
  /\ UNCHANGED <<dealt, sent3, result>>
\* step3: poly_point is the sum of the fragments; its commitment and those of the zero
\* shares and of the chain code go out.
Phase2(p, fragments) ==
  /\ stage[p] = "new"
  /\ stage' = [stage EXCEPT ![p] = "phase2"]
  /\ point' = [point EXCEPT ![p] = SumFunction(fragments) % Prime]
  /\ sent2' = sent2 \cup {p}
  /\ UNCHANGED <<dealt, sent3, result>>

\* mutant: phase 3 does not need what phase 2 kept
Phase3Early(p) ==
  /\ stage[p] \in {"new", "phase2"}
  /\ stage' = [stage EXCEPT ![p] = "phase3"]
  /\ sent3' = sent3 \cup {p}
  /\ UNCHANGED <<dealt, point, sent2, result>>
\* The openings, the proof and the OT messages go out.
Phase3(p) ==
  /\ stage[p] = "phase2"
  /\ stage' = [stage EXCEPT ![p] = "phase3"]
  /\ sent3' = sent3 \cup {p}
  /\ UNCHANGED <<dealt, point, sent2, result>>

\* The chain code is the exclusive or of in.codes, which stands for it.
Phase4(p, in) ==
  /\ stage[p] = "phase3"
  /\ Accepts(p, in)
  /\ stage' = [stage EXCEPT ![p] = "done"]
  /\ result' = [result EXCEPT ![p] = [pk |-> PublicKey(in.points),
                                      verifying_shares |-> in.points,
                                      chain_code |-> in.codes]]
  /\ UNCHANGED <<dealt, point, sent2, sent3>>

Abort(p) ==
  /\ stage' = [stage EXCEPT ![p] = "aborted"]
  /\ UNCHANGED <<dealt, point, sent2, sent3, result>>

Phase4Rejects(p, in) ==
  /\ stage[p] = "phase3"
  /\ ~Accepts(p, in)
  /\ Abort(p)

\* phase4 consumes the session even when it is called too early; phase2 and phase3
\* called out of order leave it as it was.
Phase4OutOfOrder(p) ==
  /\ stage[p] \in {"new", "phase2"}
  /\ Abort(p)

Next == \E p \in Honest :
  \/ \E poly \in Dealings : Phase1(p, poly)
  \/ \E fragments \in [Party -> Scalar] :
       /\ \A q \in Party : fragments[q] \in FragmentSums(q, p)
       /\ Phase2(p, fragments)
  \/ Phase3(p)
  \/ \E in \in Inputs(p) : Phase4(p, in) \/ Phase4Rejects(p, in)
  \/ Phase4OutOfOrder(p)

Spec == Init /\ [][Next]_vars

-----------------------------------------------------------------------------
(* Properties                                                              *)

Finished == {p \in Honest : stage[p] = "done"}

TypeOK ==
  /\ dealt \in [Party -> SUBSET Dealings]
  /\ stage \in [Party -> Stage]
  /\ point \in [Party -> Scalar \cup {None}]
  /\ sent2 \subseteq Honest /\ sent3 \subseteq sent2
  /\ \A p \in Finished : /\ result[p].pk \in Scalar
                         /\ result[p].verifying_shares \in [Party -> Scalar]

\* The share a finished party holds of an honest one is the one that party keeps, for
\* ever.  Whatever fragments were mixed, whoever aborted and however the rounds
\* interleaved, the proof that was broadcast belongs to the poly_point that is kept.
ViewsMatch ==
  \A p \in Finished : \A q \in Honest :
    /\ stage[q] # "new"
    /\ result[p].verifying_shares[q] = point[q]

\* When at least Threshold parties are honest, all that finish have the same public key
\* and verifying shares, even those of parties that told everybody something else: step5
\* compares enough windows to pin one polynomial down.
KeyAgreement ==
  Cardinality(Honest) >= Threshold =>
    \A p, q \in Finished : /\ result[p].pk = result[q].pk
                           /\ result[p].verifying_shares = result[q].verifying_shares

\* Any Threshold honest parties that finished can sign: their shares interpolate to the
\* secret of the public key each of them holds.
AnyThresholdSigns ==
  \A S \in kSubset(Threshold, Finished) : \A p \in S :
    Cardinality(Honest) >= Threshold => AtZero(point, S) = result[p].pk
=============================================================================
