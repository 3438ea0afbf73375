------------------------------- MODULE Proofs -------------------------------
(***************************************************************************)
(* The zero-knowledge proofs of utilities/proofs.rs, over a group of small *)
(* prime order: Schnorr's proof of a discrete logarithm made               *)
(* non-interactive after Fischlin, the Chaum-Pedersen proof of equal       *)
(* logarithms, and the OR of two of these that the base OT uses to show    *)
(* that a receiver's message encrypts a bit.                               *)
(*                                                                         *)
(* A point is its logarithm to the generator: the generator is 1 and the   *)
(* identity 0.  What a function draws at random is an argument.            *)
(***************************************************************************)
EXTENDS Naturals, Sequences, FiniteSets

CONSTANTS
  Q,           \* the order of the group
  Hash(_),     \* the random oracle, from sequences of numbers to numbers
  Pairs,       \* R / 2 in the code: pairs of Schnorr proofs in a DLogProof
  Challenge    \* the challenges of a Schnorr proof (T bits in the code)

ASSUME GroupAssumption ==
  /\ Q \in Nat /\ Q > 2
  /\ Pairs \in Nat
  /\ Challenge \subseteq Nat

Scalar == 0..(Q - 1)
Generator == 1
Identity == 0
Add(a, b) == (a + b) % Q
Sub(a, b) == (a + (Q - b)) % Q
Mul(a, b) == (a * b) % Q
\* tagged_hash_as_scalar; tags and lengths keep inputs apart.
HashAsScalar(inputs) == Hash(inputs) % Q

-----------------------------------------------------------------------------
(* DLogProof.  A Schnorr proof is [challenge, response].                   *)

Schnorr(scalar, rand, challenge) ==
  [challenge |-> challenge, response |-> Sub(rand, Mul(challenge % Q, scalar))]
SchnorrVerifies(proof, point, rc) ==
  /\ proof.challenge \in Challenge
  /\ Add(proof.response, Mul(point, proof.challenge % Q)) = rc

FischlinHash(sid, rcs, i, proof) ==
  Hash(<<sid, i, proof.challenge, proof.response>> \o rcs) % 2

\* All the proofs prove may return for the random states of its 2 * Pairs Schnorr proofs:
\* it searches challenges until the hashes of every pair agree.
DLogProofs(scalar, sid, rands) ==
  LET schnorr(i, c) == Schnorr(scalar, rands[i], c)
      found == {cs \in [1..(2 * Pairs) -> Challenge] : \A i \in 1..Pairs :
                  FischlinHash(sid, rands, i, schnorr(i, cs[i]))
                    = FischlinHash(sid, rands, i + Pairs, schnorr(i + Pairs, cs[i + Pairs]))}
  IN  {[point |-> scalar, rand_commitments |-> rands,
        proofs |-> [i \in 1..(2 * Pairs) |-> schnorr(i, cs[i])]] : cs \in found}

DLogVerifies(proof, sid) ==
  LET rcs == proof.rand_commitments
  IN  /\ Len(rcs) = 2 * Pairs /\ Len(proof.proofs) = 2 * Pairs
      /\ proof.point # Identity
      /\ \A i \in DOMAIN rcs : rcs[i] # Identity /\ \A j \in 1..(i - 1) : rcs[j] # rcs[i]
      /\ \A i \in 1..Pairs : FischlinHash(sid, rcs, i, proof.proofs[i])
                               = FischlinHash(sid, rcs, i + Pairs, proof.proofs[i + Pairs])
      /\ \A i \in DOMAIN rcs : SchnorrVerifies(proof.proofs[i], proof.point, rcs[i])

-----------------------------------------------------------------------------
(* CPProof: point_u and point_v have one logarithm to base_g and base_h.   *)

RandomCommitments(base_g, base_h, rand) == [g |-> Mul(base_g, rand), h |-> Mul(base_h, rand)]

CPProof(base_g, base_h, scalar, rand, challenge) ==
  [base_g |-> base_g, base_h |-> base_h,
   point_u |-> Mul(base_g, scalar), point_v |-> Mul(base_h, scalar),
   challenge_response |-> Sub(rand, Mul(challenge, scalar))]

\* The commitments that make a proof verify for a challenge.
Explained(proof, challenge) ==
  [g |-> Add(Mul(proof.base_g, proof.challenge_response), Mul(proof.point_u, challenge)),
   h |-> Add(Mul(proof.base_h, proof.challenge_response), Mul(proof.point_v, challenge))]

CPVerifies(proof, commitments, challenge) ==
  /\ Identity \notin {proof.point_u, proof.point_v, proof.base_h}
  /\ Explained(proof, challenge) = commitments

Simulated(base_g, base_h, point_u, point_v, response) ==
  [base_g |-> base_g, base_h |-> base_h, point_u |-> point_u, point_v |-> point_v,
   challenge_response |-> response]

-----------------------------------------------------------------------------
(* EncProof: u is scalar * h, and v is scalar * g or scalar * g + h.       *)

FiatShamir(sid, h, u, v, rc0, rc1) ==
  HashAsScalar(<<sid, h, u, v, rc0.g, rc0.h, rc1.g, rc1.h>>)

\* coins are what prove_step1 and simulate draw.
EncProof(sid, h, scalar, bit, coins) ==
  LET u == Mul(h, scalar)
      v == IF bit THEN Add(scalar, h) ELSE scalar
      fake_v == IF bit THEN v ELSE Sub(scalar, h)
      real_commitments == RandomCommitments(Generator, h, coins.rand)
      fake == Simulated(Generator, h, fake_v, u, coins.response)
      fake_commitments == Explained(fake, coins.challenge)
      c0 == IF bit THEN fake_commitments ELSE real_commitments
      c1 == IF bit THEN real_commitments ELSE fake_commitments
      real_challenge == Sub(FiatShamir(sid, h, u, v, c0, c1), coins.challenge)
      real == CPProof(Generator, h, scalar, coins.rand, real_challenge)
  IN  [proof0 |-> IF bit THEN fake ELSE real, proof1 |-> IF bit THEN real ELSE fake,
       commitments0 |-> c0, commitments1 |-> c1,
       challenge0 |-> IF bit THEN coins.challenge ELSE real_challenge,
       challenge1 |-> IF bit THEN real_challenge ELSE coins.challenge]

PointU(proof) == proof.proof0.point_v
PointV(proof) == proof.proof0.point_u

\* mutant: the two statements are not compared with each other
StatementsIgnored(proof) == TRUE
StatementsAgree(proof) ==
  LET p == proof.proof0
      q == proof.proof1
  IN  /\ p.base_g = Generator /\ q.base_g = p.base_g
      /\ q.base_h = p.base_h
      /\ q.point_v = p.point_v
      /\ p.point_u = Add(q.point_u, q.base_h)

BothVerify(proof) ==
  /\ CPVerifies(proof.proof0, proof.commitments0, proof.challenge0)
  /\ CPVerifies(proof.proof1, proof.commitments1, proof.challenge1)

EncVerifies(proof, sid) ==
  /\ StatementsAgree(proof)
  /\ Add(proof.challenge0, proof.challenge1) =
       FiatShamir(sid, proof.proof0.base_h, PointU(proof), PointV(proof),
                  proof.commitments0, proof.commitments1)
  /\ BothVerify(proof)
=============================================================================
