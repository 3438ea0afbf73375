------------------------- MODULE ObliviousTransfer -------------------------
(***************************************************************************)
(* The correlated oblivious transfer between two parties: the base OT      *)
(* (ot/base.rs), its extension (ot/extension.rs), and the masking of the   *)
(* extension's state by a fast refresh (refresh.rs).                       *)
(*                                                                         *)
(* The sender of the extension is the receiver of the base OT: it ends     *)
(* with the bits of its correlation and for each the seed it chose, the    *)
(* other party with both seeds.  A hash nobody looks into, such as a seed, *)
(* is its input, and a seed that is masked with a hash is the sequence of  *)
(* the two.  Strings of bits are sets of positions, as in BinaryField.     *)
(***************************************************************************)
EXTENDS BinaryField, Proofs

CONSTANT KAPPA      \* the number of base OTs

Row == 0..(KAPPA - 1)
BATCH_SIZE == 2 * OT_SECURITY
EXTENDED_BATCH_SIZE == 3 * OT_SECURITY
Column == 0..(BATCH_SIZE - 1)

Number(bits) == MapThenSumSet(LAMBDA x : 2^x, bits)

-----------------------------------------------------------------------------
(* Base OT.                                                                *)

\* Every row has a session id of its own.
RowSid(sid, i) == sid * KAPPA + i
BaseH(sid, i, seed) == 1 + (Hash(<<RowSid(sid, i), seed>>) % (Q - 1))
BaseHash(sid, i, point) == <<RowSid(sid, i), point>>

\* The base OT's receiver proves that its message for row i encrypts a bit.
BaseReceiverPhase1(sid, i, seed, r, bit, coins) ==
  EncProof(RowSid(sid, i), BaseH(sid, i, seed), r, bit, coins)
BaseReceiverPhase2(sid, i, r, z) == BaseHash(sid, i, Mul(z, r))

BaseSenderAccepts(sid, i, seed, proof) ==
  /\ EncVerifies(proof, RowSid(sid, i))
  /\ proof.proof0.base_h = BaseH(sid, i, seed)
BaseSenderPhase2(sid, i, s, proof) ==
  LET v == PointV(proof)
      h == proof.proof0.base_h
  IN  <<BaseHash(sid, i, Mul(v, s)), BaseHash(sid, i, Mul(Sub(v, h), s))>>

\* OTESender::init_phase1 and 2, from what both ends drew and the sender's proof.
OTESenderInit(sid, correlation, vec_r, dlog_proof) ==
  [correlation |-> correlation,
   seeds |-> [i \in Row |-> BaseReceiverPhase2(sid, i, vec_r[i], dlog_proof.point)]]
\* The receiver has as many seeds as proofs arrived: nobody counts them before a run.
OTEReceiverInit(sid, s, enc_proofs) ==
  [seeds0 |-> [i \in DOMAIN enc_proofs |-> BaseSenderPhase2(sid, i, s, enc_proofs[i])[1]],
   seeds1 |-> [i \in DOMAIN enc_proofs |-> BaseSenderPhase2(sid, i, s, enc_proofs[i])[2]]]
WholeSeeds(ote_receiver) == DOMAIN ote_receiver.seeds0 = Row /\ DOMAIN ote_receiver.seeds1 = Row

\* The sender has the one of the receiver's two seeds that its bit names, in every row.
CorrelatedAt(ote_sender, ote_receiver, i) ==
  ote_sender.seeds[i] =
    IF i \in ote_sender.correlation THEN ote_receiver.seeds1[i] ELSE ote_receiver.seeds0[i]
Correlated(ote_sender, ote_receiver) == \A i \in Row : CorrelatedAt(ote_sender, ote_receiver, i)

-----------------------------------------------------------------------------
(* Phase 4 of a fast refresh.  mask stands for the new zero-share seed of  *)
(* the pair and refresh_sid; sender and receiver are those of the          *)
(* extension, whichever of them computes.                                  *)

RPrime(b, mask, i, sender, receiver) == <<IF b THEN 1 ELSE 0, mask, i, sender, receiver>>
BPrime(mask, i, sender, receiver) == Hash(<<mask, i, sender, receiver>>) % 2 = 1

MaskedSender(ote, mask, me, them) ==
  LET flipped == {i \in Row : BPrime(mask, i, me, them)}
      correlation == SymDiff(ote.correlation, flipped)
  IN  [correlation |-> correlation,
       seeds |-> [i \in Row |->
         ote.seeds[i] \o RPrime(i \in correlation, mask, i, me, them)]]

\* Seeds beyond the rows stay as they are.
WithRows(seeds, masked) == [i \in DOMAIN seeds |-> IF i \in Row THEN masked[i] ELSE seeds[i]]
\* mutant: the two seeds keep their places when the correlation bit is flipped
MaskedReceiverInPlace(ote, mask, me, them) ==
  LET pad(b, i) == RPrime(b, mask, i, them, me)
  IN  [seeds0 |-> WithRows(ote.seeds0, [i \in Row |-> ote.seeds0[i] \o pad(FALSE, i)]),
       seeds1 |-> WithRows(ote.seeds1, [i \in Row |-> ote.seeds1[i] \o pad(TRUE, i)])]
MaskedReceiver(ote, mask, me, them) ==
  LET swapped(i) == BPrime(mask, i, them, me)
      same(i) == IF swapped(i) THEN ote.seeds1[i] ELSE ote.seeds0[i]
      opposite(i) == IF swapped(i) THEN ote.seeds0[i] ELSE ote.seeds1[i]
      pad(b, i) == RPrime(b, mask, i, them, me)
  IN  [seeds0 |-> WithRows(ote.seeds0, [i \in Row |-> same(i) \o pad(FALSE, i)]),
       seeds1 |-> WithRows(ote.seeds1, [i \in Row |-> opposite(i) \o pad(TRUE, i)])]

-----------------------------------------------------------------------------
(* The extension.  sid, j and the iteration enter every hash.              *)

Prg(sid, i, seed) ==
  {j \in 0..(EXTENDED_BATCH_SIZE - 1) : (Hash(<<sid, i, j>> \o seed) \div 4) % 2 = 1}

\* The challenges chi1 and chi2 are hashes of u.
Chi(sid, k, u) ==
  LET input == <<sid, k>> \o [i \in 1..KAPPA |-> Number(u[i - 1])]
  IN  {x \in 0..(OT_SECURITY - 1) : (Hash(<<x>> \o input) \div 4) % 2 = 1}
Challenges(sid, u) == <<Chi(sid, 1, u), Chi(sid, 2, u)>>

\* The sum of the first block times chi1, the second times chi2, and the third.
Block(bits, k) == {x - k * OT_SECURITY : x \in {y \in bits : y \div OT_SECURITY = k}}
\* mutant: the second block stays out of the check
WeightedSumTwoBlocks(bits, chi) == SymDiff(FieldMul(Block(bits, 0), chi[1]), Block(bits, 2))
WeightedSum(bits, chi) ==
  SymDiff(SymDiff(FieldMul(Block(bits, 0), chi[1]), FieldMul(Block(bits, 1), chi[2])),
          Block(bits, 2))

\* cut_and_transpose: the rows that have a one in column j.
TransposedColumn(rows, j) == {i \in Row : j \in rows[i]}

\* OTEReceiver::run_phase1: x is the choice bits and as many random ones as the check
\* gives away, the same in every row; t is what the receiver keeps.
ReceiverRows(ote, sid) == [i \in Row |-> Prg(sid, i, ote.seeds0[i])]
Extended(choice_bits, noise) == choice_bits \cup Shift(noise, BATCH_SIZE)
OTEMessage(ote, sid, x, row_bits) ==
  LET t == ReceiverRows(ote, sid)
      u == [i \in Row |-> SymDiff(SymDiff(t[i], Prg(sid, i, ote.seeds1[i])), row_bits[i])]
      chi == Challenges(sid, u)
  IN  [u |-> u, verify_x |-> WeightedSum(x, chi),
       verify_t |-> [i \in Row |-> WeightedSum(t[i], chi)]]

\* OTESender::run.
OTEDimensions(data) == DOMAIN data.u = Row /\ DOMAIN data.verify_t = Row
SenderRows(ote, sid, u) ==
  [i \in Row |-> SymDiff(IF i \in ote.correlation THEN u[i] ELSE {}, Prg(sid, i, ote.seeds[i]))]
OTEConsistent(ote, q, verify_x, verify_t, chi) ==
  \A i \in Row : WeightedSum(q[i], chi)
                   = SymDiff(verify_t[i], IF i \in ote.correlation THEN verify_x ELSE {})

Randomize(sid, j, iteration, column) == HashAsScalar(<<sid, j, iteration, Number(column)>>)

SenderPad(q, sid, j, iteration) == Randomize(sid, j, iteration, TransposedColumn(q, j))
Tau(ote, q, sid, j, iteration, correlation) ==
  LET v1 == Randomize(sid, j, iteration, SymDiff(TransposedColumn(q, j), ote.correlation))
  IN  Add(Sub(v1, SenderPad(q, sid, j, iteration)), correlation)

\* OTEReceiver::run_phase2.
ReceiverPad(t, sid, j, iteration, choice_bits, tau) ==
  LET minus_v == Sub(0, Randomize(sid, j, iteration, TransposedColumn(t, j)))
  IN  IF j \in choice_bits THEN Add(tau, minus_v) ELSE minus_v
=============================================================================
