-------------------------- MODULE Multiplication --------------------------
(***************************************************************************)
(* The two-party multiplication of utilities/multiplication.rs over the    *)
(* correlated oblivious transfer, for one ordered pair of parties: the     *)
(* sender has an input for each of L products, the receiver a random b,    *)
(* and they end with shares of every input times b.                        *)
(*                                                                         *)
(* The two are set up by a key generation, masked by fast refreshes that   *)
(* either may complete without the other, and run once.  Any one thing the *)
(* network carries, or one row of the receiver's choice bits, may be       *)
(* altered.  What the program draws comes from tape, as a hash of what is  *)
(* drawn.                                                                  *)
(***************************************************************************)
EXTENDS ObliviousTransfer

CONSTANTS
  L,           \* products of a run
  Tape,        \* seeds of the random number generators
  RunId,       \* session ids of a run; the receiver has the first, 1
  MaxMasks,    \* bound: fast refreshes
  SmallOrder,  \* a prime order at which every transcript of a proof can be tried
  None, Aborted

ASSUME RunAssumption ==
  /\ KAPPA \in Nat \ {0, 1} /\ L \in Nat \ {0}
  /\ 1 \in RunId /\ MaxMasks \in Nat /\ Tape \subseteq Nat
  /\ SmallOrder \in Nat /\ SmallOrder > 2
  /\ \A d \in 2..(SmallOrder - 1) : SmallOrder % d # 0

SENDER == 1      \* the parties' indices
RECEIVER == 2
InitSid == 9     \* the session id of the key generation
OT_WIDTH == 2 * L

Drawn(tape, what, i) == HashAsScalar(<<tape, what, i>>)
DrawnPoint(tape, what, i) == 1 + (Drawn(tape, what, i) % (Q - 1))
DrawnBits(tape, what, n) == {i \in 0..(n - 1) : (Drawn(tape, what, i) \div 2) % 2 = 1}

\* Every entry is a hash of the nonce plus its place.
PublicGadget(nonce) == [j \in Column |-> HashAsScalar(<<InitSid, Add(nonce, j + 1)>>)]
SumOf(f) == FoldFunction(Add, 0, f)

VARIABLES
  tape,
  sender,      \* MulSender, with the number of masks it has been through
  receiver,    \* MulReceiver, likewise
  kept,        \* MulDataToKeepReceiver
  toSender,    \* OTEDataToSender
  ran,         \* what MulSender::run returned
  finished,    \* what MulReceiver::run_phase2 returned
  altered      \* what arrived altered

vars == <<tape, sender, receiver, kept, toSender, ran, finished, altered>>

Init ==
  /\ tape \in Tape
  /\ sender = None /\ receiver = None /\ kept = None
  /\ toSender = None /\ ran = None /\ finished = None
  /\ altered = {}

\* At most one thing is altered.
Arrives(what, changed) ==
  /\ changed => altered = {}
  /\ altered' = altered \cup IF changed THEN {what} ELSE {}
-----------------------------------------------------------------------------
(* Set-up.                                                                 *)

\* What the sender drew and sends: its proofs of the base OT, and their seed.
Correlation == DrawnBits(tape, 1, KAPPA)
VecR == [i \in Row |-> DrawnPoint(tape, 2, i)]
OTSeed == Drawn(tape, 3, 0)
EncProofList(n) ==
  [i \in 0..(n - 1) |->
     BaseReceiverPhase1(InitSid, i, OTSeed, DrawnPoint(tape, 2, i), i \in Correlation,
       [rand |-> DrawnPoint(tape, 4, i), challenge |-> Drawn(tape, 5, i),
        response |-> Drawn(tape, 6, i)])]
EncProofs == EncProofList(KAPPA)
\* What the receiver drew and sends.
SecretS == DrawnPoint(tape, 7, 0)
Nonce == Drawn(tape, 8, 0)
DLog == CHOOSE proof \in DLogProofs(SecretS, InitSid,
                           [i \in 1..(2 * Pairs) |-> DrawnPoint(tape, 9, i)]) : TRUE

\* An element that arrives altered is the next one, a list has one entry less or more.
Wrong(x) == Add(x, 1)
DLogChanges == {[DLog EXCEPT !.point = Wrong(@)],
                [DLog EXCEPT !.proofs[1].response = Wrong(@)],
                [DLog EXCEPT !.rand_commitments = Tail(@)]}
EncProofChanges == {[EncProofs EXCEPT ![0] = EncProofs[1]],
                    [EncProofs EXCEPT ![0].challenge0 = Wrong(@)],
                    [EncProofs EXCEPT ![0].proof0.point_u = Wrong(@)],
                    EncProofList(KAPPA - 1), EncProofList(KAPPA + 1)}

\* MulSender::init_phase2; a proof that does not verify aborts the key generation.
InitSender(dlog_proof, nonce) ==
  /\ sender = None
  /\ sender' = IF DLogVerifies(dlog_proof, InitSid)
               THEN [public_gadget |-> PublicGadget(nonce), masks |-> 0,
                     ote_sender |-> OTESenderInit(InitSid, Correlation, VecR, dlog_proof)]
               ELSE Aborted
  /\ Arrives("set-up", <<dlog_proof, nonce>> # <<DLog, Nonce>>)
  /\ UNCHANGED <<tape, receiver, kept, toSender, ran, finished>>

\* MulReceiver::init_phase2 takes whatever number of proofs arrived.
InitReceiver(seed, enc_proofs) ==
  /\ receiver = None
  /\ receiver' = IF \A i \in DOMAIN enc_proofs :
                      BaseSenderAccepts(InitSid, i, seed, enc_proofs[i])
                 THEN [public_gadget |-> PublicGadget(Nonce), masks |-> 0,
                       ote_receiver |-> OTEReceiverInit(InitSid, SecretS, enc_proofs)]
                 ELSE Aborted
  /\ Arrives("set-up", <<seed, enc_proofs>> # <<OTSeed, EncProofs>>)
  /\ UNCHANGED <<tape, sender, kept, toSender, ran, finished>>

SetUp == sender \notin {None, Aborted} /\ receiver \notin {None, Aborted}

\* A fast refresh completes at one end.  With a seed missing it indexes past the end of the
\* list, a panic: where that is caught and the party kept, no refresh has taken place.
MaskSender ==
  /\ SetUp /\ ran = None
  /\ sender.masks < MaxMasks
  /\ LET n == sender.masks + 1
     IN  sender' = [sender EXCEPT !.masks = n,
           !.ote_sender = MaskedSender(@, Drawn(tape, 10, n), SENDER, RECEIVER)]
  /\ UNCHANGED <<tape, receiver, kept, toSender, ran, finished, altered>>
MaskReceiver ==
  /\ SetUp /\ kept = None
  /\ receiver.masks < MaxMasks
  /\ LET n == receiver.masks + 1
     IN  receiver' =
           IF Row \subseteq DOMAIN receiver.ote_receiver.seeds0
           THEN [receiver EXCEPT !.masks = n,
                   !.ote_receiver = MaskedReceiver(@, Drawn(tape, 10, n), RECEIVER, SENDER)]
           ELSE Aborted
  /\ UNCHANGED <<tape, sender, kept, toSender, ran, finished, altered>>

-----------------------------------------------------------------------------
(* The run.                                                                *)

Failed(kind) == [kind |-> kind]

\* chi_tilde and chi_hat are hashes of what the receiver sent.
TranscriptHash(sid, which, i, data) ==
  HashAsScalar(<<sid, which, i, Number(data.verify_x)>>
    \o [k \in 1..KAPPA |-> Number(data.u[k - 1])]
    \o [k \in 1..KAPPA |-> Number(data.verify_t[k - 1])])
ChiTilde(sid, i, data) == TranscriptHash(sid, 1, i, data)
ChiHat(sid, i, data) == TranscriptHash(sid, 2, i, data)

\* The first L outputs of the OT are z_tilde, the others z_hat.
Combined(chi_tilde, chi_hat, z, i, j) ==
  Add(Mul(chi_tilde[i], z[i][j]), Mul(chi_hat[i], z[L + i][j]))

\* MulReceiver::run_phase1: b is the sum of the gadget's entries at the choice bits.
ChoiceBits == DrawnBits(tape, 11, BATCH_SIZE)
Noise == DrawnBits(tape, 12, OT_SECURITY)
\* In row_bits every row of u has the same bits x, unless its computation went wrong.
ExtendedBits == [i \in Row |-> Extended(ChoiceBits, Noise)]
BitsChanges == {[ExtendedBits EXCEPT ![0] = SymDiff(@, {OT_SECURITY})]}
RunPhase1(row_bits) ==
  LET ote == receiver.ote_receiver
      data == OTEMessage(ote, 1, Extended(ChoiceBits, Noise), row_bits)
  IN  /\ SetUp /\ kept = None /\ WholeSeeds(ote)
      /\ toSender' = data
      /\ kept' = [b |-> SumOf([j \in ChoiceBits |-> receiver.public_gadget[j]]),
                  choice_bits |-> ChoiceBits, extended_seeds |-> ReceiverRows(ote, 1),
                  chi_tilde |-> [i \in 0..(L - 1) |-> ChiTilde(1, i, data)],
                  chi_hat |-> [i \in 0..(L - 1) |-> ChiHat(1, i, data)]]
      /\ Arrives("choice bits", row_bits # ExtendedBits)
      /\ UNCHANGED <<tape, sender, receiver, ran, finished>>

\* Only here is it found that the set-up left another number of seeds.
RefuseRun ==
  /\ SetUp /\ kept = None /\ ~WholeSeeds(receiver.ote_receiver)
  /\ kept' = Failed("MalformedMessage")
  /\ UNCHANGED <<tape, sender, receiver, toSender, ran, finished, altered>>

\* MulSender::run.
Input(i) == Drawn(tape, 13, i)
Pad(i) == Drawn(tape, 14, i)       \* a_tilde, then a_hat
Products(sid, data, q) ==
  LET ote == sender.ote_sender
      z == [i \in 0..(OT_WIDTH - 1) |-> [j \in Column |-> SenderPad(q, sid, j, i)]]
      chi_tilde == [i \in 0..(L - 1) |-> ChiTilde(sid, i, data)]
      chi_hat == [i \in 0..(L - 1) |-> ChiHat(sid, i, data)]
  IN  [kind |-> "Ok",
       output |-> [i \in 0..(L - 1) |->
         SumOf([j \in Column |-> Mul(sender.public_gadget[j], z[i][j])])],
       vector_of_tau |-> [i \in 0..(OT_WIDTH - 1) |-> [j \in Column |->
         Tau(ote, q, sid, j, i, Pad(i))]],
       verify_r |-> [i \in 0..(L - 1) |-> [j \in Column |->
         Combined(chi_tilde, chi_hat, z, i, j)]],
       verify_u |-> [i \in 0..(L - 1) |->
         Add(Mul(chi_tilde[i], Pad(i)), Mul(chi_hat[i], Pad(L + i)))],
       gamma_sender |-> [i \in 0..(L - 1) |-> Sub(Input(i), Pad(i))]]

Run(sid, data) ==
  /\ toSender # None /\ ran = None
  /\ LET ote == sender.ote_sender
         q == SenderRows(ote, sid, data.u)
     IN  ran' = IF ~OTEDimensions(data) THEN Failed("MalformedMessage")
                ELSE IF ~OTEConsistent(ote, q, data.verify_x, data.verify_t,
                                       Challenges(sid, data.u))
                THEN Failed("ConsistencyFailure")
                ELSE Products(sid, data, q)
  /\ Arrives("to sender", <<sid, data>> # <<1, toSender>>)
  /\ UNCHANGED <<tape, sender, receiver, kept, toSender, finished>>

\* MulReceiver::run_phase2; verify_r is a hash of what is here the matrix itself.
Dimensions(data) ==
  /\ Cardinality(DOMAIN data.verify_u) = L /\ Cardinality(DOMAIN data.gamma_sender) = L
  /\ Cardinality(DOMAIN data.vector_of_tau) = OT_WIDTH
ReceiverEntry(data, z, i, j) ==
  Add(IF j \in kept.choice_bits THEN data.verify_u[i] ELSE 0,
      Sub(0, Combined(kept.chi_tilde, kept.chi_hat, z, i, j)))
\* mutant: one row short
SenderIsConsistentOneRow(data, z) ==
  \A i \in 0..(L - 2), j \in Column : data.verify_r[i][j] = ReceiverEntry(data, z, i, j)
SenderIsConsistent(data, z) ==
  \A i \in 0..(L - 1), j \in Column : data.verify_r[i][j] = ReceiverEntry(data, z, i, j)

RunPhase2(data) ==
  /\ ran # None /\ ran.kind = "Ok" /\ finished = None
  /\ LET z == [i \in 0..(OT_WIDTH - 1) |-> [j \in Column |->
                 ReceiverPad(kept.extended_seeds, 1, j, i, kept.choice_bits,
                             data.vector_of_tau[i][j])]]
     IN  finished' =
           IF ~Dimensions(data) THEN Failed("MalformedMessage")
           ELSE IF ~SenderIsConsistent(data, z) THEN Failed("ConsistencyFailure")
           ELSE [kind |-> "Ok", output |-> [i \in 0..(L - 1) |->
                   Add(Mul(kept.b, data.gamma_sender[i]),
                       SumOf([j \in Column |-> Mul(receiver.public_gadget[j], z[i][j])]))]]
  /\ Arrives(IF data.gamma_sender = ran.gamma_sender THEN "to receiver" ELSE "gamma_sender",
             data # ran)
  /\ UNCHANGED <<tape, sender, receiver, kept, toSender, ran>>

\* One element of a message wrong, or one missing.
ChangedRow(rows) == [rows EXCEPT ![0] = SymDiff(@, {OT_SECURITY - 1})]
Shorter(f) == [i \in DOMAIN f \ {0} |-> f[i]]
ToSenderChanges ==
  {[toSender EXCEPT !.u = ChangedRow(@)], [toSender EXCEPT !.verify_t = ChangedRow(@)],
   [toSender EXCEPT !.verify_x = SymDiff(@, {0})], [toSender EXCEPT !.u = Shorter(@)]}
ToReceiverChanges ==
  {[ran EXCEPT !.vector_of_tau[L - 1] = [j \in Column |-> Wrong(@[j])]],
   [ran EXCEPT !.vector_of_tau = Shorter(@)],
   [ran EXCEPT !.verify_r[0][0] = Wrong(@)], [ran EXCEPT !.verify_u[L - 1] = Wrong(@)],
   [ran EXCEPT !.gamma_sender[0] = Wrong(@)], [ran EXCEPT !.gamma_sender = Shorter(@)]}

Next ==
  \/ \E dlog_proof \in {DLog} \cup DLogChanges, nonce \in {Nonce, Wrong(Nonce)} :
       InitSender(dlog_proof, nonce)
  \/ \E seed \in {OTSeed, Wrong(OTSeed)}, enc_proofs \in {EncProofs} \cup EncProofChanges :
       InitReceiver(seed, enc_proofs)
  \/ MaskSender \/ MaskReceiver
  \/ \E row_bits \in {ExtendedBits} \cup BitsChanges : RunPhase1(row_bits)
  \/ RefuseRun
  \/ toSender # None /\ \E sid \in RunId, data \in {toSender} \cup ToSenderChanges : Run(sid, data)
  \/ /\ ran # None /\ ran.kind = "Ok"
     /\ \E data \in {ran} \cup ToReceiverChanges : RunPhase2(data)

Spec == Init /\ [][Next]_vars

-----------------------------------------------------------------------------
(* Properties.                                                             *)

\* Two ends that have been through the same refreshes hold a correlated pair: in every
\* row the receiver got a seed for, the sender's seed is the one of the receiver's two its
\* bit names (base.rs, extension.rs init_phase2, refresh.rs 1071-1156), whatever arrived
\* altered.  A list of proofs of another length than KAPPA goes through the set-up, and a
\* refresh masks seeds beyond the rows not at all, but no run begins with other than all of
\* the rows (extension.rs 554-558).
CorrelationHolds ==
  SetUp /\ sender.masks = receiver.masks =>
    LET rows == DOMAIN receiver.ote_receiver.seeds0
    IN  /\ \A i \in Row \cap rows : CorrelatedAt(sender.ote_sender, receiver.ote_receiver, i)
        /\ toSender # None => rows = Row

\* Both ends of the check of the extension work in the same field (extension.rs 905-991):
\* with the challenges drawn for the message under way, field_mul multiplies whatever a
\* block may be modulo f.
FieldMulIsProduct ==
  toSender # None => \A k \in {1, 2}, a \in FieldElement :
    LET chi == Challenges(1, toSender.u)[k] IN FieldMul(a, chi) = Product(a, chi)

\* Nobody aborts, refuses to run or blames the other (extension.rs 349-375 and 554-558,
\* multiplication.rs 683-687) unless something arrived altered, the session ids of the run
\* differ, or only one of the two has completed a refresh.
BlameNeedsACause ==
  (Aborted \in {sender, receiver} \/ (kept # None /\ toSender = None)
     \/ (ran # None /\ ran.kind # "Ok") \/ (finished # None /\ finished.kind # "Ok"))
  => altered # {} \/ (SetUp /\ sender.masks # receiver.masks)

\* The rows of a message that passes the sender's check are those the receiver keeps, or
\* these with its choice bits added where the sender's correlation has a one, and nothing
\* of the message was altered on the way (extension.rs 288-375).  Where the correlation has
\* no one, which the code's 256 rows make improbable, verify_x is not part of the check.
AcceptedRowsAreCorrelated ==
  ran # None /\ ran.kind = "Ok" =>
    /\ sender.ote_sender.correlation # {} => "to sender" \notin altered
    /\ \A i \in Row : SenderRows(sender.ote_sender, 1, toSender.u)[i] =
         SymDiff(kept.extended_seeds[i],
                 IF i \in sender.ote_sender.correlation THEN Extended(ChoiceBits, Noise) ELSE {})

\* What run_phase2 accepts are shares of the products of the inputs and b, with two
\* exceptions: verify_r covers neither the gadget, which the two ends derive on their own,
\* nor gamma_sender.  With either of these wrong the sum is wrong, which is what the
\* checks of gamma_u and gamma_v in sign_phase3 compare (signing.rs 893-912).
SumIsProduct(i) == Add(ran.output[i], finished.output[i]) = Mul(Input(i), kept.b)
SameGadget == sender.public_gadget = receiver.public_gadget
AcceptedMeansProduct ==
  finished # None /\ finished.kind = "Ok" =>
    ((\A i \in 0..(L - 1) : SumIsProduct(i)) <=> SameGadget /\ "gamma_sender" \notin altered)

\* An EncProof whose v encrypts no bit under u and h can be completed for one sum of
\* challenges per pair of commitments and no more, so the oracle has to hit it
\* (proofs.rs 904-975): what stops a base OT receiver from learning both of a row's seeds.
\* It is checked in the initial states, for one u each.
Group == INSTANCE Proofs WITH Q <- SmallOrder
Half(h, point_u, u, response) == Group!Simulated(Group!Generator, h, point_u, u, response)
OneChallenge(h, point_u, u) == \A c, d, y, z \in Group!Scalar :
  Group!Explained(Half(h, point_u, u, y), c) = Group!Explained(Half(h, point_u, u, z), d) => c = d
Encrypts(h, u, v) == \E r \in Group!Scalar : u = Group!Mul(r, h) /\ v \in {r, Group!Add(r, h)}
EncProofSound ==
  sender = None /\ receiver = None => \A h, v, w \in Group!Scalar \ {0} :
    LET u == 1 + (tape % (SmallOrder - 1))
    IN  Group!StatementsAgree([proof0 |-> Half(h, v, u, 0), proof1 |-> Half(h, w, u, 0)])
          /\ ~Encrypts(h, u, v)
        => OneChallenge(h, v, u) /\ OneChallenge(h, w, u)
=============================================================================
