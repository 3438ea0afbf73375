------------------------------ MODULE Signing ------------------------------
(***************************************************************************)
(* Threshold signing (dkls23-core/src/protocols/signing.rs) as an          *)
(* application drives it through SignSession (sign_session.rs): every      *)
(* party runs any number of concurrent sessions over the Party objects it  *)
(* holds, messages are delayed, lost, duplicated, reordered and delivered  *)
(* to the wrong session, and the parties in Faulty also send altered       *)
(* messages.                                                               *)
(*                                                                         *)
(* The cryptography is symbolic.  What an honest session puts in a message *)
(* is a function of the session that sent it, so a message names its       *)
(* session and, when it was tampered with by its sender, the field that is *)
(* wrong; a check of the code passes exactly when the values it compares   *)
(* come from the same inputs.  Events of negligible probability (hash      *)
(* collisions, a zero denominator of random scalars, instance points that  *)
(* cancel) do not happen.  Channels are authenticated, as docs/security.md *)
(* requires: the sender field of a message is the party that sent it.      *)
(***************************************************************************)
EXTENDS Naturals, Sequences, FiniteSets

CONSTANTS
  ShareCount,     \* parameters.share_count; the parties are 1..ShareCount
  Threshold,      \* parameters.threshold
  Slot,           \* names of a party's sessions: how many it may open
  WellFormedId,   \* the session and sign ids that have ID_LEN bytes
  Requests,       \* for each party the SignData its application may ask for
  Keyrings,       \* for each party the Party objects it may hold
  Faulty,         \* the parties that also send altered messages
  AllowRetry,     \* may an application retry a sign_id after a recoverable abort?
  MaxDelivery,    \* longest slice of messages handed to a phase
  MaxFaults,      \* how many altered messages are sent
  None            \* "no value", different from every other value

Party == 1..ShareCount
Session == Party \X Slot
Owner(s) == s[1]

Stage == {"unused", "phase1_to_2", "phase2_to_3", "x_coord", "signed", "aborted"}

\* What an altered message of each round has wrong.
Fault12 == {"receiver", "version", "digest", "echo", "malformed",
            "inconsistent", "commitment"}
Fault23 == {"receiver", "identity", "commitment", "malformed", "inconsistent",
            "gamma_u", "gamma_v", "share", "psi"}
Fault34 == {"sum"}

\* The messages of the three rounds.
TransmitPhase1to2 == [from : Session, to : Party, fault : Fault12 \cup {"none"}]
TransmitPhase2to3 == [from : Session, to : Party, answers : Session,
                      fault : Fault23 \cup {"none"}]
Broadcast3to4 == [from : Session, inputs : SUBSET TransmitPhase2to3,
                  fault : Fault34 \cup {"none"}]

ASSUME ParametersAssumption ==
  /\ ShareCount \in Nat \ {0}
  /\ Threshold \in Nat \ {0}
  /\ MaxDelivery \in Nat
  /\ Faulty \subseteq Party
  /\ AllowRetry \in BOOLEAN

ASSUME RequestsAssumption ==
  \A p \in Party : /\ None \notin Requests[p]
                   /\ \A d \in Requests[p] : d.counterparties \in Seq(Nat \ {0})

\* OT correlations are set up under the session id the Party object carries
\* (init_phase2 at the end of the DKG, refresh_sid at the end of a refresh), so
\* two objects with the same session id hold matching correlations for each other
\* (EpochsMatch of module Refresh).
ASSUME OtAssumption ==
  \A ring \in Keyrings : \A p, q \in Party : \A k \in ring[p], l \in ring[q] :
    k.session_id = l.session_id => k.ot[q] = l.ot[p]

VARIABLES
  shares,      \* the Party objects each party holds
  stage,       \* which of SignSession's Option fields is Some
  key,         \* the Party object a session borrows
  data,        \* its SignData
  heard,       \* the phase 1 messages its phase 2 accepted (KeepPhase2to3)
  sent12, sent23, sent34,   \* every message ever sent in the three rounds
  abort,       \* the AbortKind a session ended with
  banned,      \* the parties each application has excluded
  signatures   \* the signatures returned by phase 4

vars == <<shares, stage, key, data, heard, sent12, sent23, sent34, abort,
          banned, signatures>>

-----------------------------------------------------------------------------
(* What the messages of a session contain.                                 *)

\* The digest of phase 1.  mul_sid and zero_sid are built from the same three
\* fields, plus the two indices of the pair for mul_sid.
RootDigest(s) == <<key[s].session_id, data[s].sign_id, key[s].chain_code>>

Counterparties(d) == {d.counterparties[i] : i \in DOMAIN d.counterparties}
Signers(s) == Counterparties(data[s]) \cup {Owner(s)}
Sender(m) == Owner(m.from)

\* The nonce R of a broadcast is the sum of these sessions' instance points.
Group(b) == {b.from} \cup {m.from : m \in b.inputs}

\* The broadcast a session itself made, once it has one.
OwnBroadcasts(s) == {b \in sent34 : b.from = s /\ b.fault = "none"}

\* What two sessions hold for each other: mul_senders and mul_receivers, and the seed pair
\* of zero_share.
SameOt(s, t) == key[s].ot[Owner(t)] = key[t].ot[Owner(s)]
SameSeed(s, t) == key[s].zero[Owner(t)] = key[t].zero[Owner(s)]

\* COTe check of OTESender::run: the receiver's transcript is consistent and
\* was made under our mul_sid over matching base OTs.
COTeConsistent(s, m) ==
  /\ m.fault \notin {"inconsistent", "receiver"}
  /\ RootDigest(m.from) = RootDigest(s)
  /\ SameOt(m.from, s)

\* verify_r of MulReceiver::run_phase2: the message answers the transcript this
\* very session sent, under the same mul_sid.
MulVerifies(s, m) ==
  /\ m.fault # "inconsistent"
  /\ m.answers = s
  /\ RootDigest(m.from) = RootDigest(s)
  /\ SameOt(m.from, s)

\* verify_commitment_point against the commitment kept from phase 1.
Decommits(s, m) ==
  /\ m.fault \notin {"commitment", "receiver"}
  /\ \E h \in heard[s] : h.from = m.from /\ h.fault # "commitment"

-----------------------------------------------------------------------------
(* Checks of the phases.  A verdict is "ok" or the AbortReason of the first *)
(* check that fails; where every failure is recoverable, and so has the    *)
(* same effect, the checks are one predicate.                              *)

\* sign_phase1: MalformedSessionId, WrongCounterpartyCount, then for every entry
\* InvalidPartyIndex, DuplicateCounterparty, SelfInCounterparties, MissingMulState.
WellFormed(k, d) == k.session_id \in WellFormedId /\ d.sign_id \in WellFormedId
RightCountUnchecked(d) == TRUE          \* mutant: the length is not compared
RightCount(d) == Len(d.counterparties) = Threshold - 1
GoodCounterpartyUnchecked(p, k, d, i) == TRUE   \* mutant: no validation loop
GoodCounterparty(p, k, d, i) ==
  LET q == d.counterparties[i]
  IN  /\ q <= ShareCount
      /\ \A j \in 1..(i - 1) : d.counterparties[j] # q
      /\ q # p
      /\ q \in k.peers
ValidRequest(p, k, d) ==
  /\ WellFormed(k, d)
  /\ RightCount(d)
  /\ \A i \in DOMAIN d.counterparties : GoodCounterparty(p, k, d, i)

\* mutant: a sender is recorded as seen before it is looked up
RoutingVerdictSeenEarly(s, in, i) ==
  IF \E j \in 1..i : Sender(in[j]) = Sender(in[i]) THEN "DuplicateSender" ELSE "ok"
RoutingVerdict(s, in, i) ==
  IF Sender(in[i]) \notin Counterparties(data[s]) THEN "UnexpectedSender"
  ELSE IF in[i].to # Owner(s) THEN "MisroutedMessage"
  ELSE IF \E j \in 1..(i - 1) : Sender(in[j]) = Sender(in[i]) THEN "DuplicateSender"
  ELSE "ok"

SameVersionUnchecked(s, m) == TRUE      \* mutant: the version is not compared
SameVersion(s, m) == m.fault # "version" /\ key[m.from].version = key[s].version
\* mutant: the echoed digest is not compared before the multiplication
SameRootUnchecked(s, m) == TRUE
SameRoot(s, m) ==
  m.fault = "echo" \/ (m.fault # "digest" /\ RootDigest(m.from) = RootDigest(s))

\* The validation of phase 2, before the leak-bearing step: WrongMessageCount, the
\* routing loop, the version loop, the root digest loop.
AgreedInputs(s, in) ==
  /\ Len(in) = Len(data[s].counterparties)
  /\ \A i \in DOMAIN in : /\ RoutingVerdict(s, in, i) = "ok"
                          /\ SameVersion(s, in[i])
                          /\ SameRoot(s, in[i])

\* MulSender::run.  "MalformedMessage" and "ConsistencyFailure" are the two
\* MulErrorKinds, reported as MultiplicationVerificationFailed.
MulSenderVerdict(s, m) ==
  IF m.fault = "malformed" THEN "MalformedMessage"
  ELSE IF ~COTeConsistent(s, m) THEN "ConsistencyFailure"
  ELSE "ok"

\* The body of the only loop of phase 3.
Phase3Verdict(s, in, i) ==
  LET m == in[i]
  IN  IF RoutingVerdict(s, in, i) \in {"UnexpectedSender", "MisroutedMessage"}
      THEN RoutingVerdict(s, in, i)
      ELSE IF m.fault = "identity" THEN "TrivialInstancePoint"
      ELSE IF RoutingVerdict(s, in, i) # "ok" THEN RoutingVerdict(s, in, i)
      ELSE IF ~Decommits(s, m) THEN "CommitmentMismatch"
      ELSE IF m.fault = "malformed" THEN "MalformedMessage"
      ELSE IF ~MulVerifies(s, m) THEN "ConsistencyFailure"
      ELSE IF m.fault = "gamma_u" THEN "GammaUInconsistency"
      ELSE IF m.fault = "gamma_v" THEN "OtConsistencyCheckFailed"
      ELSE "ok"

\* The reasons the code raises with Abort::ban; it raises all others with
\* Abort::recoverable.
BanReasonsOpaque ==                     \* mutant: a malformed message is a ban too
  {"MalformedMessage", "ConsistencyFailure", "GammaUInconsistency",
   "OtConsistencyCheckFailed"}
BanReasons == {"ConsistencyFailure", "GammaUInconsistency", "OtConsistencyCheckFailed"}

\* The public shares sum to pk: everybody interpolates over the same signers,
\* on the same polynomial, with zero shares over the same set, seeds and sid.
PublicSharesUnchecked(s, in) == TRUE    \* mutant: the sum is not compared with pk
PublicSharesSumToPk(s, in) ==
  \A i \in DOMAIN in :
    /\ in[i].fault # "share"
    /\ Signers(in[i].from) = Signers(s)
    /\ key[in[i].from].share = key[s].share
    /\ RootDigest(in[i].from) = RootDigest(s)
    /\ SameSeed(in[i].from, s)
    /\ \A j \in DOMAIN in : SameSeed(in[i].from, in[j].from)

\* The sums of u and w give a signature of data[s].message_hash: a broadcast from
\* every session of the group, each the same number of times, computed over the
\* same group and message from unspoilt inputs.  b is the session's own broadcast.
\* mutant: the signature is not verified
SumsToSignatureUnverified(s, b, in) == TRUE
\* mutant: the signature is not verified against the session's own message
SumsToSignatureAnyMessage(s, b, in) ==
  \A g \in Group(b) : \E i \in DOMAIN in : in[i].from = g /\ Group(in[i]) = Group(b)
SumsToSignature(s, b, in) ==
  /\ \E k \in 1..Len(in) : \A g \in Group(b) :
       Cardinality({i \in DOMAIN in : in[i].from = g}) = k
  /\ \A i \in DOMAIN in :
       /\ in[i].fault = "none"
       /\ Group(in[i]) = Group(b)
       /\ \A m \in in[i].inputs : m.fault # "psi"
       /\ data[in[i].from].message_hash = data[s].message_hash

-----------------------------------------------------------------------------
Init ==
  /\ shares \in Keyrings
  /\ stage = [s \in Session |-> "unused"]
  /\ key = [s \in Session |-> None]
  /\ data = [s \in Session |-> None]
  /\ heard = [s \in Session |-> {}]
  /\ sent12 = {}
  /\ sent23 = {}
  /\ sent34 = {}
  /\ abort = [s \in Session |-> "none"]
  /\ banned = [p \in Party |-> {}]
  /\ signatures = {}

\* What the application must see to: a sign_id of its own for every attempt (with
\* AllowRetry, for every attempt that did not end recoverably), and nothing to do
\* with the parties it has banned.
Fresh(p, d) ==
  \/ p \in Faulty
  \/ \A s \in Session :
       Owner(s) = p /\ data[s] # None /\ data[s].sign_id = d.sign_id =>
         AllowRetry /\ abort[s] = "recoverable"
MayStart(p, d) == Fresh(p, d) /\ Counterparties(d) \cap banned[p] = {}

\* SignSession::new calls sign_phase1, which accepts the request: a commitment
\* and a multiplication message for every counterparty.
SignPhase1(s, k, d) ==
  /\ stage[s] = "unused"
  /\ MayStart(Owner(s), d)
  /\ ValidRequest(Owner(s), k, d)
  /\ stage' = [stage EXCEPT ![s] = "phase1_to_2"]
  /\ key' = [key EXCEPT ![s] = k]
  /\ data' = [data EXCEPT ![s] = d]
  /\ sent12' = sent12 \cup {[from |-> s, to |-> q, fault |-> "none"] : q \in Counterparties(d)}
  /\ UNCHANGED <<shares, heard, sent23, sent34, abort, banned, signatures>>

\* A phase of session s returns Err: the state it took is gone, and on a ban the
\* application excludes the parties the abort names.
\* mutant: a refused input is ignored and the session waits for another
AbortIgnored(s, cheaters) == UNCHANGED vars
Abort(s, cheaters) ==
  /\ stage' = [stage EXCEPT ![s] = "aborted"]
  /\ abort' = [abort EXCEPT ![s] = IF cheaters = {} THEN "recoverable" ELSE "ban"]
  /\ banned' = [banned EXCEPT ![Owner(s)] = @ \cup cheaters]
  /\ UNCHANGED <<shares, key, data, heard, sent12, sent23, sent34, signatures>>
Cheaters(reason, m) == IF reason \in BanReasons THEN {Sender(m)} ELSE {}

\* sign_phase1 refuses the request; there is no session and nothing is sent.
SignPhase1Refused(s, k, d) ==
  /\ stage[s] = "unused"
  /\ MayStart(Owner(s), d)
  /\ ~ValidRequest(Owner(s), k, d)
  /\ Abort(s, {})

SignPhase2(s, in) ==
  /\ stage[s] = "phase1_to_2"
  /\ AgreedInputs(s, in)
  /\ \A i \in DOMAIN in : MulSenderVerdict(s, in[i]) = "ok"
  /\ stage' = [stage EXCEPT ![s] = "phase2_to_3"]
  /\ heard' = [heard EXCEPT ![s] = {in[i] : i \in DOMAIN in}]
  /\ sent23' = sent23 \cup {[from |-> s, to |-> Sender(in[i]), answers |-> in[i].from,
                             fault |-> "none"] : i \in DOMAIN in}
  /\ UNCHANGED <<shares, key, data, sent12, sent34, abort, banned, signatures>>

SignPhase2Rejects(s, in) ==
  /\ stage[s] = "phase1_to_2"
  /\ ~AgreedInputs(s, in)
  /\ Abort(s, {})

\* The multiplication loop stops at message i, and blames its sender.
SignPhase2MulFails(s, in, i) ==
  /\ stage[s] = "phase1_to_2"
  /\ AgreedInputs(s, in)
  /\ \A j \in 1..(i - 1) : MulSenderVerdict(s, in[j]) = "ok"
  /\ MulSenderVerdict(s, in[i]) # "ok"
  /\ Abort(s, Cheaters(MulSenderVerdict(s, in[i]), in[i]))

\* mutant: phase 3 borrows the state kept from phase 2 and does not take() it
SignPhase3Borrows(s, in) ==
  /\ stage[s] = "phase2_to_3"
  /\ Len(in) = Len(data[s].counterparties)
  /\ \A i \in DOMAIN in : Phase3Verdict(s, in, i) = "ok"
  /\ PublicSharesSumToPk(s, in)
  /\ sent34' = sent34 \cup {[from |-> s, inputs |-> {in[i] : i \in DOMAIN in},
                             fault |-> "none"]}
  /\ UNCHANGED <<shares, stage, key, data, heard, sent12, sent23, abort, banned, signatures>>
SignPhase3(s, in) ==
  /\ stage[s] = "phase2_to_3"
  /\ Len(in) = Len(data[s].counterparties)
  /\ \A i \in DOMAIN in : Phase3Verdict(s, in, i) = "ok"
  /\ PublicSharesSumToPk(s, in)
  /\ stage' = [stage EXCEPT ![s] = "x_coord"]
  /\ sent34' = sent34 \cup {[from |-> s, inputs |-> {in[i] : i \in DOMAIN in},
                             fault |-> "none"]}
  /\ UNCHANGED <<shares, key, data, heard, sent12, sent23, abort, banned, signatures>>

\* WrongMessageCount, or PolynomialInconsistency after the loop.
SignPhase3Rejects(s, in) ==
  /\ stage[s] = "phase2_to_3"
  /\ \/ Len(in) # Len(data[s].counterparties)
     \/ /\ \A i \in DOMAIN in : Phase3Verdict(s, in, i) = "ok"
        /\ ~PublicSharesSumToPk(s, in)
  /\ Abort(s, {})

\* The loop of phase 3 stops at message i.
SignPhase3Stops(s, in, i) ==
  /\ stage[s] = "phase2_to_3"
  /\ Len(in) = Len(data[s].counterparties)
  /\ \A j \in 1..(i - 1) : Phase3Verdict(s, in, j) = "ok"
  /\ Phase3Verdict(s, in, i) # "ok"
  /\ Abort(s, Cheaters(Phase3Verdict(s, in, i), in[i]))

SignPhase4(s, in) ==
  /\ stage[s] = "x_coord"
  /\ \E b \in OwnBroadcasts(s) :
       /\ SumsToSignature(s, b, in)
       /\ signatures' = signatures \cup {[nonce |-> Group(b), key |-> key[s].share,
                                          message |-> data[s].message_hash]}
  /\ stage' = [stage EXCEPT ![s] = "signed"]
  /\ UNCHANGED <<shares, key, data, heard, sent12, sent23, sent34, abort, banned>>

\* ZeroDenominator when there is no broadcast, else SignatureVerificationFailed.
SignPhase4Rejects(s, in) ==
  /\ stage[s] = "x_coord"
  /\ \A b \in OwnBroadcasts(s) : ~SumsToSignature(s, b, in)
  /\ Abort(s, {})

\* phase4 consumes the session even when it is called too early.  phase2 and
\* phase3 called out of order take() a None and leave the session as it was.
Phase4OutOfOrder(s) ==
  /\ stage[s] \in {"phase1_to_2", "phase2_to_3"}
  /\ Abort(s, {})

-----------------------------------------------------------------------------
(* A faulty party alters a message of its own and sends that as well.      *)

Altered(S) == {m \in S : m.fault # "none"}
MayAlter == Cardinality(Altered(sent12) \cup Altered(sent23) \cup Altered(sent34)) < MaxFaults

Alter12(m, f, q) ==
  /\ MayAlter
  /\ Sender(m) \in Faulty /\ m.fault = "none"
  /\ f = "receiver" <=> q # m.to
  /\ sent12' = sent12 \cup {[m EXCEPT !.fault = f, !.to = q]}
  /\ UNCHANGED <<shares, stage, key, data, heard, sent23, sent34, abort, banned, signatures>>

Alter23(m, f, q) ==
  /\ MayAlter
  /\ Sender(m) \in Faulty /\ m.fault = "none"
  /\ f = "receiver" <=> q # m.to
  /\ sent23' = sent23 \cup {[m EXCEPT !.fault = f, !.to = q]}
  /\ UNCHANGED <<shares, stage, key, data, heard, sent12, sent34, abort, banned, signatures>>

Alter34(b) ==
  /\ MayAlter
  /\ Sender(b) \in Faulty /\ b.fault = "none"
  /\ sent34' = sent34 \cup {[b EXCEPT !.fault = "sum"]}
  /\ UNCHANGED <<shares, stage, key, data, heard, sent12, sent23, abort, banned, signatures>>

-----------------------------------------------------------------------------
\* What a relay may hand to a phase: any messages sent so far, in any order, with
\* repetitions.
Deliveries(sent) == UNION {[1..n -> sent] : n \in 0..MaxDelivery}

Phase1(s) == \E k \in shares[Owner(s)], d \in Requests[Owner(s)] :
               SignPhase1(s, k, d) \/ SignPhase1Refused(s, k, d)
Phase2(s) == \E in \in Deliveries(sent12) :
               \/ SignPhase2(s, in)
               \/ SignPhase2Rejects(s, in)
               \/ \E i \in DOMAIN in : SignPhase2MulFails(s, in, i)
Phase3(s) == \E in \in Deliveries(sent23) :
               \/ SignPhase3(s, in)
               \/ SignPhase3Rejects(s, in)
               \/ \E i \in DOMAIN in : SignPhase3Stops(s, in, i)
Phase4(s) == \/ \E in \in Deliveries(sent34) : SignPhase4(s, in) \/ SignPhase4Rejects(s, in)
             \/ Phase4OutOfOrder(s)
Misbehave ==
  \/ \E m \in sent12, f \in Fault12, q \in Party : Alter12(m, f, q)
  \/ \E m \in sent23, f \in Fault23, q \in Party : Alter23(m, f, q)
  \/ \E b \in sent34 : Alter34(b)

Next == \/ \E s \in Session : Phase1(s) \/ Phase2(s) \/ Phase3(s) \/ Phase4(s)
        \/ Misbehave

Spec == Init /\ [][Next]_vars

-----------------------------------------------------------------------------
(* Properties                                                              *)

TypeOK ==
  /\ shares \in Keyrings
  /\ stage \in [Session -> Stage]
  /\ \A s \in Session :
       stage[s] \notin {"unused", "aborted"} =>
         key[s] \in shares[Owner(s)] /\ data[s] \in Requests[Owner(s)]
  /\ DOMAIN key = Session /\ DOMAIN data = Session
  /\ heard \in [Session -> SUBSET TransmitPhase1to2]
  /\ sent12 \subseteq TransmitPhase1to2
  /\ sent23 \subseteq TransmitPhase2to3
  /\ sent34 \subseteq Broadcast3to4
  /\ abort \in [Session -> {"none", "recoverable", "ban"}]
  /\ banned \in [Party -> SUBSET Party]

\* A ban excludes a party for ever and, at 2-of-2, destroys the key.  An honest
\* party therefore bans only a party that sent it a message which fails one of the
\* checks that leak reused OT state: never one whose Party object merely differs
\* (another chain code, epoch or version), whose message was delayed, duplicated or
\* misrouted, or whose message is malformed (AbortKind, protocols.rs; findings H1
\* of FORK.md and docs/audit-findings.md).
BansAreDeserved ==
  \A p \in Party \ Faulty : \A q \in banned[p] :
    \/ \E m \in sent12 : /\ Sender(m) = q /\ m.to = p
                         /\ m.fault \in {"inconsistent", "receiver", "echo"}
    \/ \E m \in sent23 : /\ Sender(m) = q /\ m.to = p
                         /\ m.fault \in {"inconsistent", "gamma_u", "gamma_v"}

\* A session puts its instance key into at most one set of multiplication answers
\* and one broadcast, and says nothing after it aborted: SignSession take()s the
\* kept state before it runs a phase.
OneShot ==
  [][\A s \in Session :
       /\ (\E m \in sent23' \ sent23 : m.from = s /\ m.fault = "none") =>
            /\ abort[s] = "none"
            /\ \A m \in sent23 : m.from # s
       /\ (\E b \in sent34' \ sent34 : b.from = s /\ b.fault = "none") =>
            /\ abort[s] = "none"
            /\ \A b \in sent34 : b.from # s]_vars

\* When a session publishes its u and w, the sessions whose points are in its nonce
\* agree with it on root, version, signers and key, and the honest ones among them
\* ran their multiplications against this very session: phase 2 cross-checks the
\* root digest and phase 3 the commitments, verify_r and the sum of public shares.
GroupAgrees ==
  \A b \in sent34 : b.fault = "none" =>
    \A t \in Group(b) \ {b.from} :
      /\ Owner(t) \notin Faulty =>
           /\ RootDigest(t) = RootDigest(b.from)
           /\ key[t].version = key[b.from].version
           /\ \E h \in heard[t] : h.from = b.from
      /\ Signers(t) = Signers(b.from)
      /\ key[t].share = key[b.from].share

\* The abstract specification this one implements: a session consents when it
\* broadcasts, to the group of sessions whose points it added up.
Abstract == INSTANCE ThresholdSignature WITH
  consents <- {[session |-> b.from, nonce |-> Group(b), key |-> key[b.from].share,
                message |-> data[b.from].message_hash] : b \in {c \in sent34 : c.fault = "none"}}

\* A signature exists only for a message that one session of each of exactly
\* Threshold parties agreed to sign with that nonce and key, and no session ever
\* agrees to two.
SignsByConsent == Abstract!Spec

\* No instance key of any session enters two different signatures.
NonceSignsOnce == Abstract!NonceSignsOnce
=============================================================================
