# TLA+ models and proofs of kawasekit-dkls23

This directory holds a verification development for the threshold ECDSA library
in `dkls23-core`: TLA+ modules translated from the Rust source, TLC instances of
them, and theorems about them checked by the TLA+ proof system. `PROJECT.json`
lists the runs, the lines each definition stands for, the hazards the properties
are aimed at, and the theorems.

Paths below are relative to `dkls23-core/src/` unless they start with a crate name.

## 1. Inventory

### The system

A key is shared among `share_count` parties; any `threshold` of them sign. Each
party is a program that calls this library, a state machine without I/O: a phase
takes the messages the application received and returns the messages to send, or
an `Abort`. Between the parties is a network or relay nobody controls, with
authenticated channels (`docs/security.md`).

| Component | State it keeps | Operations | What makes it correct |
|---|---|---|---|
| `Party` (`protocols.rs`) | session id, `poly_point`, `pk`, zero-share seeds, multiplication (OT) state per counterparty, derivation data | made by DKG, refresh, derivation, re_key; borrowed by signing | the objects of one key's holders fit together |
| Signing (`protocols/signing.rs`) | kept values between phases | `sign_phase1..4` | a signature needs one consenting session of each of `threshold` parties; no nonce serves two signatures; an honest party is not banned by honest parties |
| `SignSession` (`protocols/sign_session.rs`) | three `Option` fields, one per phase boundary | `new`, `phase2`, `phase3`, `phase4` | every phase runs at most once; a failed phase ends the session |
| Abort classification (`protocols.rs`) | none (a value) | `Abort::recoverable`, `Abort::ban` | a ban only for a check whose failure leaks reused OT state |
| DKG (`protocols/dkg.rs`) | kept values between phases | `step1..5`, `phase1..4` | parties that finish hold shares of one polynomial, matching seeds and OT state |
| `DkgSession` (`protocols/dkg_session.rs`) | `poly_point`, proof, kept maps | `new`, `phase1..4` | phase 2 once; phase 3 consumes what phase 2 kept; phase 4 consumes the session |
| Refresh (`protocols/refresh.rs`) | kept values; replaces the `Party` | complete and fast variant, four phases each | same key, new shares; a mix of epochs signs nothing and bans nobody |
| Derivation (`protocols/derivation.rs`) | `DerivData` | `child_tweak`, `derive_child`, `derive_from_path` | all parties and the public package move by the same tweak |
| re_key (`protocols/re_key.rs`) | none | split a known key | what DKG would have produced |
| Messages (`protocols/messages.rs`) | byte streams per sender | `push`, `find_in_stream` | what was framed is found, and nothing else |
| Zero shares (`utilities/zero_shares.rs`) | seed pairs | `compute` | the shares over one signer set cancel |
| Multiplication (`utilities/multiplication.rs`) | gadget, OT state | `init_phase1/2`, sender `run`, receiver `run_phase1/2` | outputs are additive shares of the product, or a check fails |
| OT (`utilities/ot/*.rs`) | seeds, correlation | base OT, extension | correlation holds, or the transcript check fails |
| Proofs (`utilities/proofs.rs`) | none | discrete logarithm, equal logarithms, encryption of a bit | honest proofs verify; a proof fits one statement |
| Commitments, hashes, randomness (`utilities/*.rs`) | none | pure | standard, taken symbolically |
| Benchmarks (`dkls23-benchmarks`) | sessions and messages of a run | `run_sign`, `run_dkg`, `run_refresh_complete`, `run_refresh_fast` | an orchestration of the phases |

### How the components interact

Signing borrows a `Party` by reference and never changes it, so one `Party`
serves any number of sessions at once, and a party may hold several objects (a
parent and derived children; an old and a new epoch). What two parties' objects
share was set up by DKG or refresh under a session id. Signing compares the
objects only indirectly: by a digest of `session_id`, `sign_id` and chain code
and the protocol version in phase 2, by the multiplication's own checks in phases 2
and 3, by the sum of public shares in phase 3, and by verifying the
signature in phase 4. `Abort::ban` is how the library speaks to the application's
long-term state: a banned counterparty is excluded from then on, and at 2-of-2
that is the end of the key.

### What is hard

* Concurrent sessions of one party whose messages may be exchanged for one
  another's; messages delayed, duplicated, lost, misrouted.
* Holders of one key whose objects differ in one field (equivocated root,
  incomplete refresh, derived child, upgraded binary, damaged share).
* A refresh that completes at some parties only, its retry, and signatures while it is
  under way.
* Two ends that compute the same thing on their own and never compare it: the OT
  masks of a fast refresh, the gadget vectors, the signs of zero shares, the tweaks of
  parties and of the public package.
* The order of the checks: each is right in itself, but one that bans must never be
  reached with inputs a recoverable one would have refused.
* Phases that fail half way, are called twice, or too early.
* Retries after a recoverable abort.
* Arithmetic at the edges: `u8` windows of party indices at 255, words that do not divide
  the degree of the binary field, nonces whose x is not below the group's order, depth
  255 in derivation.

`PROJECT.json` lists each hazard at the line where it bites, with the properties
that catch it, or why none does.

## 2. What is modelled

| Module | Models | Extends / instantiates |
|---|---|---|
| `Signing` | the four phases, `SignSession`, aborts and bans, the network, faulty parties | |
| `SigningRun` | the application loop of `run_sign`, with fairness | `Signing` |
| `ThresholdSignature` | what signing promises (abstract) | instantiated by `Signing` |
| `MCSigning` | constants of the TLC instances | `SigningRun` |
| `Shamir` | `step1`..`step5`: polynomials, fragments, interpolation over windows of `u8` indices | |
| `Dkg` | the four phases of the key generation, `DkgSession`, faulty dealers, mishaps of the network | `Shamir` |
| `DkgRun` | the application loop of `run_dkg`, with fairness | `Dkg` |
| `MCDkg` | constants of the TLC instances | `DkgRun` |
| `Refresh` | both variants of the refresh over the `Party` objects: attempts, epochs, partial completion | |
| `RefreshSigning` | the life of a key: refreshes interleaved with signing | `Refresh`, instantiates `Signing` |
| `MCRefreshSigning` | constants of the TLC instances | `RefreshSigning` |
| `BinaryField` | `field_mul`, word by word | |
| `Proofs` | the zero-knowledge proofs | |
| `ObliviousTransfer` | base OT, OT extension, masks of the fast refresh | `BinaryField`, `Proofs` |
| `Multiplication` | the two roles of the multiplication, from set-up to output | `ObliviousTransfer` |
| `MCMultiplication` | the oracle of the TLC instance | `Multiplication` |
| `Keys` | re_key, derivation, zero shares, the scalars and the recovery id of a signature | `Shamir` |
| `MCKeys` | constants of the TLC instance | `Keys` |
| `FiniteFolds` | theorems about folds over finite sets | |
| `Shamir_proofs` | theorems about interpolation | `Shamir` |
| `Signing_proofs`, `Dkg_proofs`, `Keys_proofs`, `BinaryField_proofs`, `Multiplication_proofs` | theorems | the module they are named after (`Multiplication_proofs` also `BinaryField_proofs`, and an instance of `Shamir_proofs`) |
| `Refresh_proofs` | theorems about refreshes, alone and composed with signing | `RefreshSigning` |

The modules look at one program at different depths. `Signing` and `Refresh` keep the
control and the network and treat cryptography symbolically: a check passes when what
it compares fits. `Dkg`, `Multiplication` and `Keys` compute with numbers, and show
that what the first two take for granted of a check (what it catches, and that it
passes when all is well) is what the arithmetic of the code gives.

### Signing

State. `stage[s]` says which `Option` of session `s` is `Some`; `key[s]` and
`data[s]` are the borrowed `Party` and the `SignData`; `heard[s]` is the part of
`KeepPhase2to3` phase 3 looks at; `sent12`, `sent23`, `sent34` are all the messages
ever sent (delivery never removes one, so loss, delay, duplication and reordering
need no action of their own); `abort[s]` is the kind a session ended with; `banned`
is the application's record; `signatures` the results. `shares` is what each party
holds: constant in this module's own runs, the variable of `Refresh` in `RefreshSigning`.

Messages. An honest session's message is determined by the session, so a message
names the session it came from, and its `fault` field says what an altered copy has
wrong. Whether a check of the code passes is a question about the two sessions: the
digest passes when `RootDigest` agrees, the COTe check when the multiplication ids
and base OTs agree, `verify_r` when the message answers this very session's
transcript, the sum of public shares when signer sets, polynomials and zero shares
agree. Hash collisions and random scalars that happen to cancel do not occur.

Actions. Every phase has one action for success and one for each kind of early
return (`SignPhase2`, `SignPhase2Rejects`, `SignPhase2MulFails`, ...). A phase gets
any sequence, up to `MaxDelivery` long, of the round's messages; the checks are made
in the order of the code, because which one fails first decides between a recoverable
abort and a ban. `Phase4OutOfOrder` is the premature `phase4(self)`; `phase2` and
`phase3` called out of order change nothing. Alter12/23/34 are a faulty party that
sends, besides its honest messages, copies with one wrong field of its choice: each
field the receiver checks has an alteration.

What the application must do is in `MayStart`: no sign id twice, no session with a
banned party. The first is not asked for by the library's documentation; see
section 5.

### ThresholdSignature

A session consents once, to one coalition of sessions (which fixes the nonce), one
key and one message; a signature appears only when the whole coalition, one session
of each of exactly `threshold` parties, has consented to it. In the refinement a
session consents when it broadcasts `u` and `w`.

### SigningRun

The driver calls a phase when it has one message of every counterparty for its sign
id. `run_sign` does this in lock step and unwraps every result; here no party waits
for the others to finish a round, and an `Err` ends the session. Fairness is weak,
per session and phase: the loop calls a phase once its messages are there, nothing
can take the messages away, and only the call itself disables the action.

### Shamir, Dkg, DkgRun

Group. A group element is represented by its discrete logarithm over a small prime
field, so the public key `pk` is the secret itself and "the shares interpolate to the key"
is an equation TLC can evaluate. The windows of `step5` are as in the code, with
the width of an index, 8 bits there, as the parameter `IndexWidth`.

State. `dealt[p]` are the polynomials `phase1` drew (it takes `&self` and may be
called again), `stage[p]` which fields of `DkgSession` are `Some`, `point[p]` is
`poly_point`, `sent2` and `sent3` say whose messages are out, `result[p]` is what `phase4`
returned. There is one session per party.

Inputs. `poly_fragments` is an unlabelled vector nothing counts, so what an honest party
contributes to the sum may be one fragment, none, or those of several polynomials
(`FragmentSums`); phase 4 may be called before everything has arrived and with one
message doubled, misrouted or replaced (`Mishaps`). The parties in `Faulty` tell
every other party a different fragment, committed point and chain code if they like;
`unsound` stands for any of their messages that does not verify (proof, decommitment,
OT message, version). No failure of this protocol is a ban, so the order of the checks
of phase 4 cannot be observed and they are one predicate, `Accepts`. The chain
code is represented by the function from parties to contributions whose exclusive
or it is.

Actions. `Phase1`..`Phase3`; `Phase4` and `Phase4Rejects` for the two ways it
returns; `Phase4OutOfOrder`, because `phase4(self)` consumes the session even when it
is refused. `phase2` and `phase3` out of order change nothing.

`DkgRun` deals once, and calls phases 2 to 4 when every message of the round before is
there.

### Refresh, RefreshSigning

State. `party[p]` is the application's `Party` object, `begun[p]` the attempts it ran phase 1
of, `attempt[p]` the one whose state it keeps, `committed[p][a]` the correction it
committed to in phase 2 of attempt `a`, `opened[p]` the attempts it ran phase 3 of. Refresh has no
session object: an application may leave an attempt for another after any phase,
call phase 4 again after an error, or never.

Data. A share is the sequence of corrections added to that of the key generation, a
correction the dealings it is a sum of, OT correlations the set-up and the seeds they
were masked with since, a zero-share seed its two halves. So two shares are on one
polynomial exactly if they are equal, and OT states fit exactly if they are equal: that
is what `Dkg` and `Multiplication` check with numbers. `SetUpVerifies` and `OnePolynomial`
compare the `refresh_sid` because the proofs are bound to it; `SeedsOpen` does not, because
the zero-share messages carry none.

Network. Fragments may be those of another attempt or missing (`FragmentsOf`); any other
message may be lost, misrouted or doubled, which all end in a recoverable abort (`None` in
`Received`). So does a refreshed share that is zero or one (`TrivialKeyShare`): over symbolic
shares which one that is is a parameter, `TrivialShare`; in the runs it is a share of party 2
after two attempts. Faulty parties send what does not verify, or fragments off the polynomials that
are zero at zero. Two constants say what the application and its relay see to:
`Coordinated`, that nobody begins a refresh while the objects are of different epochs,
and `Routed`, that messages of one attempt are not handed to another. Neither is asked for by the
library's documentation (section 5).

`RefreshSigning` runs `Signing` with `shares <- [p |-> {party[p]}]`. A session borrows the
object, phase 4 of a refresh takes it mutably: Rust's borrow rules are the set
`Borrowed`. Everything else interleaves.

### BinaryField, Proofs, ObliviousTransfer, Multiplication

A string of bits is the set of positions of its ones, a group element its logarithm, a
random oracle the constant operator `Hash`, everything drawn at random an argument that
`Multiplication` takes from a tape. Word size, number of words, degree and reduction
polynomial of `field_mul` are parameters with the conditions under which the routine is
right (`FieldAssumption`). A hash nobody looks into is its input; a seed masked with a
hash is the sequence of the two, and the two of a pair are masked with different ones.

`Multiplication` has an ordered pair of parties: `InitSender` and `InitReceiver` (key
generation), `MaskSender` and `MaskReceiver` (fast refreshes that either end may complete
alone), `RunPhase1`, `Run`, `RunPhase2`. The receiver has as many seeds as proofs arrived
in the set-up: `init_phase2` does not compare their number with `KAPPA`. `RunPhase1` does, and
`RefuseRun` is its refusal; a fast refresh of a receiver with a seed missing indexes past the end of
the list, a panic, which is modelled as the end of the receiver (`Aborted`). One thing may be altered on the way: an element of a
proof, the number of proofs (one less or more), of either message, the nonce, the seed, or the choice bits in one row of the
receiver's message; and the two may disagree on the session id of the run.

### Keys

Numbers modulo a small prime, and the whole life of the key material: `re_key`, children and paths
derived by each party and by the holder of the package independently, a refresh, and
a signature of any two parties with everything they draw. `where` records the child numbers each object was
derived by. Of the curve there are the x-coordinate, the same for a point and its
negative, and the parity of y; an x may exceed the group's order, as it may on the real
curves. The tweak's hash may exceed the order as well (`HashRange`), so that
children that do not exist occur. The package computes its tweak by itself (`PackageTweak`,
`PackageHasChild`), as `PublicKeyPackage::derive_child` does, and without a depth; that it comes to the same as
the party's is what `PackageFollowsParty` says. The signature is computed as phases 2 to 4 do, the
products of the multiplication taken as right (`Multiplication`).

## 3. Runs

| Run | Instance | Checks |
|---|---|---|
| `signing_pair` | 2-of-2, two sessions each, two ids, two messages, keyrings equal or differing in one field | `BansAreDeserved`, `GroupAgrees`, `SignsByConsent` |
| `signing_faulty` | 2-of-2, two sessions each, party 2 alters one message | `BansAreDeserved`, `OneShot` |
| `signing_inputs` | 3-of-4, every refused kind of request, signer sets forming a cycle | `TypeOK`, `GroupAgrees`, `SignsByConsent` |
| `signing_live` | 3-of-3, driven fairly, views equal or differing in one field or in the message | `AgreeingSignersSign`, `DivergenceEndsRecoverably` |
| `signing_retry` | 2-of-2, sign id retried after a recoverable abort | `BansAreDeserved`, expected to fail |
| `dkg` | 2-of-3 modulo 5, one faulty party, `phase1` called twice | `TypeOK`, `ViewsMatch`, `KeyAgreement`, `AnyThresholdSigns` |
| `dkg_live` | 2-of-3 modulo 11, driven fairly | `EverybodyFinishes` |
| `dkg_width` | three parties, indices of two bits | `EverybodyFinishes`, expected to fail |
| `refresh_signing` | 2-of-2, a complete and a fast refresh, one signature attempt each | `TypeOK`, `EpochsMatch`, `HalfDoneCanFinish`, `BansAreDeserved`, `SignsByConsent` |
| `refresh_retry` | the same without `Coordinated` | `BansAreDeserved`, expected to fail |
| `multiplication` | fields of 2^7 and 10007 elements, two rows, two masks, four tapes | `CorrelationHolds`, `BlameNeedsACause`, `AcceptedRowsAreCorrelated`, `AcceptedMeansProduct`, `FieldMulIsProduct`, `EncProofSound` |
| `keys` | 2-of-3 modulo 11, depth 2, one refresh | `SamePathSameKey`, `PackageFollowsParty`, `RecoveryFindsTheKey`, `OneKeySigns` |

* `BansAreDeserved`: an honest party bans only a party that sent it a message with
  one of the faults whose check leaks reused OT state; never one whose key merely
  differs or whose message was late, doubled or misrouted.
* `OneShot`: a session's instance key enters at most one set of multiplication
  answers and one broadcast, and nothing after an abort.
* `GroupAgrees`: when a session publishes `u` and `w`, every session whose point is in
  its nonce agrees on root, version, signers and key; honest ones ran their
  multiplication against this very session.
* `SignsByConsent`: the refinement of `ThresholdSignature`.
* `AgreeingSignersSign`, `DivergenceEndsRecoverably`: nobody is left waiting. They
  assume that every session is opened and every message arrives.
* `ViewsMatch`: whatever fragments were mixed and however the rounds interleaved, the
  verifying share a finished party holds of an honest one is the share that party keeps.
* `KeyAgreement`, `AnyThresholdSigns`: with at least `threshold` honest parties, all that
  finish have the same key and verifying shares, also those of a party that told
  everybody something else, and any `threshold` finished parties can reconstruct the
  key. With fewer honest parties (n-of-n with an equivocator) two finished parties may
  hold different keys; signing then fails at the sum of public shares.
* `EverybodyFinishes`: an honest, fairly driven key generation ends with one key and chain
  code.
* `EpochsMatch`: objects with one session id are of one epoch: shares on one polynomial, OT
  states and zero-share seeds that fit. It is the assumption of `Signing` about its
  objects, and in `RefreshSigning` `BansAreDeserved` depends on it.
* `HalfDoneCanFinish`: once a refresh succeeded at one honest party, an honest party still
  in it can complete it with the messages that are out, unless its own new share is trivial.
* `CorrelationHolds`: two ends that went through the same refreshes hold a correlated
  pair in every row the receiver got a seed for, whatever arrived altered, and no run begins with
  other than all rows. `BlameNeedsACause`: no error and no refusal to run without an
  alteration, a session id that differs, or a refresh only one end completed.
* `AcceptedRowsAreCorrelated`: a message that passes the check of the extension has the same choice bits
  in every row that matters. `AcceptedMeansProduct`: what `run_phase2` accepts is a
  product exactly unless the gadgets or `gamma_sender` differ, which only the checks of
  `sign_phase3` on the two gammas see.
* `FieldMulIsProduct`: with the challenges drawn for the message of the run, `field_mul`
  multiplies every element of the field modulo the polynomial. `EncProofSound`: a proof
  about no bit answers one sum of challenges only, for every statement in a group of
  `SmallOrder`, here 5.
* `SamePathSameKey`, `PackageFollowsParty`: derivation commutes with sharing and refresh; the
  package never falls behind a party, except that nothing renews its shares after a refresh.
* `OneKeySigns`, `RecoveryFindsTheKey`: signers at one place of the key tree, and only
  they, end with a signature that verifies, or with one of the draws no signature comes from;
  its recovery id leads back to their key.

Bounds of signing. Two sessions per party are the least at which messages can be exchanged
between sessions of one party; each check of the code looks at one session and one
counterparty, or at one group, so a third session adds no new comparison.
`MaxDelivery` is one more than the expected number of messages at 2-of-2, so that
wrong counts and duplicates occur; at 3-of-4 three messages are what phase 4 needs.
`MaxFaults` is one: two alterations in one message never pass a check one of them
fails. The proofs below remove the bounds for the safety properties. Session names
are compared for equality only, so they are a symmetry set in the runs that check
safety.

Bounds of key generation. 2-of-3 is the least with two windows and with a set of signers
that is not a window. The faulty party is party 1, so that the honest pair is
not the window the key is computed from. Modulo 5 a faulty party has every value an
equation can tell apart; the honest parties draw from two lines, which give different
fragments, and `MaxDeals` two lets fragments of two polynomials meet. In `dkg_live`
the lines are chosen so that no sum of them has a trivial key or share, which the code
refuses with negligible probability over the real group and which would end an
honest run here.

Bounds of the refresh. With two attempts, one of each variant, every order of a complete
and a fast one, an abandoned one and a retry under a new id occur, and three epochs. Two
parties are the least that can part; the proofs hold for any number, any faulty parties and
attempts. A relay that mixes attempts up (`Routed` false) is left to the assumptions of
the theorems.

Bounds of the multiplication. Words of four bits, two to an operand, and degree 7 give the partial
last word of the code (208 = 3 * 64 + 16); the blocks, the number of products and of
OTs per row are in the code's proportions. Two rows let one be wrong and
the other not, and lists of one and three proofs are the ones next to `KAPPA`. The oracle is a fixed quadratic scattering, the tapes are the inputs:
the field is large enough for none of the compared sums to collide by chance, and a
challenge is never 0, so that an altered response always shows. That what was altered is
noticed holds only up to a negligible probability in the code and without exception in
this run. What of it does not depend on the oracle is proved (section 4); that an altered
message to the sender is noticed is said by the run alone. `EncProofSound` has a group of its own,
of order 5, because it tries every transcript.

Bounds of the keys. Modulo 11, with a hash below 13 and depth 2, every refusal of the
derivation occurs, and x-coordinates of every kind: below the order, above it, equal
modulo it, and zero modulo it. Depth scales: the code compares with 255, the run with 2.
The chain code is kept as the whole input of the hash, so that chain codes never collide.

Fairness of `DkgRun` is weak, per party and phase, for the same reason as that of
`SigningRun`.

`CHECK_DEADLOCK` is off because every session ends: the system stops when
all have.

Every property is tied to the code by a mutant in `PROJECT.json`: a definition with a
plausible bug (a dropped check, a missing reset, the wrong granularity of a ban) under
which the same run fails.

## 4. Theorems

Those about signing hold for every number of parties, threshold, number of sessions, set
of requests and keyrings, delivery length and number of alterations; those about key
generation for every number of parties, threshold, prime field, set of faulty parties and
number of dealings; those about refresh for every number of parties, set of faulty
ones and set of attempts of either kind; those about keys for every hash, curve, prime field,
threshold, number of parties, children, paths and refreshes; those about oblivious
transfer for every oracle, field, group and number of rows; that about `field_mul` for every
word size, number of words and polynomial that `FieldAssumption` admits.

| Theorem | States |
|---|---|
| `Signing_proofs!TypeCorrect` | `[]TypeOK` |
| `Signing_proofs!GroupAgreement` | `[]GroupAgrees` |
| `Signing_proofs!BansDeserved` | `[]BansAreDeserved`, for applications that never reuse a sign id (`~AllowRetry`) |
| `Signing_proofs!SpeaksOnce` | `OneShot` |
| `Signing_proofs!ConsentRefinement` | `Signing` implements `ThresholdSignature` |
| `Signing_proofs!NonceSignsOnceHolds` | no instance key is in two different signatures |
| `Shamir_proofs!WindowsPinThePolynomial` | values of which all windows interpolate alike to zero lie on one polynomial |
| `Shamir_proofs!ThresholdPointsDetermineAll` | two such families with keys other than the identity that agree at `Threshold` indices are equal, and so are their keys |
| `Shamir_proofs!InterpolationFindsTheConstant` | the values of a polynomial at `Threshold` indices or more interpolate to its constant |
| `Dkg_proofs!TypeCorrect` | `[]TypeOK` |
| `Dkg_proofs!ViewsMatchHolds` | `[]ViewsMatch`, for any set of faulty parties |
| `Dkg_proofs!KeyAgreementHolds` | `[]KeyAgreement`, likewise |
| `Dkg_proofs!AnyThresholdCanSign` | `[]AnyThresholdSigns`, likewise |
| `Refresh_proofs!EpochsAlwaysMatch` | `[]EpochsMatch`, if `Coordinated` and `Routed` |
| `Refresh_proofs!HalfDoneCanAlwaysFinish` | `[]HalfDoneCanFinish`, likewise |
| `Refresh_proofs!TypeCorrect` | `[]TypeOK`, likewise |
| `Refresh_proofs!EpochsMatchWhileSigning` | `[]EpochsMatch` of the composition, if `Coordinated` and `Routed` |
| `Refresh_proofs!SignsByConsentWhileRefreshing` | the composition implements `ThresholdSignature` |
| `Refresh_proofs!BansDeservedWhileRefreshing` | `[]BansAreDeserved` of the composition, if `Coordinated`, `Routed` and `~AllowRetry` |
| `Keys_proofs!OneKeyPerPath` | `[]SamePathSameKey` |
| `Keys_proofs!PackageFollows` | `[]PackageFollowsParty` |
| `Keys_proofs!SignersOfOneKeySign` | `[]OneKeySigns` |
| `Keys_proofs!RecoveryIdFindsTheKey` | `[]RecoveryFindsTheKey` |
| `BinaryField_proofs!FieldMulComputesTheProduct` | `field_mul` of any two elements of the field is their product modulo the polynomial |
| `Multiplication_proofs!BlocksAreMultipliedModuloF` | `[]FieldMulIsProduct` |
| `Multiplication_proofs!CorrelationAlwaysHolds` | `[]CorrelationHolds`, the number of proofs that arrive included, unless draws were unlucky |
| `Multiplication_proofs!NoBlameWithoutACause` | `[]BlameNeedsACause`, unless draws were unlucky |
| `Multiplication_proofs!UnalteredRunsMultiply` | a run nothing arrived altered in ends with shares of every product, unless draws were unlucky |
| `Multiplication_proofs!AcceptedRowsMatch` | `[]AcceptedRowsAreCorrelated` where the message to the sender arrived as sent, the masks are the same and `ChallengesTell`, unless draws were unlucky |
| `Multiplication_proofs!AcceptedRunsMultiply` | `[]AcceptedMeansProduct`, if the two gadgets are the same as well |
| `Multiplication_proofs!ChangedSumsNameTheCorrelation` | which other sums than an honest receiver's the sender accepts: those whose change fits its correlation |
| `Multiplication_proofs!CheckSeesWeightedDifferences` | what the check of the extension accepts of a receiver whose choice bits differ from row to row |
| `Multiplication_proofs!EncProofsAreSound` | `[]EncProofSound`, over every group of prime order |
| `Multiplication_proofs!MasksKeepTheCorrelation` | masking both ends with one seed leaves a correlated pair |
| `Multiplication_proofs!TransferSharesTheProduct` | over correlated rows the two pads of a transfer add up to choice bit times correlation |

**Signing.** The assumptions on the constants are that sizes and counterparty
indices are positive numbers, and that two Party objects with the same `session_id`
carry matching OT correlations (`OtAssumption`: DKG and refresh set them up under
that id). The argument rests on the inductive invariant `IInv`. None of the properties
is inductive: that a broadcast's group agrees (`GroupAgrees`) depends on what the
counterparty had heard when it answered, long before. `IInv` therefore adds:
`HeardAgrees` (phase 2 keeps only messages that agree on version and root, each
altered copy of a faulty party excepted), `SendersBegan` (who sent a message opened a
session and still has the same key and data), `AnswersHeard` (an unaltered answer was
made for a message its sender had heard), and `BroadcastsAddUp` (a broadcast's inputs passed the
whole of phase 3). `BansDeserved` adds `SignIdsUnique` (one session of an honest party per
sign id, from which follows that an honest answer which passes the digest answers this
session, so that `verify_r` succeeds). TLC checked `IInv` on the faulty and the cyclic instance
before it was proved.

Step preservation has one case per action (`NextCases`, `StepKeeps`); the altered
copies share one lemma. The refinement proof counts sessions: phase 2 and 3 accept one
message per counterparty, so a group has exactly `threshold` members of different
parties. `NonceSignsOnceHolds` uses nothing of `Signing` but the
refinement: an invariant of the abstract steps (`ConsentedOnce`) implies it.

**Interpolation.** The code trusts a key whose windows of successive indices interpolate
alike, and then signs with any set of `threshold` parties. That the first
implies the second is `WindowsPinThePolynomial`. Its core is an exchange: what
`threshold + 1` indices interpolate to when one of them is left out is linear in that index
(`LeaveOut`), so if leaving out either of two gives the same, leaving out any does
(`TwoPin`). Of the sets that interpolate to something else, take one whose ends are nearest. It is no
window, so it lacks an index between its ends; with that index added, leaving out either end
gives a set with nearer ends, hence the key, and so does leaving out the added one. At
`share_count` 255 the last window of the code wraps and is empty; it then interpolates to
zero, which no key is, so the theorem covers that case too. `InterpolationFindsTheConstant`
compares a polynomial, given by Horner's method, with the one without its lowest coefficient.
All of it is over the integers, with `Zero(x)`, that `x` is a multiple of the prime, for an
equation modulo it; that scalars have inverses is proved from `FieldAssumption` (no number
divides the prime). `FieldAssumption` also says that `2 ^ IndexWidth` is a number,
because the provers know nothing of powers.

Sums and products over sets are folds of the community modules, for which the library
has no theorems. `FiniteFolds` proves what is needed: a fold may take any element first, and
depends on the values at the elements only. Induction over sets is by a smallest
counterexample in the well-founded order of subsets, over numbers by a least one, since the
provers cannot apply an induction theorem to a predicate.

**Key generation.** `IInv` says which maps have which domain (`Shape`), that messages go
out in order (`InOrder`, `SendersBegan`), that what is claimed of an honest party
in a result is what it keeps, which is never replaced because phase 2 runs once
(`ViewsAuthentic`), and that a result passed the comparison of the windows
(`ResultsChecked`). It rests on a broadcast being filed under the party it came from, which is
the application's part. `KeyAgreement` follows because two finished parties hold the same values
at the honest indices, and those are `threshold` points of one polynomial;
`AnyThresholdSigns` because the shares are values on it.

**Refresh.** `RefreshAssumption` says that the objects of the key generation fit one another
and that an attempt's id is new. `EpochsMatch` is not inductive, since it says nothing of a
party that is one attempt behind. `IInv` adds: two parties in one attempt began from one
epoch (`Together`); an object made by an attempt is the object of whoever is still in
the attempt, extended by it (`Behind`), with a correction that all honest parties committed
to and opened (`Done`); nobody opens what it did not commit to (`InOrder`), or runs an
attempt twice (`Active`). `Together` needs `Coordinated`, `Done` needs `Routed`: what phase 4
accepts in one attempt was sent in that attempt. `HalfDoneCanFinish` follows from
`IInv` without a further induction.

Signing over the objects that refreshes replace is another matter: a session keeps what it
borrowed, its counterparty may be an epoch ahead or behind when it answers, and the
assumption `Signing` makes on constant objects has to be shown of variable ones. `LInv`
is the conjunction of both invariants and of: a refresh is begun from an epoch that all
honest parties have been at and none is refreshing to, so none ever will (`Left`, `LeftBehind`);
objects come from the key generation or from refreshes (`FirstObject`); a session's object is
the one its party holds or one of an epoch left behind (`Borrowings`); and a borrowed object fits
the one held now, and the other borrowed ones, that carry the same session id (`Fits`, `KeysFit`). A faulty party of the composition
signs with the object of the key generation; in `Signing` alone it may hold any.
`SignsByConsentWhileRefreshing` needs neither `Coordinated` nor `Routed`: what a signature
takes is checked at signing time, whatever the objects.

**Keys.** `KInv` says that the objects and the package are at nodes of one tree of keys whose chain
codes tell the nodes apart (`OneTree`); that a share is its key plus an offset, where the
offsets lie on one polynomial that is zero at zero and survive derivation, because a tweak moves share
and key alike, and refresh, which adds another such polynomial (`SharesFit`); and that two
parties hold the same seed with opposite signs (`SeedsPair`). The package is tied to the offsets until the
first refresh only. From `KInv` follow the properties of keys at one place of the tree.
Of a signature one further invariant says how it ended (`SignatureEnds`): its proof follows the
phases of the code. What two signers owe each other cancels (`DebtsCancel`), so zero shares sum to zero
(`ZeroSharesCancel`) and the shares of a product to the product (`ProductShared`); the sums
of phase 3 are those of the secret key and the nonce (`BroadcastsAddUp`); their quotient
is the signature of ordinary ECDSA (`Quotient`), its point is that of the nonce up to sign
(`PointOfSignature`, `EitherSign`), and the recovery id says which (`KeyRecovered`).

The theorems about keys, and those about a multiplication from its set-up on, assume `HashesAreNumbers`: the values of the hash on sequences of
numbers are numbers. TLC cannot evaluate that, so it is a hypothesis of each theorem rather than
an `ASSUME` of the module. They assume nothing else of the hash; chain codes are the
whole input of the hash, so that different nodes have different ones by construction. Of the curve,
`KeysAssumption` says that two points have one x-coordinate exactly if they are equal or negatives.
`KInv` quantifies over all trees and offsets, so TLC cannot evaluate it; it was
checked through the four properties of the run only.

**The binary field.** What a string of bits is modulo the polynomial (`Red`) is the exclusive or of the
reduced powers of X at its positions. `Red` is linear and commutes with shifts (`RedShift`), and
`TimesLow` is multiplication by X to the degree, modulo the polynomial (`TimesLowFacts`); so
folding a word, or the rest of the last, changes nothing modulo it (`FoldWordFacts`,
`FoldRestFacts`), and what is left fits the words below, because `FieldAssumption` leaves room.
On an element of the field `Red` is the identity, so what remains is that the comb is the product
before reduction. One more bit in the first factor adds the shifted second factor to
the comb, at one step and for one word (`CombAdds`), and its reduction to
the product by definition (`ProductAdds`). The recursion of `FoldWords` and that of
`PowerOfX` are recursive functions, of which it has to be proved that they exist
(`RecursiveFunction`). `FieldAssumption` holds of the code's sizes: words of 64 bits, four of
them, degree 208, and exponents up to 9. `BlocksAreMultipliedModuloF` adds that every
challenge of a run is an element of the field, whatever the message it is drawn for.

**Multiplication.** Two theorems are about one step at each end of a pair, for
every pair of states that is `Correlated`. The sender
flips a bit of its correlation exactly where the receiver swaps two seeds
(`MasksKeepTheCorrelation`); the sender's rows are the receiver's with the choice bits
added in the rows the correlation names (`RowsDifferByChoice`), so a column the receiver
chose differs by the correlation and the pads differ by what `Tau` corrects
(`TransferSharesTheProduct`).

`CorrelationAlwaysHolds` is about whole histories. `CorrelationHolds` is not inductive: of two
ends of which one is a refresh ahead it says nothing. Of the two parts of `Pace`, `InStep` says that
both go through one list of states, in which each pair is correlated in every row and the next is the last
one masked, each at a place of its own; the receiver's seeds are those of its place where it got
any (`Agrees`), which masking keeps (`MaskedAgrees`). `Counted` says that the receiver
had all seeds if nothing was altered or if it has sent anything, which the check in `run_phase1` sees
to (`SentCorrelated`). The set-up gives both the first states of the list, or aborts
(`SetUpGivesFirst`): of the altered proofs those that verify carry the same points, however many arrive
(`PointNotAltered`, `StatementsAgree`). That is so unless the draws were unlucky: the
search of the `DLogProof` found nothing (then `prove` returns an error),
all of its challenges are multiples of the group's order, so that it proves nothing,
or two rows hash to one point (`LuckyDraws`, constant over a run; it holds of every tape of the
TLC instance). The theorem needs no hash to be collision-free. It assumes what
`RunAssumption` says of the constants, among it that there are two rows or more,
since the altered proofs repeat a row in another's place.

`NoBlameWithoutACause` and `UnalteredRunsMultiply` say that the protocol is complete: over those
histories, with any number of refreshes before the run and of products in it, no check
fails and the shares add up to the products. They have one inductive invariant,
`Faithful`, beside `Pace`. As long as nothing is altered both ends have the gadget of one nonce, the message under way and
what the receiver keeps are what it computes from its state (`Sent`, `Keeps`); and if the two went
through the same refreshes, the sender's answer is the one it computes from that message
(`Products`), and what the receiver accepted is a product (`Untouched`). Where one end is a refresh
ahead it says nothing of the answers: then the run may fail, and does. `Ordered` is the
order of the calls. From `Pace` the pair is `Correlated` whenever the masks are the same, which
makes it `Honest`, and about an honest pair the algebra is in lemmas of its own:

* The check of the extension. Cutting a row into blocks, and multiplying by a challenge modulo the
  polynomial, both respect exclusive or (`BlockIs`, `ProductLinear` in `BinaryField_proofs`), so
  the weighted sum does (`WeightedSumLinear`). Over a correlated pair the check therefore
  accepts exactly those messages whose rows, where the correlation has a one, differ
  from `verify_x`'s by bits of weighted sum zero: `CheckSeesWeightedDifferences`, in both directions and for
  every receiver, also one whose choice bits differ from row to row. A receiver that used one
  row of bits differs by nothing (`ExtensionAccepted`).
* The check of the multiplication. Every pair of outputs of a transfer adds up to the input
  or pad where the bit was chosen and to zero elsewhere (`PadsShareTheProduct`, `OutputsShare`); both
  sides of an entry of `verify_r` are one linear combination of these (`EntriesAgree`,
  `EntriesAccepted`).
* The products. The gadget's sums at the two ends add up, column by column, to the input times
  the gadget's entries that were chosen, which is the input times `b` (`SumMerge`, `SumOfChosen`, `OutputsMultiply`);
  the laws of the scalars and of their sums are proved from those of the integers and
  of the folds of `FiniteFolds`.
* The proofs of the set-up. A `DLogProof` and an `EncProof` that nobody altered verify (`DLogAccepted`,
  `EncProofsAccepted`), unless two commitments of the former are equal or a point of the
  latter is the identity, which their verifiers refuse (`LuckyProofs`).

`MarkersAreNoData`, which the other theorems about histories assume as well, says that `None` and
`Aborted` are neither records nor one another, as model values are none.
TLC checked `Faithful`, and that `LuckyDraws` and `LuckyProofs` hold for all four tapes, on
the instance of the run.

`AcceptedRowsMatch` and `AcceptedRunsMultiply` say what an accepted run comes to when something
was altered: the choice bits of some rows, the set-up, or any part of the sender's answer. They
need a second inductive invariant beside `Pace` and `Faithful`, as these say nothing of altered
answers. `Told` says that whatever the receiver keeps is what
`run_phase1` made of the message it sent, with one row of bits or with several; that an answer of
the sender is what `run_phase2` computes from a message that passed its check (`Products`); and
that what the receiver accepted is computed from that answer or from one of its changes, and
`gamma_sender` was altered exactly if that change is in it. On it rest:

* In the extension, choice bits that differ from row to row change the weighted sum by the challenge of
  the block they are in (`BitWeighs`). If that challenge is not zero and the check passes, no
  changed row is one where the correlation has a one, so that the sender's rows match what the receiver
  keeps (`AcceptedIsHonest`) and the algebra of an honest pair applies.
* In the multiplication, of the changes of the answer only that of `gamma_sender` passes
  (`AcceptedChanges`): a missing element fails the check of the dimensions, another `verify_r` its
  comparison, and another `verify_u` or `vector_of_tau` moves one side of an entry by 1 or by
  `chi_tilde` (`EntryDiffers`, `SumDiffers`), which is not zero. Another `gamma_sender` is in no check, and moves the
  receiver's share by `b` times the change: `WrongGammaFails`.

`ChallengesTell` are these conditions on the hash: for the message under way, the challenge of the block the model
alters, the last `chi_tilde` and `b` are not zero. They hold in every state of the run's
instance, as do `Told` and the two invariants before it, and in that instance accepted runs
with altered choice bits and with an altered `gamma_sender` do occur. None of
them says that two messages hash differently.

`ChangedSumsNameTheCorrelation` needs no condition on the hash. Where a receiver's rows were honest, its
`verify_x` and `verify_t` could be replaced by others the sender accepts, but only by those of which the
changes agree with its correlation in every row.

`EncProofsAreSound` is arithmetic: from two answers to one commitment, `u` would be the
one point times `h` unless the two challenges are the same. That a product is a multiple of the prime only
if a factor is comes from `Shamir_proofs`, instantiated with `SmallOrder` for `Prime`.

**Only model-checked.** The liveness properties (the proof system has neither `ENABLED`
nor induction over a run's length); everything about the findings; and
`AcceptedRowsAreCorrelated` and `AcceptedMeansProduct` in the histories the theorems about
them leave out: where the message to the sender arrived altered, where one end is a refresh
ahead, where an altered set-up left two gadgets, or where `ChallengesTell` fails. There an
acceptance depends on what the hash returns for a second input, so the properties are false of some hash;
a hypothesis that the hash tells the two apart would be the conclusion.

## 5. Where the code and its documentation disagree

`signing_retry`. `AbortKind::Recoverable` is documented as "can be retried safely"
and `BanCounterparty` as reserved for cheating. All identifiers of a signing run come
from the session id, the sign id and the chain code, and nothing in the
documentation asks for a new sign id per attempt. When an application retries the
same `SignData` after a recoverable abort, and a phase 1 message of the abandoned
attempt reaches the peer, the peer answers it; the new attempt finds an answer to a
transcript it never sent, `verify_r` fails, and the honest peer is banned. With a
fresh sign id per attempt this cannot happen (`BansDeserved`).

`dkg_width`. `docs/security.md` says party counts are limited to 255 by the `u8` type,
and `Parameters::new` accepts 255. `step5` computes the end of its last window,
`share_count + 1`, in `u8`: 256 overflows. With overflow checks this is a panic; in a
release build the window is empty, its sum is the identity, and every honest key
generation among 255 parties ends in `PolynomialInconsistency`. The run shows the
same with three parties and two bits.

`refresh_retry`. The same sentence about `Recoverable`, and the comment in
`refresh.rs:1224-1225` that after an `Err` "the refresh did not complete and `self` is still
the live, valid share". Phase 4 of a refresh decides at every party alone: when its last
messages miss one party, the other has completed and wiped its old object. If the two
then retry, they start from different epochs, and nothing compares them: corrections are
sums of dealings and do not name the share they are added to, a fast refresh masks
whatever correlation it finds. It succeeds at both ends; both objects carry
the new session id, on which the digest of signing agrees; shares and OT
correlations do not fit, and the next signature bans an honest party. The way out is to
finish the half-done attempt (`HalfDoneCanFinish` shows that the messages out are
enough), and to begin none before (`Coordinated`, under which `EpochsAlwaysMatch`
excludes it).

Three more have no run of their own. The comments in `multiplication.rs` (218-221 and 477-480)
say that a disagreement of the two gadget vectors makes `verify_r` fail. In the model it does
not: both sides of that check are computed from the OT's outputs and the sender's
inputs before the gadget enters, and the result is no product. It is the checks of
`sign_phase3` on the two gammas that find it, before anything is broadcast, so
it bans as the comment says. `AcceptedMeansProduct` states it as it is.
And the comment in `signing.rs` (1064-1066) says that `is_x_reduced` must be right
when x is at least the group's order. It is never set:
`verify_ecdsa_signature` parses `x_coord` strictly (1105-1112, 1144), so that
such a nonce always ends in `SignatureVerificationFailed`. `OneKeySigns` counts it among the
draws no signature comes from, and the run has curve points of that kind.
Last, `docs/audit-tob-methodology-review.md:34-36` calls the panics that are left "infallible
length-invariants". The number of seeds a receiver keeps is the number of proofs it was sent, which
nothing compares with `KAPPA` in key generation or refresh (`ot/base.rs` 169, `ot/extension.rs` 517-527);
a fast refresh indexes `KAPPA` of them (`refresh.rs` 1115-1156). `MaskReceiver` has that step, and
`run_phase1` is where such a set-up is refused otherwise (`RefuseRun`).

## 6. Plan

Signing, key generation, refresh, derivation, re_key, multiplication, oblivious transfer and
proofs of knowledge are modelled. What could still be added:

1. Several sessions of `Dkg` under one session id. The OT set-up and zero-share openings of
   a retried key generation verify in the other attempt (`dkg.rs:653`), so a pair of finished
   parties may hold an OT state that does not fit, which `OtAssumption` of `Signing` excludes.
2. `find_in_stream` of `messages.rs` with the width of `usize`.
3. Refreshes over a relay that mixes attempts up (`Routed` false), and with three
   parties, as TLC instances. The theorems cover any number of parties, `Routed` assumed.
4. Fairness of `run_refresh_complete` and `run_refresh_fast`, and that a fairly driven
   refresh ends.
5. A refinement from the numbers of `Dkg` to the symbolic shares of `Refresh`. The two
   are tied together by the text of section 2 only.

## 7. Not modelled

* Framing of messages (`messages.rs`) and the serialization of signatures, parties and
  packages: byte strings without state, the bound check of `find_in_stream` included.
* Zeroization: that a value is wiped has no effect on what any operation does next. That
  the value is gone (a `take`, a consumed `self`) is modelled.
* The group law, the hash functions and the random generator themselves. A group element
  is its logarithm, a hash either symbolic or a fixed function on small numbers,
  randomness an argument or a tape. How hard a logarithm is to find, and with what
  probability a check fails to see a deviation, are outside these models; so are
  secrecy and everything else that is about probability distributions.
* `DLogProof::prove_commit` and `decommit_verify`: a commitment around a proof `Proofs` has;
  `Dkg` and `Refresh` model what committing before opening is for.
* The fingerprint of a parent key, addresses, and the wording of errors.
* The traits of `curve.rs` and the two curve crates: types and re-exports. The models
  are parameterised by the order, which is all they use of a curve.
* The benchmarks' byte counting and the documentation tools.

Which lines are covered by which definition is in `PROJECT.json` (`map`), with the
status of every component (`components`).
