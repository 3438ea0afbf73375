-------------------------------- MODULE Keys --------------------------------
(***************************************************************************)
(* The key material of every party and its arithmetic: the trusted dealer  *)
(* (re_key.rs), BIP-32 derivation (derivation.rs) by the parties and by    *)
(* whoever holds the PublicKeyPackage (protocols.rs), a refresh of the     *)
(* shares, zero shares (zero_shares.rs), and the scalars of a signature    *)
(* with its recovery id (signing.rs).                                      *)
(*                                                                         *)
(* Every party derives when it likes, so the objects of a group may be at  *)
(* different places of the key tree.  Points are logarithms, as in Shamir; *)
(* of the curve there is the x-coordinate, the same for a point and its    *)
(* negative and possibly not below the group's order, and y's parity.      *)
(***************************************************************************)
EXTENDS Shamir, Sequences

CONSTANTS
  MAX_DEPTH, MAX_CHILD_NUMBER,
  HashRange,         \* a hash is a number below this, which may exceed Prime
  Hash(_),           \* from sequences of numbers
  XCoordinate(_),
  SecretPolynomial,  \* what the dealer may draw
  ZeroPolynomial,    \* the sum of what the parties of a refresh draw
  MaxRefreshes,      \* bound
  ChildNumber, Path, \* what the application asks for; a path without its leading m
  Message,           \* message hashes
  Draw,              \* what the signers of a signature draw
  None

ASSUME KeysAssumption ==
  /\ MAX_DEPTH \in Nat /\ MAX_CHILD_NUMBER \in Nat /\ MaxRefreshes \in Nat
  /\ HashRange \in Nat \ {0}
  /\ ChildNumber \subseteq Nat /\ Path \subseteq Seq(Nat)
  /\ Message \subseteq Nat
  /\ Draw \subseteq [Party -> [instance_key : Scalar, inversion_mask : Scalar,
                              chi : [Party -> Scalar]]]
  /\ SecretPolynomial \subseteq Polynomial /\ ZeroPolynomial \subseteq Polynomial
  /\ \A f \in ZeroPolynomial : f[0] = 0
  /\ \A k \in Scalar : XCoordinate(k) \in 0..(2 * Prime - 1)
  /\ \A j, k \in Scalar \ {0} : XCoordinate(j) = XCoordinate(k) <=> j \in {k, Prime - k}

VARIABLES
  party,       \* the Party object of every index
  package,     \* the PublicKeyPackage, with the chain code its holder keeps beside it
  refreshes,   \* refreshes so far; history
  where,       \* the child numbers each object, and at 0 the package, was derived by; history
  outcome      \* what a signature came to

vars == <<party, package, refreshes, where, outcome>>

Neg(x) == (Prime - x) % Prime
Total(f) == SumFunction(f) % Prime

-----------------------------------------------------------------------------
(* re_key.                                                                 *)

\* common_seeds[i][k] is the seed of the pair (i, i + k).
CommonSeeds == [i \in 1..(ShareCount - 1) |-> [k \in 1..(ShareCount - i) |-> 10 * i + k]]
SeedPairs(p) ==
  {[lowest_index |-> FALSE, index_counterparty |-> q, seed |-> CommonSeeds[q][p - q]] :
     q \in 1..(p - 1)}
  \cup
  {[lowest_index |-> TRUE, index_counterparty |-> q, seed |-> CommonSeeds[p][q - p]] :
     q \in (p + 1)..ShareCount}

ReKeyed(p, poly) ==
  LET share == Evaluate(poly, p)
  IN  [session_id |-> 0, poly_point |-> share, pk |-> poly[0], zero_share |-> SeedPairs(p),
       derivation_data |-> [depth |-> 0, poly_point |-> share, pk |-> poly[0],
                            chain_code |-> <<>>]]
ReKeyPackage(poly) ==
  [verifying_key |-> poly[0], chain_code |-> <<>>,
   verifying_shares |-> [p \in Party |-> Evaluate(poly, p)]]

Init ==
  /\ \E poly \in SecretPolynomial :
       /\ party = [p \in Party |-> ReKeyed(p, poly)]
       /\ package = ReKeyPackage(poly)
  /\ refreshes = 0
  /\ where = [i \in 0..ShareCount |-> <<>>]
  /\ outcome = None

-----------------------------------------------------------------------------
(* Derivation.                                                             *)

\* The two halves of the HMAC of the chain code, the public key and the child number.
HmacInput(chain_code, pk, n) == chain_code \o <<pk, n>>
Tweak(chain_code, pk, n) == Hash(HmacInput(chain_code, pk, n)) % HashRange
ChildChainCode(chain_code, pk, n) == HmacInput(chain_code, pk, n)

\* child_tweak and what both derivations refuse.
HasChild(chain_code, pk, n) ==
  /\ n <= MAX_CHILD_NUMBER
  /\ Tweak(chain_code, pk, n) < Prime
  /\ (Tweak(chain_code, pk, n) + pk) % Prime # 0

\* DerivData::derive_child.
DataHasChild(data, n) == data.depth # MAX_DEPTH /\ HasChild(data.chain_code, data.pk, n)
ChildData(data, n) ==
  LET tweak == Tweak(data.chain_code, data.pk, n)
  IN  [depth |-> data.depth + 1,
       poly_point |-> (data.poly_point + tweak) % Prime,
       pk |-> (tweak + data.pk) % Prime,
       chain_code |-> ChildChainCode(data.chain_code, data.pk, n)]

\* The data at the end of each prefix of a path, None from where derive_child fails.
DataAlong(data, path) ==
  LET at[i \in 0..Len(path)] ==
        IF i = 0 THEN data
        ELSE IF at[i - 1] = None \/ ~DataHasChild(at[i - 1], path[i]) THEN None
        ELSE ChildData(at[i - 1], path[i])
  IN  at
ParsesAsPath(path) ==
  /\ \A i \in DOMAIN path : path[i] <= MAX_CHILD_NUMBER
  /\ Len(path) <= MAX_DEPTH

\* A party takes over poly_point and pk from the derived data and keeps the rest.
WithData(object, data) ==
  [object EXCEPT !.poly_point = data.poly_point, !.pk = data.pk, !.derivation_data = data]

PartyDerivesChild(p, n) ==
  LET data == party[p].derivation_data
  IN  /\ DataHasChild(data, n)
      /\ party' = [party EXCEPT ![p] = WithData(@, ChildData(data, n))]
      /\ where' = [where EXCEPT ![p] = Append(@, n)]
      /\ UNCHANGED <<package, refreshes, outcome>>

PartyDerivesFromPath(p, path) ==
  LET data == DataAlong(party[p].derivation_data, path)[Len(path)]
  IN  /\ ParsesAsPath(path)
      /\ data # None
      /\ party' = [party EXCEPT ![p] = WithData(@, data)]
      /\ where' = [where EXCEPT ![p] = @ \o path]
      /\ UNCHANGED <<package, refreshes, outcome>>

\* PublicKeyPackage::derive_child computes the tweak by itself, has the chain code as an
\* argument and no depth.
\* mutant: the child number is hashed before the key
PackageTweakSwapped(pkg, n) == Hash(HmacInput(pkg.chain_code, n, pkg.verifying_key)) % HashRange
PackageTweak(pkg, n) == Hash(HmacInput(pkg.chain_code, pkg.verifying_key, n)) % HashRange
PackageHasChild(pkg, n) ==
  /\ n <= MAX_CHILD_NUMBER
  /\ PackageTweak(pkg, n) < Prime
  /\ (PackageTweak(pkg, n) + pkg.verifying_key) % Prime # 0
ChildPackage(pkg, n) ==
  LET tweak == PackageTweak(pkg, n)
  IN  [verifying_key |-> (tweak + pkg.verifying_key) % Prime,
       chain_code |-> ChildChainCode(pkg.chain_code, pkg.verifying_key, n),
       verifying_shares |-> [p \in Party |-> (tweak + pkg.verifying_shares[p]) % Prime]]
PackageDerives(n) ==
  /\ PackageHasChild(package, n)
  /\ Len(where[0]) < MAX_DEPTH + 1      \* bound
  /\ package' = ChildPackage(package, n)
  /\ where' = [where EXCEPT ![0] = Append(@, n)]
  /\ UNCHANGED <<party, refreshes, outcome>>

-----------------------------------------------------------------------------
(* A refresh that completes everywhere; for the others see Refresh.  The   *)
(* session id and the seeds of the zero shares are new, and a share        *)
(* appears twice in an object.                                             *)

\* mutant: derivation keeps the share of the last epoch
RefreshedStaleData(object, correction, sid) ==
  [object EXCEPT !.session_id = sid, !.poly_point = (@ + correction) % Prime,
     !.zero_share = {[pair EXCEPT !.seed = @ + 100] : pair \in object.zero_share}]
RefreshedObject(object, correction, sid) ==
  LET share == (object.poly_point + correction) % Prime
  IN  [object EXCEPT !.session_id = sid, !.poly_point = share,
         !.zero_share = {[pair EXCEPT !.seed = @ + 100] : pair \in object.zero_share},
         !.derivation_data.poly_point = share, !.derivation_data.pk = object.pk]

RefreshEverywhere(poly) ==
  LET refreshed == [p \in Party |-> RefreshedObject(party[p], Evaluate(poly, p), refreshes + 1)]
  IN  /\ refreshes < MaxRefreshes
      /\ \A p \in Party : refreshed[p].poly_point \notin {0, 1}
      /\ party' = refreshed
      /\ refreshes' = refreshes + 1
      /\ UNCHANGED <<package, where, outcome>>

-----------------------------------------------------------------------------
(* A signature.  draw has what every signer p draws: an instance_key,      *)
(* an inversion_mask and for every other the b of the multiplication in    *)
(* which it is the receiver.  The multiplication is Multiplication's.      *)

\* What the roots of two signers have to agree on before anything secret is used.
Root(p) == <<party[p].session_id>> \o party[p].derivation_data.chain_code
RootsAgree(S) == \A p, q \in S : Root(p) = Root(q)

\* mutant: both ends of a pair add the fragment
ZeroShareUnsigned(p, counterparties, sid) ==
  Total([pair \in {x \in party[p].zero_share : x.index_counterparty \in counterparties} |->
           Hash(sid \o <<pair.seed>>)])
\* ZeroShare::compute.
ZeroShare(p, counterparties, sid) ==
  LET fragment(pair) == Hash(sid \o <<pair.seed>>) % Prime
  IN  Total([pair \in {x \in party[p].zero_share : x.index_counterparty \in counterparties} |->
               IF pair.lowest_index THEN Neg(fragment(pair)) ELSE fragment(pair)])

\* sign_phase2: the additive share of the key.
KeyShare(p, S) ==
  (party[p].poly_point * Lagrange(p, S) + ZeroShare(p, S \ {p}, Root(p))) % Prime

\* sign_phase3: p's broadcast (u, w).  c is 0 and d the whole product: a sharing like any.
Broadcast(p, S, msg, draw, rx) ==
  LET others == S \ {p}
      psi(q) == (draw[q].inversion_mask + Neg(draw[q].chi[p])) % Prime
      first_sum == draw[p].inversion_mask + Total([q \in others |-> psi(q)])
      u == draw[p].instance_key * first_sum
             + Total([q \in others |-> draw[q].instance_key * draw[p].chi[q]])
      v == KeyShare(p, S) * first_sum
             + Total([q \in others |-> KeyShare(q, S) * draw[p].chi[q]])
  IN  [u |-> u % Prime, w |-> (msg * draw[p].inversion_mask + (v % Prime) * rx) % Prime]

IsHigh(s) == 2 * s > Prime
YIsOdd(point) == 2 * point > Prime       \* of a point and its negative one is odd
\* The point of which (x_coord, s) is a signature.
SignaturePoint(msg, pk, rx, s) == ((msg + pk * rx) * Invert(s)) % Prime

\* x_coord and s have to be below the group's order, and not zero.
VerifyEcdsa(msg, pk, x_coord, s) ==
  /\ x_coord \in 1..(Prime - 1) /\ s \in 1..(Prime - 1)
  /\ SignaturePoint(msg, pk, x_coord, s) # 0
  /\ XCoordinate(SignaturePoint(msg, pk, x_coord, s)) % Prime = x_coord

RecoveryId(msg, pk, x_coord, s) ==
  LET point == SignaturePoint(msg, pk, x_coord % Prime, s)
  IN  (IF YIsOdd(point) THEN 1 ELSE 0) + (IF x_coord # x_coord % Prime THEN 2 ELSE 0)

Aborted(reason) == [signed |-> FALSE, reason |-> reason]

\* sign_phase4, at any signer: all have the same broadcasts and public key.
\* mutant: the recovery id is that of s before it is normalized
Phase4EarlyId(msg, pk, x_coord, broadcasts, normalize) ==
  LET denominator == Total([b \in DOMAIN broadcasts |-> broadcasts[b].u])
      numerator == Total([b \in DOMAIN broadcasts |-> broadcasts[b].w])
      s == (numerator * Invert(denominator)) % Prime
      low == IF normalize /\ IsHigh(s) THEN Neg(s) ELSE s
  IN  IF denominator = 0 THEN Aborted("ZeroDenominator")
      ELSE IF ~VerifyEcdsa(msg, pk, x_coord, low) THEN Aborted("SignatureVerificationFailed")
      ELSE [signed |-> TRUE, s |-> low, rec_id |-> RecoveryId(msg, pk, x_coord, s)]
Phase4(msg, pk, x_coord, broadcasts, normalize) ==
  LET denominator == Total([b \in DOMAIN broadcasts |-> broadcasts[b].u])
      numerator == Total([b \in DOMAIN broadcasts |-> broadcasts[b].w])
      s == (numerator * Invert(denominator)) % Prime
      low == IF normalize /\ IsHigh(s) THEN Neg(s) ELSE s
  IN  IF denominator = 0 THEN Aborted("ZeroDenominator")
      ELSE IF ~VerifyEcdsa(msg, pk, x_coord, low) THEN Aborted("SignatureVerificationFailed")
      ELSE [signed |-> TRUE, s |-> low, rec_id |-> RecoveryId(msg, pk, x_coord, low)]

InstancePoint(S, draw) == Total([p \in S |-> draw[p].instance_key])

\* Phases 2 to 4 at the signer with the lowest index.
Signed(S, msg, draw, normalize) ==
  LET p == CHOOSE i \in S : \A q \in S : i <= q
      point == InstancePoint(S, draw)
      x_coord == XCoordinate(point)
      broadcasts == [q \in S |-> Broadcast(q, S, msg, draw, x_coord % Prime)]
  IN  IF ~RootsAgree(S) THEN Aborted("RootMismatch")
      ELSE IF Total([q \in S |-> KeyShare(q, S)]) # party[p].pk \/ point = 0
      THEN Aborted("PolynomialInconsistency")
      ELSE Phase4(msg, party[p].pk, x_coord, broadcasts, normalize)

Sign(S, msg, draw, normalize) ==
  /\ outcome = None
  /\ Cardinality(S) = Threshold
  /\ outcome' = [signers |-> S, message |-> msg, point |-> InstancePoint(S, draw),
                 normalize |-> normalize, result |-> Signed(S, msg, draw, normalize)]
  /\ UNCHANGED <<party, package, refreshes, where>>

\* A behaviour ends with its signature.
Next ==
  \/ /\ outcome = None
     /\ \/ \E p \in Party, n \in ChildNumber : PartyDerivesChild(p, n)
        \/ \E p \in Party, path \in Path : PartyDerivesFromPath(p, path)
        \/ \E n \in ChildNumber : PackageDerives(n)
        \/ \E poly \in ZeroPolynomial : RefreshEverywhere(poly)
  \/ \E S \in SUBSET Party, msg \in Message, draw \in Draw, normalize \in BOOLEAN :
       Sign(S, msg, draw, normalize)

Spec == Init /\ [][Next]_vars

-----------------------------------------------------------------------------
(* Properties.                                                             *)

\* Parties that have derived by the same child numbers, in whatever steps and whichever
\* refreshes came between, have one public key and chain code, and any Threshold of them
\* hold shares of that key, in both places an object keeps its share (derivation.rs
\* 156-294, refresh.rs 704-731).
SamePathSameKey ==
  \A S \in SUBSET Party :
    (Cardinality(S) = Threshold /\ \A p, q \in S : where[p] = where[q]) =>
      \A p \in S :
        /\ \A q \in S : party[p].derivation_data.chain_code = party[q].derivation_data.chain_code
        /\ AtZero([q \in S |-> party[q].poly_point], S) = party[p].pk
        /\ AtZero([q \in S |-> party[q].derivation_data.poly_point], S) = party[p].pk

\* The package derives whatever a party can, to the same key, and as long as there was no
\* refresh to the shares the parties have (derivation.rs 305-360).  After a refresh
\* nothing renews its shares (protocols.rs 211-225).
PackageFollowsParty ==
  \A p \in Party : where[p] = where[0] =>
    /\ package.verifying_key = party[p].pk
    /\ package.chain_code = party[p].derivation_data.chain_code
    /\ refreshes = 0 => package.verifying_shares[p] = party[p].poly_point
    /\ \A n \in ChildNumber : DataHasChild(party[p].derivation_data, n) =>
         PackageHasChild(package, n)

\* Whoever has a signature and its recovery id finds the public key with them, and a
\* normalized s is low (signing.rs 1026-1077).
Recovered(msg, r, s, rec_id) ==
  LET point == CHOOSE k \in 1..(Prime - 1) :
        /\ XCoordinate(k) = r + (rec_id \div 2) * Prime
        /\ YIsOdd(k) <=> rec_id % 2 = 1
  IN  (Invert(r) * (s * point + Neg(msg))) % Prime
RecoveryFindsTheKey ==
  outcome # None /\ outcome.result.signed =>
    /\ outcome.normalize => ~IsHigh(outcome.result.s)
    /\ \A p \in outcome.signers :
         Recovered(outcome.message, XCoordinate(outcome.point) % Prime, outcome.result.s,
                   outcome.result.rec_id) = party[p].pk

\* Signers at one place of the key tree end with a signature, and others do not, except
\* for draws that no signature comes from: a zero sum of instance keys or masks, an x or s
\* that is zero, and an x that is not below the order (zero_shares.rs 105-130, signing.rs
\* 494-521, 946-961, 1001-1044, 1105-1181).
OneKeySigns ==
  outcome # None =>
    LET same == \A p, q \in outcome.signers : where[p] = where[q]
        reason == outcome.result.reason
    IN  /\ outcome.result.signed => same
        /\ ~outcome.result.signed =>
             \/ ~same /\ reason = "RootMismatch"
             \/ same /\ reason = "PolynomialInconsistency" /\ outcome.point = 0
             \/ same /\ reason = "ZeroDenominator"
             \/ /\ same /\ reason = "SignatureVerificationFailed"
                /\ LET x == XCoordinate(outcome.point)
                   IN  \/ x \notin 1..(Prime - 1)
                       \/ \E p \in outcome.signers :
                            (outcome.message + party[p].pk * x) % Prime = 0
=============================================================================
