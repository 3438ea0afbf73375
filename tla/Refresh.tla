------------------------------ MODULE Refresh ------------------------------
(***************************************************************************)
(* Refresh of the key shares, complete and fast                            *)
(* (dkls23-core/src/protocols/refresh.rs): every party adds to its share   *)
(* its value of a polynomial that is zero at zero, replaces its zero-share *)
(* seeds and either sets up new OT correlations (complete) or masks the    *)
(* old ones (fast).  There is no session object: the application keeps the *)
(* state between the phases, calls the first three once in an attempt, may *)
(* start another attempt at any time, and replaces its Party object when   *)
(* phase 4 succeeds.                                                       *)
(*                                                                         *)
(* The arithmetic of the phases is step1..step5 of the key generation and  *)
(* is checked in module Dkg.  Here a correction is the set of dealings it  *)
(* is the sum of, and points of different sums are on no common polynomial *)
(* that is zero at zero (dealings are random, and the honest parties are   *)
(* at least Threshold).  The channels are authenticated and each attempt   *)
(* has a refresh_sid of its own, which is its name.                        *)
(***************************************************************************)
EXTENDS Naturals, Sequences

CONSTANTS
  ShareCount,    \* parameters.share_count
  Faulty,        \* the parties that do not follow the protocol
  Attempt,       \* the refresh_sids of the refreshes the applications try
  Fast,          \* the attempts that are fast refreshes
  FirstKey,      \* the Party object of every party before the first refresh
  Coordinated,   \* do applications begin a refresh only from a common epoch?
  Routed,        \* does the relay keep the messages of an attempt apart?
  TrivialShare(_, _),  \* is that share of that party zero or one?
  None           \* "no value", different from every other value

Party == 1..ShareCount
Honest == Party \ Faulty

\* For every dealer, the attempts whose fragments are in a correction; {None} stands
\* for a fragment that is off the polynomials with constant term zero.
Correction == [Party -> SUBSET (Attempt \cup {None})]

\* Before the first refresh all parties hold what one key generation left them: pair
\* by pair the same OT correlations and the same zero-share seeds.
ASSUME RefreshAssumption ==
  /\ ShareCount \in Nat
  /\ Faulty \subseteq Party
  /\ Fast \subseteq Attempt
  /\ Coordinated \in BOOLEAN /\ Routed \in BOOLEAN
  /\ None \notin Attempt \cup Correction
  /\ FirstKey.session_id \notin Attempt
  /\ Party \subseteq FirstKey.peers
  /\ \A p, q \in Party : /\ FirstKey.ot[p] = FirstKey.ot[q]
                         /\ FirstKey.zero[p] = FirstKey.zero[q]

VARIABLES
  party,        \* the Party object each party holds
  begun,        \* the attempts each party has run phase 1 of
  attempt,      \* the one whose state its application keeps
  committed,    \* the correction each party committed to in phase 2 of each attempt
  opened        \* the attempts each party has run phase 3 of

vars == <<party, begun, attempt, committed, opened>>

-----------------------------------------------------------------------------
(* What the phases may be called with.                                     *)

\* Fragments are scalars that name neither attempt nor sender: that of this attempt or, as
\* good as a lost one, that of another.
FragmentsOf(q, a) == IF q \in Faulty THEN {{a}, {None}} ELSE {{b} : b \in begun[q]}

\* A message of each party in S as phase 4 of attempt a may be handed them, by the attempt
\* they were made in: any of sent, or None, which stands for a message that is lost,
\* misrouted, duplicated or, of a faulty party, not sound.
Offered(q, sent, a) ==
  {None} \cup IF q \in Faulty THEN {a} ELSE IF Routed THEN sent \cap {a} ELSE sent
Received(S, sent, a) ==
  {f \in [S -> Attempt \cup {None}] : \A q \in S : f[q] \in Offered(q, sent[q], a)}

HasCommitted == [q \in Party |-> {a \in Attempt : committed[q][a] # None}]
\* The ProofCommitments, the zero-share commitments and openings, and the multiplication
\* set-ups.
Inputs(p) ==
  LET others == Party \ {p}
      a == attempt[p]
  IN  [proofs : Received(Party, HasCommitted, a), zero2 : Received(others, HasCommitted, a),
       zero3 : Received(others, opened, a),
       mul : Received(IF a \in Fast THEN {} ELSE others, opened, a)]

-----------------------------------------------------------------------------
(* The checks of phase 4.                                                  *)

Mine(p) == committed[p][attempt[p]]

\* step5: the proofs are bound to refresh_sid, all windows interpolate to one value.
OnePolynomial(p, proofs) ==
  \A q \in Party : /\ proofs[q] = attempt[p]
                   /\ q \in Honest => committed[q][attempt[p]] = Mine(p)
\* verifying_pk is the identity.
ZeroAtZero(p) == \A q \in Party : None \notin Mine(p)[q]

\* The routing loops and verify_seed: an opening of the commitment.  Neither names
\* refresh_sid.
SeedsOpenUnchecked(p, zero2, zero3) == TRUE     \* mutant: the openings are not verified
SeedsOpen(p, zero2, zero3) ==
  \A q \in Party \ {p} : zero2[q] # None /\ zero3[q] = zero2[q]

\* init_phase2 of both roles: the proofs in the set-up are bound to refresh_sid.
SetUpVerifies(p, mul) == \A q \in Party \ {p} : mul[q] = attempt[p]

\* A fast refresh needs the multiplication state of every party, else MissingMulState.
HasMulState(p) == Party \ {p} \subseteq party[p].peers

\* poly_point with the correction added; zero or one is refused as TrivialKeyShare.
NewShare(p) == Append(party[p].share, Mine(p))

Accepts(p, in) ==
  /\ OnePolynomial(p, in.proofs)
  /\ ZeroAtZero(p)
  /\ SeedsOpen(p, in.zero2, in.zero3)
  /\ IF attempt[p] \in Fast THEN HasMulState(p) ELSE SetUpVerifies(p, in.mul)
  /\ ~TrivialShare(p, NewShare(p))

-----------------------------------------------------------------------------
(* The object phase 4 returns.  A share is the corrections added to that of *)
(* the key generation, OT correlations are a set-up and the seeds they     *)
(* were masked with since, a seed pair is its two halves.                  *)

\* generate_seed_pair: the same exclusive or at both ends.  a and b are the attempts in
\* which p and q drew their halves.
Pair(p, a, q, b) == {<<p, a>>, <<q, b>>}
ZeroShare(p, zero3) ==
  [q \in Party |-> IF q = p THEN {} ELSE Pair(p, attempt[p], q, zero3[q])]

\* Complete: the correlations of this attempt.  Fast: the old ones, masked with hashes of
\* the new zero-share seed.
NewOt(p, in) ==
  IF attempt[p] \in Fast
  THEN [q \in Party |-> Append(party[p].ot[q], ZeroShare(p, in.zero3)[q])]
  ELSE [q \in Party |-> IF q = p THEN <<>> ELSE <<Pair(p, attempt[p], q, in.mul[q])>>]

NewParty(p, in, sid) ==
  [session_id |-> sid,
   chain_code |-> party[p].chain_code,
   version |-> party[p].version,
   share |-> NewShare(p),
   zero |-> ZeroShare(p, in.zero3),
   ot |-> NewOt(p, in),
   peers |-> Party \ {p}]
\* mutant: the object keeps the session id of the epoch it replaces
RefreshedOldId(p, in) == NewParty(p, in, party[p].session_id)
Refreshed(p, in) == NewParty(p, in, attempt[p])

-----------------------------------------------------------------------------
Init ==
  /\ party = [p \in Party |-> FirstKey]
  /\ begun = [p \in Party |-> {}]
  /\ attempt = [p \in Party |-> None]
  /\ committed = [p \in Party |-> [a \in Attempt |-> None]]
  /\ opened = [p \in Party |-> {}]

\* What applications must see to: nobody begins a refresh while the parties' objects are
\* of different epochs, that is, carry different session ids.
SameEpoch == \A p, q \in Honest : party[p].session_id = party[q].session_id
MayBegin == Coordinated => SameEpoch

\* A polynomial with constant term zero is dealt; whatever attempt was under way is left.
Phase1(p, a) ==
  /\ a \notin begun[p]
  /\ MayBegin
  /\ begun' = [begun EXCEPT ![p] = @ \cup {a}]
  /\ attempt' = [attempt EXCEPT ![p] = a]
  /\ UNCHANGED <<party, committed, opened>>

\* step3: the correction is the sum of the fragments; its commitment and those of the
\* zero-share seeds go out.
Phase2(p, fragments) ==
  /\ attempt[p] # None
  /\ Mine(p) = None
  /\ committed' = [committed EXCEPT ![p][attempt[p]] = fragments]
  /\ UNCHANGED <<party, begun, attempt, opened>>

\* The openings go out and, in a complete refresh, the multiplication set-up.
\* mutant: it does not need the state of the phases before it
Phase3Early(p) ==
  /\ attempt[p] \notin opened[p]
  /\ opened' = [opened EXCEPT ![p] = @ \cup {attempt[p]}]
  /\ UNCHANGED <<party, begun, attempt, committed>>
Phase3(p) ==
  /\ attempt[p] # None
  /\ Mine(p) # None
  /\ attempt[p] \notin opened[p]
  /\ opened' = [opened EXCEPT ![p] = @ \cup {attempt[p]}]
  /\ UNCHANGED <<party, begun, attempt, committed>>

\* Phase 4 needs the state phase 3 kept.
Ready(p) == attempt[p] # None /\ attempt[p] \in opened[p]

\* The old object is zeroized: the new one takes its place.
Phase4(p, in) ==
  /\ Ready(p)
  /\ Accepts(p, in)
  /\ party' = [party EXCEPT ![p] = Refreshed(p, in)]
  /\ attempt' = [attempt EXCEPT ![p] = None]
  /\ UNCHANGED <<begun, committed, opened>>

\* Every error is recoverable, and phase 4 only borrows: the old object stays as it is and
\* the application may call it again with other messages.
Phase4Rejects(p) ==
  /\ Ready(p)
  /\ \E in \in Inputs(p) : ~Accepts(p, in)
  /\ UNCHANGED vars

Fragments(p) == {f \in Correction : \A q \in Party : f[q] \in FragmentsOf(q, attempt[p])}

Deal(p) == \E a \in Attempt : Phase1(p, a)
Commit(p) == \E fragments \in Fragments(p) : Phase2(p, fragments)
Finish(p) == (\E in \in Inputs(p) : Phase4(p, in)) \/ Phase4Rejects(p)

Next == \E p \in Honest : Deal(p) \/ Commit(p) \/ Phase3(p) \/ Finish(p)

Spec == Init /\ [][Next]_vars

-----------------------------------------------------------------------------
(* Properties                                                              *)

TypeOK ==
  /\ begun \in [Party -> SUBSET Attempt]
  /\ attempt \in [Party -> Attempt \cup {None}]
  /\ committed \in [Party -> [Attempt -> Correction \cup {None}]]
  /\ opened \in [Party -> SUBSET Attempt]
  /\ DOMAIN party = Party
  /\ \A p \in Party : /\ party[p].session_id \in Attempt \cup {FirstKey.session_id}
                      /\ Party \ {p} \subseteq party[p].peers

\* Two objects that carry the same session id are of one epoch: their shares are on the
\* same polynomial, and for each other they hold the same OT correlations and the same
\* zero-share seed.  Signing relies on it: the session id is all its two parties compare
\* before they run the multiplication that bans.
Matches(p, q) ==
  /\ party[p].share = party[q].share
  /\ party[p].ot[q] = party[q].ot[p]
  /\ party[p].zero[q] = party[q].zero[p]
EpochsMatch ==
  \A p, q \in Honest :
    party[p].session_id = party[q].session_id => Matches(p, q)

\* Once a refresh has succeeded anywhere, it can succeed at every party that did not leave
\* it for another attempt: its phase 4 needs no more than the messages that are out, unless
\* chance made its new share zero or one.  (That party, and those that left it or were
\* refused sound messages by a faulty one, stay behind with shares of an epoch that fewer
\* and fewer hold.)
HalfDoneCanFinish ==
  \A p, q \in Honest :
    (attempt[q] # None /\ party[p].session_id = attempt[q]) =>
      Ready(q) /\ (TrivialShare(q, NewShare(q)) \/ \E in \in Inputs(q) : Accepts(q, in))
=============================================================================
