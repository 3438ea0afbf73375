--------------------------- MODULE Signing_proofs ---------------------------
(***************************************************************************)
(* Theorems about Signing, for every number of parties and sessions, every *)
(* request, keyring, faulty set and delivery.  The last part is that       *)
(* Signing implements ThresholdSignature, and what that implies for the    *)
(* nonces of its signatures.                                               *)
(***************************************************************************)
EXTENDS Signing, FiniteSetTheorems, TLAPS

-----------------------------------------------------------------------------
(* Lemmas about the operators.                                             *)

LEMMA OwnerType == ASSUME NEW s \in Session PROVE Owner(s) \in Party
BY DEF Session, Owner

\* The counterparties of a request that phase 1 accepts are other parties.
LEMMA CounterpartiesType ==
  ASSUME NEW p \in Party, NEW d \in Requests[p], NEW k, ValidRequest(p, k, d)
  PROVE  /\ Counterparties(d) \subseteq Party
         /\ p \notin Counterparties(d)
<1>1. d.counterparties \in Seq(Nat \ {0})
  BY RequestsAssumption
<1>2. \A i \in DOMAIN d.counterparties :
        d.counterparties[i] \in Party /\ d.counterparties[i] # p
  BY <1>1, ParametersAssumption DEF ValidRequest, GoodCounterparty, Party
<1> QED BY <1>2 DEF Counterparties

\* A delivery is a sequence of messages that were sent.
LEMMA DeliveryType ==
  ASSUME NEW sent, NEW in \in Deliveries(sent)
  PROVE  /\ in \in Seq(sent)
         /\ DOMAIN in = 1..Len(in)
         /\ \A i \in DOMAIN in : in[i] \in sent
BY ParametersAssumption DEF Deliveries

\* The kinds of step: an accepting phase, a loop that stops at a message, any other
\* abort (it names nobody), an altered message, or nothing.
LEMMA NextCases ==
  ASSUME [Next]_vars
  PROVE  \/ \E s \in Session : \E k \in shares[Owner(s)], d \in Requests[Owner(s)] :
              SignPhase1(s, k, d)
         \/ \E s \in Session : \E in \in Deliveries(sent12) :
              \/ SignPhase2(s, in)
              \/ \E i \in DOMAIN in : SignPhase2MulFails(s, in, i)
         \/ \E s \in Session : \E in \in Deliveries(sent23) :
              \/ SignPhase3(s, in)
              \/ \E i \in DOMAIN in : SignPhase3Stops(s, in, i)
         \/ \E s \in Session : \E in \in Deliveries(sent34) : SignPhase4(s, in)
         \/ \E s \in Session : Abort(s, {})
         \/ Misbehave
         \/ UNCHANGED vars
<1>1. ASSUME NEW s \in Session, Phase1(s)
      PROVE  \/ \E k \in shares[Owner(s)], d \in Requests[Owner(s)] : SignPhase1(s, k, d)
             \/ Abort(s, {})
  BY <1>1 DEF Phase1, SignPhase1Refused
<1>2. ASSUME NEW s \in Session, Phase2(s)
      PROVE  \/ \E in \in Deliveries(sent12) :
                  SignPhase2(s, in) \/ \E i \in DOMAIN in : SignPhase2MulFails(s, in, i)
             \/ Abort(s, {})
  BY <1>2 DEF Phase2, SignPhase2Rejects
<1>3. ASSUME NEW s \in Session, Phase3(s)
      PROVE  \/ \E in \in Deliveries(sent23) :
                  SignPhase3(s, in) \/ \E i \in DOMAIN in : SignPhase3Stops(s, in, i)
             \/ Abort(s, {})
  BY <1>3 DEF Phase3, SignPhase3Rejects
<1>4. ASSUME NEW s \in Session, Phase4(s)
      PROVE  \/ \E in \in Deliveries(sent34) : SignPhase4(s, in)
             \/ Abort(s, {})
  BY <1>4 DEF Phase4, SignPhase4Rejects, Phase4OutOfOrder
<1> QED BY <1>1, <1>2, <1>3, <1>4 DEF Next

\* The fields a step writes: the request of a session is set by its first phase only, what
\* a session has heard by its second, and no step adds a key share.
LEMMA WrittenOnce ==
  ASSUME [Next]_vars
  PROVE  /\ shares' = shares
         /\ \/ \E s \in Session : \E k \in shares[Owner(s)], d \in Requests[Owner(s)] :
                  SignPhase1(s, k, d)
            \/ UNCHANGED data
         /\ \/ \E s \in Session : \E in \in Deliveries(sent12) : SignPhase2(s, in)
            \/ UNCHANGED heard
<1>1. ASSUME NEW s, NEW k, NEW d, SignPhase1(s, k, d) PROVE UNCHANGED <<shares, heard>>
  BY <1>1 DEF SignPhase1
<1>2. ASSUME NEW s, NEW in, SignPhase2(s, in) PROVE UNCHANGED <<shares, data>>
  BY <1>2 DEF SignPhase2
<1>3. ASSUME NEW s, NEW c, Abort(s, c) PROVE UNCHANGED <<shares, data, heard>>
  BY <1>3 DEF Abort
<1>4. ASSUME NEW s, NEW in, NEW i, SignPhase2MulFails(s, in, i) \/ SignPhase3Stops(s, in, i)
      PROVE  UNCHANGED <<shares, data, heard>>
  BY <1>3, <1>4 DEF SignPhase2MulFails, SignPhase3Stops
<1>5. ASSUME NEW s, NEW in, SignPhase3(s, in) PROVE UNCHANGED <<shares, data, heard>>
  BY <1>5 DEF SignPhase3
<1>6. ASSUME NEW s, NEW in, SignPhase4(s, in) PROVE UNCHANGED <<shares, data, heard>>
  BY <1>6 DEF SignPhase4
<1>7. ASSUME Misbehave PROVE UNCHANGED <<shares, data, heard>>
  BY <1>7 DEF Misbehave, Alter12, Alter23, Alter34
<1>8. ASSUME UNCHANGED vars PROVE UNCHANGED <<shares, data, heard>>
  BY <1>8 DEF vars
<1> QED BY <1>1, <1>2, <1>3, <1>4, <1>5, <1>6, <1>7, <1>8, NextCases

-----------------------------------------------------------------------------
(* Types.  What a session borrowed is of no interest here, so that the     *)
(* lemmas of this module hold as well where the Party objects change from  *)
(* step to step (module RefreshSigning).                                   *)

WellTyped ==
  /\ stage \in [Session -> Stage]
  /\ \A s \in Session :
       stage[s] \notin {"unused", "aborted"} => data[s] \in Requests[Owner(s)]
  /\ DOMAIN key = Session /\ DOMAIN data = Session
  /\ heard \in [Session -> SUBSET TransmitPhase1to2]
  /\ sent12 \subseteq TransmitPhase1to2
  /\ sent23 \subseteq TransmitPhase2to3
  /\ sent34 \subseteq Broadcast3to4
  /\ abort \in [Session -> {"none", "recoverable", "ban"}]
  /\ banned \in [Party -> SUBSET Party]

LEMMA AbortType ==
  ASSUME WellTyped, NEW s \in Session, NEW cheaters \in SUBSET Party, Abort(s, cheaters)
  PROVE  WellTyped'
<1>1. stage' \in [Session -> Stage] /\ abort' \in [Session -> {"none", "recoverable", "ban"}]
  BY DEF WellTyped, Abort, Stage
<1>2. banned' \in [Party -> SUBSET Party]
  BY OwnerType DEF WellTyped, Abort
<1>3. \A t \in Session : stage'[t] \notin {"unused", "aborted"} =>
        stage[t] \notin {"unused", "aborted"}
  BY DEF WellTyped, Abort
<1> QED BY <1>1, <1>2, <1>3 DEF WellTyped, Abort

LEMMA CheatersType ==
  ASSUME NEW reason, NEW m, m.from \in Session
  PROVE  Cheaters(reason, m) \in SUBSET Party
BY OwnerType DEF Cheaters, Sender

LEMMA SignPhase1Type ==
  ASSUME WellTyped, NEW s \in Session, NEW k \in shares[Owner(s)], NEW d \in Requests[Owner(s)],
         SignPhase1(s, k, d)
  PROVE  WellTyped'
<1>1. stage' \in [Session -> Stage]
  BY DEF WellTyped, SignPhase1, Stage
<1>2. \A t \in Session : stage'[t] \notin {"unused", "aborted"} =>
        data'[t] \in Requests[Owner(t)]
  BY DEF WellTyped, SignPhase1
<1>3. sent12' \subseteq TransmitPhase1to2
  BY CounterpartiesType, OwnerType DEF WellTyped, SignPhase1, TransmitPhase1to2
<1> QED BY <1>1, <1>2, <1>3 DEF WellTyped, SignPhase1

LEMMA SignPhase2Type ==
  ASSUME WellTyped, NEW s \in Session, NEW in \in Deliveries(sent12), SignPhase2(s, in)
  PROVE  WellTyped'
<1>1. stage' \in [Session -> Stage]
  BY DEF WellTyped, SignPhase2, Stage
<1>2. \A t \in Session : stage'[t] \notin {"unused", "aborted"} =>
        data'[t] \in Requests[Owner(t)]
  BY DEF WellTyped, SignPhase2
<1>3. \A i \in DOMAIN in : in[i] \in TransmitPhase1to2
  BY DeliveryType DEF WellTyped
<1>4. heard' \in [Session -> SUBSET TransmitPhase1to2]
  BY <1>3 DEF WellTyped, SignPhase2
<1>5. sent23' \subseteq TransmitPhase2to3
  BY <1>3, OwnerType DEF WellTyped, SignPhase2, TransmitPhase1to2, TransmitPhase2to3, Sender
<1> QED BY <1>1, <1>2, <1>4, <1>5 DEF WellTyped, SignPhase2

LEMMA SignPhase3Type ==
  ASSUME WellTyped, NEW s \in Session, NEW in \in Deliveries(sent23), SignPhase3(s, in)
  PROVE  WellTyped'
<1>1. stage' \in [Session -> Stage]
  BY DEF WellTyped, SignPhase3, Stage
<1>2. \A t \in Session : stage'[t] \notin {"unused", "aborted"} =>
        data'[t] \in Requests[Owner(t)]
  BY DEF WellTyped, SignPhase3
<1>3. \A i \in DOMAIN in : in[i] \in TransmitPhase2to3
  BY DeliveryType DEF WellTyped
<1>4. sent34' \subseteq Broadcast3to4
  BY <1>3 DEF WellTyped, SignPhase3, Broadcast3to4
<1> QED BY <1>1, <1>2, <1>4 DEF WellTyped, SignPhase3

LEMMA SignPhase4Type ==
  ASSUME WellTyped, NEW s \in Session, NEW in, SignPhase4(s, in)
  PROVE  WellTyped'
<1>1. stage' \in [Session -> Stage]
  BY DEF WellTyped, SignPhase4, Stage
<1>2. \A t \in Session : stage'[t] \notin {"unused", "aborted"} =>
        data'[t] \in Requests[Owner(t)]
  BY DEF WellTyped, SignPhase4
<1> QED BY <1>1, <1>2 DEF WellTyped, SignPhase4

LEMMA MisbehaveType == ASSUME WellTyped, Misbehave PROVE WellTyped'
<1>1. ASSUME NEW m \in sent12, NEW f \in Fault12, NEW q \in Party, Alter12(m, f, q)
      PROVE  WellTyped'
  BY <1>1 DEF WellTyped, Alter12, TransmitPhase1to2
<1>2. ASSUME NEW m \in sent23, NEW f \in Fault23, NEW q \in Party, Alter23(m, f, q)
      PROVE  WellTyped'
  BY <1>2 DEF WellTyped, Alter23, TransmitPhase2to3
<1>3. ASSUME NEW b \in sent34, Alter34(b)
      PROVE  WellTyped'
  BY <1>3 DEF WellTyped, Alter34, Broadcast3to4, Fault34
<1> QED BY <1>1, <1>2, <1>3 DEF Misbehave

LEMMA TypeStep == ASSUME WellTyped, [Next]_vars PROVE WellTyped'
<1>1. ASSUME NEW s \in Session, NEW in \in Deliveries(sent12), NEW i \in DOMAIN in,
             SignPhase2MulFails(s, in, i)
      PROVE  WellTyped'
  <2>1. in[i].from \in Session
    BY DeliveryType DEF WellTyped, TransmitPhase1to2
  <2> QED BY <1>1, <2>1, AbortType, CheatersType DEF SignPhase2MulFails
<1>2. ASSUME NEW s \in Session, NEW in \in Deliveries(sent23), NEW i \in DOMAIN in,
             SignPhase3Stops(s, in, i)
      PROVE  WellTyped'
  <2>1. in[i].from \in Session
    BY DeliveryType DEF WellTyped, TransmitPhase2to3
  <2> QED BY <1>2, <2>1, AbortType, CheatersType DEF SignPhase3Stops
<1>3. ASSUME NEW s \in Session, Abort(s, {}) PROVE WellTyped'
  BY <1>3, AbortType
<1>4. CASE UNCHANGED vars
  BY <1>4 DEF WellTyped, vars
<1> QED BY <1>1, <1>2, <1>3, <1>4, NextCases, SignPhase1Type, SignPhase2Type,
           SignPhase3Type, SignPhase4Type, MisbehaveType

-----------------------------------------------------------------------------
(* The inductive invariant.  A ban of phase 3 rests on a message sent in   *)
(* phase 2 by another party, which rests on what that party heard, so the  *)
(* invariant ties every message to the inputs of the sessions it came from *)
(* and was made for.                                                       *)

\* The session was opened, and keeps the inputs it was opened with.
Began(s) == stage[s] # "unused" /\ data[s] \in Requests[Owner(s)]

\* Phase 2 keeps a message only after every check passed on it.
HeardAgrees ==
  \A s \in Session :
    /\ heard[s] # {} => Began(s) /\ stage[s] # "phase1_to_2"
    /\ \A h \in heard[s] : /\ h \in sent12
                           /\ SameVersion(s, h)
                           /\ COTeConsistent(s, h)

SendersBegan == \A m \in sent12 : Began(m.from)

\* A multiplication answer answers a session its sender heard, and was made for the
\* party of that session.
AnswersHeard ==
  \A m \in sent23 :
    /\ \E h \in heard[m.from] : h.from = m.answers
    /\ m.fault # "receiver" => m.to = Owner(m.answers)

\* A broadcast adds up answers to the session that made it, by sessions it heard,
\* over the same signers and sharing.
BroadcastsAddUp ==
  \A b \in sent34 :
    /\ Began(b.from)
    /\ stage[b.from] \notin {"phase1_to_2", "phase2_to_3"}
    /\ \A m \in b.inputs :
         /\ m \in sent23
         /\ m.answers = b.from
         /\ \E h \in heard[b.from] : h.from = m.from
         /\ Signers(m.from) = Signers(b.from)
         /\ key[m.from].share = key[b.from].share

\* No sign_id is used twice by an honest party.
SignIdsUnique ==
  \A s, t \in Session :
    /\ Owner(s) = Owner(t)
    /\ Owner(s) \notin Faulty
    /\ data[s] # None /\ data[t] # None
    /\ data[s].sign_id = data[t].sign_id
    => s = t

IInv == /\ WellTyped
        /\ HeardAgrees
        /\ SendersBegan
        /\ AnswersHeard
        /\ BroadcastsAddUp

LEMMA RequestsAreNotNone ==
  ASSUME NEW s \in Session, NEW d \in Requests[Owner(s)]
  PROVE  d # None
BY OwnerType, RequestsAssumption

\* What no step takes back: a session that began keeps its inputs, what was sent or
\* heard stays.
LEMMA StepKeeps ==
  ASSUME WellTyped, HeardAgrees, [Next]_vars
  PROVE  /\ sent12 \subseteq sent12' /\ sent23 \subseteq sent23' /\ sent34 \subseteq sent34'
         /\ \A s \in Session : /\ Began(s) => Began(s)' /\ key'[s] = key[s] /\ data'[s] = data[s]
                               /\ heard[s] \subseteq heard'[s]
                               /\ stage[s] \notin {"unused", "phase1_to_2"} =>
                                    stage'[s] \notin {"unused", "phase1_to_2"}
                               /\ stage[s] \notin {"unused", "phase1_to_2", "phase2_to_3"} =>
                                    stage'[s] \notin {"unused", "phase1_to_2", "phase2_to_3"}
<1> DEFINE Kept ==
      /\ sent12 \subseteq sent12' /\ sent23 \subseteq sent23' /\ sent34 \subseteq sent34'
      /\ \A s \in Session : /\ stage[s] # "unused" =>
                                 key'[s] = key[s] /\ data'[s] = data[s] /\ stage'[s] # "unused"
                            /\ heard[s] \subseteq heard'[s]
                            /\ stage[s] \notin {"unused", "phase1_to_2"} =>
                                 stage'[s] \notin {"unused", "phase1_to_2"}
                            /\ stage[s] \notin {"unused", "phase1_to_2", "phase2_to_3"} =>
                                 stage'[s] \notin {"unused", "phase1_to_2", "phase2_to_3"}
<1>1. ASSUME NEW s \in Session, NEW cheaters, Abort(s, cheaters) PROVE Kept
  <2>1. /\ stage' = [stage EXCEPT ![s] = "aborted"]
        /\ UNCHANGED <<key, data, heard, sent12, sent23, sent34>>
    BY <1>1 DEF Abort
  <2>2. \A t \in Session : stage'[t] = IF t = s THEN "aborted" ELSE stage[t]
    BY <2>1 DEF WellTyped
  <2> QED BY <2>1, <2>2
<1>2. ASSUME NEW s \in Session, NEW k, NEW d, SignPhase1(s, k, d) PROVE Kept
  BY <1>2 DEF WellTyped, SignPhase1
<1>3. ASSUME NEW s \in Session, NEW in, SignPhase2(s, in) PROVE Kept
  <2>1. heard[s] = {}
    BY <1>3 DEF SignPhase2, HeardAgrees
  <2> QED BY <1>3, <2>1 DEF WellTyped, SignPhase2
<1>4. ASSUME NEW s \in Session, NEW in, NEW i, SignPhase2MulFails(s, in, i) PROVE Kept
  BY <1>4, <1>1 DEF SignPhase2MulFails
<1>5. ASSUME NEW s \in Session, NEW in, SignPhase3(s, in) PROVE Kept
  BY <1>5 DEF WellTyped, SignPhase3
<1>6. ASSUME NEW s \in Session, NEW in, NEW i, SignPhase3Stops(s, in, i) PROVE Kept
  BY <1>6, <1>1 DEF SignPhase3Stops
<1>7. ASSUME NEW s \in Session, NEW in, SignPhase4(s, in) PROVE Kept
  BY <1>7 DEF WellTyped, SignPhase4
<1>8. ASSUME Misbehave PROVE Kept
  BY <1>8 DEF Misbehave, Alter12, Alter23, Alter34
<1>9. ASSUME UNCHANGED vars PROVE Kept
  BY <1>9 DEF vars
<1>10. Kept
  BY <1>1, <1>2, <1>3, <1>4, <1>5, <1>6, <1>7, <1>8, <1>9, NextCases
<1> QED BY <1>10 DEF Began

\* A digest, a version check and a COTe check depend only on inputs that are kept.
LEMMA AgreementIsKept ==
  ASSUME NEW s \in Session, NEW h,
         key'[s] = key[s], data'[s] = data[s],
         key'[h.from] = key[h.from], data'[h.from] = data[h.from]
  PROVE  /\ SameVersion(s, h)' = SameVersion(s, h)
         /\ COTeConsistent(s, h)' = COTeConsistent(s, h)
BY DEF SameVersion, COTeConsistent, RootDigest, SameOt

\* An altered message still comes from the session that sent the original.
LEMMA AlteredCopies ==
  ASSUME WellTyped, Misbehave
  PROVE  /\ \A m \in sent12' : \E n \in sent12 : m.from = n.from
         /\ \A m \in sent23' : \E n \in sent23 :
              /\ m.from = n.from /\ m.answers = n.answers
              /\ m.fault # "receiver" => n.fault # "receiver" /\ m.to = n.to
         /\ \A b \in sent34' : \E c \in sent34 :
              /\ b.from = c.from /\ b.inputs = c.inputs
              /\ b.fault = "none" => b = c
<1> DEFINE Copies ==
      /\ \A m \in sent12' : \E n \in sent12 : m.from = n.from
      /\ \A m \in sent23' : \E n \in sent23 :
           /\ m.from = n.from /\ m.answers = n.answers
           /\ m.fault # "receiver" => n.fault # "receiver" /\ m.to = n.to
      /\ \A b \in sent34' : \E c \in sent34 :
           /\ b.from = c.from /\ b.inputs = c.inputs
           /\ b.fault = "none" => b = c
<1>1. ASSUME NEW m \in sent12, NEW f \in Fault12, NEW q \in Party, Alter12(m, f, q)
      PROVE  Copies
  <2>1. [m EXCEPT !.fault = f, !.to = q].from = m.from
    BY DEF WellTyped, TransmitPhase1to2
  <2> QED BY <1>1, <2>1 DEF Alter12
<1>2. ASSUME NEW m \in sent23, NEW f \in Fault23, NEW q \in Party, Alter23(m, f, q)
      PROVE  Copies
  <2> DEFINE n == [m EXCEPT !.fault = f, !.to = q]
  <2>1. m \in TransmitPhase2to3
    BY DEF WellTyped
  <2>2. n.from = m.from /\ n.answers = m.answers /\ n.fault = f /\ n.to = q
    BY <2>1 DEF TransmitPhase2to3
  <2>3. n.fault # "receiver" => n.to = m.to
    BY <1>2, <2>2 DEF Alter23
  <2>4. m.fault = "none" /\ sent23' = sent23 \cup {n} /\ UNCHANGED <<sent12, sent34>>
    BY <1>2 DEF Alter23
  <2> HIDE DEF n
  <2> QED BY <2>2, <2>3, <2>4
<1>3. ASSUME NEW b \in sent34, Alter34(b)
      PROVE  Copies
  <2> DEFINE c == [b EXCEPT !.fault = "sum"]
  <2>1. c.from = b.from /\ c.inputs = b.inputs /\ c.fault = "sum"
    BY DEF WellTyped, Broadcast3to4
  <2>2. sent34' = sent34 \cup {c} /\ UNCHANGED <<sent12, sent23>>
    BY <1>3 DEF Alter34
  <2> HIDE DEF c
  <2> QED BY <2>1, <2>2
<1> QED BY <1>1, <1>2, <1>3 DEF Misbehave

-----------------------------------------------------------------------------
(* The invariant is inductive.                                             *)

LEMMA SendersBeganKept == ASSUME IInv, [Next]_vars PROVE SendersBegan'
<1>1. \A m \in sent12 : m.from \in Session
  BY DEF IInv, WellTyped, TransmitPhase1to2
<1>2. \A m \in sent12 : Began(m.from)'
  BY <1>1, StepKeeps DEF IInv, SendersBegan
<1>3. ASSUME NEW s \in Session, NEW k \in shares[Owner(s)], NEW d \in Requests[Owner(s)],
             SignPhase1(s, k, d)
      PROVE  SendersBegan'
  <2>1. Began(s)'
    BY <1>3 DEF SignPhase1, IInv, WellTyped, Began
  <2>2. \A m \in sent12' : m \in sent12 \/ m.from = s
    BY <1>3 DEF SignPhase1
  <2> QED BY <1>2, <2>1, <2>2 DEF SendersBegan
<1>4. ASSUME Misbehave PROVE SendersBegan'
  <2>1. \A m \in sent12' : \E n \in sent12 : m.from = n.from
    BY <1>4, AlteredCopies DEF IInv
  <2> QED BY <1>2, <2>1 DEF SendersBegan, Began
<1>5. CASE UNCHANGED sent12
  BY <1>2, <1>5 DEF SendersBegan
<1> QED BY <1>3, <1>4, <1>5, NextCases
    DEF SignPhase2, SignPhase2MulFails, SignPhase3, SignPhase3Stops, SignPhase4, Abort, vars

LEMMA HeardAgreesKept == ASSUME IInv, [Next]_vars PROVE HeardAgrees'
<1>1. \A t \in Session : \A h \in heard[t] :
        /\ Began(t)' /\ stage'[t] # "phase1_to_2"
        /\ h \in sent12'
        /\ SameVersion(t, h)' /\ COTeConsistent(t, h)'
  <2> SUFFICES ASSUME NEW t \in Session, NEW h \in heard[t]
               PROVE  /\ Began(t)' /\ stage'[t] # "phase1_to_2"
                      /\ h \in sent12'
                      /\ SameVersion(t, h)' /\ COTeConsistent(t, h)'
    OBVIOUS
  <2>1. /\ Began(t) /\ stage[t] # "phase1_to_2"
        /\ h \in sent12
        /\ SameVersion(t, h) /\ COTeConsistent(t, h)
    BY DEF IInv, HeardAgrees
  <2>2. h.from \in Session /\ Began(h.from)
    BY <2>1 DEF IInv, WellTyped, TransmitPhase1to2, SendersBegan
  <2>3. /\ Began(t)' /\ stage'[t] # "phase1_to_2"
        /\ h \in sent12'
        /\ key'[t] = key[t] /\ data'[t] = data[t]
        /\ key'[h.from] = key[h.from] /\ data'[h.from] = data[h.from]
    BY <2>1, <2>2, StepKeeps DEF IInv, Began
  <2> QED BY <2>1, <2>3, AgreementIsKept
<1>2. CASE UNCHANGED heard
  BY <1>1, <1>2 DEF HeardAgrees
<1>3. ASSUME NEW s \in Session, NEW in \in Deliveries(sent12), SignPhase2(s, in)
      PROVE  HeardAgrees'
  <2>1. heard' = [heard EXCEPT ![s] = {in[i] : i \in DOMAIN in}]
    BY <1>3 DEF SignPhase2
  <2>2. \A t \in Session \ {s} : heard'[t] = heard[t]
    BY <2>1 DEF IInv, WellTyped
  <2>3. Began(s)' /\ stage'[s] # "phase1_to_2"
    BY <1>3 DEF SignPhase2, IInv, WellTyped, Began
  <2>4. ASSUME NEW h \in heard'[s]
        PROVE  h \in sent12' /\ SameVersion(s, h)' /\ COTeConsistent(s, h)'
    <3>1. PICK i \in DOMAIN in : h = in[i]
      BY <2>1 DEF IInv, WellTyped
    <3>2. h \in sent12 /\ SameVersion(s, h) /\ COTeConsistent(s, h)
      BY <1>3, <3>1, DeliveryType DEF SignPhase2, AgreedInputs, MulSenderVerdict
    <3>3. UNCHANGED <<sent12, key, data>>
      BY <1>3 DEF SignPhase2
    <3> QED BY <3>2, <3>3, AgreementIsKept
  <2> QED BY <1>1, <2>2, <2>3, <2>4 DEF HeardAgrees
<1> QED BY <1>2, <1>3, WrittenOnce

LEMMA AnswersHeardKept == ASSUME IInv, [Next]_vars PROVE AnswersHeard'
<1>1. \A m \in sent23 : m.from \in Session
  BY DEF IInv, WellTyped, TransmitPhase2to3
<1>2. \A m \in sent23 : \E h \in heard'[m.from] : h.from = m.answers
  BY <1>1, StepKeeps DEF IInv, AnswersHeard
<1>3. CASE UNCHANGED sent23
  BY <1>2, <1>3 DEF IInv, AnswersHeard
<1>4. ASSUME NEW s \in Session, NEW in \in Deliveries(sent12), SignPhase2(s, in)
      PROVE  AnswersHeard'
  <2>1. heard'[s] = {in[i] : i \in DOMAIN in}
    BY <1>4 DEF SignPhase2, IInv, WellTyped
  <2>2. \A m \in sent23' : m \in sent23 \/ \E i \in DOMAIN in :
          m.from = s /\ m.to = Sender(in[i]) /\ m.answers = in[i].from
    BY <1>4 DEF SignPhase2
  <2> QED BY <1>2, <2>1, <2>2 DEF IInv, AnswersHeard, Sender
<1>5. ASSUME Misbehave PROVE AnswersHeard'
  <2>1. \A m \in sent23' : \E n \in sent23 :
          /\ m.from = n.from /\ m.answers = n.answers
          /\ m.fault # "receiver" => n.fault # "receiver" /\ m.to = n.to
    BY <1>5, AlteredCopies DEF IInv
  <2> QED BY <1>2, <2>1 DEF IInv, AnswersHeard
<1> QED BY <1>3, <1>4, <1>5, NextCases
    DEF SignPhase1, SignPhase2MulFails, SignPhase3, SignPhase3Stops, SignPhase4, Abort, vars

\* What phase 3 has checked when it accepts its inputs.
LEMMA Phase3Accepts ==
  ASSUME NEW s, NEW in, NEW i \in DOMAIN in, Phase3Verdict(s, in, i) = "ok"
  PROVE  /\ RoutingVerdict(s, in, i) = "ok"
         /\ Decommits(s, in[i])
         /\ MulVerifies(s, in[i])
BY DEF Phase3Verdict, RoutingVerdict

LEMMA BroadcastsAddUpKept == ASSUME IInv, [Next]_vars PROVE BroadcastsAddUp'
<1> DEFINE AddsUp(b) ==
      /\ Began(b.from)
      /\ stage[b.from] \notin {"phase1_to_2", "phase2_to_3"}
      /\ \A m \in b.inputs :
           /\ m \in sent23
           /\ m.answers = b.from
           /\ \E h \in heard[b.from] : h.from = m.from
           /\ Signers(m.from) = Signers(b.from)
           /\ key[m.from].share = key[b.from].share
<1>1. ASSUME NEW b \in sent34 PROVE AddsUp(b)'
  <2>1. AddsUp(b) /\ b.from \in Session
    BY DEF IInv, WellTyped, Broadcast3to4, BroadcastsAddUp
  <2>2. stage[b.from] \notin {"unused", "phase1_to_2", "phase2_to_3"}
    BY <2>1 DEF Began
  <2>3. /\ Began(b.from)' /\ stage'[b.from] \notin {"phase1_to_2", "phase2_to_3"}
        /\ key'[b.from] = key[b.from] /\ data'[b.from] = data[b.from]
        /\ heard[b.from] \subseteq heard'[b.from]
        /\ sent23 \subseteq sent23'
    BY <2>1, <2>2, StepKeeps DEF IInv
  <2>4. ASSUME NEW m \in b.inputs
        PROVE  key'[m.from] = key[m.from] /\ data'[m.from] = data[m.from]
    BY <2>1, StepKeeps DEF IInv, WellTyped, TransmitPhase2to3, AnswersHeard, HeardAgrees
  <2> QED BY <2>1, <2>3, <2>4 DEF Signers
<1>2. CASE UNCHANGED sent34
  BY <1>1, <1>2 DEF BroadcastsAddUp
<1>3. ASSUME NEW s \in Session, NEW in \in Deliveries(sent23), SignPhase3(s, in)
      PROVE  BroadcastsAddUp'
  <2> DEFINE b == [from |-> s, inputs |-> {in[i] : i \in DOMAIN in}, fault |-> "none"]
  <2>1. sent34' = sent34 \cup {b} /\ UNCHANGED <<key, data, heard, sent23>>
    BY <1>3 DEF SignPhase3
  <2>2. Began(s)' /\ stage'[s] \notin {"phase1_to_2", "phase2_to_3"}
    BY <1>3 DEF SignPhase3, IInv, WellTyped, Began
  <2>3. ASSUME NEW i \in DOMAIN in
        PROVE  /\ in[i] \in sent23
               /\ in[i].answers = s
               /\ \E h \in heard[s] : h.from = in[i].from
               /\ Signers(in[i].from) = Signers(s)
               /\ key[in[i].from].share = key[s].share
    BY <1>3, Phase3Accepts, DeliveryType
       DEF SignPhase3, Decommits, MulVerifies, PublicSharesSumToPk
  <2>4. AddsUp(b)'
    BY <2>1, <2>2, <2>3 DEF Signers
  <2> HIDE DEF b
  <2> QED BY <1>1, <2>1, <2>4 DEF BroadcastsAddUp
<1>4. ASSUME Misbehave PROVE BroadcastsAddUp'
  <2>1. \A b \in sent34' : \E c \in sent34 : b.from = c.from /\ b.inputs = c.inputs
    BY <1>4, AlteredCopies DEF IInv
  <2>2. \A b, c : b.from = c.from /\ b.inputs = c.inputs /\ AddsUp(c)' => AddsUp(b)'
    OBVIOUS
  <2> QED BY <1>1, <2>1, <2>2 DEF BroadcastsAddUp
<1> QED BY <1>2, <1>3, <1>4, NextCases
    DEF SignPhase1, SignPhase2, SignPhase2MulFails, SignPhase3Stops, SignPhase4, Abort, vars

LEMMA IInvInductive == IInv /\ [Next]_vars => IInv'
BY TypeStep, HeardAgreesKept, SendersBeganKept, AnswersHeardKept, BroadcastsAddUpKept DEF IInv

LEMMA IInvInit == Init => IInv
BY DEF Init, IInv, WellTyped, Stage, HeardAgrees, SendersBegan, AnswersHeard, BroadcastsAddUp

\* The group of a broadcast is what its sender and those it heard agreed on.
LEMMA GroupsAgree == ASSUME IInv PROVE GroupAgrees
<1> SUFFICES ASSUME NEW b \in sent34, NEW m \in b.inputs
             PROVE  /\ RootDigest(m.from) = RootDigest(b.from)
                    /\ key[m.from].version = key[b.from].version
                    /\ \E h \in heard[m.from] : h.from = b.from
                    /\ Signers(m.from) = Signers(b.from)
                    /\ key[m.from].share = key[b.from].share
  BY DEF GroupAgrees, Group
<1>1. b.from \in Session
  BY DEF IInv, WellTyped, Broadcast3to4
<1>2. /\ m \in sent23 /\ m.answers = b.from
      /\ \E h \in heard[b.from] : h.from = m.from
      /\ Signers(m.from) = Signers(b.from)
      /\ key[m.from].share = key[b.from].share
  BY DEF IInv, BroadcastsAddUp
<1>3. \E h \in heard[m.from] : h.from = b.from
  BY <1>2 DEF IInv, AnswersHeard
<1>4. RootDigest(m.from) = RootDigest(b.from) /\ key[m.from].version = key[b.from].version
  BY <1>1, <1>2 DEF IInv, HeardAgrees, SameVersion, COTeConsistent
<1> QED BY <1>2, <1>3, <1>4

\* Every party whose instance point is in a published nonce agreed on root, version,
\* signers and sharing with the party that published it, and ran its multiplications
\* against that very session.
THEOREM GroupAgreement == Spec => []GroupAgrees
BY GroupsAgree, IInvInit, IInvInductive, PTL DEF Spec

-----------------------------------------------------------------------------
(* Where the Party objects do not change, as in Spec, a session's object   *)
(* is one its party still holds.                                           *)

\* A session that was never opened holds no request.
UnusedIsEmpty == \A s \in Session : stage[s] = "unused" => data[s] = None

LEMMA UnusedIsEmptyKept ==
  ASSUME WellTyped, UnusedIsEmpty, [Next]_vars
  PROVE  UnusedIsEmpty'
<1>1. ASSUME NEW s \in Session, stage'[s] # "unused",
             \A t \in Session \ {s} : stage'[t] = stage[t] /\ data'[t] = data[t]
      PROVE  UnusedIsEmpty'
  BY <1>1 DEF UnusedIsEmpty
<1>2. ASSUME NEW s \in Session, NEW k, NEW d, SignPhase1(s, k, d) PROVE UnusedIsEmpty'
  BY <1>1, <1>2 DEF SignPhase1, WellTyped
<1>3. ASSUME NEW s \in Session, NEW cheaters, Abort(s, cheaters) PROVE UnusedIsEmpty'
  BY <1>1, <1>3 DEF Abort, WellTyped
<1>4. ASSUME NEW s \in Session, NEW in, SignPhase2(s, in) PROVE UnusedIsEmpty'
  BY <1>1, <1>4 DEF SignPhase2, WellTyped
<1>5. ASSUME NEW s \in Session, NEW in, SignPhase3(s, in) PROVE UnusedIsEmpty'
  BY <1>1, <1>5 DEF SignPhase3, WellTyped
<1>6. ASSUME NEW s \in Session, NEW in, SignPhase4(s, in) PROVE UnusedIsEmpty'
  BY <1>1, <1>6 DEF SignPhase4, WellTyped
<1>7. CASE UNCHANGED <<stage, data>>
  BY <1>7 DEF UnusedIsEmpty
<1> QED BY <1>2, <1>3, <1>4, <1>5, <1>6, <1>7, NextCases
    DEF SignPhase2MulFails, SignPhase3Stops, Misbehave, Alter12, Alter23, Alter34, vars

\* A session that begins borrows an object its party holds at that moment.
LEMMA BeginsOnHeldKey ==
  ASSUME WellTyped, UnusedIsEmpty, [Next]_vars, NEW t \in Session, ~Began(t), Began(t)'
  PROVE  key'[t] \in shares[Owner(t)]
<1>1. ASSUME stage'[t] = stage[t] \/ stage[t] # "unused", data'[t] = data[t] PROVE FALSE
  BY <1>1 DEF Began
<1>2. ASSUME NEW s \in Session, NEW k \in shares[Owner(s)], NEW d, SignPhase1(s, k, d)
      PROVE  key'[t] \in shares[Owner(t)]
  <2>1. CASE s = t
    BY <1>2, <2>1 DEF SignPhase1, WellTyped
  <2>2. CASE s # t
    BY <1>1, <1>2, <2>2 DEF SignPhase1, WellTyped
  <2> QED BY <2>1, <2>2
<1>3. ASSUME NEW s \in Session, NEW cheaters, Abort(s, cheaters) PROVE FALSE
  <2>1. data'[t] \in Requests[Owner(t)] /\ data'[t] = data[t]
    BY <1>3 DEF Abort, Began
  <2>2. stage[t] # "unused"
    BY <2>1, RequestsAreNotNone DEF UnusedIsEmpty
  <2> QED BY <1>1, <2>1, <2>2
<1>4. ASSUME NEW s \in Session, NEW in, SignPhase2(s, in) PROVE FALSE
  BY <1>1, <1>4 DEF SignPhase2, WellTyped
<1>5. ASSUME NEW s \in Session, NEW in, SignPhase3(s, in) PROVE FALSE
  BY <1>1, <1>5 DEF SignPhase3, WellTyped
<1>6. ASSUME NEW s \in Session, NEW in, SignPhase4(s, in) PROVE FALSE
  BY <1>1, <1>6 DEF SignPhase4, WellTyped
<1>7. CASE UNCHANGED <<stage, data>>
  BY <1>1, <1>7
<1> QED BY <1>2, <1>3, <1>4, <1>5, <1>6, <1>7, NextCases
    DEF SignPhase2MulFails, SignPhase3Stops, Misbehave, Alter12, Alter23, Alter34, vars

HInv ==
  /\ IInv
  /\ UnusedIsEmpty
  /\ shares \in Keyrings
  /\ \A s \in Session : Began(s) => key[s] \in shares[Owner(s)]

LEMMA HInvInit == Init => HInv
BY IInvInit DEF Init, HInv, Began, UnusedIsEmpty

LEMMA HInvInductive == HInv /\ [Next]_vars => HInv'
<1> SUFFICES ASSUME HInv, [Next]_vars PROVE HInv'
  OBVIOUS
<1>1. IInv' /\ UnusedIsEmpty'
  BY IInvInductive, UnusedIsEmptyKept DEF HInv, IInv
<1>2. shares' = shares
  BY WrittenOnce
<1>3. \A t \in Session : Began(t) => key'[t] = key[t]
  BY StepKeeps DEF HInv, IInv
<1>4. \A t \in Session : ~Began(t) /\ Began(t)' => key'[t] \in shares[Owner(t)]
  BY BeginsOnHeldKey DEF HInv, IInv
<1> QED BY <1>1, <1>2, <1>3, <1>4 DEF HInv

\* Every reachable state is well typed: whatever is delivered, a session that is
\* neither unused nor gone holds the Party object and SignData it was opened with,
\* and an abort names parties.
THEOREM TypeCorrect == Spec => []TypeOK
<1>1. HInv => TypeOK
  BY DEF HInv, IInv, WellTyped, Began, TypeOK
<1> QED BY <1>1, HInvInit, HInvInductive, PTL DEF Spec

-----------------------------------------------------------------------------
(* Honest parties are not banned, provided that no sign_id is retried.     *)

LEMMA SignIdsUniqueKept ==
  ASSUME ~AllowRetry, WellTyped, SignIdsUnique, [Next]_vars
  PROVE  SignIdsUnique'
<1>1. CASE UNCHANGED data
  BY <1>1 DEF SignIdsUnique
<1>2. ASSUME NEW s \in Session, NEW k \in shares[Owner(s)], NEW d \in Requests[Owner(s)],
             SignPhase1(s, k, d)
      PROVE  SignIdsUnique'
  <2>1. \A t \in Session : data'[t] = IF t = s THEN d ELSE data[t]
    BY <1>2 DEF SignPhase1, WellTyped
  <2>2. Owner(s) \notin Faulty =>
          \A t \in Session : Owner(t) = Owner(s) /\ data[t] # None => data[t].sign_id # d.sign_id
    BY <1>2 DEF SignPhase1, MayStart, Fresh
  <2> QED BY <2>1, <2>2 DEF SignIdsUnique
<1> QED BY <1>1, <1>2, WrittenOnce

\* Sessions on objects with one session id hold OT correlations that match.  The objects
\* that were ever borrowed count, not those held now.
KeysFit ==
  \A s, t \in Session :
    Began(s) /\ Began(t) /\ key[s].session_id = key[t].session_id => SameOt(s, t)

LEMMA SameRootSameOt ==
  ASSUME KeysFit, NEW s \in Session, NEW t \in Session, Began(s), Began(t),
         RootDigest(s) = RootDigest(t)
  PROVE  SameOt(s, t)
<1>1. key[s].session_id = key[t].session_id
  BY DEF RootDigest
<1> QED BY <1>1 DEF KeysFit

\* The objects of one keyring fit.
LEMMA HeldKeysFit == HInv => KeysFit
BY OwnerType, OtAssumption DEF HInv, KeysFit, SameOt

\* The party the multiplication of phase 2 blames, blames itself.
LEMMA Phase2BanDeserved ==
  ASSUME IInv, KeysFit,
         NEW s \in Session, NEW in \in Deliveries(sent12), NEW i \in DOMAIN in,
         SignPhase2MulFails(s, in, i), MulSenderVerdict(s, in[i]) \in BanReasons
  PROVE  /\ in[i] \in sent12
         /\ in[i].to = Owner(s)
         /\ in[i].fault \in {"inconsistent", "receiver", "echo"}
<1>1. in[i] \in sent12
  BY DeliveryType
<1>2. in[i].from \in Session /\ Began(in[i].from)
  BY <1>1 DEF IInv, WellTyped, TransmitPhase1to2, SendersBegan
<1>3. Began(s)
  BY DEF SignPhase2MulFails, IInv, WellTyped, Began
<1>4. RoutingVerdict(s, in, i) = "ok" /\ SameRoot(s, in[i]) /\ ~COTeConsistent(s, in[i])
  BY DEF SignPhase2MulFails, AgreedInputs, MulSenderVerdict, BanReasons
<1>5. in[i].to = Owner(s)
  BY <1>4 DEF RoutingVerdict
<1>6. RootDigest(in[i].from) = RootDigest(s) => SameOt(in[i].from, s)
  BY <1>2, <1>3, SameRootSameOt
<1> QED BY <1>1, <1>4, <1>5, <1>6 DEF SameRoot, COTeConsistent

\* verify_r fails on a message only when its sender spoilt it: the sender's phase 1
\* message passed the COTe check, so both sessions have one root, and the session it
\* answers is ours with our sign_id.
LEMMA Phase3BanDeserved ==
  ASSUME IInv, SignIdsUnique,
         NEW s \in Session, Owner(s) \notin Faulty,
         NEW in \in Deliveries(sent23), NEW i \in DOMAIN in,
         SignPhase3Stops(s, in, i), Phase3Verdict(s, in, i) \in BanReasons
  PROVE  /\ in[i] \in sent23
         /\ in[i].to = Owner(s)
         /\ in[i].fault \in {"inconsistent", "gamma_u", "gamma_v"}
<1> DEFINE m == in[i]
<1>1. m \in sent23
  BY DeliveryType
<1>2. /\ RoutingVerdict(s, in, i) = "ok"
      /\ Decommits(s, m)
      /\ ~MulVerifies(s, m) \/ m.fault \in {"gamma_u", "gamma_v"}
  BY DEF Phase3Verdict, RoutingVerdict, BanReasons
<1>3. m.to = Owner(s) /\ m.fault # "receiver"
  BY <1>2 DEF RoutingVerdict, Decommits
<1>4. PICK h \in heard[s] : h.from = m.from
  BY <1>2 DEF Decommits
<1>5. Began(s) /\ RootDigest(m.from) = RootDigest(s) /\ SameOt(m.from, s)
  BY <1>4 DEF IInv, HeardAgrees, COTeConsistent
<1>6. m.answers = s
  <2>1. m.from \in Session /\ m.answers \in Session
    BY <1>1 DEF IInv, WellTyped, TransmitPhase2to3
  <2>2. PICK g \in heard[m.from] : g.from = m.answers
    BY <1>1 DEF IInv, AnswersHeard
  <2>3. RootDigest(m.answers) = RootDigest(m.from) /\ Began(m.answers)
    BY <2>1, <2>2 DEF IInv, HeardAgrees, COTeConsistent, SendersBegan
  <2>4. Owner(m.answers) = Owner(s)
    BY <1>1, <1>3 DEF IInv, AnswersHeard
  <2>5. data[m.answers] # None /\ data[s] # None
    BY <1>5, <2>1, <2>3, RequestsAreNotNone DEF Began
  <2>6. data[m.answers].sign_id = data[s].sign_id
    BY <1>5, <2>3 DEF RootDigest
  <2> QED BY <2>1, <2>4, <2>5, <2>6 DEF SignIdsUnique
<1> QED BY <1>1, <1>2, <1>3, <1>5, <1>6 DEF MulVerifies

LEMMA BansAreDeservedKept ==
  ASSUME IInv, KeysFit, SignIdsUnique, BansAreDeserved, [Next]_vars
  PROVE  BansAreDeserved'
<1> DEFINE Deserved(p, q) ==
      \/ \E m \in sent12 : /\ Sender(m) = q /\ m.to = p
                           /\ m.fault \in {"inconsistent", "receiver", "echo"}
      \/ \E m \in sent23 : /\ Sender(m) = q /\ m.to = p
                           /\ m.fault \in {"inconsistent", "gamma_u", "gamma_v"}
<1>1. \A p \in Party \ Faulty : \A q \in banned[p] : Deserved(p, q)'
  BY StepKeeps DEF IInv, BansAreDeserved, Sender
<1>2. CASE UNCHANGED banned
  BY <1>1, <1>2 DEF BansAreDeserved
<1>3. ASSUME NEW s \in Session, NEW reason, NEW m, Abort(s, Cheaters(reason, m)),
             reason \in BanReasons /\ Owner(s) \notin Faulty => Deserved(Owner(s), Sender(m))
      PROVE  BansAreDeserved'
  <2>1. \A p \in Party : \A q \in banned'[p] :
          q \in banned[p] \/ (p = Owner(s) /\ q \in Cheaters(reason, m))
    BY <1>3 DEF Abort, IInv, WellTyped
  <2>2. Owner(s) \notin Faulty => \A q \in Cheaters(reason, m) : Deserved(Owner(s), q)'
    BY <1>3, StepKeeps DEF Cheaters, IInv, Sender
  <2> QED BY <1>1, <2>1, <2>2 DEF BansAreDeserved
<1>4. ASSUME NEW s \in Session, NEW in \in Deliveries(sent12), NEW i \in DOMAIN in,
             SignPhase2MulFails(s, in, i)
      PROVE  BansAreDeserved'
  BY <1>3, <1>4, Phase2BanDeserved DEF SignPhase2MulFails
<1>5. ASSUME NEW s \in Session, NEW in \in Deliveries(sent23), NEW i \in DOMAIN in,
             SignPhase3Stops(s, in, i)
      PROVE  BansAreDeserved'
  BY <1>3, <1>5, Phase3BanDeserved DEF SignPhase3Stops
<1>6. ASSUME NEW s \in Session, Abort(s, {}) PROVE UNCHANGED banned
  BY <1>6 DEF Abort, IInv, WellTyped
<1> QED BY <1>2, <1>4, <1>5, <1>6, NextCases
    DEF SignPhase1, SignPhase2, SignPhase3, SignPhase4, Misbehave, Alter12, Alter23, Alter34, vars

\* When no application reuses a sign_id, an honest party bans only parties that sent
\* it a message spoiling a check that leaks OT state; in particular two honest
\* parties never ban each other, whatever their Party objects, requests and network.
THEOREM BansDeserved == ASSUME ~AllowRetry PROVE Spec => []BansAreDeserved
<1>1. Init => HInv /\ SignIdsUnique /\ BansAreDeserved
  BY HInvInit DEF Init, SignIdsUnique, BansAreDeserved
<1>2. HInv /\ SignIdsUnique /\ BansAreDeserved /\ [Next]_vars
        => (HInv /\ SignIdsUnique /\ BansAreDeserved)'
  BY HInvInductive, HeldKeysFit, SignIdsUniqueKept, BansAreDeservedKept DEF HInv, IInv
<1> QED BY <1>1, <1>2, PTL DEF Spec

-----------------------------------------------------------------------------
(* A session speaks once.                                                  *)

LiveWithoutAbort == \A s \in Session : stage[s] # "aborted" => abort[s] = "none"

LEMMA LiveWithoutAbortKept ==
  ASSUME WellTyped, LiveWithoutAbort, [Next]_vars
  PROVE  LiveWithoutAbort'
<1>1. ASSUME NEW s \in Session, NEW cheaters, Abort(s, cheaters) PROVE LiveWithoutAbort'
  BY <1>1 DEF Abort, WellTyped, LiveWithoutAbort
<1>2. ASSUME NEW s \in Session, UNCHANGED abort, stage[s] # "aborted",
             \A t \in Session \ {s} : stage'[t] = stage[t]
      PROVE  LiveWithoutAbort'
  BY <1>2 DEF LiveWithoutAbort
<1>3. ASSUME NEW s \in Session, NEW k, NEW d, SignPhase1(s, k, d) PROVE LiveWithoutAbort'
  BY <1>2, <1>3 DEF SignPhase1, WellTyped
<1>4. ASSUME NEW s \in Session, NEW in, SignPhase2(s, in) PROVE LiveWithoutAbort'
  BY <1>2, <1>4 DEF SignPhase2, WellTyped
<1>5. ASSUME NEW s \in Session, NEW in, SignPhase3(s, in) PROVE LiveWithoutAbort'
  BY <1>2, <1>5 DEF SignPhase3, WellTyped
<1>6. ASSUME NEW s \in Session, NEW in, SignPhase4(s, in) PROVE LiveWithoutAbort'
  BY <1>2, <1>6 DEF SignPhase4, WellTyped
<1>7. CASE UNCHANGED <<stage, abort>>
  BY <1>7 DEF LiveWithoutAbort
<1> QED BY <1>1, <1>3, <1>4, <1>5, <1>6, <1>7, NextCases
    DEF SignPhase2MulFails, SignPhase3Stops, Misbehave, Alter12, Alter23, Alter34, vars

\* No session answers or broadcasts a second time, nor after it aborted.
THEOREM SpeaksOnce == Spec => OneShot
<1> DEFINE Once ==
      \A s \in Session :
       /\ (\E m \in sent23' \ sent23 : m.from = s /\ m.fault = "none") =>
            /\ abort[s] = "none"
            /\ \A m \in sent23 : m.from # s
       /\ (\E b \in sent34' \ sent34 : b.from = s /\ b.fault = "none") =>
            /\ abort[s] = "none"
            /\ \A b \in sent34 : b.from # s
<1>1. IInv /\ LiveWithoutAbort /\ [Next]_vars => Once
  <2> SUFFICES ASSUME IInv, LiveWithoutAbort, [Next]_vars PROVE Once
    OBVIOUS
  <2>1. ASSUME NEW s \in Session, NEW in \in Deliveries(sent12), SignPhase2(s, in) PROVE Once
    <3>1. /\ stage[s] = "phase1_to_2"
          /\ \A m \in sent23' \ sent23 : m.from = s
          /\ sent34' = sent34
      BY <2>1 DEF SignPhase2
    <3>2. \A m \in sent23 : m.from # s
      BY <3>1 DEF IInv, AnswersHeard, HeardAgrees
    <3> QED BY <3>1, <3>2 DEF LiveWithoutAbort
  <2>2. ASSUME NEW s \in Session, NEW in \in Deliveries(sent23), SignPhase3(s, in) PROVE Once
    <3>1. /\ stage[s] = "phase2_to_3"
          /\ \A b \in sent34' \ sent34 : b.from = s
          /\ sent23' = sent23
      BY <2>2 DEF SignPhase3
    <3>2. \A b \in sent34 : b.from # s
      BY <3>1 DEF IInv, BroadcastsAddUp
    <3> QED BY <3>1, <3>2 DEF LiveWithoutAbort
  <2>3. ASSUME Misbehave PROVE Once
    <3>1. \A m \in sent23' \ sent23 : m.fault # "none"
      <4>1. ASSUME NEW m \in sent23, NEW f \in Fault23, NEW q
            PROVE  [m EXCEPT !.fault = f, !.to = q].fault # "none"
        BY DEF IInv, WellTyped, TransmitPhase2to3, Fault23
      <4> QED BY <2>3, <4>1 DEF Misbehave, Alter12, Alter23, Alter34
    <3>2. \A b \in sent34' \ sent34 : b.fault # "none"
      BY <2>3, AlteredCopies DEF IInv
    <3> QED BY <3>1, <3>2
  <2>4. CASE UNCHANGED <<sent23, sent34>>
    BY <2>4
  <2> QED BY <2>1, <2>2, <2>3, <2>4, NextCases
      DEF SignPhase1, SignPhase2MulFails, SignPhase3Stops, SignPhase4, Abort, vars
<1>2. Init => IInv /\ LiveWithoutAbort
  BY IInvInit DEF Init, LiveWithoutAbort
<1>3. IInv /\ LiveWithoutAbort /\ [Next]_vars => (IInv /\ LiveWithoutAbort)'
  BY IInvInductive, LiveWithoutAbortKept DEF IInv
<1> QED BY <1>1, <1>2, <1>3, PTL DEF Spec, OneShot

-----------------------------------------------------------------------------
(* The refinement of ThresholdSignature.                                   *)

Consents == {[session |-> b.from, nonce |-> Group(b), key |-> key[b.from].share,
              message |-> data[b.from].message_hash] : b \in {c \in sent34 : c.fault = "none"}}

\* A live session runs on a request that phase 1 accepted.
RequestsValid ==
  \A s \in Session : stage[s] \notin {"unused", "aborted"} =>
    ValidRequest(Owner(s), key[s], data[s])

\* The group of a broadcast has one session of each of exactly Threshold parties.
GroupsAreCoalitions == \A b \in sent34 : Abstract!Coalition(Group(b))

CInv == IInv /\ RequestsValid /\ GroupsAreCoalitions

-----------------------------------------------------------------------------
LEMMA RequestsValidKept ==
  ASSUME WellTyped, RequestsValid, [Next]_vars
  PROVE  RequestsValid'
<1>1. ASSUME UNCHANGED <<key, data>>,
             \A t \in Session : stage'[t] \notin {"unused", "aborted"} =>
               stage[t] \notin {"unused", "aborted"}
      PROVE  RequestsValid'
  BY <1>1 DEF RequestsValid
<1>2. ASSUME NEW s \in Session, NEW cheaters, Abort(s, cheaters) PROVE RequestsValid'
  BY <1>1, <1>2 DEF Abort, WellTyped
<1>3. ASSUME NEW s \in Session, NEW k \in shares[Owner(s)], NEW d \in Requests[Owner(s)],
             SignPhase1(s, k, d)
      PROVE  RequestsValid'
  <2>1. \A t \in Session : /\ stage'[t] = IF t = s THEN "phase1_to_2" ELSE stage[t]
                           /\ key'[t] = IF t = s THEN k ELSE key[t]
                           /\ data'[t] = IF t = s THEN d ELSE data[t]
    BY <1>3 DEF SignPhase1, WellTyped
  <2>2. ValidRequest(Owner(s), k, d)
    BY <1>3 DEF SignPhase1
  <2> QED BY <2>1, <2>2 DEF RequestsValid
<1>4. ASSUME NEW s \in Session, NEW in, SignPhase2(s, in) PROVE RequestsValid'
  BY <1>1, <1>4 DEF SignPhase2, WellTyped
<1>5. ASSUME NEW s \in Session, NEW in, SignPhase3(s, in) PROVE RequestsValid'
  BY <1>1, <1>5 DEF SignPhase3, WellTyped
<1>6. ASSUME NEW s \in Session, NEW in, SignPhase4(s, in) PROVE RequestsValid'
  BY <1>1, <1>6 DEF SignPhase4, WellTyped
<1>7. CASE Misbehave
  BY <1>1, <1>7 DEF Misbehave, Alter12, Alter23, Alter34
<1>8. CASE UNCHANGED vars
  BY <1>1, <1>8 DEF vars
<1> QED BY <1>2, <1>3, <1>4, <1>5, <1>6, <1>7, <1>8, NextCases
    DEF SignPhase2MulFails, SignPhase3Stops

\* Abstract extends FiniteSets for itself.
LEMMA AbstractCardinality == ASSUME NEW S PROVE Abstract!Cardinality(S) = Cardinality(S)
BY DEF Abstract!Cardinality, Cardinality

\* Threshold - 1 answers of different counterparties, and ours: a coalition.
LEMMA AcceptedGroup ==
  ASSUME CInv, NEW s \in Session, NEW in \in Deliveries(sent23), SignPhase3(s, in)
  PROVE  Abstract!Coalition({s} \cup {in[i].from : i \in DOMAIN in})
<1> DEFINE n == Threshold - 1
           from == [i \in 1..n |-> in[i].from]
           others == {in[i].from : i \in DOMAIN in}
<1>1. ValidRequest(Owner(s), key[s], data[s]) /\ data[s] \in Requests[Owner(s)]
  BY DEF CInv, IInv, WellTyped, RequestsValid, SignPhase3
<1>2. n \in Nat /\ DOMAIN in = 1..n
  BY <1>1, DeliveryType, ParametersAssumption, OwnerType
     DEF SignPhase3, ValidRequest, RightCount
<1>3. \A i \in 1..n : in[i].from \in Session
  BY <1>2, DeliveryType DEF CInv, IInv, WellTyped, TransmitPhase2to3
<1>4. \A i \in 1..n : RoutingVerdict(s, in, i) = "ok"
  BY <1>2, Phase3Accepts DEF SignPhase3
<1>5. \A i \in 1..n : Owner(in[i].from) # Owner(s)
  BY <1>1, <1>4, CounterpartiesType, OwnerType DEF RoutingVerdict, Sender
<1>6. \A i, j \in 1..n : i < j => Owner(in[i].from) # Owner(in[j].from)
  BY <1>2, <1>4 DEF RoutingVerdict, Sender
<1>7. \A i, j \in 1..n : i # j => Owner(in[i].from) # Owner(in[j].from)
  BY <1>2, <1>6
<1>8. from \in Bijection(1..n, others)
  BY <1>2, <1>7 DEF Bijection, Injection, IsInjective, Surjection
<1>9. IsFiniteSet(others) /\ Cardinality(others) = n
  <2>1. ExistsBijection(1..n, others)
    BY <1>8 DEF ExistsBijection
  <2> QED BY <1>2, <2>1, FS_CountingElements, FS_NatBijection
<1>10. s \notin others
  BY <1>2, <1>5
<1>11. Cardinality({s} \cup others) = Threshold
  <2> HIDE DEF others
  <2>1. Cardinality(others \cup {s}) = Cardinality(others) + 1
    BY <1>9, <1>10, FS_AddElement
  <2>2. others \cup {s} = {s} \cup others
    OBVIOUS
  <2>3. Threshold \in Nat \ {0}
    BY ParametersAssumption
  <2>4. Cardinality(others) = Threshold - 1
    BY <1>9
  <2> HIDE DEF n
  <2> QED BY <2>1, <2>2, <2>3, <2>4
<1>12. \A t, u \in {s} \cup others : t[1] = u[1] => t = u
  BY <1>2, <1>5, <1>7 DEF Owner
<1>13. {s} \cup others \subseteq Party \X Slot
  BY <1>2, <1>3 DEF Session
<1> HIDE DEF others
<1>14. Abstract!Coalition({s} \cup others)
  BY <1>11, <1>12, <1>13, AbstractCardinality DEF Abstract!Coalition, Abstract!Session
<1> QED BY <1>14 DEF others

LEMMA GroupsAreCoalitionsKept ==
  ASSUME CInv, [Next]_vars
  PROVE  GroupsAreCoalitions'
<1>1. CASE UNCHANGED sent34
  BY <1>1 DEF CInv, GroupsAreCoalitions, Group, Abstract!Coalition
<1>2. ASSUME NEW s \in Session, NEW in \in Deliveries(sent23), SignPhase3(s, in)
      PROVE  GroupsAreCoalitions'
  <2> DEFINE b == [from |-> s, inputs |-> {in[i] : i \in DOMAIN in}, fault |-> "none"]
  <2>1. Group(b) = {s} \cup {in[i].from : i \in DOMAIN in}
    BY DEF Group
  <2>2. Abstract!Coalition(Group(b))
    BY <1>2, <2>1, AcceptedGroup
  <2>3. sent34' = sent34 \cup {b}
    BY <1>2 DEF SignPhase3
  <2> HIDE DEF b
  <2> QED BY <2>2, <2>3 DEF CInv, GroupsAreCoalitions, Group, Abstract!Coalition
<1>3. ASSUME Misbehave PROVE GroupsAreCoalitions'
  <2>1. \A b \in sent34' : \E c \in sent34 : Group(b) = Group(c)
    BY <1>3, AlteredCopies DEF CInv, IInv, Group
  <2> QED BY <2>1 DEF CInv, GroupsAreCoalitions, Group, Abstract!Coalition
<1> QED BY <1>1, <1>2, <1>3, NextCases
    DEF SignPhase1, SignPhase2, SignPhase2MulFails, SignPhase3Stops, SignPhase4, Abort, vars

LEMMA CInvInductive == CInv /\ [Next]_vars => CInv'
BY IInvInductive, RequestsValidKept, GroupsAreCoalitionsKept DEF CInv, IInv

LEMMA CInvInit == Init => CInv
BY IInvInit DEF Init, CInv, RequestsValid, GroupsAreCoalitions

-----------------------------------------------------------------------------
(* The refinement: a step consents, publishes or stutters.                 *)

\* A session that broadcast keeps what it consented to.
LEMMA ConsentsKept ==
  ASSUME CInv, [Next]_vars,
         {b \in sent34' : b.fault = "none"} = {b \in sent34 : b.fault = "none"}
  PROVE  Consents' = Consents
<1>1. \A b \in sent34 : key'[b.from] = key[b.from] /\ data'[b.from] = data[b.from]
  BY StepKeeps DEF CInv, IInv, WellTyped, Broadcast3to4, BroadcastsAddUp
<1> QED BY <1>1 DEF Consents, Group

LEMMA Phase3Consents ==
  ASSUME CInv, NEW s \in Session, NEW in \in Deliveries(sent23), SignPhase3(s, in)
  PROVE  \E c \in Consents' : Abstract!Consent(c.session, c.nonce, c.key, c.message)
<1> DEFINE b == [from |-> s, inputs |-> {in[i] : i \in DOMAIN in}, fault |-> "none"]
           new == [session |-> s, nonce |-> Group(b), key |-> key[s].share,
                   message |-> data[s].message_hash]
<1>1. /\ sent34' = sent34 \cup {b}
      /\ UNCHANGED <<key, data, signatures>>
      /\ stage[s] = "phase2_to_3"
  BY DEF SignPhase3
<1>2. b.from = s /\ b.fault = "none"
  OBVIOUS
<1>3. s \in Group(b) /\ Abstract!Coalition(Group(b))
  BY AcceptedGroup DEF Group
<1> HIDE DEF b
<1>4. Consents' = Consents \cup {new}
  BY <1>1, <1>2 DEF Consents, Group
<1>5. \A x \in Consents : x.session # s
  BY <1>1 DEF Consents, CInv, IInv, BroadcastsAddUp
<1>6. new.session = s /\ new.nonce = Group(b) /\ new.key = key[s].share /\ new.message = data[s].message_hash
  OBVIOUS
<1>7. Abstract!Consent(new.session, new.nonce, new.key, new.message)
  BY <1>1, <1>3, <1>4, <1>5, <1>6 DEF Abstract!Consent, Consents
<1>8. new \in Consents'
  BY <1>4
<1> HIDE DEF new
<1> QED BY <1>7, <1>8 DEF Abstract!Consent

LEMMA Phase4Publishes ==
  ASSUME CInv, NEW s \in Session, NEW in \in Deliveries(sent34), SignPhase4(s, in)
  PROVE  \E x \in signatures' : Abstract!Publish(x.nonce, x.key, x.message)
<1>1. PICK b \in OwnBroadcasts(s) :
        /\ SumsToSignature(s, b, in)
        /\ signatures' = signatures \cup {[nonce |-> Group(b), key |-> key[s].share,
                                           message |-> data[s].message_hash]}
  BY DEF SignPhase4
<1> DEFINE x == [nonce |-> Group(b), key |-> key[s].share, message |-> data[s].message_hash]
<1>2. b \in sent34 /\ b.from = s
  BY DEF OwnBroadcasts
<1>3. Abstract!Coalition(Group(b))
  BY <1>2 DEF CInv, GroupsAreCoalitions
<1>4. ASSUME NEW g \in Group(b)
      PROVE  [session |-> g, nonce |-> Group(b), key |-> key[s].share,
              message |-> data[s].message_hash] \in Consents
  <2>1. \E i \in DOMAIN in : in[i].from = g
    <3> DEFINE sentByG == {i \in DOMAIN in : in[i].from = g}
    <3>1. PICK k \in 1..Len(in) : Cardinality(sentByG) = k
      BY <1>1 DEF SumsToSignature
    <3>2. sentByG # {}
      <4> HIDE DEF sentByG
      <4>1. Cardinality({}) = 0
        BY FS_EmptySet
      <4>2. k # 0
        OBVIOUS
      <4> QED BY <3>1, <4>1, <4>2
    <3> QED BY <3>2
  <2>2. PICK i \in DOMAIN in : in[i].from = g
    BY <2>1
  <2>3. /\ in[i] \in sent34 /\ in[i].fault = "none"
        /\ Group(in[i]) = Group(b)
        /\ data[g].message_hash = data[s].message_hash
    BY <1>1, <2>2, DeliveryType DEF SumsToSignature
  <2>4. key[g].share = key[s].share
    BY <1>2 DEF Group, CInv, IInv, BroadcastsAddUp
  <2> QED BY <2>2, <2>3, <2>4 DEF Consents
<1>5. UNCHANGED Consents
  BY DEF SignPhase4, Consents, Group
<1>6. x.nonce = Group(b) /\ x.key = key[s].share /\ x.message = data[s].message_hash
  OBVIOUS
<1>7. Abstract!Publish(Group(b), key[s].share, data[s].message_hash)
  BY <1>1, <1>3, <1>4, <1>5 DEF Abstract!Publish, Consents
<1>8. x \in signatures'
  BY <1>1
<1> HIDE DEF x
<1> QED BY <1>6, <1>7, <1>8

\* Every step consents, publishes or stutters.
LEMMA ConsentStep == CInv /\ [Next]_vars => [Abstract!Next]_(Abstract!vars)
<1> SUFFICES ASSUME CInv, [Next]_vars
             PROVE  Abstract!Next \/ (Consents' = Consents /\ signatures' = signatures)
  BY DEF Abstract!vars, Consents
<1>1. ASSUME UNCHANGED <<sent34, signatures>>
      PROVE  Consents' = Consents /\ signatures' = signatures
  BY <1>1, ConsentsKept
<1>2. ASSUME NEW s \in Session, NEW in \in Deliveries(sent23), SignPhase3(s, in)
      PROVE  Abstract!Next
  BY <1>2, Phase3Consents DEF Abstract!Next, Consents
<1>3. ASSUME NEW s \in Session, NEW in \in Deliveries(sent34), SignPhase4(s, in)
      PROVE  Abstract!Next
  BY <1>3, Phase4Publishes DEF Abstract!Next
<1>4. ASSUME Misbehave
      PROVE  Consents' = Consents /\ signatures' = signatures
  <2>1. {b \in sent34' : b.fault = "none"} = {b \in sent34 : b.fault = "none"}
    BY <1>4, AlteredCopies, StepKeeps DEF CInv, IInv
  <2>2. signatures' = signatures
    BY <1>4 DEF Misbehave, Alter12, Alter23, Alter34
  <2> QED BY <2>1, <2>2, ConsentsKept
<1> QED BY <1>1, <1>2, <1>3, <1>4, NextCases
    DEF SignPhase1, SignPhase2, SignPhase2MulFails, SignPhase3Stops, Abort, vars

\* Signing implements ThresholdSignature: whatever is delivered and whoever is
\* faulty, a signature appears only after one session of each of exactly Threshold
\* parties consented to that nonce, key and message, and no session consents twice.
THEOREM ConsentRefinement == Spec => SignsByConsent
<1>1. Init => Abstract!Init
  BY DEF Init, Abstract!Init
<1> QED BY <1>1, ConsentStep, CInvInit, CInvInductive, PTL DEF Spec, SignsByConsent, Abstract!Spec

-----------------------------------------------------------------------------
(* What ThresholdSignature implies for the nonces, carried over.           *)

\* A session appears in at most one consent, and every signature is consented to by
\* all of its group.
ConsentedOnce ==
  /\ \A c, e \in Consents : c.session = e.session => c = e
  /\ \A x \in signatures :
       /\ x = [nonce |-> x.nonce, key |-> x.key, message |-> x.message]
       /\ \A s \in x.nonce : [session |-> s, nonce |-> x.nonce, key |-> x.key,
                              message |-> x.message] \in Consents

LEMMA AbstractConsent ==
  ASSUME ConsentedOnce, NEW s, NEW g, NEW k, NEW m, Abstract!Consent(s, g, k, m)
  PROVE  ConsentedOnce'
<1> DEFINE new == [session |-> s, nonce |-> g, key |-> k, message |-> m]
<1>1. Consents' = Consents \cup {new} /\ new.session = s /\ UNCHANGED signatures
  BY DEF Abstract!Consent, Consents
<1>2. \A c \in Consents : c.session # s
  BY DEF Abstract!Consent, Consents
<1> HIDE DEF new
<1> QED BY <1>1, <1>2 DEF ConsentedOnce

LEMMA AbstractPublish ==
  ASSUME ConsentedOnce, NEW g, NEW k, NEW m, Abstract!Publish(g, k, m)
  PROVE  ConsentedOnce'
<1> DEFINE new == [nonce |-> g, key |-> k, message |-> m]
<1>1. signatures' = signatures \cup {new} /\ Consents' = Consents
  BY DEF Abstract!Publish, Consents
<1>2. new = [nonce |-> new.nonce, key |-> new.key, message |-> new.message]
  OBVIOUS
<1>3. \A s \in new.nonce : [session |-> s, nonce |-> new.nonce, key |-> new.key,
                            message |-> new.message] \in Consents
  BY DEF Abstract!Publish, Consents
<1> HIDE DEF new
<1> QED BY <1>1, <1>2, <1>3 DEF ConsentedOnce

\* What the abstract specification implies holds of the signatures of the code: no
\* instance key of any session enters two different signatures.
THEOREM NonceSignsOnceHolds == Spec => []NonceSignsOnce
<1>1. Abstract!Init => ConsentedOnce
  BY DEF Abstract!Init, ConsentedOnce, Consents
<1>2. ConsentedOnce /\ [Abstract!Next]_(Abstract!vars) => ConsentedOnce'
  <2>1. ASSUME ConsentedOnce, Abstract!Next PROVE ConsentedOnce'
    BY <2>1, AbstractConsent, AbstractPublish DEF Abstract!Next
  <2>2. ASSUME ConsentedOnce, UNCHANGED Abstract!vars PROVE ConsentedOnce'
    <3>1. Consents' = Consents /\ signatures' = signatures
      BY <2>2 DEF Abstract!vars, Consents
    <3> QED BY <2>2, <3>1 DEF ConsentedOnce
  <2> QED BY <2>1, <2>2
<1>3. ConsentedOnce => NonceSignsOnce
  <2> SUFFICES ASSUME ConsentedOnce, NEW x \in signatures, NEW y \in signatures,
                      NEW s \in x.nonce, s \in y.nonce
               PROVE  x = y
    BY DEF NonceSignsOnce, Abstract!NonceSignsOnce
  <2> DEFINE ConsentTo(z) == [session |-> s, nonce |-> z.nonce, key |-> z.key, message |-> z.message]
  <2>1. ConsentTo(x) \in Consents /\ ConsentTo(y) \in Consents
    BY DEF ConsentedOnce
  <2>2. ConsentTo(x) = ConsentTo(y)
    BY <2>1 DEF ConsentedOnce
  <2>3. x.nonce = y.nonce /\ x.key = y.key /\ x.message = y.message
    BY <2>2
  <2>4. /\ x = [nonce |-> x.nonce, key |-> x.key, message |-> x.message]
        /\ y = [nonce |-> y.nonce, key |-> y.key, message |-> y.message]
    BY DEF ConsentedOnce
  <2> QED BY <2>3, <2>4
<1> QED BY <1>1, <1>2, <1>3, ConsentRefinement, PTL DEF SignsByConsent, Abstract!Spec
=============================================================================
