----------------------------- MODULE SigningRun -----------------------------
(***************************************************************************)
(* Signing driven by an application that does its part, as run_sign of     *)
(* dkls23-benchmarks does: every party opens the session it was asked for  *)
(* and calls a phase when it has a message of every counterparty's session *)
(* with the same sign_id.  Nothing is altered, lost for ever or misrouted, *)
(* but nobody waits for a round to be complete elsewhere, and the parties' *)
(* keys and requests may disagree.                                         *)
(***************************************************************************)
EXTENDS Signing

\* The messages addressed to s that belong to its signing run.
For(s, sent) == {m \in sent : m.to = Owner(s) /\ data[m.from].sign_id = data[s].sign_id}
OfRun(s, sent) == {m \in sent : data[m.from].sign_id = data[s].sign_id}

\* All of a set of messages, in some order, once there are n.
Batches(n, S) ==
  IF Cardinality(S) # n THEN {}
  ELSE {f \in [1..n -> S] : \A i, j \in 1..n : f[i] = f[j] => i = j}

Open(s) == \E k \in shares[Owner(s)], d \in Requests[Owner(s)] : SignPhase1(s, k, d)
RunPhase2(s) ==
  /\ stage[s] = "phase1_to_2"
  /\ \E in \in Batches(Threshold - 1, For(s, sent12)) :
       SignPhase2(s, in) \/ SignPhase2Rejects(s, in) \/ \E i \in DOMAIN in : SignPhase2MulFails(s, in, i)
RunPhase3(s) ==
  /\ stage[s] = "phase2_to_3"
  /\ \E in \in Batches(Threshold - 1, For(s, sent23)) :
       SignPhase3(s, in) \/ SignPhase3Rejects(s, in) \/ \E i \in DOMAIN in : SignPhase3Stops(s, in, i)
RunPhase4(s) ==
  /\ stage[s] = "x_coord"
  /\ \E in \in Batches(Threshold, OfRun(s, sent34)) : SignPhase4(s, in) \/ SignPhase4Rejects(s, in)

RunNext == \E s \in Session : Open(s) \/ RunPhase2(s) \/ RunPhase3(s) \/ RunPhase4(s)

\* The application keeps calling: a party whose messages are there gets to run.
Fairness == \A s \in Session : /\ WF_vars(Open(s))
                               /\ WF_vars(RunPhase2(s))
                               /\ WF_vars(RunPhase3(s))
                               /\ WF_vars(RunPhase4(s))

FairSpec == Init /\ [][RunNext]_vars /\ Fairness

-----------------------------------------------------------------------------
(* Properties: one session per party, all with the same signers.           *)

Opened == \A s \in Session : stage[s] # "unused"

Agreement ==
  \A s, t \in Session :
    /\ RootDigest(s) = RootDigest(t)
    /\ key[s].version = key[t].version
    /\ key[s].share = key[t].share
    /\ SameSeed(s, t)
    /\ data[s].message_hash = data[t].message_hash

\* When everybody agrees on key, signers and message, everybody ends with a
\* signature: nobody waits on somebody who waits on it.
AgreeingSignersSign ==
  (Opened /\ Agreement) ~> \A s \in Session : stage[s] = "signed"

\* When the views differ in anything, every session still ends, without a signature
\* and without a ban: nobody is left waiting for a party that gave up first.
DivergenceEndsRecoverably ==
  (Opened /\ ~Agreement) ~> \A s \in Session : abort[s] = "recoverable"
=============================================================================
