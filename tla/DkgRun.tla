------------------------------- MODULE DkgRun -------------------------------
(***************************************************************************)
(* A key generation of honest parties driven as run_dkg of                 *)
(* dkls23-benchmarks drives it: a party deals once, calls phase 2 with one *)
(* fragment of everybody, and phases 3 and 4 once every message of the     *)
(* round before is there.                                                  *)
(***************************************************************************)
EXTENDS Dkg

Deal(p) == dealt[p] = {} /\ \E poly \in Dealings : Phase1(p, poly)
RunPhase2(p) ==
  /\ \A q \in Party : dealt[q] # {}
  /\ Phase2(p, [q \in Party |-> CHOOSE v \in Scalar :
                                  \E poly \in dealt[q] : v = Evaluate(poly, p)])
RunPhase3(p) == sent2 = Party /\ Phase3(p)
RunPhase4(p) == sent3 = Party /\ \E in \in [points : Points, codes : Codes,
                                            routed : {Whole(p)}, unsound : {{}}] :
                                   Phase4(p, in) \/ Phase4Rejects(p, in)

RunNext == \E p \in Party : Deal(p) \/ RunPhase2(p) \/ RunPhase3(p) \/ RunPhase4(p)

\* The driver keeps calling: a party whose messages are there gets to run.
Fairness == \A p \in Party : /\ WF_vars(Deal(p))
                             /\ WF_vars(RunPhase2(p))
                             /\ WF_vars(RunPhase3(p))
                             /\ WF_vars(RunPhase4(p))

FairSpec == Init /\ [][RunNext]_vars /\ Fairness

-----------------------------------------------------------------------------
\* Every party ends with the same key and chain code, for any number of parties an
\* index can name ("Party counts are limited to 255 by the u8 type", docs/security.md).
EverybodyFinishes ==
  <>(/\ \A p \in Party : stage[p] = "done"
     /\ \A p, q \in Party : result[p] = result[q])
=============================================================================
