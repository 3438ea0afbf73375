--------------------------- MODULE RefreshSigning ---------------------------
(***************************************************************************)
(* The life of a key: the parties refresh their shares (module Refresh)    *)
(* and sign (module Signing) over the same Party objects.  A session       *)
(* borrows the object of its party, and phase 4 of a refresh takes it      *)
(* mutably: a party finishes no refresh while a session of it is open.     *)
(* Everything else of the two interleaves, at one party and across them.   *)
(***************************************************************************)
EXTENDS Refresh, FiniteSets

CONSTANTS
  Threshold, Slot, WellFormedId, Requests, AllowRetry, MaxDelivery, MaxFaults

\* What module Signing assumes of its constants; its assumption on the objects the
\* parties hold is that on FirstKey.
ASSUME SigningAssumption ==
  /\ ShareCount \in Nat \ {0}
  /\ Threshold \in Nat \ {0}
  /\ MaxDelivery \in Nat
  /\ AllowRetry \in BOOLEAN
  /\ \A p \in Party : /\ None \notin Requests[p]
                      /\ \A d \in Requests[p] : d.counterparties \in Seq(Nat \ {0})

VARIABLES stage, key, data, heard, sent12, sent23, sent34, abort, banned, signatures

signingVars == <<stage, key, data, heard, sent12, sent23, sent34, abort, banned, signatures>>
refreshVars == <<party, begun, attempt, committed, opened>>

\* A party holds one object at a time, first that of the key generation.
S == INSTANCE Signing WITH
  shares <- [p \in Party |-> {party[p]}],
  Keyrings <- {[p \in Party |-> {FirstKey}]}

\* The parties with an open session, which borrows their object.
Borrowed == {p \in Party : \E s \in S!Session :
                S!Owner(s) = p /\ stage[s] \in {"phase1_to_2", "phase2_to_3", "x_coord"}}

LifeInit == Init /\ S!Init

RefreshStep ==
  /\ \E p \in Honest : \/ Deal(p) \/ Commit(p) \/ Phase3(p)
                       \/ p \notin Borrowed /\ Finish(p)
  /\ UNCHANGED signingVars

SigningStep == UNCHANGED refreshVars /\ S!Next

LifeNext == RefreshStep \/ SigningStep

LifeSpec == LifeInit /\ [][LifeNext]_<<refreshVars, signingVars>>

-----------------------------------------------------------------------------
(* Properties                                                              *)

\* Signing keeps its promises while the key moves from epoch to epoch, whichever epoch
\* each party is at: nobody is banned who did not cheat,
BansAreDeserved == S!BansAreDeserved

\* and a signature takes the consent of a full group that holds one sharing of the key.
SignsByConsent == S!SignsByConsent
=============================================================================
