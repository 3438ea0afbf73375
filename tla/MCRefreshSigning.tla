-------------------------- MODULE MCRefreshSigning --------------------------
(***************************************************************************)
(* Instances of RefreshSigning for TLC: 2-of-2.                            *)
(***************************************************************************)
EXTENDS RefreshSigning

\* The object of the key generation.
Root == [session_id |-> "dkg", chain_code |-> "c0", version |-> 1, share |-> <<>>,
         ot |-> [q \in Party |-> <<>>], zero |-> [q \in Party |-> {}], peers |-> Party]

\* By bad luck the second share party 2 gets after a first refresh with r2 is trivial.
TrivialAfterFast(p, share) == p = 2 /\ Len(share) = 2 /\ share[1][1] = {"r2"}

\* One message for everybody to sign with the other party, once.
OneRequest ==
  [p \in Party |-> {[sign_id |-> "i1", counterparties |-> <<3 - p>>, message_hash |-> "m1"]}]
=============================================================================
