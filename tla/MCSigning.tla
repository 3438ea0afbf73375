----------------------------- MODULE MCSigning -----------------------------
(***************************************************************************)
(* Instances of Signing for TLC: the requests and keyrings of each run.    *)
(***************************************************************************)
EXTENDS SigningRun, TLC

\* A party's sessions are interchangeable: their names are compared for equality only.
Slots == Permutations(Slot)

\* A Party object: session_id, chain_code, PROTOCOL_VERSION of the binary, the
\* sharing its poly_point and pk belong to, its OT and zero-share seeds for each party,
\* and the parties it holds multiplication state for.
Root == [session_id |-> "dkg", chain_code |-> "c0", version |-> 1, share |-> "a",
         ot |-> [q \in Party |-> "o0"], zero |-> [q \in Party |-> "z0"], peers |-> Party]
OtherRoot == [Root EXCEPT !.chain_code = "c1"]      \* an equivocated DKG root
Upgraded == [Root EXCEPT !.version = 2]
Refreshed == [Root EXCEPT !.session_id = "refresh", !.share = "b",
                            !.ot = [q \in Party |-> "o1"], !.zero = [q \in Party |-> "z1"]]
Child == [Root EXCEPT !.chain_code = "c0/0", !.share = "a/0"]
Corrupt == [Root EXCEPT !.share = "x"]              \* a damaged poly_point
Lonely == [Root EXCEPT !.peers = {}]                \* no mul_senders, mul_receivers

Request(id, cps, msg) == [sign_id |-> id, counterparties |-> cps, message_hash |-> msg]

\* Everybody holds the same object, or party 2 holds another one.
Alone(k) == [p \in Party |-> {k}]
Differs(k) == [p \in Party |-> IF p = 2 THEN {k} ELSE {Root}]

\* 2-of-2: two ids, two messages.  Party 1 may also hold a derived key.
PairRequests ==
  [p \in Party |-> {Request(id, <<3 - p>>, msg) : id \in {"i1", "i2"}, msg \in {"m1", "m2"}}]
PairKeyrings ==
  {Alone(Root), Differs(OtherRoot), Differs(Refreshed), Differs(Upgraded), Differs(Corrupt),
   <<{Root, Child}, {Child}>>}

\* 2-of-2 with a party that alters messages.
FaultyRequests == [p \in Party |-> {Request(id, <<3 - p>>, "m1") : id \in {"i1", "i2"}}]
FaultyKeyrings == {Alone(Root), Differs(OtherRoot)}

\* 3-of-4.  The same signers for everybody, or the cycle in which everybody's two
\* counterparties list it back but no two parties have the same signers; and requests no
\* phase 1 accepts, one for every reason it has to refuse it.
InputRequests ==
  LET asks(lists) == {Request("i1", cps, "m1") : cps \in lists}
      wrong == { <<2>>, <<1>>, <<>>, <<1, 2, 3>>, <<3, 3>>, <<2, 5>>, <<4, 1>> }
  IN  << asks(wrong \cup {<<2, 4>>, <<2, 3>>}) \cup {Request("short", <<2, 3>>, "m1")},
         asks(wrong \cup {<<1, 3>>}),
         asks({<<2, 4>>, <<1, 2>>}),
         asks({<<3, 1>>}) >>
InputKeyrings ==
  {Alone(Root), Differs(Lonely), Alone([Root EXCEPT !.session_id = "short"])}
RootOnly == {Alone(Root)}

\* 3-of-3, one session each.
TrioRequests ==
  LET others == << <<2, 3>>, <<1, 3>>, <<1, 2>> >>
  IN  [p \in Party |-> {Request("i1", others[p], msg) : msg \in {"m1", "m2"}}]
TrioKeyrings == {Alone(Root), Differs(OtherRoot), Differs(Upgraded), Differs(Corrupt),
                 Differs([Root EXCEPT !.zero[1] = "z1"])}
=============================================================================
