------------------------- MODULE ThresholdSignature -------------------------
(***************************************************************************)
(* What threshold signing promises, without messages, commitments or OT: a *)
(* session of a party consents once, to one group of sessions (which fixes *)
(* the nonce), one key and one message, and a signature is published only  *)
(* when every session of a full group has consented to it.  Module Signing *)
(* implements this specification.                                          *)
(***************************************************************************)
EXTENDS Naturals, FiniteSets

CONSTANTS
  Party,        \* the holders of the key
  Slot,         \* names of a party's sessions
  Threshold     \* how many parties must consent

VARIABLES
  consents,     \* what each session has put its instance key into
  signatures    \* the signatures anybody holds

vars == <<consents, signatures>>

Session == Party \X Slot

\* One session of each of exactly Threshold parties.
Coalition(g) ==
  /\ g \subseteq Session
  /\ Cardinality(g) = Threshold
  /\ \A s, t \in g : s[1] = t[1] => s = t

Init == consents = {} /\ signatures = {}

Consent(s, g, k, m) ==
  /\ s \in g
  /\ Coalition(g)
  /\ \A c \in consents : c.session # s
  /\ consents' = consents \cup {[session |-> s, nonce |-> g, key |-> k, message |-> m]}
  /\ UNCHANGED signatures

Publish(g, k, m) ==
  /\ Coalition(g)
  /\ \A s \in g : [session |-> s, nonce |-> g, key |-> k, message |-> m] \in consents
  /\ signatures' = signatures \cup {[nonce |-> g, key |-> k, message |-> m]}
  /\ UNCHANGED consents

\* A step is a consent or a publication; what was consented to or published is
\* read off the new state, so that no set of keys or messages is needed.
Next ==
  \/ \E c \in consents' : Consent(c.session, c.nonce, c.key, c.message)
  \/ \E x \in signatures' : Publish(x.nonce, x.key, x.message)

Spec == Init /\ [][Next]_vars

-----------------------------------------------------------------------------
\* Two signatures that share the instance key of even one session are the same
\* signature.  Two different ones over one nonce reveal the private key.
NonceSignsOnce ==
  \A x, y \in signatures : x.nonce \cap y.nonce # {} => x = y
=============================================================================
