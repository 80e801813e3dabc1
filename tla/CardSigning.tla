----------------------------- MODULE CardSigning -----------------------------
(***************************************************************************)
(* Agent card signatures (signing.rs) and the clients' verification of     *)
(* them (client/mod.rs).  A card is one of WireTypes' card documents with  *)
(* its list of signatures; the cryptography is perfect: only the key that  *)
(* made a signature verifies it, over the bytes it was made over.          *)
(***************************************************************************)
EXTENDS WireTypes, Sequences

CONSTANTS Keys,            \* the key pairs, each named once for both halves
          AlgorithmOf      \* [Keys -> {"ES256", "EdDSA", ...}]: the JWA name of each

\* Mutant: the signatures already there are part of what is signed.
CanonicalJson_Whole(card) ==
    [type |-> card.type, field |-> card.field,
     written |-> WriteJson(Rule(card.type, card.field), card.value),
     signatures |-> Len(card.signatures)]

\* A card's canonical JSON: as it goes to the wire, its signatures cleared.
CanonicalJson(card) ==
    [type |-> card.type, field |-> card.field,
     written |-> WriteJson(Rule(card.type, card.field), card.value),
     signatures |-> 0]

\* sign_agent_card: the protected header names the algorithm, and is signed
\* together with the payload.
SignAgentCard(card, key) ==
    [alg |-> AlgorithmOf[key], key |-> key, payload |-> CanonicalJson(card)]

\* AgentCardSigningExt::signed.
Signed(card, key) ==
    [card EXCEPT !.signatures = Append(@, SignAgentCard(card, key))]

\* Mutant: verified over the bytes that were signed, not over the card.
VerifyAgentCardSignature_Detached(card, signature, key) ==
    /\ signature.alg = AlgorithmOf[key]
    /\ signature.key = key

\* verify_agent_card_signature: the payload is computed from the card at hand.
VerifyAgentCardSignature(card, signature, key) ==
    /\ signature.alg = AlgorithmOf[key]
    /\ signature.key = key
    /\ signature.payload = CanonicalJson(card)

\* verify_any_signature: every signature against every trusted key, and a pair
\* that fails, whatever the reason, only passes the turn to the next.
VerifyAnySignature(card, trusted) ==
    /\ card.signatures # << >>
    /\ trusted # {}
    /\ \E i \in DOMAIN card.signatures, key \in trusted :
          VerifyAgentCardSignature(card, card.signatures[i], key)
=============================================================================
