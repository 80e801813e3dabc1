-------------------------- MODULE DocumentExchange --------------------------
(***************************************************************************)
(* Documents (requests, answers, agent cards) passing between programs     *)
(* built with this crate, hop by hop, over the JSON bindings and gRPC.  A  *)
(* document is set apart by one field of one of its parts: conversions are *)
(* field by field, and all its other fields hold what nothing changes.     *)
(* Cards are signed, signed again by the programs that pass them on,       *)
(* edited, and verified.                                                   *)
(***************************************************************************)
EXTENDS GrpcConvert, CardSigning, Naturals, FiniteSets, Functions

CONSTANTS Parties,         \* the programs
          Fields,          \* the fields <<type, field>> that set documents apart
          SignedFields,    \* bound: the cards that are signed and edited
          MaxSignings,     \* bound: how often a card is signed, all copies together
          MaxEdits,        \* bound: edits after a document is first written
          NoDocument

IsCard(type) == type \in DOMAIN CardTypes

\* All that a field, or the wire, holds in place of a value.
Tokens == {"", "words", "false", "true", "zero", "number", "unspecified", "known",
           "millis", "nanos", "whole", "float", "huge", "rounded", "empty", "items",
           "present", "arm", "none", "unset", "absent", "refused", "newer", "invalid",
           "several"}

Signatures == [alg : STRING, key : Keys,
               payload : [type : DOMAIN Types, field : STRING, written : Tokens,
                          signatures : Nat]]

Documents == [type : DOMAIN Types, field : STRING, value : Tokens,
              signatures : Seq(Signatures)]

\* What the tables of WireTypes say of every field; a card has no timestamps.
ASSUME ExchangeAssumption ==
    /\ AlgorithmOf \in [Keys -> STRING]
    /\ NoDocument \notin Documents
    /\ Fields \subseteq (DOMAIN Types) \X STRING
    /\ SignedFields \subseteq {f \in Fields : IsCard(f[1])}
    /\ MaxSignings \in Nat /\ MaxEdits \in Nat
    /\ \A f \in Fields :
          LET rule == Rule(f[1], f[2])
          IN  /\ rule.kind \in DOMAIN Zeros
              /\ rule.missing \in Tokens \ {"absent", "nanos"}
              /\ IsCard(f[1]) => rule.kind # "time"

VARIABLES copy,      \* copy[p]: the document p holds, or NoDocument
          vouched,   \* vouched[p]: the keys p trusted when it verified its copy
          edits,
          origin,    \* history: the value p's copy had when it was last written
          crossed,   \* history: the bindings it has crossed since
          signed     \* history: the signatures made, [signature, value signed] each

vars == <<copy, vouched, edits, origin, crossed, signed>>

Bindings == {"json", "grpc"}

Signable(document) == <<document.type, document.field>> \in SignedFields

Document(type, field, value) ==
    [type |-> type, field |-> field, value |-> value, signatures |-> << >>]

\* A field as another program puts it on the wire: left out, an enum value from
\* a later version of the protocol, a timestamp that is none, a union with
\* several arms (JSON only: a protobuf oneof has one at most).
ForeignWire(binding, kind) ==
    {"absent"} \cup (IF kind = "enum" THEN {"newer"} ELSE {})
               \cup (IF kind = "time" THEN {"invalid"} ELSE {})
               \cup (IF kind \in {"union", "untagged"} /\ binding = "json"
                     THEN {"several"} ELSE {})

\* What one hop makes of a field's value.
Over(binding, type, field, v) ==
    IF binding = "json"
    THEN ReadJson(Rule(type, field), WriteJson(Rule(type, field), v))
    ELSE ReadPb(type, field, WritePb(type, field, v))

Nowhere == \A p \in Parties : copy[p] = NoDocument

Init == /\ copy = [p \in Parties |-> NoDocument]
        /\ vouched = [p \in Parties |-> {}]
        /\ edits = 0
        /\ origin = [p \in Parties |-> "none"]
        /\ crossed = [p \in Parties |-> {}]
        /\ signed = << >>

\* p builds a document with the crate's types.
Write(p) ==
    /\ Nowhere
    /\ \E f \in Fields : \E v \in Values(Rule(f[1], f[2])) :
          /\ copy' = [copy EXCEPT ![p] = Document(f[1], f[2], v)]
          /\ origin' = [origin EXCEPT ![p] = v]
    /\ UNCHANGED <<vouched, edits, crossed, signed>>

\* p reads a document from a program that is not built with this crate; one it
\* refuses is answered with an error and leaves nothing behind.
ReceiveForeign(p) ==
    /\ Nowhere
    /\ \E f \in Fields, b \in Bindings :
       \E w \in ForeignWire(b, Rule(f[1], f[2]).kind) :
          LET v == IF b = "json" THEN ReadJson(Rule(f[1], f[2]), w)
                                 ELSE ReadPb(f[1], f[2], w)
          IN  /\ v # "refused"
              /\ copy' = [copy EXCEPT ![p] = Document(f[1], f[2], v)]
              /\ origin' = [origin EXCEPT ![p] = v]
    /\ UNCHANGED <<vouched, edits, crossed, signed>>

\* What q is left with when p's copy reaches it, and whether it vouches for it.
Arrive(p, q, binding, value, keys) ==
    /\ copy' = [copy EXCEPT ![q] = [copy[p] EXCEPT !.value = value]]
    /\ vouched' = [vouched EXCEPT ![q] = keys]
    /\ origin' = [origin EXCEPT ![q] = origin[p]]
    /\ crossed' = [crossed EXCEPT ![q] = crossed[p] \cup {binding}]
    /\ UNCHANGED <<edits, signed>>

\* p sends its copy to q, in a request or as the answer to one.
Carry(p, q, binding) ==
    /\ p # q /\ copy[p] # NoDocument
    /\ LET v == Over(binding, copy[p].type, copy[p].field, copy[p].value)
       IN  v # "refused" /\ Arrive(p, q, binding, v, {})

\* discover_and_verify: q fetches p's card from its well-known URL and keeps it
\* only if a signature verifies.
DiscoverAndVerify(p, q, trusted) ==
    /\ p # q /\ copy[p] # NoDocument /\ IsCard(copy[p].type)
    /\ LET v == Over("json", copy[p].type, copy[p].field, copy[p].value)
       IN  /\ v # "refused"
           /\ VerifyAnySignature([copy[p] EXCEPT !.value = v], trusted)
           /\ Arrive(p, q, "json", v, trusted)

\* p verifies, one by one, the signatures of a card it already holds: an
\* extended card has no discover_and_verify, over any binding.
VerifySignature(p, key) ==
    /\ copy[p] # NoDocument /\ IsCard(copy[p].type)
    /\ \E i \in DOMAIN copy[p].signatures :
          VerifyAgentCardSignature(copy[p], copy[p].signatures[i], key)
    /\ vouched' = [vouched EXCEPT ![p] = {key}]
    /\ UNCHANGED <<copy, edits, origin, crossed, signed>>

Sign(p, key) ==
    /\ copy[p] # NoDocument /\ Signable(copy[p])
    /\ Len(signed) < MaxSignings
    /\ copy' = [copy EXCEPT ![p] = Signed(@, key)]
    /\ signed' = Append(signed, [signature |-> SignAgentCard(copy[p], key),
                                value |-> copy[p].value])
    /\ UNCHANGED <<vouched, edits, origin, crossed>>

\* p changes its copy and keeps the signatures, as AgentCard's setters do.
Edit(p) ==
    /\ copy[p] # NoDocument /\ Signable(copy[p])
    /\ edits < MaxEdits
    /\ \E v \in Values(Rule(copy[p].type, copy[p].field)) \ {copy[p].value} :
          /\ copy' = [copy EXCEPT ![p].value = v]
          /\ origin' = [origin EXCEPT ![p] = v]
    /\ edits' = edits + 1
    /\ vouched' = [vouched EXCEPT ![p] = {}]
    /\ crossed' = [crossed EXCEPT ![p] = {}]
    /\ UNCHANGED signed

Next == \E p \in Parties :
          \/ Write(p)
          \/ ReceiveForeign(p)
          \/ \E q \in Parties, b \in Bindings : Carry(p, q, b)
          \/ \E q \in Parties, trusted \in SUBSET Keys : DiscoverAndVerify(p, q, trusted)
          \/ \E key \in Keys : VerifySignature(p, key) \/ Sign(p, key)
          \/ Edit(p)

Spec == Init /\ [][Next]_vars

-----------------------------------------------------------------------------
TypeOK ==
    /\ copy \in [Parties -> Documents \cup {NoDocument}]
    /\ \A p \in Parties :
          \/ copy[p] = NoDocument /\ origin[p] = "none"
          \/ /\ <<copy[p].type, copy[p].field>> \in Fields
             /\ {copy[p].value, origin[p]} \subseteq Values(Rule(copy[p].type, copy[p].field))
             /\ Len(copy[p].signatures) <= Len(signed)
    /\ vouched \in [Parties -> SUBSET Keys]
    /\ crossed \in [Parties -> SUBSET Bindings]
    /\ edits \in 0 .. MaxEdits
    /\ Len(signed) <= MaxSignings

\* The fields spec/a2a.proto declares optional; for its other scalars protobuf
\* has no unset.
ProtoOptional ==
    {<<"SendMessageConfiguration", "history_length">>, <<"AgentCard", "documentation_url">>,
     <<"AgentCard", "icon_url">>, <<"AgentCapabilities", "streaming">>,
     <<"AgentCapabilities", "push_notifications">>,
     <<"AgentCapabilities", "extended_agent_card">>, <<"GetTaskRequest", "history_length">>,
     <<"ListTasksRequest", "page_size">>, <<"ListTasksRequest", "history_length">>,
     <<"ListTasksRequest", "include_artifacts">>}

\* What the tables of WireTypes and GrpcConvert say of every field.  The two
\* halves of the gRPC conversion mirror each other: what the writer sends with
\* unwrap_or_default the reader clears, which is every optional scalar that
\* protobuf has no unset for, and what protobuf can leave out but the crate
\* cannot be without the reader demands.
ASSUME TablesAssumption ==
    \A f \in Fields :
        LET rule == Rule(f[1], f[2])
            isScalar == rule.kind \in {"text", "int", "enum"}
            isMessage == rule.kind \in {"message", "union", "untagged"}
        IN  /\ \/ rule \in {Required(rule.kind), Optional(rule.kind), Sparse}
               \/ rule = Defaulted(rule.kind) /\ ~isMessage
            /\ rule.kind = "time" => rule.skips = "unset"
            /\ Listed(Zeroed, f[1], f[2]) <=>
                  rule.skips = "unset" /\ isScalar /\ f \notin ProtoOptional
            /\ Listed(Cleared, f[1], f[2]) <=> Listed(Zeroed, f[1], f[2])
            /\ Listed(Demanded, f[1], f[2]) => rule.skips = "nothing"
            /\ isMessage /\ rule.skips # "unset" => Listed(Demanded, f[1], f[2])

\* What the bindings cannot carry: JSON keeps milliseconds, and gRPC neither
\* tells an empty value from an unset one nor a whole number from a double.
Carried(bindings, type, field, v) ==
    LET rule == Rule(type, field)
        empty == /\ rule.kind \in {"text", "int", "enum"} /\ v = Zeros[rule.kind]
                 /\ rule.skips = "unset"
                 /\ <<type, field>> \notin ProtoOptional
    IN  CASE "json" \in bindings /\ v = "nanos" -> "millis"
          [] "grpc" \in bindings /\ empty -> "unset"
          [] "grpc" \in bindings /\ rule.kind = "json" -> ToDouble(v)
          [] OTHER -> v

\* Whatever way a document takes and however many hops it makes, it loses only
\* what a binding on its way cannot carry, and loses it once: no hop invents a
\* value, and neither their order nor their number matters.
OnlyKnownLosses ==
    \A p \in Parties : copy[p] # NoDocument =>
        copy[p].value = Carried(crossed[p], copy[p].type, copy[p].field, origin[p])

\* A signature over what its card was written with, if no binding changes that,
\* is good on every copy, whichever way it came and whoever has signed the card
\* since, for everyone who trusts its key, whatever other keys they trust: the
\* overlap of old and new keys verify_any_signature is there for.
SignatureOutlivesHops ==
    \A p \in Parties : copy[p] # NoDocument =>
        \A i \in DOMAIN copy[p].signatures :
            LET s == copy[p].signatures[i]
            IN  /\ [signature |-> s, value |-> origin[p]] \in Range(signed)
                /\ Carried(Bindings, copy[p].type, copy[p].field, origin[p]) = origin[p]
                => \A trusted \in SUBSET Keys :
                      s.key \in trusted => VerifyAnySignature(copy[p], trusted)

\* A card a program vouches for says what a key it trusts signed, unless it has
\* changed it since.
VouchedIsSigned ==
    \A p \in Parties : vouched[p] # {} =>
        \E i \in DOMAIN signed :
            /\ signed[i].signature.key \in vouched[p]
            /\ signed[i].value = copy[p].value
=============================================================================
