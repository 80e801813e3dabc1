----------------------- MODULE DocumentExchange_proofs -----------------------
(***************************************************************************)
(* The properties of DocumentExchange, for any number of programs, keys,   *)
(* hops, signings and edits, and any fields whose tables say what          *)
(* TablesAssumption names.                                                 *)
(*                                                                         *)
(* VouchedIsSigned: the invariant Inv follows the signatures and what they *)
(* were made over; canonical JSON tells any two values apart that a card   *)
(* may hold (WriteJsonInjective).                                          *)
(*                                                                         *)
(* TypeOK, OnlyKnownLosses, SignatureOutlivesHops: the invariant Travelled *)
(* follows what a document was written with.  It rests on what a single    *)
(* hop does over JSON (JsonHop) and over gRPC (GrpcHop), and on losses     *)
(* that neither repeat nor depend on their order (HopLoses).               *)
(***************************************************************************)
EXTENDS DocumentExchange, TLAPS

\* The two values another value can be taken for once it is on the wire.
Ambiguous == {"absent", "nanos"}

Signings == [signature : Signatures, value : Tokens]

Shapes ==
    /\ copy \in [Parties -> Documents \cup {NoDocument}]
    /\ vouched \in [Parties -> SUBSET Keys]
    /\ signed \in Seq(Signings)

CardsAreClear ==
    \A p \in Parties : copy[p] # NoDocument =>
        /\ <<copy[p].type, copy[p].field>> \in Fields
        /\ IsCard(copy[p].type) => copy[p].value \notin Ambiguous

\* What a signature was made over is what its payload says.
PayloadsAreFaithful ==
    \A j \in DOMAIN signed :
        LET payload == signed[j].signature.payload
        IN  /\ signed[j].value \notin Ambiguous
            /\ payload.written = WriteJson(Rule(payload.type, payload.field), signed[j].value)

\* No copy has a signature that no key made.
SignaturesAreMade ==
    \A p \in Parties : copy[p] # NoDocument =>
        \A i \in DOMAIN copy[p].signatures :
            \E j \in DOMAIN signed : signed[j].signature = copy[p].signatures[i]

VouchedIsHeld == \A p \in Parties : vouched[p] # {} => copy[p] # NoDocument

Inv == /\ Shapes
       /\ CardsAreClear
       /\ PayloadsAreFaithful
       /\ SignaturesAreMade
       /\ VouchedIsHeld
       /\ VouchedIsSigned

-----------------------------------------------------------------------------
\* Canonical JSON tells values apart, once the ambiguous ones are set aside.
LEMMA WriteJsonInjective ==
    ASSUME NEW rule, NEW v \in Tokens, NEW w \in Tokens,
           v \notin Ambiguous, w \notin Ambiguous,
           WriteJson(rule, v) = WriteJson(rule, w)
    PROVE  v = w
BY DEF WriteJson, Ambiguous

KindNames == {"text", "flag", "int", "enum", "time", "json", "list", "message", "union",
              "untagged"}

LEMMA KindsAreNamed == DOMAIN Zeros = KindNames
BY DEF Zeros, KindNames

\* A zero value is a token, and never an ambiguous one.
LEMMA ZerosAreClear ==
    ASSUME NEW kind \in DOMAIN Zeros
    PROVE  Zeros[kind] \in Tokens \ Ambiguous
<1>1. /\ Zeros["text"] = "" /\ Zeros["flag"] = "false" /\ Zeros["int"] = "zero"
      /\ Zeros["enum"] = "unspecified" /\ Zeros["list"] = "empty"
      /\ Zeros["json"] = "words" /\ Zeros["time"] = "none" /\ Zeros["message"] = "none"
      /\ Zeros["union"] = "none" /\ Zeros["untagged"] = "none"
  BY DEF Zeros
<1>2. Zeros[kind] \in {"", "false", "zero", "unspecified", "empty", "words", "none"}
  BY <1>1, KindsAreNamed DEF KindNames
<1> QED BY <1>2 DEF Ambiguous, Tokens

\* What a field may hold is a token, "nanos" for a timestamp alone.
LEMMA ValuesAreTokens ==
    ASSUME NEW rule, rule.kind \in DOMAIN Zeros
    PROVE  /\ Values(rule) \subseteq Tokens
           /\ rule.kind # "time" => Values(rule) \cap Ambiguous = {}
<1>1. /\ Kinds["text"] = {"", "words"} /\ Kinds["flag"] = {"false", "true"}
      /\ Kinds["int"] = {"zero", "number"} /\ Kinds["enum"] = {"unspecified", "known"}
      /\ Kinds["time"] = {"millis", "nanos"} /\ Kinds["list"] = {"empty", "items"}
      /\ Kinds["json"] = {"words", "whole", "float", "huge", "rounded"}
      /\ Kinds["message"] = {"present"} /\ Kinds["union"] = {"arm"}
      /\ Kinds["untagged"] = {"arm"}
  BY DEF Kinds
<1>2. /\ Kinds[rule.kind] \subseteq Tokens
      /\ rule.kind # "time" => Kinds[rule.kind] \cap {"absent", "nanos"} = {}
  <2>1. CASE rule.kind = "time"
    BY <1>1, <2>1, ZenonT(40) DEF Tokens
  <2>2. CASE rule.kind \in {"text", "flag", "int"}
    <3>1. Kinds[rule.kind] \in {{"", "words"}, {"false", "true"}, {"zero", "number"}}
      BY <1>1, <2>2
    <3> QED BY <2>2, <3>1 DEF Tokens
  <2>3. CASE rule.kind \in {"enum", "list"}
    <3>1. Kinds[rule.kind] \in {{"unspecified", "known"}, {"empty", "items"}}
      BY <1>1, <2>3
    <3> QED BY <2>3, <3>1 DEF Tokens
  <2>4. CASE rule.kind = "json"
    <3>1. Kinds[rule.kind] = {"words", "whole", "float", "huge", "rounded"}
      BY <1>1, <2>4
    <3> QED BY <2>4, <3>1 DEF Tokens
  <2>5. CASE rule.kind \in {"message", "union", "untagged"}
    <3>1. Kinds[rule.kind] \in {{"present"}, {"arm"}}
      BY <1>1, <2>5
    <3> QED BY <2>5, <3>1 DEF Tokens
  <2> QED BY <2>1, <2>2, <2>3, <2>4, <2>5, KindsAreNamed DEF KindNames
<1> QED BY <1>2 DEF Values, Ambiguous, Tokens

LEMMA ReadJsonIsClear ==
    ASSUME NEW rule, NEW w \in Tokens, rule.missing \in Tokens \ Ambiguous
    PROVE  /\ ReadJson(rule, w) \in Tokens
           /\ w # "nanos" => ReadJson(rule, w) \notin Ambiguous
<1>1. CASE w = "absent"
  <2>1. ReadJson(rule, w) = rule.missing
    BY <1>1 DEF ReadJson
  <2> QED BY <1>1, <2>1
<1>2. CASE w # "absent"
  <2>1. ReadJson(rule, w) \in {"refused", "arm", w}
    BY <1>2 DEF ReadJson
  <2> QED BY <1>2, <2>1 DEF Ambiguous, Tokens
<1> QED BY <1>1, <1>2

LEMMA AbsentIsClear ==
    ASSUME NEW type, NEW field, Rule(type, field).kind \in DOMAIN Zeros
    PROVE  Absent(type, field) \in Tokens \ Ambiguous
BY ZerosAreClear DEF Absent, Ambiguous, Tokens

LEMMA ReadPbIsClear ==
    ASSUME NEW type, NEW field, Rule(type, field).kind \in DOMAIN Zeros,
           NEW w \in Tokens
    PROVE  /\ ReadPb(type, field, w) \in Tokens
           /\ w # "nanos" => ReadPb(type, field, w) \notin Ambiguous
<1> DEFINE got == IF w = "absent" THEN Absent(type, field) ELSE w
<1>1. got \in Tokens /\ (w # "nanos" => got \notin Ambiguous)
  BY AbsentIsClear DEF Ambiguous
<1>2. ReadPb(type, field, w) \in {"refused", "unset", "unspecified", got}
  BY DEF ReadPb
<1> QED BY <1>1, <1>2 DEF Ambiguous, Tokens

LEMMA WritePbIsClear ==
    ASSUME NEW type, NEW field, Rule(type, field).kind \in DOMAIN Zeros,
           NEW v \in Tokens
    PROVE  /\ WritePb(type, field, v) \in Tokens
           /\ v \notin Ambiguous => WritePb(type, field, v) \notin Ambiguous
BY AbsentIsClear DEF WritePb, ToDouble, Ambiguous, Tokens

\* A hop makes a token of a token and no ambiguous value of a clear one.
LEMMA HopsAreClear ==
    ASSUME NEW binding \in Bindings, NEW type, NEW field, <<type, field>> \in Fields,
           NEW v \in Tokens
    PROVE  /\ Over(binding, type, field, v) \in Tokens
           /\ v \notin Ambiguous => Over(binding, type, field, v) \notin Ambiguous
<1> DEFINE rule == Rule(type, field)
<1>1. /\ rule.kind \in DOMAIN Zeros
      /\ rule.missing \in Tokens \ Ambiguous
  BY ExchangeAssumption DEF Ambiguous
<1>2. CASE binding = "json"
  <2>1. WriteJson(rule, v) \in Tokens /\ WriteJson(rule, v) # "nanos"
    BY DEF WriteJson, Tokens
  <2> QED BY <1>1, <1>2, <2>1, ReadJsonIsClear DEF Over
<1>3. CASE binding # "json"
  <2>1. /\ WritePb(type, field, v) \in Tokens
        /\ v \notin Ambiguous => WritePb(type, field, v) \notin Ambiguous
    BY <1>1, WritePbIsClear
  <2>2. /\ ReadPb(type, field, WritePb(type, field, v)) \in Tokens
        /\ v \notin Ambiguous =>
              ReadPb(type, field, WritePb(type, field, v)) \notin Ambiguous
    BY <1>1, <2>1, ReadPbIsClear DEF Ambiguous
  <2> QED BY <1>3, <2>2 DEF Over
<1> QED BY <1>2, <1>3

-----------------------------------------------------------------------------
\* A signature is typed, and its payload says what the card says.
LEMMA SigningIsFaithful ==
    ASSUME NEW card \in Documents, NEW key \in Keys
    PROVE  /\ SignAgentCard(card, key) \in Signatures
           /\ SignAgentCard(card, key).key = key
           /\ SignAgentCard(card, key).payload = CanonicalJson(card)
<1>1. WriteJson(Rule(card.type, card.field), card.value) \in Tokens
  BY DEF WriteJson, Documents, Tokens
<1>2. /\ card.type \in DOMAIN Types
      /\ card.field \in STRING
      /\ AlgorithmOf[key] \in STRING
  BY ExchangeAssumption DEF Documents
<1> QED BY <1>1, <1>2 DEF SignAgentCard, CanonicalJson, Signatures

\* A signature that verifies over a copy of a held card was made over the value
\* that copy has.
LEMMA VerifiedIsSigned ==
    ASSUME Inv, NEW p \in Parties, copy[p] # NoDocument,
           NEW v \in Tokens, v \notin Ambiguous,
           NEW i \in DOMAIN copy[p].signatures, NEW key \in Keys,
           VerifyAgentCardSignature([copy[p] EXCEPT !.value = v],
                                    copy[p].signatures[i], key)
    PROVE  \E j \in DOMAIN signed : signed[j].signature.key = key /\ signed[j].value = v
<1> DEFINE s == copy[p].signatures[i]
           rule == Rule(copy[p].type, copy[p].field)
<1>1. copy[p] \in Documents
  BY DEF Inv, Shapes
<1>2. PICK j \in DOMAIN signed : signed[j].signature = s
  BY DEF Inv, SignaturesAreMade
<1>3. /\ s.key = key
      /\ s.payload = [type |-> copy[p].type, field |-> copy[p].field,
                      written |-> WriteJson(rule, v), signatures |-> 0]
  BY <1>1 DEF VerifyAgentCardSignature, CanonicalJson, Documents
<1>4. /\ signed[j].value \in Tokens /\ signed[j].value \notin Ambiguous
      /\ s.payload.written = WriteJson(Rule(s.payload.type, s.payload.field), signed[j].value)
  <2>1. signed[j] \in Signings
    BY <1>2 DEF Inv, Shapes
  <2> QED BY <1>2, <2>1 DEF Inv, PayloadsAreFaithful, Signings
<1>5. WriteJson(rule, v) = WriteJson(rule, signed[j].value)
  BY <1>3, <1>4
<1>6. signed[j].value = v
  BY <1>4, <1>5, WriteJsonInjective
<1> QED BY <1>2, <1>3, <1>6

\* A document that arrives brings no new signature, and its keys, if any, are
\* vouched for by one already made.
LEMMA ArriveKeepsInv ==
    ASSUME Inv, NEW p \in Parties, NEW q \in Parties, copy[p] # NoDocument,
           NEW binding, NEW v \in Tokens, NEW keys \in SUBSET Keys,
           IsCard(copy[p].type) => v \notin Ambiguous,
           keys # {} => \E j \in DOMAIN signed :
                           signed[j].signature.key \in keys /\ signed[j].value = v,
           Arrive(p, q, binding, v, keys)
    PROVE  Inv'
<1> DEFINE d == [copy[p] EXCEPT !.value = v]
<1>1. copy[p] \in Documents
  BY DEF Inv, Shapes
<1>2. /\ d \in Documents /\ d # NoDocument
      /\ d.type = copy[p].type /\ d.field = copy[p].field
      /\ d.value = v /\ d.signatures = copy[p].signatures
  BY <1>1, ExchangeAssumption DEF Documents
<1>3. /\ copy' = [copy EXCEPT ![q] = d]
      /\ vouched' = [vouched EXCEPT ![q] = keys]
      /\ signed' = signed
  BY DEF Arrive
<1> HIDE DEF d
<1>4. Shapes'
  BY <1>2, <1>3 DEF Inv, Shapes
<1>5. \A r \in Parties : /\ copy'[r] = IF r = q THEN d ELSE copy[r]
                         /\ vouched'[r] = IF r = q THEN keys ELSE vouched[r]
  BY <1>3 DEF Inv, Shapes
<1>6. CardsAreClear'
  BY <1>2, <1>5 DEF Inv, CardsAreClear
<1>7. PayloadsAreFaithful'
  BY <1>3 DEF Inv, PayloadsAreFaithful
<1>8. SignaturesAreMade'
  BY <1>2, <1>3, <1>5 DEF Inv, SignaturesAreMade
<1>9. VouchedIsHeld'
  BY <1>2, <1>5 DEF Inv, VouchedIsHeld
<1>10. VouchedIsSigned'
  BY <1>2, <1>3, <1>5 DEF Inv, VouchedIsSigned
<1> QED BY <1>4, <1>6, <1>7, <1>8, <1>9, <1>10 DEF Inv

\* A document that p writes, reads or edits itself, and does not vouch for.
LEMMA ReplaceKeepsInv ==
    ASSUME Inv, NEW p \in Parties, NEW d \in Documents,
           <<d.type, d.field>> \in Fields,
           IsCard(d.type) => d.value \notin Ambiguous,
           \A i \in DOMAIN d.signatures :
               \E j \in DOMAIN signed : signed[j].signature = d.signatures[i],
           copy' = [copy EXCEPT ![p] = d],
           vouched' \in [Parties -> SUBSET Keys],
           vouched'[p] = {},
           \A r \in Parties \ {p} : vouched'[r] = vouched[r],
           signed' = signed
    PROVE  Inv'
<1>1. d # NoDocument
  BY ExchangeAssumption
<1>2. Shapes'
  BY DEF Inv, Shapes
<1>3. \A r \in Parties : copy'[r] = IF r = p THEN d ELSE copy[r]
  BY DEF Inv, Shapes
<1>4. CardsAreClear'
  BY <1>3 DEF Inv, CardsAreClear
<1>5. PayloadsAreFaithful'
  BY DEF Inv, PayloadsAreFaithful
<1>6. SignaturesAreMade'
  BY <1>3 DEF Inv, SignaturesAreMade
<1>7. VouchedIsHeld'
  BY <1>1, <1>3 DEF Inv, VouchedIsHeld
<1>8. VouchedIsSigned'
  BY <1>3 DEF Inv, VouchedIsSigned
<1> QED BY <1>2, <1>4, <1>5, <1>6, <1>7, <1>8 DEF Inv

-----------------------------------------------------------------------------
LEMMA InitEstablishesInv == ASSUME Init PROVE Inv
<1>1. Shapes
  BY DEF Init, Shapes
<1>2. CardsAreClear /\ SignaturesAreMade
  BY DEF Init, CardsAreClear, SignaturesAreMade
<1>3. PayloadsAreFaithful /\ VouchedIsHeld /\ VouchedIsSigned
  BY DEF Init, PayloadsAreFaithful, VouchedIsHeld, VouchedIsSigned
<1> QED BY <1>1, <1>2, <1>3 DEF Inv

\* A new document is typed, whatever value it is given.
LEMMA NewDocument ==
    ASSUME NEW f \in Fields, NEW v \in Tokens
    PROVE  LET d == Document(f[1], f[2], v)
           IN  /\ d \in Documents
               /\ d.type = f[1] /\ d.field = f[2] /\ d.value = v
               /\ <<d.type, d.field>> \in Fields
               /\ d.signatures = << >>
<1>1. /\ f[1] \in DOMAIN Types /\ f[2] \in STRING
      /\ f = <<f[1], f[2]>>
  BY ExchangeAssumption
<1> QED BY <1>1 DEF Document, Documents

LEMMA WriteKeepsInv ==
    ASSUME Inv, NEW p \in Parties, Write(p) PROVE Inv'
<1>1. PICK f \in Fields : \E v \in Values(Rule(f[1], f[2])) :
          copy' = [copy EXCEPT ![p] = Document(f[1], f[2], v)]
  BY DEF Write
<1>2. PICK v \in Values(Rule(f[1], f[2])) :
          copy' = [copy EXCEPT ![p] = Document(f[1], f[2], v)]
  BY <1>1
<1>3. /\ Rule(f[1], f[2]).kind \in DOMAIN Zeros
      /\ IsCard(f[1]) => Rule(f[1], f[2]).kind # "time"
  BY ExchangeAssumption
<1>4. v \in Tokens /\ (IsCard(f[1]) => v \notin Ambiguous)
  BY <1>2, <1>3, ValuesAreTokens
<1>5. vouched'[p] = {} /\ vouched' = vouched /\ signed' = signed
  BY DEF Write, Nowhere, Inv, VouchedIsHeld, Shapes
<1> DEFINE d == Document(f[1], f[2], v)
<1>6. /\ d \in Documents
      /\ d.type = f[1] /\ d.value = v
      /\ <<d.type, d.field>> \in Fields
      /\ d.signatures = << >>
  BY <1>4, NewDocument
<1>7. copy' = [copy EXCEPT ![p] = d]
  BY <1>2
<1>8. DOMAIN d.signatures = {}
  BY <1>6
<1> HIDE DEF d
<1>9. vouched' \in [Parties -> SUBSET Keys] /\ vouched'[p] = {} /\ signed' = signed
  BY <1>5 DEF Inv, Shapes
<1> QED BY <1>4, <1>5, <1>6, <1>7, <1>8, <1>9, ReplaceKeepsInv

LEMMA ReceiveForeignKeepsInv ==
    ASSUME Inv, NEW p \in Parties, ReceiveForeign(p) PROVE Inv'
<1>1. PICK f \in Fields, b \in Bindings :
          \E w \in ForeignWire(b, Rule(f[1], f[2]).kind) :
             copy' = [copy EXCEPT ![p] = Document(f[1], f[2],
                        IF b = "json" THEN ReadJson(Rule(f[1], f[2]), w)
                                      ELSE ReadPb(f[1], f[2], w))]
  BY DEF ReceiveForeign
<1>2. PICK w \in ForeignWire(b, Rule(f[1], f[2]).kind) :
          copy' = [copy EXCEPT ![p] = Document(f[1], f[2],
                     IF b = "json" THEN ReadJson(Rule(f[1], f[2]), w)
                                   ELSE ReadPb(f[1], f[2], w))]
  BY <1>1
<1> DEFINE v == IF b = "json" THEN ReadJson(Rule(f[1], f[2]), w) ELSE ReadPb(f[1], f[2], w)
<1>3. w \in Tokens /\ w # "nanos"
  BY DEF ForeignWire, Tokens
<1>4. /\ Rule(f[1], f[2]).kind \in DOMAIN Zeros
      /\ Rule(f[1], f[2]).missing \in Tokens \ Ambiguous
  BY ExchangeAssumption DEF Ambiguous
<1>5. v \in Tokens /\ v \notin Ambiguous
  BY <1>3, <1>4, ReadJsonIsClear, ReadPbIsClear
<1>6. vouched'[p] = {} /\ vouched' = vouched /\ signed' = signed
  BY DEF ReceiveForeign, Nowhere, Inv, VouchedIsHeld, Shapes
<1> HIDE DEF v
<1>7. copy' = [copy EXCEPT ![p] = Document(f[1], f[2], v)]
  BY <1>2 DEF v
<1> DEFINE d == Document(f[1], f[2], v)
<1>8. /\ d \in Documents
      /\ d.type = f[1] /\ d.value = v
      /\ <<d.type, d.field>> \in Fields
      /\ d.signatures = << >>
  BY <1>5, NewDocument
<1>9. copy' = [copy EXCEPT ![p] = d]
  BY <1>7
<1>10. DOMAIN d.signatures = {}
  BY <1>8
<1> HIDE DEF d
<1>11. vouched' \in [Parties -> SUBSET Keys] /\ vouched'[p] = {} /\ signed' = signed
  BY <1>6 DEF Inv, Shapes
<1> QED BY <1>5, <1>6, <1>8, <1>9, <1>10, <1>11, ReplaceKeepsInv

LEMMA CarryKeepsInv ==
    ASSUME Inv, NEW p \in Parties, NEW q \in Parties, NEW b \in Bindings, Carry(p, q, b)
    PROVE  Inv'
<1> DEFINE v == Over(b, copy[p].type, copy[p].field, copy[p].value)
<1>1. copy[p] # NoDocument /\ Arrive(p, q, b, v, {})
  BY DEF Carry
<1>2. copy[p].value \in Tokens /\ <<copy[p].type, copy[p].field>> \in Fields
  BY <1>1 DEF Inv, Shapes, CardsAreClear, Documents
<1>3. v \in Tokens /\ (IsCard(copy[p].type) => v \notin Ambiguous)
  BY <1>1, <1>2, HopsAreClear DEF Inv, CardsAreClear
<1> HIDE DEF v
<1> QED BY <1>1, <1>3, ArriveKeepsInv

LEMMA DiscoverKeepsInv ==
    ASSUME Inv, NEW p \in Parties, NEW q \in Parties, NEW trusted \in SUBSET Keys,
           DiscoverAndVerify(p, q, trusted)
    PROVE  Inv'
<1> DEFINE v == Over("json", copy[p].type, copy[p].field, copy[p].value)
<1>1. /\ copy[p] # NoDocument /\ IsCard(copy[p].type)
      /\ VerifyAnySignature([copy[p] EXCEPT !.value = v], trusted)
      /\ Arrive(p, q, "json", v, trusted)
  BY DEF DiscoverAndVerify
<1>2. copy[p] \in Documents /\ <<copy[p].type, copy[p].field>> \in Fields
  BY <1>1 DEF Inv, Shapes, CardsAreClear
<1>3. v \in Tokens /\ v \notin Ambiguous
  BY <1>1, <1>2, HopsAreClear DEF Inv, CardsAreClear, Documents, Bindings
<1> HIDE DEF v
<1>4. [copy[p] EXCEPT !.value = v].signatures = copy[p].signatures
  BY <1>2 DEF Documents
<1>5. PICK i \in DOMAIN copy[p].signatures, key \in trusted :
          VerifyAgentCardSignature([copy[p] EXCEPT !.value = v],
                                   copy[p].signatures[i], key)
  BY <1>1, <1>4 DEF VerifyAnySignature
<1>6. \E j \in DOMAIN signed : signed[j].signature.key = key /\ signed[j].value = v
  BY <1>1, <1>3, <1>5, VerifiedIsSigned
<1>7. \E j \in DOMAIN signed :
          signed[j].signature.key \in trusted /\ signed[j].value = v
  BY <1>6
<1> QED BY <1>1, <1>3, <1>7, ArriveKeepsInv

LEMMA VerifyKeepsInv ==
    ASSUME Inv, NEW p \in Parties, NEW key \in Keys, VerifySignature(p, key)
    PROVE  Inv'
<1>1. /\ copy[p] # NoDocument /\ IsCard(copy[p].type)
      /\ vouched' = [vouched EXCEPT ![p] = {key}]
      /\ copy' = copy /\ signed' = signed
  BY DEF VerifySignature
<1>2. PICK i \in DOMAIN copy[p].signatures :
          VerifyAgentCardSignature(copy[p], copy[p].signatures[i], key)
  BY DEF VerifySignature
<1>3. copy[p] \in Documents
  BY <1>1 DEF Inv, Shapes
<1>4. /\ copy[p].value \in Tokens /\ copy[p].value \notin Ambiguous
      /\ copy[p] = [copy[p] EXCEPT !.value = copy[p].value]
  BY <1>1, <1>3 DEF Inv, CardsAreClear, Documents
<1>5. PICK j \in DOMAIN signed :
          signed[j].signature.key = key /\ signed[j].value = copy[p].value
  BY <1>1, <1>2, <1>4, VerifiedIsSigned
<1>6. Shapes' /\ CardsAreClear' /\ PayloadsAreFaithful' /\ SignaturesAreMade'
  BY <1>1 DEF Inv, Shapes, CardsAreClear, PayloadsAreFaithful, SignaturesAreMade
<1>7. \A r \in Parties : vouched'[r] = IF r = p THEN {key} ELSE vouched[r]
  BY <1>1 DEF Inv, Shapes
<1>8. VouchedIsHeld'
  BY <1>1, <1>7 DEF Inv, VouchedIsHeld
<1>9. VouchedIsSigned'
  BY <1>1, <1>5, <1>7 DEF Inv, VouchedIsSigned
<1> QED BY <1>6, <1>8, <1>9 DEF Inv

\* A new signature is over the value the card has now; those there stay.
LEMMA SignKeepsInv ==
    ASSUME Inv, NEW p \in Parties, NEW key \in Keys, Sign(p, key)
    PROVE  Inv'
<1> DEFINE s == SignAgentCard(copy[p], key)
           d == Signed(copy[p], key)
           made == [signature |-> s, value |-> copy[p].value]
<1>1. /\ copy[p] # NoDocument /\ Signable(copy[p])
      /\ copy' = [copy EXCEPT ![p] = d]
      /\ signed' = Append(signed, made)
      /\ vouched' = vouched
  BY DEF Sign
<1>2. copy[p] \in Documents
  BY <1>1 DEF Inv, Shapes
<1>3. /\ s \in Signatures
      /\ s.payload = CanonicalJson(copy[p])
  BY <1>2, SigningIsFaithful
<1>4. /\ <<copy[p].type, copy[p].field>> \in Fields
      /\ copy[p].value \in Tokens /\ copy[p].value \notin Ambiguous
  <2>1. <<copy[p].type, copy[p].field>> \in {f \in Fields : IsCard(f[1])}
    BY <1>1, ExchangeAssumption DEF Signable
  <2>2. <<copy[p].type, copy[p].field>> \in Fields /\ IsCard(copy[p].type)
    BY <2>1
  <2> QED BY <1>1, <1>2, <2>2 DEF Inv, CardsAreClear, Documents
<1>5. /\ d.signatures = Append(copy[p].signatures, s)
      /\ d.type = copy[p].type /\ d.field = copy[p].field /\ d.value = copy[p].value
      /\ d \in Documents /\ d # NoDocument
  <2>1. copy[p].signatures \in Seq(Signatures)
    BY <1>2 DEF Documents
  <2>2. Append(copy[p].signatures, s) \in Seq(Signatures)
    BY <1>3, <2>1
  <2>3. d = [copy[p] EXCEPT !.signatures = Append(@, s)]
    BY DEF Signed
  <2> HIDE DEF s, d
  <2>4. /\ d.signatures = Append(copy[p].signatures, s)
        /\ d.type = copy[p].type /\ d.field = copy[p].field /\ d.value = copy[p].value
        /\ d \in Documents
    BY <1>2, <2>2, <2>3 DEF Documents
  <2> QED BY <2>4, ExchangeAssumption
<1>6. made \in Signings /\ made.signature = s /\ made.value = copy[p].value
  BY <1>3, <1>4 DEF Signings
<1>7. /\ s.payload.written = WriteJson(Rule(s.payload.type, s.payload.field), copy[p].value)
  BY <1>3 DEF CanonicalJson
<1> HIDE DEF s, d, made
<1>8. /\ signed' \in Seq(Signings)
      /\ Len(signed') = Len(signed) + 1
      /\ \A j \in DOMAIN signed : j \in DOMAIN signed' /\ signed'[j] = signed[j]
      /\ signed'[Len(signed')] = made /\ Len(signed') \in DOMAIN signed'
      /\ \A j \in DOMAIN signed' : j \in DOMAIN signed \/ j = Len(signed')
  <2>1. signed \in Seq(Signings)
    BY DEF Inv, Shapes
  <2>2. signed' \in Seq(Signings) /\ Len(signed') = Len(signed) + 1
    BY <1>1, <1>6, <2>1
  <2>3. /\ DOMAIN signed = 1 .. Len(signed) /\ Len(signed) \in Nat
        /\ DOMAIN signed' = 1 .. Len(signed) + 1
    BY <2>1, <2>2
  <2>4. /\ \A j \in 1 .. Len(signed) : signed'[j] = signed[j]
        /\ signed'[Len(signed) + 1] = made
    BY <1>1, <1>6, <2>1
  <2> QED BY <2>2, <2>3, <2>4
<1>9. \A r \in Parties : copy'[r] = IF r = p THEN d ELSE copy[r]
  BY <1>1 DEF Inv, Shapes
<1>10. Shapes'
  BY <1>1, <1>5, <1>8 DEF Inv, Shapes
<1>11. CardsAreClear'
  BY <1>5, <1>9, <1>4 DEF Inv, CardsAreClear
<1>12. PayloadsAreFaithful'
  BY <1>4, <1>6, <1>7, <1>8 DEF Inv, PayloadsAreFaithful
<1>13. SignaturesAreMade'
  <2> SUFFICES ASSUME NEW r \in Parties, copy'[r] # NoDocument,
                      NEW i \in DOMAIN copy'[r].signatures
               PROVE  \E j \in DOMAIN signed' : signed'[j].signature = copy'[r].signatures[i]
    BY DEF SignaturesAreMade
  <2>1. CASE r # p
    BY <1>8, <1>9, <2>1 DEF Inv, SignaturesAreMade
  <2>2. CASE r = p
    <3>1. copy'[r].signatures = Append(copy[p].signatures, s)
      BY <1>5, <1>9, <2>2
    <3>2. copy[p].signatures \in Seq(Signatures)
      BY <1>2 DEF Documents
    <3>3. CASE i \in DOMAIN copy[p].signatures
      <4>1. copy'[r].signatures[i] = copy[p].signatures[i]
        BY <1>3, <3>1, <3>2, <3>3
      <4> QED BY <1>1, <1>8, <3>3, <4>1 DEF Inv, SignaturesAreMade
    <3>4. CASE i \notin DOMAIN copy[p].signatures
      <4>1. copy'[r].signatures[i] = s
        BY <1>3, <3>1, <3>2, <3>4
      <4> QED BY <1>6, <1>8, <4>1
    <3> QED BY <3>3, <3>4
  <2> QED BY <2>1, <2>2
<1>14. VouchedIsHeld'
  BY <1>1, <1>5, <1>9 DEF Inv, VouchedIsHeld
<1>15. VouchedIsSigned'
  <2> SUFFICES ASSUME NEW r \in Parties, vouched'[r] # {}
               PROVE  \E j \in DOMAIN signed' :
                         /\ signed'[j].signature.key \in vouched'[r]
                         /\ signed'[j].value = copy'[r].value
    BY DEF VouchedIsSigned
  <2>1. PICK j \in DOMAIN signed : /\ signed[j].signature.key \in vouched[r]
                                   /\ signed[j].value = copy[r].value
    BY <1>1 DEF Inv, VouchedIsSigned
  <2>2. copy'[r].value = copy[r].value
    BY <1>5, <1>9
  <2> QED BY <1>1, <1>8, <2>1, <2>2
<1> QED BY <1>10, <1>11, <1>12, <1>13, <1>14, <1>15 DEF Inv

LEMMA EditKeepsInv ==
    ASSUME Inv, NEW p \in Parties, Edit(p)
    PROVE  Inv'
<1> DEFINE rule == Rule(copy[p].type, copy[p].field)
<1>1. /\ copy[p] # NoDocument /\ Signable(copy[p])
      /\ vouched' = [vouched EXCEPT ![p] = {}]
      /\ signed' = signed
  BY DEF Edit
<1>2. PICK v \in Values(rule) : copy' = [copy EXCEPT ![p].value = v]
  BY DEF Edit
<1>3. <<copy[p].type, copy[p].field>> \in Fields /\ IsCard(copy[p].type)
  <2>1. <<copy[p].type, copy[p].field>> \in {f \in Fields : IsCard(f[1])}
    BY <1>1, ExchangeAssumption DEF Signable
  <2> QED BY <2>1
<1>4. rule.kind \in DOMAIN Zeros /\ rule.kind # "time"
  BY <1>3, ExchangeAssumption
<1>5. v \in Tokens /\ v \notin Ambiguous
  <2> HIDE DEF rule
  <2> QED BY <1>2, <1>4, ValuesAreTokens
<1> DEFINE d == [copy[p] EXCEPT !.value = v]
<1>6. copy[p] \in Documents
  BY <1>1 DEF Inv, Shapes
<1>7. /\ d \in Documents
      /\ d.type = copy[p].type /\ d.field = copy[p].field /\ d.value = v
      /\ d.signatures = copy[p].signatures
  BY <1>5, <1>6 DEF Documents
<1>8. copy' = [copy EXCEPT ![p] = d]
  BY <1>2 DEF Inv, Shapes
<1>9. \A i \in DOMAIN d.signatures :
          \E j \in DOMAIN signed : signed[j].signature = d.signatures[i]
  BY <1>1, <1>7 DEF Inv, SignaturesAreMade
<1>10. /\ vouched' \in [Parties -> SUBSET Keys]
       /\ vouched'[p] = {}
       /\ \A r \in Parties \ {p} : vouched'[r] = vouched[r]
  BY <1>1 DEF Inv, Shapes
<1>11. <<d.type, d.field>> \in Fields
  BY <1>3, <1>7
<1> HIDE DEF d
<1> QED BY <1>1, <1>5, <1>7, <1>8, <1>9, <1>10, <1>11, ReplaceKeepsInv

LEMMA NextKeepsInv == ASSUME Inv, [Next]_vars PROVE Inv'
<1>1. ASSUME NEW p \in Parties, Write(p) PROVE Inv'
  BY <1>1, WriteKeepsInv
<1>2. ASSUME NEW p \in Parties, ReceiveForeign(p) PROVE Inv'
  BY <1>2, ReceiveForeignKeepsInv
<1>3. ASSUME NEW p \in Parties, NEW q \in Parties, NEW b \in Bindings, Carry(p, q, b)
      PROVE  Inv'
  BY <1>3, CarryKeepsInv
<1>4. ASSUME NEW p \in Parties, NEW q \in Parties, NEW trusted \in SUBSET Keys,
             DiscoverAndVerify(p, q, trusted)
      PROVE  Inv'
  BY <1>4, DiscoverKeepsInv
<1>5. ASSUME NEW p \in Parties, NEW key \in Keys, VerifySignature(p, key) \/ Sign(p, key)
      PROVE  Inv'
  BY <1>5, VerifyKeepsInv, SignKeepsInv
<1>6. ASSUME NEW p \in Parties, Edit(p) PROVE Inv'
  BY <1>6, EditKeepsInv
<1>7. CASE UNCHANGED vars
  BY <1>7 DEF vars, Inv, Shapes, CardsAreClear, PayloadsAreFaithful, SignaturesAreMade,
              VouchedIsHeld, VouchedIsSigned
<1> QED BY <1>1, <1>2, <1>3, <1>4, <1>5, <1>6, <1>7 DEF Next

\* A card a program vouches for says what a key it trusts signed, unless the
\* program changed it since (discover_and_verify, verify_agent_card_signature):
\* for every number of programs, keys, hops, signings and edits.
THEOREM VouchedIsAlwaysSigned == Spec => []VouchedIsSigned
<1>1. Inv => VouchedIsSigned
  BY DEF Inv
<1> QED BY InitEstablishesInv, NextKeepsInv, <1>1, PTL DEF Spec

-----------------------------------------------------------------------------
(***************************************************************************)
(* What a document loses on its way.  Travelled says of every copy what it *)
(* was written with and what of that the bindings it crossed could carry;  *)
(* its signatures are for the field it is set apart by.                    *)
(***************************************************************************)
Own(document, s) ==
    /\ s.key \in Keys /\ s.alg = AlgorithmOf[s.key]
    /\ s.payload.type = document.type /\ s.payload.field = document.field
    /\ s.payload.signatures = 0

\* A document that was written with o, has crossed the bindings c, and has at
\* most n signatures.
Fits(document, o, c, n) ==
    /\ <<document.type, document.field>> \in Fields
    /\ o \in Values(Rule(document.type, document.field))
    /\ c \in SUBSET Bindings
    /\ document.value = Carried(c, document.type, document.field, o)
    /\ Len(document.signatures) <= n
    /\ \A i \in DOMAIN document.signatures : Own(document, document.signatures[i])

Histories ==
    /\ origin = [p \in Parties |-> origin[p]]
    /\ crossed \in [Parties -> SUBSET Bindings]
    /\ edits \in 0 .. MaxEdits
    /\ Len(signed) <= MaxSignings

Travelled ==
    \A p \in Parties :
        IF copy[p] = NoDocument THEN origin[p] = "none" /\ crossed[p] = {}
        ELSE Fits(copy[p], origin[p], crossed[p], Len(signed))

-----------------------------------------------------------------------------
\* What Zeros and Kinds say of each kind.
LEMMA ZeroOfKind ==
    /\ Zeros["text"] = "" /\ Zeros["flag"] = "false" /\ Zeros["int"] = "zero"
    /\ Zeros["enum"] = "unspecified" /\ Zeros["list"] = "empty"
    /\ Zeros["json"] = "words" /\ Zeros["time"] = "none" /\ Zeros["message"] = "none"
    /\ Zeros["union"] = "none" /\ Zeros["untagged"] = "none"
BY DEF Zeros

LEMMA KindHolds ==
    /\ Kinds["text"] = {"", "words"} /\ Kinds["flag"] = {"false", "true"}
    /\ Kinds["int"] = {"zero", "number"} /\ Kinds["enum"] = {"unspecified", "known"}
    /\ Kinds["time"] = {"millis", "nanos"} /\ Kinds["list"] = {"empty", "items"}
    /\ Kinds["json"] = {"words", "whole", "float", "huge", "rounded"}
    /\ Kinds["message"] = {"present"} /\ Kinds["union"] = {"arm"}
    /\ Kinds["untagged"] = {"arm"}
BY DEF Kinds

\* The ways a field may be declared.
LEMMA Declared ==
    ASSUME NEW type, NEW field, <<type, field>> \in Fields
    PROVE  LET rule == Rule(type, field)
           IN  /\ rule.kind \in KindNames
               /\ \/ rule.skips = "nothing" /\ rule.missing = "refused"
                  \/ /\ rule.skips = "nothing" /\ rule.missing = Zeros[rule.kind]
                     /\ rule.kind \notin {"message", "union", "untagged", "time"}
                  \/ rule.skips = "unset" /\ rule.missing = "unset"
                  \/ /\ rule.skips = "empty" /\ rule.missing = "empty"
                     /\ rule.kind = "list"
               /\ rule.kind = "time" => rule.skips = "unset"
               /\ Listed(Zeroed, type, field) <=>
                     /\ rule.skips = "unset" /\ rule.kind \in {"text", "int", "enum"}
                     /\ <<type, field>> \notin ProtoOptional
               /\ Listed(Cleared, type, field) <=> Listed(Zeroed, type, field)
               /\ Listed(Demanded, type, field) => rule.skips = "nothing"
               /\ rule.kind \in {"message", "union", "untagged"} /\ rule.skips # "unset" =>
                     Listed(Demanded, type, field)
<1> DEFINE f == <<type, field>>
           rule == Rule(type, field)
<1>1. f \in Fields /\ f[1] = type /\ f[2] = field
  OBVIOUS
<1>2. rule.kind \in KindNames
  <2>1. Rule(f[1], f[2]).kind \in DOMAIN Zeros
    BY <1>1, ExchangeAssumption
  <2> QED BY <1>1, <2>1, KindsAreNamed
<1>3. /\ \/ rule \in {Required(rule.kind), Optional(rule.kind), Sparse}
         \/ rule = Defaulted(rule.kind) /\ rule.kind \notin {"message", "union", "untagged"}
      /\ rule.kind = "time" => rule.skips = "unset"
      /\ Listed(Zeroed, type, field) <=>
            /\ rule.skips = "unset" /\ rule.kind \in {"text", "int", "enum"}
            /\ f \notin ProtoOptional
      /\ Listed(Cleared, type, field) <=> Listed(Zeroed, type, field)
      /\ Listed(Demanded, type, field) => rule.skips = "nothing"
      /\ rule.kind \in {"message", "union", "untagged"} /\ rule.skips # "unset" =>
            Listed(Demanded, type, field)
  <2>1. Rule(f[1], f[2]) = rule
    BY <1>1
  <2> HIDE DEF f, rule
  <2> QED BY <1>1, <2>1, TablesAssumption
<1> HIDE DEF rule
<1>4. \/ rule.skips = "nothing" /\ rule.missing = "refused"
      \/ /\ rule.skips = "nothing" /\ rule.missing = Zeros[rule.kind]
         /\ rule.kind \notin {"message", "union", "untagged"}
      \/ rule.skips = "unset" /\ rule.missing = "unset"
      \/ rule.skips = "empty" /\ rule.missing = "empty" /\ rule.kind = "list"
  <2>1. CASE rule = Required(rule.kind)
    BY <2>1 DEF Required
  <2>2. CASE rule = Optional(rule.kind)
    BY <2>2 DEF Optional
  <2>3. CASE rule = Sparse
    BY <2>3 DEF Sparse
  <2>4. CASE rule = Defaulted(rule.kind) /\ rule.kind \notin {"message", "union", "untagged"}
    BY <2>4 DEF Defaulted
  <2> QED BY <1>3, <2>1, <2>2, <2>3, <2>4
<1>5. rule.skips = "unset" => rule.skips # "nothing"
  OBVIOUS
<1> QED BY <1>2, <1>3, <1>4, <1>5 DEF rule

\* What a value tells of the field that holds it.
LEMMA HeldTells ==
    ASSUME NEW type, NEW field, <<type, field>> \in Fields,
           NEW v \in Values(Rule(type, field))
    PROVE  /\ v \notin {"nothing", "absent", "refused", "newer", "invalid", "several", "none"}
           /\ v = "unset" => Rule(type, field).skips = "unset"
           /\ v \in {"millis", "nanos"} => Rule(type, field).kind = "time"
           /\ v = "empty" => Rule(type, field).kind = "list"
<1> DEFINE rule == Rule(type, field)
<1>1. rule.kind \in KindNames
  BY Declared
<1> HIDE DEF rule
<1>2. CASE v = "unset" /\ v \notin Kinds[rule.kind]
  BY <1>2 DEF Values, rule
<1>3. CASE v \in Kinds[rule.kind]
  <2>1. CASE rule.kind \in {"text", "flag", "int", "enum"}
    BY <1>3, <2>1, KindHolds, ZenonT(40) DEF rule
  <2>2. CASE rule.kind \in {"time", "list", "json"}
    BY <1>3, <2>2, KindHolds DEF rule
  <2>3. CASE rule.kind \in {"message", "union", "untagged"}
    BY <1>3, <2>3, KindHolds DEF rule
  <2> QED BY <1>1, <2>1, <2>2, <2>3 DEF KindNames
<1> QED BY <1>2, <1>3 DEF Values, rule

\* One hop over JSON: only a timestamp changes.
LEMMA JsonHop ==
    ASSUME NEW type, NEW field, <<type, field>> \in Fields,
           NEW v \in Values(Rule(type, field))
    PROVE  Over("json", type, field, v) = IF v = "nanos" THEN "millis" ELSE v
<1> DEFINE rule == Rule(type, field)
<1>1. Over("json", type, field, v) = ReadJson(rule, WriteJson(rule, v))
  BY DEF Over
<1> HIDE DEF rule
<1>2. CASE v = rule.skips
  <2>1. WriteJson(rule, v) = "absent"
    BY <1>2 DEF WriteJson
  <2>2. ReadJson(rule, "absent") = rule.missing
    BY DEF ReadJson
  <2>3. rule.missing = v /\ v # "nanos"
    BY <1>2, Declared, HeldTells DEF rule
  <2> QED BY <1>1, <2>1, <2>2, <2>3
<1>3. CASE v # rule.skips
  <2>1. v \notin {"absent", "newer", "invalid", "several"}
    BY HeldTells DEF rule
  <2> QED BY <1>1, <1>3, <2>1 DEF WriteJson, ReadJson
<1> QED BY <1>2, <1>3

\* Whether protobuf's zero value is read as unset.
Empty(type, field, v) ==
    Listed(Zeroed, type, field) /\ v = Zeros[Rule(type, field).kind]

\* One hop over gRPC: an empty scalar is cleared, a number becomes a double.
LEMMA GrpcHop ==
    ASSUME NEW type, NEW field, <<type, field>> \in Fields,
           NEW v \in Values(Rule(type, field))
    PROVE  Over("grpc", type, field, v) =
              IF Empty(type, field, v) THEN "unset"
              ELSE IF Rule(type, field).kind = "json" THEN ToDouble(v) ELSE v
<1> DEFINE rule == Rule(type, field)
           w == WritePb(type, field, v)
<1>1. Over("grpc", type, field, v) = ReadPb(type, field, w)
  BY DEF Over
<1>2. v \notin {"absent", "newer", "invalid"}
  BY HeldTells
<1>3. rule.kind \in KindNames /\ Zeros[rule.kind] \notin {"unset", "absent", "newer", "invalid"}
  <2>1. rule.kind \in KindNames
    BY Declared
  <2> HIDE DEF rule
  <2> QED BY <2>1, ZeroOfKind DEF KindNames
<1>4. CASE v = "unset"
  <2>1. rule.skips = "unset" /\ ~Listed(Demanded, type, field)
    BY <1>4, HeldTells, Declared
  <2>2. w = Absent(type, field)
    BY <1>4 DEF WritePb
  <2>3. Absent(type, field) = IF Listed(Zeroed, type, field) THEN Zeros[rule.kind] ELSE "unset"
    BY <2>1, Declared DEF Absent
  <2>4. ReadPb(type, field, w) = "unset"
    BY <1>3, <2>1, <2>2, <2>3, Declared DEF ReadPb
  <2>5. ToDouble(v) = v /\ ~Empty(type, field, v)
    BY <1>3, <1>4 DEF ToDouble, Empty
  <2> QED BY <1>1, <1>4, <2>4, <2>5
<1>5. CASE v # "unset" /\ rule.kind = "json"
  <2>1. w = ToDouble(v)
    BY <1>5 DEF WritePb
  <2>2. w \notin {"unset", "absent", "newer", "invalid"}
    BY <1>2, <1>5, <2>1 DEF ToDouble
  <2>3. ~Listed(Cleared, type, field) /\ ~Listed(Zeroed, type, field)
    BY <1>5, Declared
  <2>4. ReadPb(type, field, w) = w
    <3> HIDE DEF w
    <3> QED BY <2>2, <2>3 DEF ReadPb
  <2> QED BY <1>1, <1>5, <2>1, <2>3, <2>4 DEF Empty
<1>6. CASE v # "unset" /\ rule.kind # "json"
  <2>1. w = v
    BY <1>6 DEF WritePb
  <2>2. ReadPb(type, field, v) = IF Empty(type, field, v) THEN "unset" ELSE v
    BY <1>2, <1>6, Declared DEF ReadPb, Empty
  <2> QED BY <1>1, <1>6, <2>1, <2>2
<1> QED BY <1>4, <1>5, <1>6

\* What the bindings can carry of a value is a value again.
LEMMA CarriedIsHeld ==
    ASSUME NEW type, NEW field, <<type, field>> \in Fields,
           NEW v \in Values(Rule(type, field)), NEW bs \in SUBSET Bindings
    PROVE  Carried(bs, type, field, v) \in Values(Rule(type, field))
<1> DEFINE rule == Rule(type, field)
           empty == /\ rule.kind \in {"text", "int", "enum"} /\ v = Zeros[rule.kind]
                    /\ rule.skips = "unset" /\ <<type, field>> \notin ProtoOptional
<1>1. rule.kind \in KindNames
  BY Declared
<1>2. CASE v = "nanos"
  <2>1. rule.kind = "time"
    BY <1>2, HeldTells
  <2>2. {"millis", "nanos"} \subseteq Values(rule)
    BY <2>1, KindHolds DEF Values
  <2>3. ~empty
    BY <2>1
  <2> QED BY <1>2, <2>1, <2>2, <2>3 DEF Carried
<1>3. CASE v # "nanos" /\ rule.kind = "json"
  <2>1. ToDouble(v) \in Values(rule)
    BY <1>3, KindHolds DEF ToDouble, Values
  <2> QED BY <1>3, <2>1 DEF Carried
<1>4. CASE v # "nanos" /\ rule.kind # "json"
  <2>1. Carried(bs, type, field, v) \in IF empty THEN {v, "unset"} ELSE {v}
    BY <1>4 DEF Carried
  <2>2. empty => "unset" \in Values(rule)
    BY DEF Values
  <2> QED BY <2>1, <2>2
<1> QED BY <1>2, <1>3, <1>4

\* A hop takes what that binding cannot carry, whatever has been lost before.
LEMMA HopLoses ==
    ASSUME NEW type, NEW field, <<type, field>> \in Fields,
           NEW v \in Values(Rule(type, field)), NEW bs \in SUBSET Bindings,
           NEW b \in Bindings
    PROVE  Over(b, type, field, Carried(bs, type, field, v))
              = Carried(bs \cup {b}, type, field, v)
<1> DEFINE rule == Rule(type, field)
           w == Carried(bs, type, field, v)
           empty == Empty(type, field, v)
<1>1. w \in Values(rule)
  BY CarriedIsHeld
<1>2. empty <=> /\ rule.kind \in {"text", "int", "enum"} /\ v = Zeros[rule.kind]
                /\ rule.skips = "unset" /\ <<type, field>> \notin ProtoOptional
  BY Declared DEF Empty
<1>3. \A c : Carried(c, type, field, v) =
         CASE "json" \in c /\ v = "nanos" -> "millis"
           [] "grpc" \in c /\ empty -> "unset"
           [] "grpc" \in c /\ rule.kind = "json" -> ToDouble(v)
           [] OTHER -> v
  BY <1>2 DEF Carried
<1>4. /\ v = "nanos" => rule.kind = "time"
      /\ Listed(Zeroed, type, field) => rule.kind \in {"text", "int", "enum"}
      /\ empty => Listed(Zeroed, type, field)
      /\ ~Empty(type, field, "unset")
  <2>1. rule.kind \in KindNames
    BY Declared
  <2>2. Zeros[rule.kind] # "unset"
    <3> HIDE DEF rule
    <3> QED BY <2>1, ZeroOfKind DEF KindNames
  <2> QED BY <2>2, HeldTells, Declared DEF Empty
<1>5. CASE b = "json"
  <2>1. Over(b, type, field, w) = IF w = "nanos" THEN "millis" ELSE w
    BY <1>1, <1>5, JsonHop
  <2>2. ToDouble(v) = "nanos" => v = "nanos"
    BY DEF ToDouble
  <2> QED BY <1>3, <1>4, <1>5, <2>1, <2>2
<1>6. CASE b = "grpc"
  <2>1. Over(b, type, field, w) =
           IF Empty(type, field, w) THEN "unset"
           ELSE IF rule.kind = "json" THEN ToDouble(w) ELSE w
    BY <1>1, <1>6, GrpcHop
  <2>2. ToDouble(ToDouble(v)) = ToDouble(v)
    BY DEF ToDouble
  <2>3. CASE v = "nanos"
    <3>1. w \in {"millis", "nanos"} /\ rule.kind = "time"
          /\ ~Listed(Zeroed, type, field)
      BY <1>3, <1>4, <2>3
    <3>2. Over(b, type, field, w) = w
      BY <2>1, <3>1 DEF Empty
    <3> QED BY <1>3, <1>4, <1>6, <2>3, <3>1, <3>2
  <2>4. CASE v # "nanos" /\ empty
    <3>1. w \in {v, "unset"} /\ rule.kind # "json"
      BY <1>3, <1>4, <2>4
    <3>2. Over(b, type, field, w) = "unset"
      BY <1>4, <2>1, <2>4, <3>1
    <3> QED BY <1>3, <1>6, <2>4, <3>1, <3>2
  <2>5. CASE v # "nanos" /\ ~empty /\ rule.kind = "json"
    <3>1. w \in {v, ToDouble(v)} /\ ~Listed(Zeroed, type, field)
      BY <1>3, <1>4, <2>5
    <3>2. Over(b, type, field, w) = ToDouble(v)
      BY <2>1, <2>2, <2>5, <3>1 DEF Empty
    <3> QED BY <1>3, <1>6, <2>5, <3>2
  <2>6. CASE v # "nanos" /\ ~empty /\ rule.kind # "json"
    BY <1>3, <2>1, <2>6
  <2> QED BY <2>3, <2>4, <2>5, <2>6
<1> QED BY <1>5, <1>6 DEF Bindings

\* What no binding can take from a value, none of them does.
LEMMA LosslessThroughout ==
    ASSUME NEW type, NEW field, <<type, field>> \in Fields,
           NEW v \in Values(Rule(type, field)), NEW bs \in SUBSET Bindings,
           Carried(Bindings, type, field, v) = v
    PROVE  Carried(bs, type, field, v) = v
<1> DEFINE rule == Rule(type, field)
           empty == /\ rule.kind \in {"text", "int", "enum"} /\ v = Zeros[rule.kind]
                    /\ rule.skips = "unset" /\ <<type, field>> \notin ProtoOptional
<1>1. "json" \in Bindings /\ "grpc" \in Bindings
  BY DEF Bindings
<1>2. \A c : Carried(c, type, field, v) =
         CASE "json" \in c /\ v = "nanos" -> "millis"
           [] "grpc" \in c /\ empty -> "unset"
           [] "grpc" \in c /\ rule.kind = "json" -> ToDouble(v)
           [] OTHER -> v
  BY DEF Carried
<1>3. v = "nanos" => rule.kind = "time"
  BY HeldTells
<1>4. empty => Zeros[rule.kind] # "unset"
  BY ZeroOfKind
<1> HIDE DEF rule
<1>5. v # "nanos"
  BY <1>1, <1>2, <1>3
<1>6. ~empty
  BY <1>1, <1>2, <1>4, <1>5
<1> QED BY <1>1, <1>2, <1>5, <1>6

\* A value made of a foreign document is one the field may hold.
LEMMA ForeignIsHeld ==
    ASSUME NEW type, NEW field, <<type, field>> \in Fields, NEW b \in Bindings,
           NEW w \in ForeignWire(b, Rule(type, field).kind),
           NEW v, v = IF b = "json" THEN ReadJson(Rule(type, field), w)
                      ELSE ReadPb(type, field, w),
           v # "refused"
    PROVE  v \in Values(Rule(type, field))
<1> DEFINE rule == Rule(type, field)
<1>1. rule.kind \in KindNames
  BY Declared
<1>2. /\ rule.skips = "unset" => "unset" \in Values(rule)
      /\ rule.kind \notin {"message", "union", "untagged", "time"} =>
            Zeros[rule.kind] \in Values(rule)
      /\ rule.kind = "list" => "empty" \in Values(rule)
      /\ rule.kind = "enum" => "unspecified" \in Values(rule)
      /\ rule.kind \in {"union", "untagged"} => "arm" \in Values(rule)
  <2> HIDE DEF rule
  <2> QED BY <1>1, ZeroOfKind, KindHolds DEF Values, KindNames
<1>3. /\ w \in {"absent", "newer", "invalid", "several"}
      /\ w = "newer" => rule.kind = "enum"
      /\ w = "invalid" => rule.kind = "time"
      /\ w = "several" => rule.kind \in {"union", "untagged"} /\ b = "json"
  BY DEF ForeignWire
<1>4. CASE b = "json"
  <2>1. v \in {rule.missing, "arm"} /\ (v = "arm" => w = "several" \/ v = rule.missing)
        /\ (w # "absent" => v = "arm" /\ w = "several")
    BY <1>3, <1>4 DEF ReadJson
  <2> QED BY <1>2, <1>3, <2>1, Declared
<1>5. CASE b # "json" /\ w = "absent"
  <2> DEFINE got == Absent(type, field)
  <2>1. v = CASE got = "unset" /\ Listed(Demanded, type, field) -> "refused"
              [] got = Zeros[rule.kind] /\ Listed(Cleared, type, field) -> "unset"
              [] got = "newer" -> "unspecified"
              [] got = "invalid" -> "unset"
              [] OTHER -> got
    <3>1. v = ReadPb(type, field, "absent")
      BY <1>5
    <3> QED BY <3>1 DEF ReadPb
  <2>2. CASE got = "unset"
    <3>0. Zeros[rule.kind] # "unset"
      <4> HIDE DEF rule
      <4> QED BY <1>1, ZeroOfKind DEF KindNames
    <3>1. ~Listed(Demanded, type, field) /\ v = "unset"
      <4> HIDE DEF got
      <4> QED BY <2>1, <2>2, <3>0
    <3>2. rule.skips = "unset"
      BY <2>2, <3>1, <1>1, Declared, ZeroOfKind DEF Absent, KindNames
    <3> QED BY <1>2, <3>1, <3>2
  <2>3. CASE got # "unset"
    <3>1. got = Zeros[rule.kind] /\ rule.kind \notin {"message", "union", "untagged"}
          /\ (rule.skips = "unset" => Listed(Zeroed, type, field))
      BY <2>3 DEF Absent
    <3>2. got \notin {"newer", "invalid"}
      <4> HIDE DEF rule, got
      <4> QED BY <1>1, <3>1, ZeroOfKind DEF KindNames
    <3>3. v = IF Listed(Cleared, type, field) THEN "unset" ELSE got
      BY <2>1, <2>3, <3>1, <3>2
    <3> QED BY <1>2, <3>1, <3>3, Declared
  <2> QED BY <2>2, <2>3
<1>6. CASE b # "json" /\ w = "newer"
  <2>1. Zeros[rule.kind] # "newer"
    BY <1>3, <1>6, ZeroOfKind
  <2>2. v = "unspecified"
    BY <1>6, <2>1 DEF ReadPb
  <2> QED BY <1>2, <1>3, <1>6, <2>2
<1>7. CASE b # "json" /\ w = "invalid"
  <2>1. Zeros[rule.kind] # "invalid" /\ rule.skips = "unset"
    BY <1>3, <1>7, ZeroOfKind, Declared
  <2>2. v = "unset"
    BY <1>7, <2>1 DEF ReadPb
  <2> QED BY <1>2, <2>1, <2>2
<1> QED BY <1>3, <1>4, <1>5, <1>6, <1>7

-----------------------------------------------------------------------------
\* A copy that is replaced by one that fits leaves all copies fitting.
LEMMA ReplaceKeepsTravelled ==
    ASSUME Shapes, Histories, Travelled, NEW p \in Parties, NEW d \in Documents, NEW o, NEW c,
           Fits(d, o, c, Len(signed')),
           copy' = [copy EXCEPT ![p] = d],
           origin' = [origin EXCEPT ![p] = o],
           crossed' = [crossed EXCEPT ![p] = c],
           Len(signed') \in Nat, Len(signed) <= Len(signed'), Len(signed') <= MaxSignings,
           edits' \in 0 .. MaxEdits
    PROVE  Histories' /\ Travelled'
<1>1. c \in SUBSET Bindings /\ d # NoDocument
  BY ExchangeAssumption DEF Fits
<1>2. Histories'
  BY <1>1 DEF Histories
<1>3. \A r \in Parties : /\ copy'[r] = IF r = p THEN d ELSE copy[r]
                         /\ origin'[r] = IF r = p THEN o ELSE origin[r]
                         /\ crossed'[r] = IF r = p THEN c ELSE crossed[r]
  BY DEF Shapes, Histories
<1>4. ASSUME NEW r \in Parties
      PROVE  IF copy'[r] = NoDocument THEN origin'[r] = "none" /\ crossed'[r] = {}
             ELSE Fits(copy'[r], origin'[r], crossed'[r], Len(signed'))
  <2>1. CASE r = p
    BY <1>1, <1>3, <2>1
  <2>2. CASE r # p /\ copy[r] = NoDocument
    BY <1>3, <2>2 DEF Travelled
  <2>3. CASE r # p /\ copy[r] # NoDocument
    <3>1. Fits(copy[r], origin[r], crossed[r], Len(signed))
      BY <2>3 DEF Travelled
    <3>2. copy[r] \in Documents
      BY <2>3 DEF Shapes
    <3>3. Len(copy[r].signatures) \in Nat /\ Len(signed) \in Nat
      BY <3>2 DEF Documents, Shapes
    <3>4. Fits(copy[r], origin[r], crossed[r], Len(signed'))
      BY <3>1, <3>3 DEF Fits
    <3> QED BY <1>3, <2>3, <3>4
  <2> QED BY <2>1, <2>2, <2>3
<1> QED BY <1>2, <1>4 DEF Travelled

\* A document just written or read has lost nothing.
LEMMA NewFits ==
    ASSUME NEW f \in Fields, NEW v \in Values(Rule(f[1], f[2])), NEW n \in Nat
    PROVE  Document(f[1], f[2], v) \in Documents /\ Fits(Document(f[1], f[2], v), v, {}, n)
<1>1. Rule(f[1], f[2]).kind \in DOMAIN Zeros
  BY ExchangeAssumption
<1>2. v \in Tokens
  BY <1>1, ValuesAreTokens
<1> DEFINE d == Document(f[1], f[2], v)
<1>3. /\ d \in Documents
      /\ d.type = f[1] /\ d.field = f[2] /\ d.value = v
      /\ <<d.type, d.field>> \in Fields
      /\ d.signatures = << >>
  BY <1>2, NewDocument
<1> HIDE DEF d
<1>4. Len(d.signatures) = 0 /\ DOMAIN d.signatures = {}
  BY <1>3
<1>5. Carried({}, d.type, d.field, v) = v
  BY DEF Carried
<1> QED BY <1>3, <1>4, <1>5 DEF Fits, d

\* What hops of p's copy make of it at q fits.
LEMMA ArriveKeepsTravelled ==
    ASSUME Shapes, Histories, Travelled, NEW p \in Parties, NEW q \in Parties,
           NEW b \in Bindings, NEW keys, copy[p] # NoDocument,
           NEW v, v = Over(b, copy[p].type, copy[p].field, copy[p].value),
           Arrive(p, q, b, v, keys)
    PROVE  Histories' /\ Travelled'
<1> DEFINE type == copy[p].type
           field == copy[p].field
           d == [copy[p] EXCEPT !.value = v]
           c == crossed[p] \cup {b}
<1>1. copy[p] \in Documents /\ Fits(copy[p], origin[p], crossed[p], Len(signed))
  BY DEF Shapes, Travelled
<1>2. /\ <<type, field>> \in Fields /\ origin[p] \in Values(Rule(type, field))
      /\ crossed[p] \in SUBSET Bindings
      /\ copy[p].value = Carried(crossed[p], type, field, origin[p])
  BY <1>1 DEF Fits
<1>3. v = Carried(c, type, field, origin[p])
  BY <1>2, HopLoses
<1>4. v \in Tokens
  <2>1. c \in SUBSET Bindings
    BY <1>2
  <2>2. v \in Values(Rule(type, field))
    BY <1>2, <1>3, <2>1, CarriedIsHeld
  <2>3. Rule(type, field).kind \in DOMAIN Zeros
    BY <1>2, Declared, KindsAreNamed
  <2> HIDE DEF type, field
  <2> QED BY <2>2, <2>3, ValuesAreTokens
<1>5. /\ d \in Documents /\ d.type = type /\ d.field = field /\ d.value = v
      /\ d.signatures = copy[p].signatures
  BY <1>1, <1>4 DEF Documents
<1>6. /\ copy' = [copy EXCEPT ![q] = d] /\ origin' = [origin EXCEPT ![q] = origin[p]]
      /\ crossed' = [crossed EXCEPT ![q] = c] /\ signed' = signed /\ edits' = edits
  BY DEF Arrive
<1> HIDE DEF d
<1>7. \A s : Own(copy[p], s) => Own(d, s)
  BY <1>5 DEF Own
<1>8. Fits(d, origin[p], c, Len(signed'))
  BY <1>1, <1>2, <1>3, <1>5, <1>6, <1>7 DEF Fits
<1>9. Len(signed') \in Nat /\ Len(signed) <= Len(signed') /\ Len(signed') <= MaxSignings
      /\ edits' \in 0 .. MaxEdits
  BY <1>6 DEF Shapes, Histories
<1> HIDE DEF c
<1> QED BY <1>5, <1>6, <1>8, <1>9, ReplaceKeepsTravelled

LEMMA TravelledInit == ASSUME Init PROVE Histories /\ Travelled
BY ExchangeAssumption DEF Init, Histories, Travelled

\* While nobody has a document, none has crossed anything.
LEMMA NowhereCrossed ==
    ASSUME Histories, Travelled, Nowhere, NEW p \in Parties
    PROVE  crossed = [crossed EXCEPT ![p] = {}]
<1>1. crossed[p] = {}
  BY DEF Travelled, Nowhere
<1> QED BY <1>1 DEF Histories

LEMMA WriteKeepsTravelled ==
    ASSUME Shapes, Histories, Travelled, NEW p \in Parties, Write(p)
    PROVE  Histories' /\ Travelled'
<1>1. PICK f \in Fields : \E v \in Values(Rule(f[1], f[2])) :
          /\ copy' = [copy EXCEPT ![p] = Document(f[1], f[2], v)]
          /\ origin' = [origin EXCEPT ![p] = v]
  BY DEF Write
<1>2. PICK v \in Values(Rule(f[1], f[2])) :
          /\ copy' = [copy EXCEPT ![p] = Document(f[1], f[2], v)]
          /\ origin' = [origin EXCEPT ![p] = v]
  BY <1>1
<1>3. signed' = signed /\ edits' = edits /\ crossed' = crossed /\ Nowhere
  BY DEF Write
<1>4. Len(signed') \in Nat /\ Len(signed) <= Len(signed') /\ Len(signed') <= MaxSignings
      /\ edits' \in 0 .. MaxEdits
  BY <1>3 DEF Shapes, Histories
<1>5. crossed' = [crossed EXCEPT ![p] = {}]
  BY <1>3, NowhereCrossed
<1>6. Document(f[1], f[2], v) \in Documents
      /\ Fits(Document(f[1], f[2], v), v, {}, Len(signed'))
  BY <1>4, NewFits
<1> QED BY <1>2, <1>4, <1>5, <1>6, ReplaceKeepsTravelled

LEMMA ReceiveForeignKeepsTravelled ==
    ASSUME Shapes, Histories, Travelled, NEW p \in Parties, ReceiveForeign(p)
    PROVE  Histories' /\ Travelled'
<1>1. PICK f \in Fields, b \in Bindings :
          \E w \in ForeignWire(b, Rule(f[1], f[2]).kind) :
             LET v == IF b = "json" THEN ReadJson(Rule(f[1], f[2]), w)
                                    ELSE ReadPb(f[1], f[2], w)
             IN  /\ v # "refused"
                 /\ copy' = [copy EXCEPT ![p] = Document(f[1], f[2], v)]
                 /\ origin' = [origin EXCEPT ![p] = v]
  BY DEF ReceiveForeign
<1>2. PICK w \in ForeignWire(b, Rule(f[1], f[2]).kind) :
          LET v == IF b = "json" THEN ReadJson(Rule(f[1], f[2]), w)
                                 ELSE ReadPb(f[1], f[2], w)
          IN  /\ v # "refused"
              /\ copy' = [copy EXCEPT ![p] = Document(f[1], f[2], v)]
              /\ origin' = [origin EXCEPT ![p] = v]
  BY <1>1
<1>3. PICK v : v = IF b = "json" THEN ReadJson(Rule(f[1], f[2]), w)
                   ELSE ReadPb(f[1], f[2], w)
  OBVIOUS
<1>4. /\ v # "refused"
      /\ copy' = [copy EXCEPT ![p] = Document(f[1], f[2], v)]
      /\ origin' = [origin EXCEPT ![p] = v]
  BY <1>2, <1>3
<1>5. v \in Values(Rule(f[1], f[2]))
  <2>1. <<f[1], f[2]>> \in Fields
    BY ExchangeAssumption
  <2> QED BY <1>3, <1>4, <2>1, ForeignIsHeld
<1>6. signed' = signed /\ edits' = edits /\ crossed' = crossed /\ Nowhere
  BY DEF ReceiveForeign
<1>7. Len(signed') \in Nat /\ Len(signed) <= Len(signed') /\ Len(signed') <= MaxSignings
      /\ edits' \in 0 .. MaxEdits
  BY <1>6 DEF Shapes, Histories
<1>8. crossed' = [crossed EXCEPT ![p] = {}]
  BY <1>6, NowhereCrossed
<1>9. Document(f[1], f[2], v) \in Documents
      /\ Fits(Document(f[1], f[2], v), v, {}, Len(signed'))
  BY <1>5, <1>7, NewFits
<1> QED BY <1>4, <1>7, <1>8, <1>9, ReplaceKeepsTravelled

LEMMA SignKeepsTravelled ==
    ASSUME Shapes, Histories, Travelled, NEW p \in Parties, NEW key \in Keys, Sign(p, key)
    PROVE  Histories' /\ Travelled'
<1> DEFINE s == SignAgentCard(copy[p], key)
           d == Signed(copy[p], key)
           made == [signature |-> s, value |-> copy[p].value]
<1>1. /\ copy[p] # NoDocument
      /\ copy' = [copy EXCEPT ![p] = d]
      /\ signed' = Append(signed, made)
      /\ Len(signed) < MaxSignings
      /\ UNCHANGED <<edits, origin, crossed>>
  BY DEF Sign
<1>2. copy[p] \in Documents /\ Fits(copy[p], origin[p], crossed[p], Len(signed))
  BY <1>1 DEF Shapes, Travelled
<1>3. /\ s \in Signatures /\ Own(copy[p], s)
  <2>1. s.key = key /\ s.alg = AlgorithmOf[key] /\ s.payload = CanonicalJson(copy[p])
    BY DEF SignAgentCard
  <2> QED BY <1>2, <2>1, SigningIsFaithful DEF Own, CanonicalJson
<1>4. Len(signed') = Len(signed) + 1 /\ Len(signed) \in Nat /\ MaxSignings \in Nat
  BY <1>1, ExchangeAssumption DEF Shapes
<1>5. copy[p].signatures \in Seq(Signatures)
  BY <1>2 DEF Documents
<1>6. d = [copy[p] EXCEPT !.signatures = Append(@, s)]
  BY DEF Signed
<1> HIDE DEF s, d, made
<1>7. /\ d.signatures = Append(copy[p].signatures, s)
      /\ d.type = copy[p].type /\ d.field = copy[p].field /\ d.value = copy[p].value
      /\ d \in Documents
  <2>1. copy[p] \in Documents
    BY <1>2
  <2>2. Append(copy[p].signatures, s) \in Seq(Signatures)
    BY <1>3, <1>5
  <2> QED BY <1>6, <2>1, <2>2 DEF Documents
<1>8. \A t : Own(copy[p], t) => Own(d, t)
  BY <1>7 DEF Own
<1>9. \A i \in DOMAIN d.signatures : Own(d, d.signatures[i])
  <2> SUFFICES ASSUME NEW i \in DOMAIN d.signatures PROVE Own(d, d.signatures[i])
    OBVIOUS
  <2>1. CASE i \in DOMAIN copy[p].signatures
    BY <1>2, <1>3, <1>5, <1>7, <1>8, <2>1 DEF Fits
  <2>2. CASE i \notin DOMAIN copy[p].signatures
    <3>1. d.signatures[i] = s
      BY <1>3, <1>5, <1>7, <2>2
    <3> QED BY <1>3, <1>8, <3>1
  <2> QED BY <2>1, <2>2
<1>10. Len(d.signatures) <= Len(signed')
  <2>1. Len(d.signatures) = Len(copy[p].signatures) + 1 /\ Len(copy[p].signatures) \in Nat
    BY <1>3, <1>5, <1>7
  <2> QED BY <1>2, <1>4, <2>1 DEF Fits
<1>11. Fits(d, origin[p], crossed[p], Len(signed'))
  BY <1>2, <1>7, <1>9, <1>10 DEF Fits
<1>12. /\ origin' = [origin EXCEPT ![p] = origin[p]]
       /\ crossed' = [crossed EXCEPT ![p] = crossed[p]]
       /\ edits' \in 0 .. MaxEdits
  BY <1>1 DEF Histories
<1>13. Len(signed') \in Nat /\ Len(signed) <= Len(signed') /\ Len(signed') <= MaxSignings
  BY <1>1, <1>4
<1> QED BY <1>1, <1>7, <1>11, <1>12, <1>13, ReplaceKeepsTravelled

LEMMA EditKeepsTravelled ==
    ASSUME Shapes, Histories, Travelled, NEW p \in Parties, Edit(p)
    PROVE  Histories' /\ Travelled'
<1> DEFINE rule == Rule(copy[p].type, copy[p].field)
<1>1. /\ copy[p] # NoDocument /\ edits < MaxEdits /\ edits' = edits + 1
      /\ crossed' = [crossed EXCEPT ![p] = {}] /\ signed' = signed
  BY DEF Edit
<1>2. PICK v \in Values(rule) : /\ copy' = [copy EXCEPT ![p].value = v]
                                /\ origin' = [origin EXCEPT ![p] = v]
  BY DEF Edit
<1>3. copy[p] \in Documents /\ Fits(copy[p], origin[p], crossed[p], Len(signed))
  BY <1>1 DEF Shapes, Travelled
<1>4. v \in Tokens
  <2>1. rule.kind \in DOMAIN Zeros
    BY <1>3, Declared, KindsAreNamed DEF Fits
  <2> HIDE DEF rule
  <2> QED BY <1>2, <2>1, ValuesAreTokens
<1> DEFINE d == [copy[p] EXCEPT !.value = v]
<1>5. /\ d \in Documents /\ d.type = copy[p].type /\ d.field = copy[p].field
      /\ d.value = v /\ d.signatures = copy[p].signatures
  BY <1>3, <1>4 DEF Documents
<1>6. copy' = [copy EXCEPT ![p] = d]
  BY <1>2 DEF Shapes
<1> HIDE DEF d
<1>7. \A s : Own(copy[p], s) => Own(d, s)
  BY <1>5 DEF Own
<1>8. Carried({}, d.type, d.field, v) = v
  BY DEF Carried
<1>9. Fits(d, v, {}, Len(signed'))
  BY <1>1, <1>2, <1>3, <1>5, <1>7, <1>8 DEF Fits
<1>10. Len(signed') \in Nat /\ Len(signed) <= Len(signed') /\ Len(signed') <= MaxSignings
       /\ edits' \in 0 .. MaxEdits
  BY <1>1, ExchangeAssumption DEF Shapes, Histories
<1> QED BY <1>1, <1>2, <1>5, <1>6, <1>9, <1>10, ReplaceKeepsTravelled

LEMMA TravelledNext ==
    ASSUME Inv, Histories, Travelled, [Next]_vars
    PROVE  Histories' /\ Travelled'
<1> USE DEF Inv
<1>1. ASSUME NEW p \in Parties, Write(p) PROVE Histories' /\ Travelled'
  BY <1>1, WriteKeepsTravelled
<1>2. ASSUME NEW p \in Parties, ReceiveForeign(p) PROVE Histories' /\ Travelled'
  BY <1>2, ReceiveForeignKeepsTravelled
<1>3. ASSUME NEW p \in Parties, NEW q \in Parties, NEW b \in Bindings, Carry(p, q, b)
      PROVE  Histories' /\ Travelled'
  BY <1>3, ArriveKeepsTravelled DEF Carry
<1>4. ASSUME NEW p \in Parties, NEW q \in Parties, NEW trusted \in SUBSET Keys,
             DiscoverAndVerify(p, q, trusted)
      PROVE  Histories' /\ Travelled'
  BY <1>4, ArriveKeepsTravelled DEF DiscoverAndVerify, Bindings
<1>5. ASSUME NEW p \in Parties, NEW key \in Keys, VerifySignature(p, key)
      PROVE  Histories' /\ Travelled'
  BY <1>5 DEF VerifySignature, Histories, Travelled
<1>6. ASSUME NEW p \in Parties, NEW key \in Keys, Sign(p, key)
      PROVE  Histories' /\ Travelled'
  BY <1>6, SignKeepsTravelled
<1>7. ASSUME NEW p \in Parties, Edit(p) PROVE Histories' /\ Travelled'
  BY <1>7, EditKeepsTravelled
<1>8. CASE UNCHANGED vars
  BY <1>8 DEF vars, Histories, Travelled
<1> QED BY <1>1, <1>2, <1>3, <1>4, <1>5, <1>6, <1>7, <1>8 DEF Next

-----------------------------------------------------------------------------
\* What a copy holds is what its field may hold.
THEOREM DocumentsAreTyped == Spec => []TypeOK
<1>1. Inv /\ Histories /\ Travelled => TypeOK
  <2> SUFFICES ASSUME Inv, Histories, Travelled PROVE TypeOK
    OBVIOUS
  <2>1. ASSUME NEW p \in Parties, copy[p] # NoDocument
        PROVE  /\ <<copy[p].type, copy[p].field>> \in Fields
               /\ {copy[p].value, origin[p]} \subseteq Values(Rule(copy[p].type, copy[p].field))
               /\ Len(copy[p].signatures) <= Len(signed)
    BY <2>1, CarriedIsHeld DEF Travelled, Fits
  <2>2. \A p \in Parties : copy[p] = NoDocument => origin[p] = "none"
    BY DEF Travelled
  <2> QED BY <2>1, <2>2 DEF TypeOK, Inv, Shapes, Histories
<1> QED BY InitEstablishesInv, NextKeepsInv, TravelledInit, TravelledNext, <1>1, PTL DEF Spec

\* A document loses only what a binding on its way cannot carry, and loses it
\* once: for every number of programs and hops, in every order.
THEOREM OnlyKnownLossesEver == Spec => []OnlyKnownLosses
<1>1. Travelled => OnlyKnownLosses
  BY DEF Travelled, Fits, OnlyKnownLosses
<1> QED BY InitEstablishesInv, NextKeepsInv, TravelledInit, TravelledNext, <1>1, PTL DEF Spec

\* A signature over what every binding can carry is good on every copy, for
\* everyone who trusts its key.
THEOREM SignaturesAlwaysOutliveHops == Spec => []SignatureOutlivesHops
<1>1. ASSUME Inv, Travelled,
             NEW p \in Parties, copy[p] # NoDocument, NEW i \in DOMAIN copy[p].signatures,
             [signature |-> copy[p].signatures[i], value |-> origin[p]] \in Range(signed),
             Carried(Bindings, copy[p].type, copy[p].field, origin[p]) = origin[p],
             NEW trusted \in SUBSET Keys, copy[p].signatures[i].key \in trusted
      PROVE  VerifyAnySignature(copy[p], trusted)
  <2> DEFINE s == copy[p].signatures[i]
             rule == Rule(copy[p].type, copy[p].field)
  <2>1. copy[p] \in Documents /\ Fits(copy[p], origin[p], crossed[p], Len(signed))
    BY <1>1 DEF Inv, Shapes, Travelled
  <2>2. copy[p].value = origin[p]
    BY <1>1, <2>1, LosslessThroughout DEF Fits
  <2>3. PICK j \in DOMAIN signed : signed[j] = [signature |-> s, value |-> origin[p]]
    BY <1>1 DEF Range
  <2>4. Own(copy[p], s)
    BY <1>1, <2>1 DEF Fits
  <2>5. s.payload.written = WriteJson(rule, origin[p])
    <3>1. signed[j].signature = s /\ signed[j].value = origin[p]
      BY <2>3
    <3>2. s.payload.written = WriteJson(Rule(s.payload.type, s.payload.field), origin[p])
      BY <1>1, <3>1 DEF Inv, PayloadsAreFaithful
    <3> QED BY <2>4, <3>2 DEF Own
  <2>6. s \in Signatures /\ copy[p].signatures # << >>
    BY <1>1, <2>1 DEF Documents
  <2>7. s.payload = CanonicalJson(copy[p])
    BY <2>2, <2>4, <2>5, <2>6 DEF Signatures, Own, CanonicalJson
  <2>8. VerifyAgentCardSignature(copy[p], s, s.key)
    BY <2>4, <2>7 DEF VerifyAgentCardSignature, Own
  <2> QED BY <1>1, <2>6, <2>8 DEF VerifyAnySignature
<1>2. Inv /\ Travelled => SignatureOutlivesHops
  BY <1>1 DEF SignatureOutlivesHops
<1> QED BY InitEstablishesInv, NextKeepsInv, TravelledInit, TravelledNext, <1>2, PTL DEF Spec
=============================================================================
