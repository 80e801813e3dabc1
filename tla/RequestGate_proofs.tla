------------------------- MODULE RequestGate_proofs -------------------------
(***************************************************************************)
(* The properties of RequestGate for every finite set of schemes and every *)
(* set of calls.                                                           *)
(*                                                                         *)
(* ServedMeansAllowed: the invariant Gate says what the checks behind a    *)
(* stage have made sure of.  That the engine's operations look at the      *)
(* authorization wherever they touch a task (ScopeIsChecked) is read off   *)
(* their lists of checks; none of which fails when the operation is served *)
(* (ServedPassesAll).                                                      *)
(*                                                                         *)
(* BindingsAgree: the invariant Agreement adds how far authenticate_against *)
(* has come and which rejection it would answer with.                      *)
(*                                                                         *)
(* TypeOK and ClientLearnsError: every answer is an error of the protocol  *)
(* or served (FailureIsError, CardIsVerified), and what cannot be read is  *)
(* answered at once, as malformed (Unreadable).                            *)
(***************************************************************************)
EXTENDS RequestGate, SequenceTheorems, FiniteSetTheorems, TLAPS

Verdicts == A2aError \cup {"Ok"}
\* A check that fails names an error.
CheckType ==
    {k \in [fails : BOOLEAN, error : Verdicts] : k.fails => k.error \in A2aError}

\* No verdict can be taken for "served".
LEMMA VerdictNotServed == "served" \notin Verdicts
BY DEF Verdicts, A2aError, Specific, Malformed

\* A non-empty set of places in a short list has a first one.
LEMMA EarlyFailure ==
    ASSUME NEW S \in SUBSET (1 .. 7), S # {}
    PROVE  \E i \in S : \A j \in S : i <= j
<1>1. CASE 1 \in S BY <1>1
<1>2. CASE 1 \notin S /\ 2 \in S BY <1>2
<1>3. CASE 1 \notin S /\ 2 \notin S /\ 3 \in S BY <1>3
<1>4. CASE S \subseteq 4 .. 7 /\ 4 \in S BY <1>4
<1>5. CASE S \subseteq 5 .. 7 /\ 5 \in S BY <1>5
<1>6. CASE S \subseteq 6 .. 7 /\ 6 \in S BY <1>6
<1>7. CASE S \cap 1 .. 6 = {}
  <2>1. PICK k \in S : TRUE
    OBVIOUS
  <2>2. \A j \in S : j = 7
    BY <1>7
  <2> QED BY <2>1, <2>2
<1> QED BY <1>1, <1>2, <1>3, <1>4, <1>5, <1>6, <1>7

\* Served means that no check fails.
LEMMA ServedPassesAll ==
    ASSUME NEW checks \in Seq(CheckType), Len(checks) <= 7,
           FirstFailure(checks) = "served"
    PROVE  \A i \in DOMAIN checks : ~checks[i].fails
<1> DEFINE failing == {i \in DOMAIN checks : checks[i].fails}
<1>1. failing \in SUBSET (1 .. 7)
  OBVIOUS
<1>2. CASE failing = {}
  BY <1>2
<1>3. CASE failing # {}
  <2>1. PICK i \in failing : \A j \in failing : i <= j
    BY <1>1, <1>3, EarlyFailure
  <2> DEFINE first == CHOOSE k \in failing : \A j \in failing : k <= j
  <2>2. first \in failing
    BY <2>1
  <2>3. FirstFailure(checks) = checks[first].error
    BY <1>3 DEF FirstFailure
  <2>4. checks[first].error \in Verdicts
    <3>1. first \in 1 .. Len(checks)
      BY <2>2
    <3>2. checks[first] \in CheckType
      BY <3>1
    <3> QED BY <3>2 DEF CheckType
  <2> QED BY <2>3, <2>4, VerdictNotServed
<1> QED BY <1>2, <1>3

\* Otherwise the answer is the error of one that does.
LEMMA FailureIsError ==
    ASSUME NEW checks \in Seq(CheckType), Len(checks) <= 7
    PROVE  FirstFailure(checks) \in A2aError \cup {"served"}
<1> DEFINE failing == {i \in DOMAIN checks : checks[i].fails}
           first == CHOOSE k \in failing : \A j \in failing : k <= j
<1>1. CASE failing = {}
  BY <1>1 DEF FirstFailure
<1>2. CASE failing # {}
  <2>1. failing \in SUBSET (1 .. 7)
    OBVIOUS
  <2>2. PICK i \in failing : \A j \in failing : i <= j
    BY <1>2, <2>1, EarlyFailure
  <2>3. first \in failing
    BY <2>2
  <2>4. checks[first] \in CheckType /\ checks[first].fails
    BY <2>3
  <2>5. checks[first].error \in A2aError
    BY <2>4 DEF CheckType
  <2>6. FirstFailure(checks) = checks[first].error
    BY <1>2 DEF FirstFailure
  <2> QED BY <2>5, <2>6
<1> QED BY <1>1, <1>2

\* The types of checks.
LEMMA CheckIsTyped ==
    ASSUME NEW b \in BOOLEAN, NEW e \in Verdicts, b => e \in A2aError
    PROVE  Check(b, e) \in CheckType /\ Check(b, e).fails = b
BY DEF Check, CheckType, Verdicts

LEMMA ErrorsAreVerdicts ==
    {"UnsupportedOperation", "PushNotificationNotSupported", "TaskNotFound",
     "InvalidParams", "ContentTypeNotSupported", "TaskNotCancelable", "Internal"}
        \subseteq A2aError
BY DEF A2aError, Specific, Malformed

\* Each single check is typed.
LEMMA ChecksTyped ==
    ASSUME NEW c \in Call, NEW who \in {"none", "known"}
    PROVE  /\ Streaming(c) \in CheckType /\ Pushing(c) \in CheckType
           /\ TaskFound(c) \in CheckType
           /\ Scoped(c, who) \in CheckType
           /\ Scoped(c, who).fails = Barred(c, who)
           /\ ScopedIfFound(c, who) \in CheckType
           /\ ScopedIfFound(c, who).fails = (c.task # "absent" /\ Barred(c, who))
           /\ HistoryLength(c) \in CheckType
           /\ WebhookUrl(c) \in CheckType /\ ConfigFound(c) \in CheckType
           /\ \A t \in Traits : /\ Check(Has(c, t), "InvalidParams") \in CheckType
                                /\ Check(Has(c, t), "ContentTypeNotSupported") \in CheckType
           /\ Check(c.task = "terminal", "UnsupportedOperation") \in CheckType
           /\ Check(c.task = "terminal", "TaskNotCancelable") \in CheckType
<1>1. c.authorize \in Verdicts /\ c.config \in BOOLEAN
  BY DEF Call, Verdicts
<1>2. \A b \in BOOLEAN :
         \A e \in {"UnsupportedOperation", "PushNotificationNotSupported",
                  "TaskNotFound", "InvalidParams", "ContentTypeNotSupported",
                  "TaskNotCancelable"} : Check(b, e) \in CheckType
  BY ErrorsAreVerdicts, CheckIsTyped DEF Verdicts
<1>3. Barred(c, who) \in BOOLEAN /\ (Barred(c, who) => c.authorize \in A2aError)
  BY <1>1 DEF Barred, Verdicts
<1>4. /\ Check(Barred(c, who), c.authorize) \in CheckType
      /\ Check(Barred(c, who), c.authorize).fails = Barred(c, who)
  BY <1>1, <1>3, CheckIsTyped
<1>5. /\ Check(c.task # "absent" /\ Barred(c, who), c.authorize) \in CheckType
      /\ Check(c.task # "absent" /\ Barred(c, who), c.authorize).fails
            = (c.task # "absent" /\ Barred(c, who))
  BY <1>1, <1>3, CheckIsTyped
<1>6. \A t : Has(c, t) \in BOOLEAN
  BY DEF Has
<1>7. /\ Streaming(c) \in CheckType /\ Pushing(c) \in CheckType
      /\ TaskFound(c) \in CheckType /\ ConfigFound(c) \in CheckType
  BY <1>1, <1>2 DEF Streaming, Pushing, TaskFound, ConfigFound
<1>8. HistoryLength(c) \in CheckType /\ WebhookUrl(c) \in CheckType
  BY <1>2, <1>6 DEF HistoryLength, WebhookUrl
<1> QED
  BY <1>2, <1>4, <1>5, <1>6, <1>7, <1>8 DEF Scoped, ScopedIfFound

\* Two lists of checks after each other.
LEMMA Appended ==
    ASSUME NEW s \in Seq(CheckType), NEW t \in Seq(CheckType)
    PROVE  /\ s \o t \in Seq(CheckType)
           /\ Len(s \o t) = Len(s) + Len(t)
           /\ \A i \in DOMAIN s : i \in DOMAIN (s \o t) /\ (s \o t)[i] = s[i]
           /\ \A i \in DOMAIN t :
                 Len(s) + i \in DOMAIN (s \o t) /\ (s \o t)[Len(s) + i] = t[i]
OBVIOUS

\* start_execution looks at the authorization of a message that continues a
\* task.
LEMMA ExecutionScopes ==
    ASSUME NEW c \in Call, NEW who \in {"none", "known"}
    PROVE  /\ Execution(c, who) \in Seq(CheckType) /\ Len(Execution(c, who)) <= 6
           /\ Has(c, "continues") =>
                \E i \in DOMAIN Execution(c, who) : Execution(c, who)[i] = Scoped(c, who)
<1> DEFINE message == <<Check(Has(c, "noParts"), "InvalidParams"),
                        Check(Has(c, "mediaType"), "ContentTypeNotSupported")>>
           continued == <<TaskFound(c), Check(Has(c, "otherContext"), "InvalidParams"),
                          Scoped(c, who), Check(c.task = "terminal", "UnsupportedOperation")>>
           configured == <<Pushing(c), WebhookUrl(c)>>
<1>0. {"noParts", "mediaType", "otherContext"} \subseteq Traits
  BY DEF Traits
<1>1. message \in Seq(CheckType) /\ Len(message) = 2
  BY <1>0, ChecksTyped
<1>2. continued \in Seq(CheckType) /\ Len(continued) = 4
  BY <1>0, ChecksTyped
<1>3. continued[3] = Scoped(c, who)
  OBVIOUS
<1>4. configured \in Seq(CheckType) /\ Len(configured) = 2
  BY ChecksTyped
<1> HIDE DEF message, continued, configured
<1>5. CASE Has(c, "continues")
  <2>1. Execution(c, who) = message \o continued
    BY <1>5 DEF Execution, message, continued
  <2>2. 3 \in DOMAIN continued
    BY <1>2
  <2>3. message \o continued \in Seq(CheckType)
    BY <1>1, <1>2, ConcatProperties
  <2>4. Len(message \o continued) = Len(message) + Len(continued)
    BY <1>1, <1>2, ConcatProperties
  <2>5. Len(message) + 3 \in DOMAIN (message \o continued)
        /\ (message \o continued)[Len(message) + 3] = continued[3]
    BY <2>2, <1>1, <1>2, Appended
  <2>6. Len(Execution(c, who)) <= 6
    BY <2>1, <2>4, <1>1, <1>2
  <2> QED BY <2>1, <2>3, <2>5, <2>6, <1>3
<1>6. CASE ~Has(c, "continues") /\ Has(c, "inlineConfig")
  <2>1. Execution(c, who) = message \o configured
    BY <1>6 DEF Execution, message, configured
  <2>2. message \o configured \in Seq(CheckType) /\ Len(message \o configured) = 4
    BY <1>1, <1>4, Appended
  <2> QED BY <2>1, <2>2, <1>6
<1>7. CASE ~Has(c, "continues") /\ ~Has(c, "inlineConfig")
  <2>1. Execution(c, who) = message \o <<>>
    BY <1>7 DEF Execution, message
  <2>2. <<>> \in Seq(CheckType) /\ Len(<<>>) = 0
    OBVIOUS
  <2> QED BY <2>1, <2>2, <1>1, <1>7, Appended
<1> QED BY <1>5, <1>6, <1>7

\* Whatever the operation, its checks are at most seven.
LEMMA EngineChecksTyped ==
    ASSUME NEW c \in Call, NEW who \in {"none", "known"}
    PROVE  EngineChecks(c, who) \in Seq(CheckType) /\ Len(EngineChecks(c, who)) <= 7
<1> DEFINE checks == EngineChecks(c, who)
<1>0. {"badHistoryLength", "noTaskId", "badPageSize", "badUrl"} \subseteq Traits
  BY DEF Traits
<1>1. CASE c.op = "SendMessage"
  <2>1. checks = <<HistoryLength(c)>> \o Execution(c, who)
    BY <1>1 DEF EngineChecks
  <2>2. <<HistoryLength(c)>> \in Seq(CheckType) /\ Len(<<HistoryLength(c)>>) = 1
    BY ChecksTyped
  <2> QED BY <2>1, <2>2, ExecutionScopes, Appended
<1>2. CASE c.op = "SendStreamingMessage"
  <2>1. checks = <<Streaming(c)>> \o Execution(c, who)
    BY <1>2 DEF EngineChecks
  <2>2. <<Streaming(c)>> \in Seq(CheckType) /\ Len(<<Streaming(c)>>) = 1
    BY ChecksTyped
  <2> QED BY <2>1, <2>2, ExecutionScopes, Appended
<1>3. CASE c.op = "GetTask"
  <2>1. checks = <<HistoryLength(c), TaskFound(c), Scoped(c, who)>>
    BY <1>3 DEF EngineChecks
  <2> QED BY <2>1, ChecksTyped
<1>4. CASE c.op = "ListTasks"
  <2>1. checks = <<Check(Has(c, "badPageSize"), "InvalidParams"), HistoryLength(c)>>
    BY <1>4 DEF EngineChecks
  <2> QED BY <1>0, <2>1, ChecksTyped
<1>5. CASE c.op = "CancelTask"
  <2>1. checks = <<TaskFound(c), Scoped(c, who),
                   Check(c.task = "terminal", "TaskNotCancelable")>>
    BY <1>5 DEF EngineChecks
  <2> QED BY <2>1, ChecksTyped
<1>6. CASE c.op = "SubscribeToTask"
  <2>1. checks = <<Streaming(c), TaskFound(c), Scoped(c, who),
                   Check(c.task = "terminal", "UnsupportedOperation")>>
    BY <1>6 DEF EngineChecks
  <2> QED BY <2>1, ChecksTyped
<1>7. CASE c.op = "CreatePushConfig"
  <2>1. checks = <<Pushing(c), WebhookUrl(c), Check(Has(c, "noTaskId"), "InvalidParams"),
                   TaskFound(c), Scoped(c, who)>>
    BY <1>7 DEF EngineChecks
  <2> QED BY <1>0, <2>1, ChecksTyped
<1>8. CASE c.op = "GetPushConfig"
  <2>1. checks = <<Pushing(c), ConfigFound(c), ScopedIfFound(c, who)>>
    BY <1>8 DEF EngineChecks
  <2> QED BY <2>1, ChecksTyped
<1>9. CASE c.op = "ListPushConfigs"
  <2>1. checks = <<Pushing(c), ScopedIfFound(c, who),
                   Check(Has(c, "badPageSize"), "InvalidParams")>>
    BY <1>9 DEF EngineChecks
  <2> QED BY <1>0, <2>1, ChecksTyped
<1>10. CASE c.op = "DeletePushConfig"
  <2>1. checks = <<Pushing(c), ScopedIfFound(c, who), ConfigFound(c)>>
    BY <1>10 DEF EngineChecks
  <2> QED BY <2>1, ChecksTyped
<1>11. CASE c.op \notin {"SendMessage", "SendStreamingMessage", "GetTask", "ListTasks",
                         "CancelTask", "SubscribeToTask", "CreatePushConfig",
                         "GetPushConfig", "ListPushConfigs", "DeletePushConfig"}
  <2>1. checks = <<>>
    BY <1>11 DEF EngineChecks
  <2> QED BY <2>1
<1> QED BY <1>1, <1>2, <1>3, <1>4, <1>5, <1>6, <1>7, <1>8, <1>9, <1>10, <1>11

\* The engine looks at whether the caller may touch the task wherever an
\* operation touches one.
LEMMA ScopeIsChecked ==
    ASSUME NEW c \in Call, NEW who \in {"none", "known"}, TouchesTask(c)
    PROVE  \E i \in DOMAIN EngineChecks(c, who) :
               EngineChecks(c, who)[i].fails = Barred(c, who)
<1>1. CASE c.op \in {"CancelTask", "ListPushConfigs", "DeletePushConfig"}
  <2> DEFINE second == IF c.op = "CancelTask" THEN Scoped(c, who) ELSE ScopedIfFound(c, who)
  <2>1. 2 \in DOMAIN EngineChecks(c, who) /\ EngineChecks(c, who)[2] = second
    BY <1>1 DEF EngineChecks
  <2>2. c.op # "CancelTask" => c.task # "absent"
    BY <1>1 DEF TouchesTask, TaskOperations, SendOperations
  <2>3. second.fails = Barred(c, who)
    BY <2>2, ChecksTyped DEF Barred
  <2> QED BY <2>1, <2>3
<1>2. CASE c.op \in {"GetTask", "SubscribeToTask", "GetPushConfig"}
  <2> DEFINE third == IF c.op = "GetPushConfig" THEN ScopedIfFound(c, who) ELSE Scoped(c, who)
  <2>1. 3 \in DOMAIN EngineChecks(c, who) /\ EngineChecks(c, who)[3] = third
    BY <1>2 DEF EngineChecks
  <2>2. c.op = "GetPushConfig" => c.task # "absent"
    BY <1>2 DEF TouchesTask, TaskOperations, SendOperations
  <2>3. third.fails = Barred(c, who)
    BY <2>2, ChecksTyped DEF Barred
  <2> QED BY <2>1, <2>3
<1>3. CASE c.op = "CreatePushConfig"
  <2>1. 5 \in DOMAIN EngineChecks(c, who) /\ EngineChecks(c, who)[5] = Scoped(c, who)
    BY <1>3 DEF EngineChecks
  <2> QED BY <2>1, ChecksTyped
<1>4. CASE c.op \in SendOperations
  <2> DEFINE first == IF c.op = "SendMessage" THEN HistoryLength(c) ELSE Streaming(c)
  <2>1. EngineChecks(c, who) = <<first>> \o Execution(c, who)
    BY <1>4 DEF EngineChecks, SendOperations
  <2>2. <<first>> \in Seq(CheckType) /\ Len(<<first>>) = 1
    BY ChecksTyped
  <2>3. Has(c, "continues")
    BY <1>4 DEF TouchesTask, TaskOperations, ConfigOperations, SendOperations
  <2>4. PICK i \in DOMAIN Execution(c, who) : Execution(c, who)[i] = Scoped(c, who)
    BY <2>3, ExecutionScopes
  <2>5. 1 + i \in DOMAIN EngineChecks(c, who)
        /\ EngineChecks(c, who)[1 + i] = Scoped(c, who)
    <3> HIDE DEF first
    <3> QED BY <2>1, <2>2, <2>4, ExecutionScopes, Appended
  <2>6. EngineChecks(c, who)[1 + i].fails = Barred(c, who)
    BY <2>5, ChecksTyped
  <2> QED BY <2>5, <2>6
<1> QED
  BY <1>1, <1>2, <1>3, <1>4 DEF TouchesTask, TaskOperations, ConfigOperations

\* Who is known and is served on a task is authorized for it.
LEMMA ServedIsAuthorized ==
    ASSUME NEW c \in Call, TouchesTask(c),
           FirstFailure(EngineChecks(c, "known")) = "served"
    PROVE  c.authorize = "Ok"
<1>1. PICK i \in DOMAIN EngineChecks(c, "known") :
           EngineChecks(c, "known")[i].fails = Barred(c, "known")
  BY ScopeIsChecked
<1>2. ~EngineChecks(c, "known")[i].fails
  BY EngineChecksTyped, ServedPassesAll
<1> QED BY <1>1, <1>2 DEF Barred

-----------------------------------------------------------------------------
\* What has been made sure of when a stage is reached.
Checked ==
    /\ stage \in {"extensions", "auth", "verify", "params", "operate"}
          \/ answer = "served" => call.version
    /\ stage \in {"auth", "verify", "params", "operate"} \/ answer = "served" =>
          (call.requiresExtension => call.declaresExtension)
    /\ stage \in {"auth", "params"} => call.op # ExtendedCard

\* authenticate_against only tries alternatives that the card names.
Trying ==
    stage = "verify" =>
        /\ call.verifier
        /\ call.op # ExtendedCard => call.alternatives # <<>>
        /\ remaining \in Seq(Alternatives(call))

\* Past authentication a caller is known, unless the agent is public.
Known ==
    stage \in {"params", "operate"} /\ call.op # ExtendedCard /\ call.alternatives # <<>> =>
        Admitted(call) /\ caller = "known"

Typed ==
    /\ call \in Call
    /\ rejection \in A2aError \cup {"none"}
    /\ caller \in {"none", "known"}

Gate == Typed /\ Checked /\ Trying /\ Known /\ ServedMeansAllowed

\* Every alternative is a set of schemes that the verifier has a verdict on.
LEMMA AlternativesTyped ==
    ASSUME NEW c \in Call, NEW a \in Alternatives(c)
    PROVE  a \in SUBSET Schemes /\ c.verify[a] \in A2aError \cup {"Ok"}
<1>1. /\ c.schemes \in SUBSET Schemes /\ c.alternatives \in Seq(SUBSET Schemes)
      /\ c.verify \in [SUBSET Schemes -> A2aError \cup {"Ok"}]
  BY DEF Call
<1>2. a \in SUBSET Schemes
  BY <1>1 DEF Alternatives
<1> QED BY <1>1, <1>2

LEMMA ErrorNotServed ==
    /\ "served" \notin A2aError \cup {"none", "Ok"}
    /\ "none" \notin A2aError /\ "Ok" \notin A2aError
    /\ {"ParseError", "InvalidRequest", "InvalidParams", "VersionNotSupported",
        "ExtensionSupportRequired", "Internal", "Unauthenticated", "MethodNotFound",
        "ExtendedAgentCardNotConfigured"} \subseteq A2aError
BY DEF A2aError, Specific, Malformed

\* Every order of the schemes makes a sequence of alternatives of one scheme.
LEMMA OrdersAreAlternatives ==
    ASSUME NEW c \in Call, c.op = ExtendedCard, c.alternatives = <<>>,
           NEW q \in Orders(c.schemes)
    PROVE  [i \in DOMAIN q |-> {q[i]}] \in Seq(Alternatives(c))
<1>1. c.schemes \in SUBSET Schemes
  BY DEF Call
<1>2. Cardinality(c.schemes) \in Nat
  BY <1>1, SchemesAssumption, FS_Subset, FS_CardinalityType
<1>3. q \in [1 .. Cardinality(c.schemes) -> c.schemes]
  BY DEF Orders
<1>4. Alternatives(c) = {{s} : s \in c.schemes}
  BY DEF Alternatives
<1> DEFINE single == [i \in DOMAIN q |-> {q[i]}]
<1>5. single \in [1 .. Cardinality(c.schemes) -> Alternatives(c)]
  BY <1>3, <1>4
<1> HIDE DEF single
<1>6. single \in Seq(Alternatives(c))
  BY <1>2, <1>5, SeqDef
<1> QED BY <1>6 DEF single

\* The card's own alternatives.
LEMMA NamedAlternatives ==
    ASSUME NEW c \in Call, c.op # ExtendedCard \/ c.alternatives # <<>>
    PROVE  c.alternatives \in Seq(Alternatives(c))
<1>1. c.alternatives \in Seq(SUBSET Schemes)
  BY DEF Call
<1>2. Alternatives(c) = {c.alternatives[i] : i \in DOMAIN c.alternatives}
  BY DEF Alternatives
<1> QED BY <1>1, <1>2, SeqDef

\* An alternative that the verifier accepts admits the caller.
LEMMA Accepted ==
    ASSUME NEW c \in Call, c.verifier, NEW q \in Seq(Alternatives(c)), q # <<>>
    PROVE  /\ Tail(q) \in Seq(Alternatives(c))
           /\ c.verify[Head(q)] \in A2aError \cup {"Ok"}
           /\ Head(q) \subseteq Extracted(c) /\ c.verify[Head(q)] = "Ok" => Admitted(c)
<1>1. Tail(q) \in Seq(Alternatives(c)) /\ Head(q) \in Alternatives(c)
  OBVIOUS
<1> QED BY <1>1, AlternativesTyped DEF Admitted

\* The extended card is not served without a verifier.
LEMMA CardIsVerified ==
    ASSUME NEW c \in Call
    PROVE  /\ CardChecks(c) \in Seq(CheckType) /\ Len(CardChecks(c)) <= 7
           /\ FirstFailure(CardChecks(c)) = "served" => c.verifier
<1>1. c.verifier \in BOOLEAN
  BY DEF Call
<1>2. \A b \in BOOLEAN : /\ Check(b, "Internal") \in CheckType
                         /\ Check(b, "UnsupportedOperation") \in CheckType
                         /\ Check(b, "Internal").fails = b
  BY ErrorsAreVerdicts, CheckIsTyped DEF Verdicts
<1> DEFINE a == Check("extendedAgentCard" \notin c.capabilities, "UnsupportedOperation")
           b == Check(~c.verifier, "Internal")
           d == Check(c.alternatives = <<>> /\ c.schemes = {}, "Internal")
<1>3. a \in CheckType /\ b \in CheckType /\ d \in CheckType /\ b.fails = ~c.verifier
  BY <1>1, <1>2
<1>4. CardChecks(c) = <<a, b, d>>
  BY DEF CardChecks
<1> HIDE DEF a, b, d
<1>5. CardChecks(c) \in Seq(CheckType) /\ Len(CardChecks(c)) <= 7
  BY <1>3, <1>4
<1>6. 2 \in DOMAIN CardChecks(c) /\ CardChecks(c)[2].fails = ~c.verifier
  BY <1>3, <1>4
<1>7. FirstFailure(CardChecks(c)) = "served" => ~CardChecks(c)[2].fails
  BY <1>5, <1>6, ServedPassesAll
<1> QED BY <1>1, <1>5, <1>6, <1>7

\* Gate is inductive.
LEMMA GateInit == Init => Gate
BY CallsAssumption, ErrorNotServed
   DEF Init, Gate, Typed, Checked, Trying, Known, ServedMeansAllowed

LEMMA GateNext == Gate /\ [Next]_vars => Gate'
<1> SUFFICES ASSUME Gate, [Next]_vars PROVE Gate'
  OBVIOUS
<1>1. call' = call
  BY DEF Next, vars, ReadBody, CheckVersion, CheckExtensions, Authenticate, Try,
         TryAlternative, RejectCaller, ParseParams, Operate, OperateCard, Done,
         Move, Answer
<1> USE <1>1, ErrorNotServed DEF Gate, Typed, Checked, Known
<1>2. CASE ReadBody
  BY <1>2 DEF ReadBody, Move, Answer, Trying, ServedMeansAllowed
<1>3. CASE CheckVersion
  BY <1>3 DEF CheckVersion, Move, Answer, Trying, ServedMeansAllowed
<1>4. CASE CheckExtensions
  BY <1>4 DEF CheckExtensions, Move, Answer, Trying, ServedMeansAllowed
<1>5. CASE Authenticate
  BY <1>5, NamedAlternatives DEF Authenticate, Move, Answer, Try, Trying, ServedMeansAllowed
<1>6. CASE TryAlternative
  <2> DEFINE alternative == Head(remaining)
             verdict == call.verify[alternative]
  <2>1. /\ remaining' \in Seq(Alternatives(call))
        /\ verdict \in A2aError \cup {"Ok"}
        /\ alternative \subseteq Extracted(call) /\ verdict = "Ok" => Admitted(call)
    BY <1>6, Accepted DEF TryAlternative, Trying
  <2>2. CASE ~(alternative \subseteq Extracted(call))
    BY <1>6, <2>1, <2>2 DEF TryAlternative, Trying, ServedMeansAllowed
  <2>3. CASE alternative \subseteq Extracted(call) /\ verdict = "Ok"
    BY <1>6, <2>1, <2>3
    DEF TryAlternative, Trying, ServedMeansAllowed, TouchesTask, ExtendedCard,
        TaskOperations, ConfigOperations, SendOperations
  <2>4. CASE alternative \subseteq Extracted(call) /\ verdict # "Ok"
    BY <1>6, <2>1, <2>4 DEF TryAlternative, Trying, ServedMeansAllowed
  <2> QED BY <2>2, <2>3, <2>4
<1>7. CASE RejectCaller
  BY <1>7 DEF RejectCaller, Answer, Trying, ServedMeansAllowed
<1>8. CASE ParseParams
  BY <1>8 DEF ParseParams, Move, Answer, Trying, ServedMeansAllowed
<1>9. CASE Operate
  BY <1>9, ServedIsAuthorized DEF Operate, Answer, Trying, ServedMeansAllowed
<1>10. CASE OperateCard
  <2> DEFINE outcome == FirstFailure(CardChecks(call))
  <2>1. CASE outcome # "served"
    BY <1>10, <2>1 DEF OperateCard, Answer, Trying, ServedMeansAllowed
  <2>2. CASE outcome = "served" /\ call.alternatives # <<>>
    BY <1>10, <2>2, CardIsVerified, NamedAlternatives
    DEF OperateCard, Try, Trying, ServedMeansAllowed
  <2>3. CASE outcome = "served" /\ call.alternatives = <<>>
    <3>1. PICK q \in Orders(call.schemes) : Try([i \in DOMAIN q |-> {q[i]}])
      BY <1>10, <2>3 DEF OperateCard
    <3>2. remaining' \in Seq(Alternatives(call))
      BY <1>10, <2>3, <3>1, OrdersAreAlternatives DEF OperateCard, Try
    <3> QED BY <1>10, <2>3, <3>1, <3>2, CardIsVerified
            DEF OperateCard, Try, Trying, ServedMeansAllowed
  <2> QED BY <2>1, <2>2, <2>3
<1>11. CASE UNCHANGED vars
  BY <1>11 DEF vars, Trying, ServedMeansAllowed
<1> QED
  BY <1>2, <1>3, <1>4, <1>5, <1>6, <1>7, <1>8, <1>9, <1>10, <1>11 DEF Next, Done

\* Nobody is served against the agent card, whatever the schemes, the
\* alternatives and the calls are.
THEOREM ServedOnlyIfAllowed == Spec => []ServedMeansAllowed
<1>1. Gate => ServedMeansAllowed
  BY DEF Gate
<1> QED BY <1>1, GateInit, GateNext, PTL DEF Spec

-----------------------------------------------------------------------------
(***************************************************************************)
(* The bindings answer alike: where a request stands determines what       *)
(* Verdict says of it.                                                     *)
(***************************************************************************)
Complete(c, i) == c.alternatives[i] \subseteq Extracted(c)
NotTried == Len(call.alternatives) - Len(remaining)

\* How far authenticate_against has come, and the last rejection so far.
Pending ==
    stage = "verify" /\ call.op # ExtendedCard =>
        /\ remaining \in Seq(SUBSET Schemes)
        /\ Len(remaining) <= Len(call.alternatives)
        /\ \A i \in DOMAIN remaining : remaining[i] = call.alternatives[NotTried + i]
        /\ \A i \in 1 .. NotTried :
              Complete(call, i) => call.verify[call.alternatives[i]] # "Ok"
        /\ rejection = "none" => \A i \in 1 .. NotTried : ~Complete(call, i)
        /\ rejection # "none" =>
              \E m \in 1 .. NotTried :
                 /\ Complete(call, m) /\ rejection = call.verify[call.alternatives[m]]
                 /\ \A j \in 1 .. NotTried : Complete(call, j) => j <= m

Settled ==
    /\ stage \in {"body", "version", "extensions", "auth", "verify"} => caller = "none"
    /\ stage = "operate" /\ call.op = ExtendedCard => caller = "none"
    /\ stage \in {"body", "version", "extensions", "auth"} => rejection = "none"
    /\ stage \in {"params", "operate"} /\ call.op # ExtendedCard =>
          /\ AuthOutcome(call) = "Ok"
          /\ caller = IF call.alternatives = <<>> THEN "none" ELSE "known"

Agreement == Pending /\ Settled /\ BindingsAgree

\* One accepted alternative is enough.
LEMMA OutcomeOk ==
    ASSUME NEW c \in Call, c.verifier, NEW i \in DOMAIN c.alternatives, Complete(c, i),
           c.verify[c.alternatives[i]] = "Ok"
    PROVE  AuthOutcome(c) = "Ok"
<1>1. c.alternatives \in Seq(SUBSET Schemes)
  BY DEF Call
<1>2. c.alternatives # <<>>
  BY <1>1
<1> QED BY <1>2 DEF AuthOutcome, Complete

\* Without one, it is the last rejection.
LEMMA OutcomeRejected ==
    ASSUME NEW c \in Call, c.verifier, NEW m \in DOMAIN c.alternatives, Complete(c, m),
           \A j \in DOMAIN c.alternatives : Complete(c, j) =>
              j <= m /\ c.verify[c.alternatives[j]] # "Ok"
    PROVE  AuthOutcome(c) = c.verify[c.alternatives[m]]
<1>1. c.alternatives \in Seq(SUBSET Schemes)
  BY DEF Call
<1>2. c.alternatives # <<>> /\ DOMAIN c.alternatives \subseteq Nat
  BY <1>1
<1> DEFINE tried == {i \in DOMAIN c.alternatives : c.alternatives[i] \subseteq Extracted(c)}
           last == CHOOSE i \in tried : \A j \in tried : j <= i
<1>3. m \in tried /\ \A j \in tried : j <= m /\ j \in Nat
  BY <1>2 DEF Complete
<1>4. last \in tried /\ \A j \in tried : j <= last
  BY <1>3
<1>5. last = m
  BY <1>3, <1>4
<1> QED BY <1>2, <1>3, <1>5 DEF AuthOutcome, Complete

\* Without credentials for any of them, the caller is unauthenticated.
LEMMA OutcomeUntried ==
    ASSUME NEW c \in Call, c.verifier, c.alternatives # <<>>,
           \A j \in DOMAIN c.alternatives : ~Complete(c, j)
    PROVE  AuthOutcome(c) = "Unauthenticated"
BY DEF AuthOutcome, Complete

\* Agreement is inductive, given Gate.
LEMMA AgreementInit == Init => Agreement
BY DEF Init, Agreement, Pending, Settled, BindingsAgree

LEMMA AgreementNext == Gate /\ Agreement /\ [Next]_vars => Agreement'
<1> SUFFICES ASSUME Gate, Agreement, [Next]_vars PROVE Agreement'
  OBVIOUS
<1>1. call' = call
  BY DEF Next, vars, ReadBody, CheckVersion, CheckExtensions, Authenticate, Try,
         TryAlternative, RejectCaller, ParseParams, Operate, OperateCard, Done,
         Move, Answer
<1>2. /\ call \in Call
      /\ call.alternatives \in Seq(SUBSET Schemes)
  BY DEF Gate, Typed, Call
<1> USE <1>1, ErrorNotServed DEF Agreement
<1>3. CASE ReadBody
  BY <1>3 DEF ReadBody, RejectedByAxum, Move, Answer, Pending, Settled, BindingsAgree, Plain
<1>4. CASE CheckVersion
  BY <1>4 DEF CheckVersion, Move, Answer, Pending, Settled, BindingsAgree, Verdict
<1>5. CASE CheckExtensions
  BY <1>5 DEF CheckExtensions, Move, Answer, Pending, Settled, BindingsAgree, Verdict,
              Gate, Checked
<1>6. CASE Authenticate
  <2>1. call.op # ExtendedCard
    BY <1>6 DEF Authenticate, Gate, Checked
  <2>2. CASE call.alternatives = <<>>
    BY <1>6, <2>1, <2>2
    DEF Authenticate, Move, Pending, Settled, BindingsAgree, AuthOutcome
  <2>3. CASE call.alternatives # <<>> /\ ~call.verifier
    BY <1>6, <2>1, <2>3
    DEF Authenticate, Answer, Pending, Settled, BindingsAgree, Verdict, AuthOutcome,
        Gate, Checked
  <2>4. CASE call.alternatives # <<>> /\ call.verifier
    <3>1. remaining' = call.alternatives /\ stage' = "verify" /\ stage = "auth"
          /\ UNCHANGED <<rejection, caller, answer>>
      BY <1>6, <2>4 DEF Authenticate, Try
    <3>2. NotTried' = 0
      BY <1>2, <3>1 DEF NotTried
    <3>3. Pending'
      BY <1>2, <3>1, <3>2 DEF Pending, Settled, Complete
    <3> QED BY <3>1, <3>3 DEF Settled, BindingsAgree
  <2> QED BY <2>2, <2>3, <2>4
<1>7. CASE TryAlternative /\ call.op # ExtendedCard
  <2> DEFINE n == NotTried + 1
             verdict == call.verify[Head(remaining)]
  <2>1. /\ stage = "verify" /\ remaining # <<>> /\ remaining' = Tail(remaining)
        /\ call.verifier /\ caller = "none"
    BY <1>7 DEF TryAlternative, Gate, Trying, Settled
  <2>2. /\ Head(remaining) = call.alternatives[n]
        /\ n \in DOMAIN call.alternatives /\ NotTried \in Nat
    BY <1>2, <1>7, <2>1 DEF Pending, NotTried
  <2>3. verdict \in A2aError \cup {"Ok"}
    BY <2>1, Accepted DEF Gate, Typed, Trying
  <2>4. /\ remaining' \in Seq(SUBSET Schemes)
        /\ Len(remaining') <= Len(call.alternatives)
        /\ NotTried' = n
        /\ \A i \in DOMAIN remaining' : remaining'[i] = call.alternatives[n + i]
    BY <1>2, <1>7, <2>1 DEF Pending, NotTried
  <2>5. 1 .. n = (1 .. NotTried) \cup {n} /\ \A i \in 1 .. n : i <= n
    BY <2>2
  <2>6. CASE ~Complete(call, n)
    <3>1. UNCHANGED <<stage, rejection, caller, answer>>
      BY <1>7, <2>2, <2>6 DEF TryAlternative, Complete
    <3> QED BY <1>7, <2>1, <2>4, <2>5, <2>6, <3>1
            DEF Pending, Settled, BindingsAgree, Complete
  <2>7. CASE Complete(call, n) /\ verdict = "Ok"
    <3>1. stage' = "params" /\ caller' = "known" /\ answer' = answer
      BY <1>7, <2>2, <2>7 DEF TryAlternative, Complete
    <3>2. AuthOutcome(call) = "Ok" /\ call.alternatives # <<>>
      BY <1>2, <2>1, <2>2, <2>7, OutcomeOk
    <3> QED BY <3>1, <3>2 DEF Pending, Settled, BindingsAgree
  <2>8. CASE Complete(call, n) /\ verdict # "Ok"
    <3>1. rejection' = verdict /\ UNCHANGED <<stage, caller, answer>>
      BY <1>7, <2>2, <2>8 DEF TryAlternative, Complete
    <3> QED BY <1>7, <2>1, <2>2, <2>3, <2>4, <2>5, <2>8, <3>1
            DEF Pending, Settled, BindingsAgree, Complete
  <2> QED BY <2>6, <2>7, <2>8
<1>8. CASE TryAlternative /\ call.op = ExtendedCard
  BY <1>8 DEF TryAlternative, Pending, Settled, BindingsAgree, Plain
<1>9. CASE RejectCaller
  <2>1. /\ stage = "verify" /\ remaining = <<>> /\ stage' = "answered"
        /\ answer' = IF rejection = "none" THEN "Unauthenticated" ELSE rejection
        /\ call.verifier
    BY <1>9 DEF RejectCaller, Answer, Gate, Trying
  <2>2. SUFFICES ASSUME Plain(call) PROVE answer' = Verdict(call)
    BY <2>1 DEF Pending, Settled, BindingsAgree
  <2>3. call.op # ExtendedCard /\ call.alternatives # <<>>
    BY <2>1, <2>2 DEF Plain, Gate, Trying
  <2>4. 1 .. NotTried = DOMAIN call.alternatives
    BY <1>2, <2>1 DEF NotTried
  <2>5. CASE rejection = "none"
    <3>1. AuthOutcome(call) = "Unauthenticated"
      BY <1>2, <2>1, <2>3, <2>4, <2>5, OutcomeUntried DEF Pending
    <3> QED BY <2>1, <2>5, <3>1 DEF Verdict, Gate, Checked
  <2>6. CASE rejection # "none"
    <3>1. PICK m \in DOMAIN call.alternatives :
             /\ Complete(call, m) /\ rejection = call.verify[call.alternatives[m]]
             /\ \A j \in DOMAIN call.alternatives : Complete(call, j) =>
                   j <= m /\ call.verify[call.alternatives[j]] # "Ok"
      BY <2>1, <2>3, <2>4, <2>6 DEF Pending
    <3>2. AuthOutcome(call) = rejection /\ rejection # "Ok"
      BY <1>2, <2>1, <3>1, OutcomeRejected
    <3> QED BY <2>1, <2>6, <3>2 DEF Verdict, Gate, Checked
  <2> QED BY <2>5, <2>6
<1>10. CASE ParseParams
  BY <1>10 DEF ParseParams, ParsedLast, Move, Answer, Pending, Settled, BindingsAgree,
               Plain, Operations, SendOperations, TaskOperations, ConfigOperations,
               ExtendedCard, Gate, Checked
<1>11. CASE Operate
  BY <1>11 DEF Operate, Answer, Pending, Settled, BindingsAgree, Verdict, Gate, Checked
<1>12. CASE OperateCard
  <2>1. /\ call.op = ExtendedCard /\ caller = "none" /\ caller' = caller
        /\ stage' \in {"verify", "answered"}
    BY <1>12 DEF OperateCard, Answer, Try, Settled
  <2> QED BY <2>1 DEF Pending, Settled, BindingsAgree, Plain
<1>13. CASE UNCHANGED vars
  BY <1>13 DEF vars, Pending, NotTried, Settled, BindingsAgree
<1> QED
  BY <1>3, <1>4, <1>5, <1>6, <1>7, <1>8, <1>9, <1>10, <1>11, <1>12, <1>13 DEF Next, Done

\* A plain request gets the same answer over every binding, whatever the
\* schemes and the order, the number and the verdicts of the alternatives.
THEOREM BindingsAnswerAlike == Spec => []BindingsAgree
<1>1. Agreement => BindingsAgree
  BY DEF Agreement
<1> QED BY <1>1, GateInit, GateNext, AgreementInit, AgreementNext, PTL DEF Spec

\* That answer does not depend on the binding.
THEOREM VerdictIgnoresBinding ==
    ASSUME NEW c \in Call, Plain(c), NEW b \in Bindings
    PROVE  Verdict([c EXCEPT !.binding = b]) = Verdict(c)
<1> DEFINE d == [c EXCEPT !.binding = b]
<1>1. Extracted(d) = Extracted(c)
  BY DEF Extracted, Plain, Call
<1>2. AuthOutcome(d) = AuthOutcome(c)
  <2>1. /\ d.alternatives = c.alternatives /\ d.verifier = c.verifier
        /\ d.verify = c.verify
    BY DEF Call
  <2> HIDE DEF d
  <2> QED BY <1>1, <2>1 DEF AuthOutcome
<1>3. \A who \in {"none", "known"} : EngineChecks(d, who) = EngineChecks(c, who)
  BY DEF EngineChecks, Execution, Streaming, Pushing, TaskFound, Scoped, ScopedIfFound,
         HistoryLength, WebhookUrl, ConfigFound, Has, Barred, Call
<1> QED BY <1>2, <1>3 DEF Verdict, Call

-----------------------------------------------------------------------------
(***************************************************************************)
(* What a client learns.                                                   *)
(***************************************************************************)
\* A JSON-RPC body that is no request is answered before anything else.
Unreadable ==
    call.binding = "jsonrpc" /\ call.body \in {"noJson", "noEnvelope"} =>
        stage = "body" \/ (stage = "answered" /\ answer \in Malformed)

Answers == TypeOK /\ Unreadable

LEMMA AnswersInit == Init => Answers
BY ErrorNotServed DEF Init, Answers, TypeOK, Unreadable

LEMMA AnswersNext == Gate /\ Answers /\ [Next]_vars => Answers'
<1> SUFFICES ASSUME Gate, Answers, [Next]_vars PROVE Answers'
  OBVIOUS
<1>1. call' = call /\ call \in Call
  BY DEF Next, vars, ReadBody, CheckVersion, CheckExtensions, Authenticate, Try,
         TryAlternative, RejectCaller, ParseParams, Operate, OperateCard, Done,
         Move, Answer, Gate, Typed
<1> USE <1>1, ErrorNotServed DEF Answers, TypeOK, Unreadable
<1>2. CASE ReadBody
  BY <1>2 DEF ReadBody, Move, Answer, Malformed
<1>3. CASE CheckVersion
  <2>1. "VersionNotSupported" # "none"
    OBVIOUS
  <2> QED BY <1>3, <2>1 DEF CheckVersion, Move, Answer
<1>4. CASE CheckExtensions
  BY <1>4 DEF CheckExtensions, Move, Answer
<1>5. CASE Authenticate
  BY <1>5 DEF Authenticate, Move, Answer, Try
<1>6. CASE TryAlternative
  <2>1. call.verify[Head(remaining)] \in A2aError \cup {"Ok"}
    BY <1>6, Accepted DEF TryAlternative, Gate, Trying
  <2> QED BY <1>6, <2>1 DEF TryAlternative
<1>7. CASE RejectCaller
  BY <1>7 DEF RejectCaller, Answer
<1>8. CASE ParseParams
  BY <1>8 DEF ParseParams, Move, Answer
<1>9. CASE Operate
  <2>1. FirstFailure(EngineChecks(call, caller)) \in A2aError \cup {"served"}
    BY EngineChecksTyped, FailureIsError
  <2> QED BY <1>9, <2>1 DEF Operate, Answer
<1>10. CASE OperateCard
  <2> DEFINE outcome == FirstFailure(CardChecks(call))
  <2>1. outcome \in A2aError \cup {"served"}
    BY CardIsVerified, FailureIsError
  <2>2. CASE outcome # "served"
    BY <1>10, <2>1, <2>2 DEF OperateCard, Answer
  <2>3. CASE outcome = "served"
    <3>1. stage = "operate" /\ stage' = "verify"
          /\ UNCHANGED <<call, rejection, caller, answer>>
      BY <1>10, <2>3 DEF OperateCard, Try
    <3> QED BY <3>1
  <2> QED BY <2>2, <2>3
<1>11. CASE UNCHANGED vars
  BY <1>11 DEF vars
<1> QED
  BY <1>2, <1>3, <1>4, <1>5, <1>6, <1>7, <1>8, <1>9, <1>10, <1>11 DEF Next, Done

\* An answered call has an answer, and it is an error of the protocol or the
\* operation was served.
THEOREM AnswersAreTyped == Spec => []TypeOK
<1>1. Answers => TypeOK
  BY DEF Answers
<1> QED BY <1>1, GateInit, GateNext, AnswersInit, AnswersNext, PTL DEF Spec

\* By its code alone: JSON-RPC has a code for every error.
LEMMA JsonRpcTellsAll ==
    ASSUME NEW e \in A2aError
    PROVE  FromJsonRpc(JsonRpcCode[e]) = e
BY DEF FromJsonRpc, JsonRpcCode, Numbered, A2aError, Specific, Malformed

\* By its reason, or by a status that no other error without one has.
LEMMA RestTells ==
    ASSUME NEW e \in A2aError
    PROVE  FromRest(HttpStatus(e), IF e \in Specific THEN Reason(e) ELSE GrpcStatusName(e))
              = IF e \in Malformed THEN "InvalidRequest" ELSE e
BY DEF FromRest, HttpStatus, GrpcStatusName, Reason, NoReason, A2aError, Specific, Malformed

LEMMA GrpcTells ==
    ASSUME NEW e \in A2aError
    PROVE  FromGrpc(GrpcStatusName(e), Reason(e))
              = IF e \in Malformed THEN "InvalidParams" ELSE e
BY DEF FromGrpc, GrpcStatusName, Reason, NoReason, A2aError, Specific, Malformed

\* The client of every binding learns which error it was, whatever error the
\* verifier or the engine answers with.
THEOREM ClientAlwaysLearns == Spec => []ClientLearnsError
<1>1. Gate /\ Answers => ClientLearnsError
  <2> SUFFICES ASSUME Gate, Answers, answer \in A2aError PROVE ClientLearnsError
    BY DEF ClientLearnsError
  <2>1. Reconstructed(call.binding, answer) =
           IF answer \in Malformed /\ call.binding = "rest" THEN "InvalidRequest"
           ELSE IF answer \in Malformed /\ call.binding = "grpc" THEN "InvalidParams"
           ELSE answer
    <3>1. call.binding \in {"jsonrpc", "rest", "grpc"}
      BY DEF Gate, Typed, Call, Bindings
    <3> QED BY <3>1, JsonRpcTellsAll, RestTells, GrpcTells DEF Reconstructed
  <2>2. {"InvalidRequest", "InvalidParams"} \subseteq Malformed
    BY DEF Malformed
  <2>3. CASE call.binding = "jsonrpc" /\ call.body \in {"noJson", "noEnvelope"}
    <3>1. answer \in Malformed
      BY <2>3, ErrorNotServed DEF Answers, TypeOK, Unreadable
    <3> QED BY <2>3, <3>1 DEF ClientLearnsError, SeenByClient
  <2>4. CASE ~(call.binding = "jsonrpc" /\ call.body \in {"noJson", "noEnvelope"})
    BY <2>1, <2>2, <2>4 DEF ClientLearnsError, SeenByClient
  <2> QED BY <2>3, <2>4
<1> QED BY <1>1, GateInit, GateNext, AnswersInit, AnswersNext, PTL DEF Spec
=============================================================================
