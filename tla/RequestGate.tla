---------------------------- MODULE RequestGate ----------------------------
(***************************************************************************)
(* The way of one request through a binding (JSON-RPC, REST or gRPC) to    *)
(* the engine and of the answer back to the client: the body is read, the  *)
(* version, the extensions and the credentials are checked, the parameters *)
(* are parsed, and the operation makes its own checks.                     *)
(*                                                                         *)
(* Each binding is written by hand against the same engine; they are meant *)
(* to answer alike.  Verifying an alternative of the security requirements *)
(* awaits the application, so it is a step of its own.  What the store and *)
(* the application say is part of the call, so the checks of an operation  *)
(* are one step.  What the operations then do is the subject of the other  *)
(* modules.                                                                *)
(***************************************************************************)
EXTENDS ErrorCodes, FiniteSets

CONSTANTS
    Schemes,    \* names of security schemes
    Calls       \* the calls that are looked at

Bindings == {"jsonrpc", "rest", "grpc"}

SendOperations == {"SendMessage", "SendStreamingMessage"}
TaskOperations == {"GetTask", "CancelTask", "SubscribeToTask", "CreatePushConfig"}
ConfigOperations == {"GetPushConfig", "ListPushConfigs", "DeletePushConfig"}
ExtendedCard == "GetExtendedAgentCard"
Operations ==
    SendOperations \cup TaskOperations \cup ConfigOperations
        \cup {"ListTasks", ExtendedCard}
\* An unknown method or, with REST, an unknown action on a task.
Unknown == {"UnknownMethod", "UnknownAction"}

(***************************************************************************)
(* A call: the agent as it is set up, the request as it is sent, and what  *)
(* the application and the store say.  `verify` and `authorize` are the    *)
(* two operations of AuthVerifier: "Ok" or any error.                      *)
(***************************************************************************)
Capabilities == {"streaming", "pushNotifications", "extendedAgentCard"}
Places == {"header", "query", "cookie", "authorization", "mtls"}
Traits ==
    {"continues", "otherContext", "noParts", "mediaType", "inlineConfig", "badUrl",
     "badHistoryLength", "badPageSize", "noTaskId"}

Call ==
    [binding : Bindings, op : Operations \cup Unknown,
     schemes : SUBSET Schemes, place : [Schemes -> Places],
     alternatives : Seq(SUBSET Schemes),    \* AgentCard.securityRequirements
     verifier : BOOLEAN, mtlsHeader : BOOLEAN,
     requiresExtension : BOOLEAN, capabilities : SUBSET Capabilities,
     extendedCard : BOOLEAN,
     version : BOOLEAN, declaresExtension : BOOLEAN,
     carries : SUBSET Schemes,              \* credentials where they belong
     body : {"good", "noJson", "noEnvelope", "badParams"}, traits : SUBSET Traits,
     task : {"absent", "live", "terminal"}, config : BOOLEAN,
     verify : [SUBSET Schemes -> A2aError \cup {"Ok"}],
     authorize : A2aError \cup {"Ok"}]

ASSUME SchemesAssumption == IsFiniteSet(Schemes)
ASSUME CallsAssumption == Calls \subseteq Call

VARIABLES
    call,       \* the call; does not change
    stage,      \* what is checked next
    remaining,  \* the alternatives authenticate_against has not tried
    rejection,  \* the last error of AuthVerifier::verify
    caller,     \* Option<AuthContext>: "none" or "known"
    answer      \* "none" yet, "served", or the error

vars == <<call, stage, remaining, rejection, caller, answer>>

\* The types; the call itself stays what Init picked.
TypeOK ==
    /\ stage \in {"body", "version", "extensions", "auth", "verify", "params",
                  "operate", "answered"}
    /\ rejection \in A2aError \cup {"none"}
    /\ caller \in {"none", "known"}
    /\ answer \in A2aError \cup {"none", "served"}
    /\ stage = "answered" <=> answer # "none"

Init ==
    /\ call \in Calls
    /\ stage = "body"
    /\ remaining = <<>>
    /\ rejection = "none"
    /\ caller = "none"
    /\ answer = "none"

-----------------------------------------------------------------------------
Move(next) ==
    /\ stage' = next
    /\ UNCHANGED <<call, remaining, rejection, caller, answer>>

Answer(a) ==
    /\ stage' = "answered"
    /\ answer' = a
    /\ UNCHANGED <<call, remaining, rejection, caller>>

\* The operations whose REST handlers have an A2aJson or A2aQuery argument;
\* axum extracts those before the handler runs.
TypedByRest ==
    SendOperations
        \cup {"GetTask", "SubscribeToTask", "ListTasks", "CreatePushConfig",
              "ListPushConfigs", "UnknownMethod"}
RejectedByAxum(c) == c.binding = "rest" /\ c.body # "good" /\ c.op \in TypedByRest

\* With JSON-RPC the envelope is read first and the parameters last, with
\* REST the body or query is parsed first, with gRPC the message is converted
\* last.
ReadBody ==
    /\ stage = "body"
    /\ CASE call.binding = "jsonrpc" /\ call.body = "noJson" -> Answer("ParseError")
         [] call.binding = "jsonrpc" /\ call.body = "noEnvelope" ->
               Answer("InvalidRequest")
         [] RejectedByAxum(call) -> Answer("InvalidParams")
         [] OTHER -> Move("version")

CheckVersion ==
    /\ stage = "version"
    /\ IF call.version THEN Move("extensions") ELSE Answer("VersionNotSupported")

CheckExtensions ==
    /\ stage = "extensions"
    /\ IF call.requiresExtension /\ ~call.declaresExtension
       THEN Answer("ExtensionSupportRequired")
       ELSE Move(IF call.op = ExtendedCard THEN "operate" ELSE "auth")

-----------------------------------------------------------------------------
(***************************************************************************)
(* Authentication.  Only some of the REST handlers pass their query on to  *)
(* extract_credentials.                                                    *)
(***************************************************************************)
QueryOperations ==
    {"GetTask", "SubscribeToTask", "CancelTask", "ListTasks", "UnknownAction"}
        \cup ConfigOperations
PassesQuery(c) == c.binding = "rest" /\ c.op \in QueryOperations

Extracted(c) ==
    {s \in c.carries \cap c.schemes :
        /\ c.place[s] = "query" => PassesQuery(c)
        /\ c.place[s] = "mtls" => c.mtlsHeader}

\* authenticate_against begins.
Try(alternatives) ==
    /\ stage' = "verify"
    /\ remaining' = alternatives
    /\ UNCHANGED <<call, rejection, caller, answer>>

Authenticate ==
    /\ stage = "auth"
    /\ CASE call.alternatives = <<>> -> Move("params")
         [] call.alternatives # <<>> /\ ~call.verifier -> Answer("Internal")
         [] OTHER -> Try(call.alternatives)

\* Mutant: one credential of an alternative is enough to be verified.
TryAlternative_AnyScheme ==
    /\ stage = "verify" /\ remaining # <<>>
    /\ remaining' = Tail(remaining)
    /\ LET alternative == Head(remaining)
           verdict == call.verify[alternative]
       IN CASE alternative \cap Extracted(call) = {} ->
                  UNCHANGED <<call, stage, rejection, caller, answer>>
            [] alternative \cap Extracted(call) # {} /\ verdict = "Ok" ->
                  /\ caller' = "known"
                  /\ IF call.op = ExtendedCard
                     THEN /\ stage' = "answered"
                          /\ answer' = IF call.extendedCard THEN "served"
                                       ELSE "ExtendedAgentCardNotConfigured"
                     ELSE stage' = "params" /\ UNCHANGED answer
                  /\ UNCHANGED <<call, rejection>>
            [] OTHER ->
                  /\ rejection' = verdict
                  /\ UNCHANGED <<call, stage, caller, answer>>

\* The next alternative: skipped unless every scheme of it has a credential.
\* GetExtendedAgentCard has nothing left to do once one is accepted.
TryAlternative ==
    /\ stage = "verify" /\ remaining # <<>>
    /\ remaining' = Tail(remaining)
    /\ LET alternative == Head(remaining)
           verdict == call.verify[alternative]
       IN CASE ~(alternative \subseteq Extracted(call)) ->
                  UNCHANGED <<call, stage, rejection, caller, answer>>
            [] alternative \subseteq Extracted(call) /\ verdict = "Ok" ->
                  /\ caller' = "known"
                  /\ IF call.op = ExtendedCard
                     THEN /\ stage' = "answered"
                          /\ answer' = IF call.extendedCard THEN "served"
                                       ELSE "ExtendedAgentCardNotConfigured"
                     ELSE stage' = "params" /\ UNCHANGED answer
                  /\ UNCHANGED <<call, rejection>>
            [] OTHER ->
                  /\ rejection' = verdict
                  /\ UNCHANGED <<call, stage, caller, answer>>

\* Mutant: an error is made only of a rejection.
RejectCaller_NoDefault ==
    /\ stage = "verify" /\ remaining = <<>>
    /\ Answer(rejection)

\* Mutant: why the verifier rejected is dropped.
RejectCaller_Generic ==
    /\ stage = "verify" /\ remaining = <<>>
    /\ Answer("Unauthenticated")

RejectCaller ==
    /\ stage = "verify" /\ remaining = <<>>
    /\ Answer(IF rejection = "none" THEN "Unauthenticated" ELSE rejection)

\* What REST has not parsed before.  With gRPC only a message can lack a field
\* that its conversion needs.
ParsedLast(c) ==
    \/ c.binding = "jsonrpc"
    \/ c.binding = "grpc" /\ c.op \in SendOperations

\* The parameters, and whether there is such a method.
ParseParams ==
    /\ stage = "params"
    /\ CASE call.op = "UnknownMethod" -> Answer("MethodNotFound")
         [] call.op = "UnknownAction" -> Answer("InvalidRequest")
         [] /\ call.op \notin {"UnknownMethod", "UnknownAction"}
            /\ ParsedLast(call) /\ call.body = "badParams" -> Answer("InvalidParams")
         [] OTHER -> Move("operate")

-----------------------------------------------------------------------------
(***************************************************************************)
(* The checks of the engine's operations, in order.                        *)
(***************************************************************************)
Check(fails, error) == [fails |-> fails, error |-> error]

FirstFailure(checks) ==
    LET failing == {i \in DOMAIN checks : checks[i].fails}
    IN IF failing = {} THEN "served"
       ELSE checks[CHOOSE i \in failing : \A j \in failing : i <= j].error

Has(c, trait) == trait \in c.traits
\* Only a caller that has authenticated is scoped.
Barred(c, who) == who = "known" /\ c.authorize # "Ok"

Streaming(c) == Check("streaming" \notin c.capabilities, "UnsupportedOperation")
Pushing(c) ==
    Check("pushNotifications" \notin c.capabilities, "PushNotificationNotSupported")
TaskFound(c) == Check(c.task = "absent", "TaskNotFound")
Scoped(c, who) == Check(Barred(c, who), c.authorize)
ScopedIfFound(c, who) == Check(c.task # "absent" /\ Barred(c, who), c.authorize)
HistoryLength(c) == Check(Has(c, "badHistoryLength"), "InvalidParams")
WebhookUrl(c) == Check(Has(c, "badUrl"), "InvalidParams")
ConfigFound(c) == Check(~c.config, "TaskNotFound")

\* start_execution: a message begins a task, or continues one.
Execution(c, who) ==
    <<Check(Has(c, "noParts"), "InvalidParams"),
      Check(Has(c, "mediaType"), "ContentTypeNotSupported")>> \o
    (IF Has(c, "continues")
     THEN <<TaskFound(c),
            Check(Has(c, "otherContext"), "InvalidParams"),
            Scoped(c, who),
            Check(c.task = "terminal", "UnsupportedOperation")>>
     ELSE IF Has(c, "inlineConfig") THEN <<Pushing(c), WebhookUrl(c)>> ELSE <<>>)

EngineChecks(c, who) ==
    CASE c.op = "SendMessage" -> <<HistoryLength(c)>> \o Execution(c, who)
      [] c.op = "SendStreamingMessage" -> <<Streaming(c)>> \o Execution(c, who)
      [] c.op = "GetTask" -> <<HistoryLength(c), TaskFound(c), Scoped(c, who)>>
      [] c.op = "ListTasks" ->
            <<Check(Has(c, "badPageSize"), "InvalidParams"), HistoryLength(c)>>
      [] c.op = "CancelTask" ->
            <<TaskFound(c), Scoped(c, who),
              Check(c.task = "terminal", "TaskNotCancelable")>>
      [] c.op = "SubscribeToTask" ->
            <<Streaming(c), TaskFound(c), Scoped(c, who),
              Check(c.task = "terminal", "UnsupportedOperation")>>
      [] c.op = "CreatePushConfig" ->
            <<Pushing(c), WebhookUrl(c), Check(Has(c, "noTaskId"), "InvalidParams"),
              TaskFound(c), Scoped(c, who)>>
      [] c.op = "GetPushConfig" -> <<Pushing(c), ConfigFound(c), ScopedIfFound(c, who)>>
      [] c.op = "ListPushConfigs" ->
            <<Pushing(c), ScopedIfFound(c, who),
              Check(Has(c, "badPageSize"), "InvalidParams")>>
      [] c.op = "DeletePushConfig" ->
            <<Pushing(c), ScopedIfFound(c, who), ConfigFound(c)>>
      [] OTHER -> <<>>

Operate ==
    /\ stage = "operate" /\ call.op # ExtendedCard
    /\ Answer(FirstFailure(EngineChecks(call, caller)))

\* The orders in which the keys of a HashMap may come.
Orders(S) ==
    {q \in [1 .. Cardinality(S) -> S] : \A i, j \in DOMAIN q : q[i] = q[j] => i = j}

CardChecks(c) ==
    <<Check("extendedAgentCard" \notin c.capabilities, "UnsupportedOperation"),
      Check(~c.verifier, "Internal"),
      Check(c.alternatives = <<>> /\ c.schemes = {}, "Internal")>>

\* get_extended_agent_card is authenticated by the security requirements or,
\* if there are none, by any one of the schemes.
OperateCard ==
    /\ stage = "operate" /\ call.op = ExtendedCard
    /\ LET outcome == FirstFailure(CardChecks(call))
       IN CASE outcome # "served" -> Answer(outcome)
            [] outcome = "served" /\ call.alternatives # <<>> -> Try(call.alternatives)
            [] OTHER -> \E q \in Orders(call.schemes) :
                           Try([i \in DOMAIN q |-> {q[i]}])

Done == stage = "answered" /\ UNCHANGED vars

Next ==
    \/ ReadBody
    \/ CheckVersion
    \/ CheckExtensions
    \/ Authenticate
    \/ TryAlternative
    \/ RejectCaller
    \/ ParseParams
    \/ Operate
    \/ OperateCard
    \/ Done

Spec == Init /\ [][Next]_vars

-----------------------------------------------------------------------------
Alternatives(c) ==
    IF c.op = ExtendedCard /\ c.alternatives = <<>>
    THEN {{s} : s \in c.schemes}
    ELSE {c.alternatives[i] : i \in DOMAIN c.alternatives}

\* Some alternative has all its credentials, and the verifier accepts it.
Admitted(c) ==
    /\ c.verifier
    /\ \E a \in Alternatives(c) : a \subseteq Extracted(c) /\ c.verify[a] = "Ok"

\* The task an operation works on, which the caller may have to be
\* authorized for.
TouchesTask(c) ==
    \/ c.op \in TaskOperations
    \/ c.op \in ConfigOperations /\ c.task # "absent"
    \/ c.op \in SendOperations /\ Has(c, "continues")

\* Nothing is served that a check of the agent card is against: the caller
\* speaks the version and the required extension; it is admitted by the
\* security requirements, which only a public agent can do without, and never
\* for the extended card; and on an agent that is not public it is authorized
\* for the task it touches.
ServedMeansAllowed ==
    answer = "served" =>
        /\ call.version
        /\ call.requiresExtension => call.declaresExtension
        /\ call.op = ExtendedCard \/ call.alternatives # <<>> => Admitted(call)
        /\ call.alternatives # <<>> /\ TouchesTask(call) => call.authorize = "Ok"

\* What authentication comes to, whichever binding asks: "Ok" or an error.
AuthOutcome(c) ==
    LET tried == {i \in DOMAIN c.alternatives : c.alternatives[i] \subseteq Extracted(c)}
    IN CASE c.alternatives = <<>> -> "Ok"
         [] c.alternatives # <<>> /\ ~c.verifier -> "Internal"
         [] OTHER ->
               IF tried = {} THEN "Unauthenticated"
               ELSE IF \E i \in tried : c.verify[c.alternatives[i]] = "Ok" THEN "Ok"
               ELSE c.verify[c.alternatives[CHOOSE i \in tried : \A j \in tried : j <= i]]

Verdict(c) ==
    CASE ~c.version -> "VersionNotSupported"
      [] c.version /\ c.requiresExtension /\ ~c.declaresExtension ->
            "ExtensionSupportRequired"
      [] OTHER ->
            IF AuthOutcome(c) # "Ok" THEN AuthOutcome(c)
            ELSE FirstFailure(EngineChecks(c, IF c.alternatives = <<>> THEN "none"
                                              ELSE "known"))

\* A well-formed request without a credential in the query, which only REST has.
Plain(c) ==
    /\ c.op \in Operations \ {ExtendedCard} /\ c.body = "good"
    /\ \A s \in c.carries : c.place[s] # "query"

\* The three bindings answer a plain request alike.
BindingsAgree == answer # "none" /\ Plain(call) => answer = Verdict(call)

\* JSON-RPC answers with another HTTP status than 200 when there is no request
\* id to answer to.
SeenByClient ==
    IF call.binding = "jsonrpc" /\ call.body \in {"noJson", "noEnvelope"}
    THEN "UnexpectedResponse"
    ELSE Reconstructed(call.binding, answer)

\* A client learns which error it was, whatever AuthVerifier and the engine
\* answer with, except that it may take one way of being malformed for another.
ClientLearnsError ==
    answer \in A2aError =>
        IF answer \in Malformed
        THEN SeenByClient \in Malformed \cup {"UnexpectedResponse"}
        ELSE SeenByClient = answer
=============================================================================
