--------------------------- MODULE MCRequestGate ---------------------------
(***************************************************************************)
(* The calls TLC puts through RequestGate.  All start from a call that is  *)
(* served to a caller with an accepted credential, and vary one part of    *)
(* the request or the agent at a time.                                     *)
(***************************************************************************)
EXTENDS RequestGate

CONSTANTS s1, s2

Good(binding, op) ==
    [binding |-> binding, op |-> op,
     schemes |-> {s1, s2}, place |-> [s \in {s1, s2} |-> "header"],
     alternatives |-> <<{s1}>>, verifier |-> TRUE, mtlsHeader |-> TRUE,
     requiresExtension |-> FALSE, capabilities |-> Capabilities,
     extendedCard |-> TRUE, version |-> TRUE, declaresExtension |-> FALSE,
     carries |-> {s1}, body |-> "good", traits |-> {}, task |-> "live",
     config |-> TRUE, verify |-> [a \in SUBSET {s1, s2} |-> "Ok"],
     authorize |-> "Ok"]

\* Version, extensions and how the request is written.
Reachable ==
    {<<b, o>> \in Bindings \X (Operations \cup Unknown) :
        /\ o = "UnknownMethod" => b # "grpc"
        /\ o = "UnknownAction" => b = "rest"}

Bodies(binding, op) ==
    CASE binding = "jsonrpc" -> {"good", "noJson", "noEnvelope", "badParams"}
      [] binding = "rest" ->
            IF op \in TypedByRest THEN {"good", "badParams"} ELSE {"good"}
      [] binding = "grpc" ->
            IF op \in SendOperations THEN {"good", "badParams"} ELSE {"good"}

WrittenCalls ==
    UNION {{[Good(r[1], r[2]) EXCEPT !.version = v, !.requiresExtension = q,
                                     !.declaresExtension = d, !.body = body] :
                v, q, d \in BOOLEAN, body \in Bodies(r[1], r[2])} : r \in Reachable}

\* Who is calling.
Requirements ==
    {<<>>, <<{s1}>>, <<{s1}, {s2}>>, <<{s1, s2}>>, <<{s1, s2}, {s2}>>, <<{}>>}

Placements ==
    {[s \in {s1, s2} |-> "header"], [s \in {s1, s2} |-> IF s = s1 THEN "header" ELSE "query"],
     [s \in {s1, s2} |-> IF s = s1 THEN "cookie" ELSE "mtls"]}

\* The verifier accepts an alternative or rejects it, each with another error.
Verdicts ==
    {[a \in SUBSET {s1, s2} |->
        CASE a = {s1} /\ 1 \in rejected -> "Unauthenticated"
          [] a = {s2} /\ 2 \in rejected -> "PermissionDenied"
          [] a = {s1, s2} /\ 3 \in rejected -> "Internal"
          [] OTHER -> "Ok"] : rejected \in SUBSET (1 .. 3)}

AuthCalls ==
    {[Good(b, op) EXCEPT !.alternatives = r, !.place = p, !.verify = v, !.carries = k] :
        b \in Bindings, op \in {"SendMessage", "GetTask", ExtendedCard},
        r \in Requirements, p \in Placements, v \in Verdicts, k \in SUBSET {s1, s2}}

\* Agents that lack a verifier, schemes, a capability or a card.
AgentCalls ==
    {[Good(b, op) EXCEPT !.verifier = v, !.schemes = s, !.capabilities = k,
                         !.extendedCard = c, !.alternatives = r, !.mtlsHeader = m,
                         !.place = [x \in {s1, s2} |-> p]] :
        b \in Bindings, op \in {"GetTask", ExtendedCard}, v, c, m \in BOOLEAN,
        s \in {{}, {s1}}, k \in {{}, Capabilities}, r \in {<<>>, <<{s1}>>},
        p \in {"authorization", "mtls"}}

\* A verifier that rejects with any error.
RejectedCalls ==
    {[Good(b, "GetTask") EXCEPT !.verify = [a \in SUBSET {s1, s2} |-> e],
                                !.authorize = f] :
        b \in Bindings, e \in {"Ok", "Internal"}, f \in A2aError \cup {"Ok"}}
    \cup
    {[Good(b, op) EXCEPT !.verify = [a \in SUBSET {s1, s2} |-> e]] :
        b \in Bindings, op \in {"GetTask", ExtendedCard}, e \in A2aError}

\* What the operations check.
TraitsOf(binding, op) ==
    CASE op \in SendOperations ->
            {"continues", "otherContext", "noParts", "mediaType", "inlineConfig",
             "badUrl", "badHistoryLength"}
      [] op = "GetTask" -> {"badHistoryLength"}
      [] op = "ListTasks" -> {"badPageSize", "badHistoryLength"}
      [] op = "ListPushConfigs" -> {"badPageSize"}
      [] op = "CreatePushConfig" ->
            IF binding = "rest" THEN {"badUrl"} ELSE {"badUrl", "noTaskId"}
      [] OTHER -> {}

\* At most two things are wrong with a message.
UpToTwo(S) == {t \in SUBSET S : Cardinality(t \ {"continues"}) <= 2}

\* A task that matters only to a message that continues one.
TaskOf(op, traits) ==
    IF op \in SendOperations /\ "continues" \notin traits THEN {"live"}
    ELSE {"absent", "live", "terminal"}

\* A caller of a public agent, one that may see the task, and one that may not.
OperationCalls ==
    UNION {UNION {{[Good(b, op) EXCEPT !.traits = t, !.alternatives = w[1],
                                       !.authorize = w[2], !.task = k,
                                       !.config = g, !.capabilities = c] :
                      w \in {<<<<>>, "PermissionDenied">>, <<<<{s1}>>, "Ok">>,
                             <<<<{s1}>>, "PermissionDenied">>},
                      k \in TaskOf(op, t),
                      g \in IF op \in ConfigOperations THEN BOOLEAN ELSE {TRUE},
                      c \in {{}, {"streaming"}, Capabilities}} :
                 t \in UpToTwo(TraitsOf(b, op))} :
           b \in Bindings, op \in Operations \ {ExtendedCard}}

TwoSchemes == {s1, s2}

AllCalls ==
    WrittenCalls \cup AuthCalls \cup AgentCalls \cup RejectedCalls \cup OperationCalls
=============================================================================
