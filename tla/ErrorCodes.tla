----------------------------- MODULE ErrorCodes -----------------------------
(***************************************************************************)
(* The A2A errors, what each binding puts on the wire for one, and what    *)
(* the client of that binding makes of it.                                 *)
(*                                                                         *)
(* Texts are left out.  The reason of an error (TASK_NOT_FOUND) is written *)
(* as the name of the error; the errors that the A2A specification does    *)
(* not name have none.                                                     *)
(***************************************************************************)
EXTENDS Integers, Sequences

\* The nine errors of the A2A specification.
Specific ==
    {"TaskNotFound", "TaskNotCancelable", "PushNotificationNotSupported",
     "UnsupportedOperation", "ContentTypeNotSupported", "InvalidAgentResponse",
     "ExtendedAgentCardNotConfigured", "ExtensionSupportRequired",
     "VersionNotSupported"}

\* The ways a request can be malformed.
Malformed == {"ParseError", "InvalidRequest", "InvalidParams"}

A2aError ==
    Specific \cup Malformed
        \cup {"Unauthenticated", "PermissionDenied", "MethodNotFound", "Internal"}

NoReason == "none"
Reason(e) == IF e \in Specific THEN e ELSE NoReason

JsonRpcCode ==
    [TaskNotFound |-> -32001, TaskNotCancelable |-> -32002,
     PushNotificationNotSupported |-> -32003, UnsupportedOperation |-> -32004,
     ContentTypeNotSupported |-> -32005, InvalidAgentResponse |-> -32006,
     ExtendedAgentCardNotConfigured |-> -32007,
     ExtensionSupportRequired |-> -32008, VersionNotSupported |-> -32009,
     Unauthenticated |-> -32010, PermissionDenied |-> -32011,
     ParseError |-> -32700, InvalidRequest |-> -32600, MethodNotFound |-> -32601,
     InvalidParams |-> -32602, Internal |-> -32603]

HttpStatus(e) ==
    CASE e \in {"TaskNotFound", "MethodNotFound"} -> 404
      [] e \in {"InvalidAgentResponse", "Internal"} -> 500
      [] e = "Unauthenticated" -> 401
      [] e = "PermissionDenied" -> 403
      [] OTHER -> 400

GrpcStatusName(e) ==
    CASE e = "TaskNotFound" -> "NOT_FOUND"
      [] e \in Malformed \cup {"ContentTypeNotSupported"} -> "INVALID_ARGUMENT"
      [] e \in {"InvalidAgentResponse", "Internal"} -> "INTERNAL"
      [] e = "Unauthenticated" -> "UNAUTHENTICATED"
      [] e = "PermissionDenied" -> "PERMISSION_DENIED"
      [] e = "MethodNotFound" -> "UNIMPLEMENTED"
      [] OTHER -> "FAILED_PRECONDITION"

-----------------------------------------------------------------------------
(***************************************************************************)
(* From the wire: an error is told by its code (JSON-RPC), or by its       *)
(* reason and only then by its status (REST, gRPC).                        *)
(***************************************************************************)
Numbered ==
    <<"TaskNotFound", "TaskNotCancelable", "PushNotificationNotSupported",
      "UnsupportedOperation", "ContentTypeNotSupported", "InvalidAgentResponse",
      "ExtendedAgentCardNotConfigured", "ExtensionSupportRequired",
      "VersionNotSupported", "Unauthenticated", "PermissionDenied">>

FromJsonRpc(code) ==
    CASE -32000 - code \in DOMAIN Numbered -> Numbered[-32000 - code]
      [] code = -32700 -> "ParseError"
      [] code = -32600 -> "InvalidRequest"
      [] code = -32601 -> "MethodNotFound"
      [] code = -32602 -> "InvalidParams"
      [] OTHER -> "Internal"

FromRest(status, reason) ==
    CASE reason \in Specific -> reason
      [] reason \notin Specific /\ status = 401 -> "Unauthenticated"
      [] reason \notin Specific /\ status = 403 -> "PermissionDenied"
      [] reason \notin Specific /\ status = 404 -> "MethodNotFound"
      [] reason \notin Specific /\ status = 400 -> "InvalidRequest"
      [] OTHER -> "Internal"

\* Mutant: the client looks at the status only.
FromGrpc_ByStatus(status, reason) ==
    CASE status = "NOT_FOUND" -> "TaskNotFound"
      [] status = "FAILED_PRECONDITION" -> "TaskNotCancelable"
      [] status = "INVALID_ARGUMENT" -> "InvalidParams"
      [] status = "UNAUTHENTICATED" -> "Unauthenticated"
      [] status = "PERMISSION_DENIED" -> "PermissionDenied"
      [] status = "UNIMPLEMENTED" -> "MethodNotFound"
      [] OTHER -> "Internal"

FromGrpc(status, reason) ==
    IF reason \in Specific THEN reason
    ELSE CASE status = "NOT_FOUND" -> "TaskNotFound"
           [] status = "FAILED_PRECONDITION" -> "TaskNotCancelable"
           [] status = "INVALID_ARGUMENT" -> "InvalidParams"
           [] status = "UNAUTHENTICATED" -> "Unauthenticated"
           [] status = "PERMISSION_DENIED" -> "PermissionDenied"
           [] status = "UNIMPLEMENTED" -> "MethodNotFound"
           [] OTHER -> "Internal"

\* What the client of a binding takes an error of the server for.
Reconstructed(binding, e) ==
    CASE binding = "jsonrpc" -> FromJsonRpc(JsonRpcCode[e])
      [] binding = "rest" ->
            FromRest(HttpStatus(e),
                     IF e \in Specific THEN Reason(e) ELSE GrpcStatusName(e))
      [] binding = "grpc" -> FromGrpc(GrpcStatusName(e), Reason(e))
=============================================================================
