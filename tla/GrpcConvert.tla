----------------------------- MODULE GrpcConvert -----------------------------
(***************************************************************************)
(* The conversions between the crate's types and the protobuf ones         *)
(* (grpc_convert.rs).  A field moves as it is unless it is listed here:    *)
(* what a plain protobuf scalar cannot say is sent as its zero value and   *)
(* read back from it, a google.protobuf.Struct holds every number as a     *)
(* double, and a message the reader cannot do without is demanded.         *)
(***************************************************************************)
EXTENDS WireTypes

\* our_*_to_pb: the optional fields sent with unwrap_or_default.
MessageZeroed == [Part |-> {"filename", "media_type"}, Message |-> {"context_id", "task_id"}]
TaskZeroed == [Artifact |-> {"name", "description"}, Task |-> {"context_id"}]
PushZeroed == [AuthenticationInfo |-> {"credentials"},
               TaskPushNotificationConfig |-> {"tenant", "id", "task_id", "token"}]
CardZeroed == [AgentInterface |-> {"tenant"}]
SchemeZeroed ==
  [ApiKeySecurityScheme |-> {"description"},
   HttpAuthSecurityScheme |-> {"description", "bearer_format"},
   OAuth2SecurityScheme |-> {"description", "oauth2_metadata_url"},
   OpenIdConnectSecurityScheme |-> {"description"},
   MutualTlsSecurityScheme |-> {"description"}]
FlowZeroed == [t \in DOMAIN FlowTypes |-> {"refresh_url"}]
RequestZeroed ==
  [SendMessageRequest |-> {"tenant"}, GetTaskRequest |-> {"tenant"},
   ListTasksRequest |-> {"tenant", "context_id", "status", "page_token"},
   CancelTaskRequest |-> {"tenant"}, SubscribeToTaskRequest |-> {"tenant"},
   GetTaskPushNotificationConfigRequest |-> {"tenant"},
   DeleteTaskPushNotificationConfigRequest |-> {"tenant"},
   ListTaskPushNotificationConfigsRequest |-> {"tenant", "page_size", "page_token"}]

Zeroed == MessageZeroed @@ TaskZeroed @@ PushZeroed @@ CardZeroed @@ SchemeZeroed
          @@ FlowZeroed @@ RequestZeroed

\* pb_*_to_ours: the fields whose zero value is read as unset (non_empty, and
\* the two tests for 0).
MessageCleared == [Part |-> {"filename", "media_type"}, Message |-> {"context_id", "task_id"}]
TaskCleared == [Artifact |-> {"name", "description"}, Task |-> {"context_id"}]
PushCleared == [AuthenticationInfo |-> {"credentials"},
                TaskPushNotificationConfig |-> {"tenant", "id", "task_id", "token"}]
CardCleared == [AgentInterface |-> {"tenant"}]
SchemeCleared ==
  [ApiKeySecurityScheme |-> {"description"},
   HttpAuthSecurityScheme |-> {"description", "bearer_format"},
   OAuth2SecurityScheme |-> {"description", "oauth2_metadata_url"},
   OpenIdConnectSecurityScheme |-> {"description"},
   MutualTlsSecurityScheme |-> {"description"}]
FlowCleared == [t \in DOMAIN FlowTypes |-> {"refresh_url"}]
RequestCleared ==
  [SendMessageRequest |-> {"tenant"}, GetTaskRequest |-> {"tenant"},
   ListTasksRequest |-> {"tenant", "context_id", "status", "page_token"},
   CancelTaskRequest |-> {"tenant"}, SubscribeToTaskRequest |-> {"tenant"},
   GetTaskPushNotificationConfigRequest |-> {"tenant"},
   DeleteTaskPushNotificationConfigRequest |-> {"tenant"},
   ListTaskPushNotificationConfigsRequest |-> {"tenant", "page_size", "page_token"}]

Cleared == MessageCleared @@ TaskCleared @@ PushCleared @@ CardCleared @@ SchemeCleared
           @@ FlowCleared @@ RequestCleared

\* pb_*_to_ours: what the reader demands with ok_or_else, or a match on None.
MessageDemanded == [Part |-> {"content"}, PartContent |-> DOMAIN PartContent,
                    SendMessageRequest |-> {"message"}]
TaskDemanded == [Task |-> {"status"}, TaskStatusUpdateEvent |-> {"status"},
                 TaskArtifactUpdateEvent |-> {"artifact"},
                 StreamResponse |-> {"payload"}, SendMessageResult |-> {"payload"}]
SchemeDemanded == [OAuthFlows |-> {"flow"}, OAuth2SecurityScheme |-> {"flows"},
                   SecurityScheme |-> {"scheme"}]
CardDemanded == [AgentCard |-> {"capabilities"}]

Demanded == MessageDemanded @@ TaskDemanded @@ SchemeDemanded @@ CardDemanded

Listed(table, type, field) == type \in DOMAIN table /\ field \in table[type]

-----------------------------------------------------------------------------
\* json_to_struct and json_to_prost_value: Number::as_f64.
ToDouble(v) == CASE v = "whole" -> "float" [] v = "huge" -> "rounded" [] OTHER -> v

\* What is on the wire when a field is not: protobuf has no value for an
\* unset optional field or message, and the zero value for the rest.
Absent(type, field) ==
    LET rule == Rule(type, field)
    IN  IF \/ rule.kind \in {"message", "union", "untagged"}
           \/ Listed(Demanded, type, field)
           \/ rule.skips = "unset" /\ ~Listed(Zeroed, type, field)
        THEN "unset"
        ELSE Zeros[rule.kind]

WritePb(type, field, v) ==
    CASE v = "unset" -> Absent(type, field)
      [] v # "unset" /\ Rule(type, field).kind = "json" -> ToDouble(v)
      [] OTHER -> v

\* Mutant: a message that is demanded may be missing.
ReadPb_Lenient(type, field, w) ==
    LET got == IF w = "absent" THEN Absent(type, field) ELSE w
    IN  CASE got = Zeros[Rule(type, field).kind] /\ Listed(Cleared, type, field) -> "unset"
          [] got = "newer" -> "unspecified"
          [] got = "invalid" -> "unset"
          [] OTHER -> got

\* Mutant: a zero value is read as it is.
ReadPb_Kept(type, field, w) ==
    LET got == IF w = "absent" THEN Absent(type, field) ELSE w
    IN  CASE got = "unset" /\ Listed(Demanded, type, field) -> "refused"
          [] got = "newer" -> "unspecified"
          [] got = "invalid" -> "unset"
          [] OTHER -> got

\* An enum number the reader does not know becomes Unspecified, a timestamp
\* chrono cannot represent becomes None.
ReadPb(type, field, w) ==
    LET got == IF w = "absent" THEN Absent(type, field) ELSE w
    IN  CASE got = "unset" /\ Listed(Demanded, type, field) -> "refused"
          [] got = Zeros[Rule(type, field).kind] /\ Listed(Cleared, type, field) -> "unset"
          [] got = "newer" -> "unspecified"
          [] got = "invalid" -> "unset"
          [] OTHER -> got
=============================================================================
