------------------------------ MODULE WireTypes ------------------------------
(***************************************************************************)
(* The A2A data types as serde writes them to JSON and reads them back:    *)
(* which fields each type has, what each may hold, which the writer leaves *)
(* out and what the reader makes of one that is missing.  JSON-RPC, REST   *)
(* and the agent card's well-known URL all use this encoding.              *)
(*                                                                         *)
(* Every conversion of this program is field by field, so a field's value  *)
(* is a member of a small set: the values the encodings tell apart.        *)
(***************************************************************************)
EXTENDS TLC

\* What a field of each kind holds when it is set.  A json map is named for
\* the hardest number in it: a "whole" one (1), the same as a float (1.0),
\* one beyond 2^53, and such a one after a double has rounded it.
Kinds == [text |-> {"", "words"},
          flag |-> {"false", "true"},
          int |-> {"zero", "number"},
          enum |-> {"unspecified", "known"},
          time |-> {"millis", "nanos"},
          json |-> {"words", "whole", "float", "huge", "rounded"},
          list |-> {"empty", "items"},
          message |-> {"present"},
          union |-> {"arm"},
          untagged |-> {"arm"}]

\* The default of a kind that has one, Rust's and protobuf's alike; json's is
\* null, as good as words.
Zeros == [text |-> "", flag |-> "false", int |-> "zero", enum |-> "unspecified",
          list |-> "empty", json |-> "words", time |-> "none",
          message |-> "none", union |-> "none", untagged |-> "none"]

\* The four ways a serde field is declared: plain; #[serde(default)];
\* Option with skip_serializing_if = "Option::is_none"; and a list with
\* skip_serializing_if = "Vec::is_empty" (or a map with HashMap::is_empty).
Required(kind) == [kind |-> kind, skips |-> "nothing", missing |-> "refused"]
Defaulted(kind) == [kind |-> kind, skips |-> "nothing", missing |-> Zeros[kind]]
Optional(kind) == [kind |-> kind, skips |-> "unset", missing |-> "unset"]
Sparse == [kind |-> "list", skips |-> "empty", missing |-> "empty"]

Part == [content |-> Required("union"), metadata |-> Optional("json"),
         filename |-> Optional("text"), media_type |-> Optional("text")]

Message == [message_id |-> Required("text"), context_id |-> Optional("text"),
            task_id |-> Optional("text"), role |-> Required("enum"),
            parts |-> Required("list"), metadata |-> Optional("json"),
            extensions |-> Sparse, reference_task_ids |-> Sparse]

\* A union's arms: a document of such a type has one of them.
PartContent == [text |-> Required("text"), raw |-> Required("text"),
                url |-> Required("text"), data |-> Required("json")]

TaskStatusTypes ==
  [TaskStatus |-> [state |-> Required("enum"), message |-> Optional("message"),
                   timestamp |-> Optional("time")]]

ArtifactTypes ==
  [Artifact |-> [artifact_id |-> Required("text"), name |-> Optional("text"),
                 description |-> Optional("text"), parts |-> Required("list"),
                 metadata |-> Optional("json"), extensions |-> Sparse]]

WireTask == [id |-> Required("text"), context_id |-> Optional("text"),
             status |-> Required("message"), artifacts |-> Sparse,
             history |-> Sparse, metadata |-> Optional("json")]

UpdateTypes ==
  [TaskStatusUpdateEvent |->
     [task_id |-> Required("text"), context_id |-> Required("text"),
      status |-> Required("message"), metadata |-> Optional("json")],
   TaskArtifactUpdateEvent |->
     [task_id |-> Required("text"), context_id |-> Required("text"),
      artifact |-> Required("message"), append |-> Defaulted("flag"),
      last_chunk |-> Defaulted("flag"), metadata |-> Optional("json")]]

\* These two unions derive their untagged Deserialize: a reader takes the
\* first arm that fits.
SendMessageResult == [payload |-> Required("untagged")]
StreamResponse == [payload |-> Required("untagged")]

PushTypes ==
  [AuthenticationInfo |-> [scheme |-> Required("text"), credentials |-> Optional("text")],
   TaskPushNotificationConfig |->
     [tenant |-> Optional("text"), id |-> Optional("text"), task_id |-> Optional("text"),
      url |-> Required("text"), token |-> Optional("text"),
      authentication |-> Optional("message")]]

SendRequestTypes ==
  [SendMessageConfiguration |->
     [accepted_output_modes |-> Sparse, task_push_notification_config |-> Optional("message"),
      history_length |-> Optional("int"), return_immediately |-> Defaulted("flag")],
   SendMessageRequest |->
     [tenant |-> Optional("text"), message |-> Required("message"),
      configuration |-> Optional("message"), metadata |-> Optional("json")]]

TaskRequestTypes ==
  [GetTaskRequest |->
     [tenant |-> Optional("text"), id |-> Required("text"), history_length |-> Optional("int")],
   ListTasksRequest |->
     [tenant |-> Optional("text"), context_id |-> Optional("text"), status |-> Optional("enum"),
      page_size |-> Optional("int"), page_token |-> Optional("text"),
      history_length |-> Optional("int"), status_timestamp_after |-> Optional("time"),
      include_artifacts |-> Optional("flag")],
   ListTasksResponse |->
     [tasks |-> Required("list"), next_page_token |-> Defaulted("text"),
      page_size |-> Required("int"), total_size |-> Required("int")],
   CancelTaskRequest |->
     [tenant |-> Optional("text"), id |-> Required("text"), metadata |-> Optional("json")],
   SubscribeToTaskRequest |-> [tenant |-> Optional("text"), id |-> Required("text")]]

ConfigRequestTypes ==
  [GetTaskPushNotificationConfigRequest |->
     [tenant |-> Optional("text"), task_id |-> Required("text"), id |-> Required("text")],
   DeleteTaskPushNotificationConfigRequest |->
     [tenant |-> Optional("text"), task_id |-> Required("text"), id |-> Required("text")],
   ListTaskPushNotificationConfigsRequest |->
     [tenant |-> Optional("text"), task_id |-> Required("text"),
      page_size |-> Optional("int"), page_token |-> Optional("text")],
   ListTaskPushNotificationConfigsResponse |->
     [configs |-> Defaulted("list"), next_page_token |-> Defaulted("text")]]

AgentInterface == [url |-> Required("text"), protocol_binding |-> Required("text"),
                   tenant |-> Optional("text"), protocol_version |-> Required("text")]

CardPartTypes ==
  [AgentProvider |-> [url |-> Required("text"), organization |-> Required("text")],
   AgentCapabilities |->
     [streaming |-> Optional("flag"), push_notifications |-> Optional("flag"),
      extensions |-> Sparse, extended_agent_card |-> Optional("flag")],
   AgentExtension |-> [uri |-> Required("text"), description |-> Defaulted("text"),
                       required |-> Defaulted("flag"), params |-> Optional("json")],
   AgentSkill |->
     [id |-> Required("text"), name |-> Required("text"), description |-> Required("text"),
      tags |-> Defaulted("list"), examples |-> Sparse, input_modes |-> Sparse,
      output_modes |-> Sparse, security_requirements |-> Sparse]]

AgentCardSignature == [protected |-> Required("text"), signature |-> Required("text"),
                       header |-> Optional("json")]

\* All but signatures, which a copy of a card carries on its own.
AgentCard ==
  [name |-> Required("text"), description |-> Required("text"),
   supported_interfaces |-> Required("list"), provider |-> Optional("message"),
   version |-> Required("text"), documentation_url |-> Optional("text"),
   capabilities |-> Required("message"), security_schemes |-> Sparse,
   security_requirements |-> Sparse, default_input_modes |-> Required("list"),
   default_output_modes |-> Required("list"), skills |-> Required("list"),
   icon_url |-> Optional("text")]

SchemeTypes ==
  [ApiKeySecurityScheme |-> [description |-> Optional("text"), location |-> Required("text"),
                             name |-> Required("text")],
   HttpAuthSecurityScheme |-> [description |-> Optional("text"), scheme |-> Required("text"),
                               bearer_format |-> Optional("text")],
   OAuth2SecurityScheme |-> [description |-> Optional("text"), flows |-> Required("message"),
                             oauth2_metadata_url |-> Optional("text")],
   OpenIdConnectSecurityScheme |-> [description |-> Optional("text"),
                                    open_id_connect_url |-> Required("text")],
   MutualTlsSecurityScheme |-> [description |-> Optional("text")]]

SecurityScheme == [scheme |-> Required("union")]
OAuthFlows == [flow |-> Required("union")]

FlowTypes ==
  [AuthorizationCodeOAuthFlow |->
     [authorization_url |-> Required("text"), token_url |-> Required("text"),
      refresh_url |-> Optional("text"), scopes |-> Required("list"),
      pkce_required |-> Defaulted("flag")],
   ClientCredentialsOAuthFlow |->
     [token_url |-> Required("text"), refresh_url |-> Optional("text"),
      scopes |-> Required("list")],
   ImplicitOAuthFlow |->
     [authorization_url |-> Required("text"), refresh_url |-> Optional("text"),
      scopes |-> Defaulted("list")],
   PasswordOAuthFlow |->
     [token_url |-> Required("text"), refresh_url |-> Optional("text"),
      scopes |-> Defaulted("list")],
   DeviceCodeOAuthFlow |->
     [device_authorization_url |-> Required("text"), token_url |-> Required("text"),
      refresh_url |-> Optional("text"), scopes |-> Required("list")]]

RequirementTypes ==
  [StringList |-> [list |-> Defaulted("list")],
   SecurityRequirement |-> [schemes |-> Defaulted("list")]]

\* The types a card's content is made of.
CardTypes == CardPartTypes @@ SchemeTypes @@ FlowTypes @@ RequirementTypes
             @@ [AgentCard |-> AgentCard, AgentInterface |-> AgentInterface,
                 SecurityScheme |-> SecurityScheme,
                 OAuthFlows |-> OAuthFlows]

Types == TaskStatusTypes @@ ArtifactTypes @@ UpdateTypes @@ PushTypes
         @@ SendRequestTypes @@ TaskRequestTypes @@ ConfigRequestTypes @@ CardTypes
         @@ [Part |-> Part, PartContent |-> PartContent, Message |-> Message, Task |-> WireTask,
             SendMessageResult |-> SendMessageResult, StreamResponse |-> StreamResponse,
             AgentCardSignature |-> AgentCardSignature]

Rule(type, field) == Types[type][field]

Values(rule) == Kinds[rule.kind] \cup (IF rule.skips = "unset" THEN {"unset"} ELSE {})

-----------------------------------------------------------------------------
\* The JSON on the wire: the value under the field's key, or "absent".
\* timestamp::option::serialize writes whole milliseconds.
WriteJson(rule, v) ==
    IF v = rule.skips THEN "absent" ELSE IF v = "nanos" THEN "millis" ELSE v

\* Serde has no arm for an enum value it does not know, chrono refuses what is
\* not RFC 3339, and a union's Deserialize counts the arms it knows.
ReadJson(rule, w) ==
    IF \/ w \in {"newer", "invalid"}
       \/ w = "several" /\ rule.kind = "union"
    THEN "refused"
    ELSE IF w = "several" THEN "arm"
    ELSE IF w = "absent" THEN rule.missing ELSE w
=============================================================================
