----------------------------- MODULE TaskTypes -----------------------------
(***************************************************************************)
(* The data model of an A2A task: states, stream events and the Task       *)
(* record, with the classifications the engine branches on.                *)
(*                                                                         *)
(* Texts, timestamps and metadata are abstracted.  A message in a task's   *)
(* history is named by where it came from: the turn whose client sent it,  *)
(* or the sequence number of the status update that carried it.  A part of *)
(* an artifact is named by the sequence number of the update that          *)
(* delivered it.  Updates without parts are dropped before they reach the  *)
(* record, so an artifact that is absent is one without parts.  The order  *)
(* of Task.artifacts is not modelled: the code finds an artifact by its    *)
(* id.                                                                     *)
(***************************************************************************)
EXTENDS Naturals, Sequences

CONSTANTS
    Turns,        \* executions of SendMessage / SendStreamingMessage
    ArtifactIds   \* ids the executor may publish artifacts under

(***************************************************************************)
(* Task states.                                                            *)
(***************************************************************************)
TerminalStates == {"Completed", "Failed", "Canceled", "Rejected"}
InterruptedStates == {"InputRequired", "AuthRequired"}
TaskStates ==
    {"Unspecified", "Submitted", "Working"}
        \cup TerminalStates \cup InterruptedStates

IsTerminal(state) == state \in TerminalStates
IsInterrupted(state) == state \in InterruptedStates
IsFinalForBlockingSend(state) == IsTerminal(state) \/ IsInterrupted(state)

(***************************************************************************)
(* Tasks.  A map of the code (HashMap) is a function with a partial        *)
(* domain.                                                                 *)
(***************************************************************************)
IsMap(map, Keys, Values) ==
    DOMAIN map \subseteq Keys /\ map \in [DOMAIN map -> Values]

Insert(map, key, value) ==
    [k \in DOMAIN map \cup {key} |-> IF k = key THEN value ELSE map[k]]

Without(map, key) == [k \in DOMAIN map \ {key} |-> map[k]]

EmptyMap == [k \in {} |-> k]

\* An Option<T>: <<>> is None and <<x>> is Some(x).
Option(S) == {s \in Seq(S) : Len(s) <= 1}

UserMessage(turn) == [role |-> "user", of |-> turn]
AgentMessage(seq) == [role |-> "agent", of |-> seq]
HistoryMessage ==
    [role : {"user"}, of : Turns] \cup [role : {"agent"}, of : Nat]

Task ==
    [state : TaskStates,
     history : Seq(HistoryMessage),
     artifacts : [ArtifactIds -> Seq(Nat)]]

NewTask(state, seed) ==
    [state |-> state, history |-> <<seed>>, artifacts |-> [a \in ArtifactIds |-> <<>>]]

(***************************************************************************)
(* Stream events (StreamResponse).  `msg` says whether the status carries  *)
(* a message.                                                              *)
(***************************************************************************)
StatusUpdate(state, msg) == [kind |-> "status", state |-> state, msg |-> msg]
ArtifactUpdate(id, append) == [kind |-> "artifact", id |-> id, append |-> append]
BareMessage == [kind |-> "message"]
TaskEvent(task) == [kind |-> "task", task |-> task]

TaskUpdates ==
    [kind : {"status"}, state : TaskStates, msg : BOOLEAN]
        \cup [kind : {"artifact"}, id : ArtifactIds, append : BOOLEAN]
ExecutorEvents == TaskUpdates \cup {BareMessage}
Events == ExecutorEvents \cup [kind : {"task"}, task : Task]

\* The last event a live stream delivers.  AUTH_REQUIRED is not one.
ClosesStream(event) ==
    \/ event.kind = "message"
    \/ /\ event.kind = "status"
       /\ IsTerminal(event.state) \/ event.state = "InputRequired"

\* An outcome of one AgentExecutor::execute call.
IsTurnOutcome(event) ==
    \/ event.kind = "message"
    \/ event.kind = "status" /\ IsFinalForBlockingSend(event.state)

(***************************************************************************)
(* What one event does to the Task record.                                 *)
(***************************************************************************)
MergeArtifact(artifacts, event, seq) ==
    [artifacts EXCEPT ![event.id] =
        IF event.append THEN Append(@, seq) ELSE <<seq>>]

UpdateTask(task, event, seq) ==
    IF event.kind = "status"
    THEN [task EXCEPT
            !.state = event.state,
            !.history = IF event.msg THEN Append(@, AgentMessage(seq)) ELSE @]
    ELSE [task EXCEPT !.artifacts = MergeArtifact(@, event, seq)]

\* Mutant: only a new row is seeded, so a continuation's message is lost.
SeededTask_NewOnly(found, firstEvent, seed, event) ==
    IF found = <<>>
    THEN NewTask(IF event.kind = "status" THEN "Submitted" ELSE "Working", seed)
    ELSE found[1]

\* The record an update finds: a missing row is created with the seed
\* message; the first update of a turn appends the seed to an existing row.
SeededTask(found, firstEvent, seed, event) ==
    IF found = <<>>
    THEN NewTask(IF event.kind = "status" THEN "Submitted" ELSE "Working", seed)
    ELSE IF firstEvent
         THEN [found[1] EXCEPT !.history = Append(@, seed)]
         ELSE found[1]
=============================================================================
