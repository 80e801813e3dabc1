----------------------------- MODULE TaskEngine -----------------------------
(***************************************************************************)
(* The execution core of the server: Engine::start_execution with its      *)
(* background pump, apply_event, and Engine::cancel_task.                  *)
(*                                                                         *)
(* A turn is one SendMessage / SendStreamingMessage call: the request      *)
(* handler registers a broadcast bus and a cancellation token under the    *)
(* task id and spawns a pump, which applies the executor's events one at a *)
(* time.  A cancel is one CancelTask call.  Turns and cancels are the      *)
(* workers; they run concurrently on a multi-threaded runtime and share    *)
(* the task store, the event logs, the sequence counter and the two        *)
(* registries.  Every access to one of these is a step of its own, because *)
(* no lock is held from one access to the next.                            *)
(*                                                                         *)
(* The executor is application code.  It is modelled by the events it      *)
(* reports, one call at most MaxEvents of them, after which the call       *)
(* returns, with or without an error.  It need not look at its             *)
(* cancellation token.  An event is chosen when the pump receives it: the  *)
(* channel between them is unbounded and has one reader, so when an event  *)
(* was queued makes no difference.                                         *)
(***************************************************************************)
EXTENDS TaskTypes

CONSTANTS
    Cancels,            \* executions of CancelTask
    Tasks,              \* task ids
    NoTask,             \* "no task id"
    EventLogCapacity,   \* EVENT_LOG_CAPACITY
    Reports,            \* the events the executor may report
    MaxEvents,          \* bound: events reported by one execute
    MaxCancelEvents,    \* bound: events reported by one cancel
    Disconnects,        \* may a client go away while its call is handled?
    Pacing              \* what clients wait for before the next call on a task

ASSUME EngineAssumption ==
    /\ Turns \cap Cancels = {}
    /\ NoTask \notin Tasks
    /\ EventLogCapacity \in Nat \ {0}
    /\ Reports \subseteq ExecutorEvents
    /\ MaxEvents \in Nat
    /\ MaxCancelEvents \in Nat
    /\ Disconnects \in BOOLEAN
    /\ Pacing \in {"free", "answered", "orderly"}

Workers == Turns \cup Cancels

VARIABLES
    store,         \* TaskStore: task id -> Task
    eventLogs,     \* Engine.event_logs: task id -> bounded log of items
    nextSeq,       \* Engine.next_seq
    buses,         \* Engine.buses: task id -> the turn that created the bus
    cancelTokens,  \* Engine.cancel_tokens: task id -> the turn that owns the token
    signalled,     \* the workers whose cancellation token is cancelled
    sent,          \* turn -> everything sent on its bus so far
    pc,            \* where each worker is
    taskOf,        \* the task id a worker works on
    existing,      \* <<>> or <<the Task the call found when it started>>
    firstEvent,    \* the next event is the first of the turn
    sawOutcome,    \* saw_turn_outcome
    emitted,       \* events the executor has reported so far
    event,         \* the event being applied
    seq,           \* the sequence number taken for it
    pending,       \* <<>> or <<the Task read, seeded and updated, not yet put>>
    last,          \* the event in hand is one the engine made up to end the call
    attached,      \* the buses a cancel sends on (none or one)
    returned       \* <<>> or <<the Task a cancel returned>>

shared == <<store, eventLogs, nextSeq, buses, cancelTokens, signalled, sent>>
call == <<taskOf, existing>>
turnVars == <<firstEvent, sawOutcome>>
applying == <<event, seq, pending, last>>
cancelVars == <<attached, returned>>
vars == <<shared, pc, call, turnVars, emitted, applying, cancelVars>>

Item == [seq : Nat, by : Workers, event : Events]
NoEvent == [kind |-> "none"]

PCs == {"idle", "insertBus", "insertToken", "recv", "lead", "sendLead",
        "takeSeq", "appendLog", "getTask", "putTask", "send",
        "removeBus", "removeToken", "signal", "executorCancel",
        "lookupBus", "drain", "finalGet", "done", "rejected", "aborted"}

TypeOK ==
    /\ IsMap(store, Tasks, Task)
    /\ eventLogs \in [Tasks -> Seq(Item)]
    /\ nextSeq \in Nat
    /\ IsMap(buses, Tasks, Turns)
    /\ IsMap(cancelTokens, Tasks, Turns)
    /\ signalled \subseteq Workers
    /\ sent \in [Turns -> Seq(Item)]
    /\ pc \in [Workers -> PCs]
    /\ taskOf \in [Workers -> Tasks \cup {NoTask}]
    /\ existing \in [Workers -> Option(Task)]
    /\ firstEvent \in [Workers -> BOOLEAN]
    /\ sawOutcome \in [Workers -> BOOLEAN]
    /\ emitted \in [Workers -> Nat]
    /\ event \in [Workers -> ExecutorEvents \cup {NoEvent}]
    /\ seq \in [Workers -> Nat]
    /\ pending \in [Workers -> Option(Task)]
    /\ last \in [Workers -> BOOLEAN]
    /\ attached \in [Cancels -> SUBSET Turns]
    /\ returned \in [Cancels -> Option(Task)]

Init ==
    /\ store = EmptyMap
    /\ eventLogs = [t \in Tasks |-> <<>>]
    /\ nextSeq = 1
    /\ buses = EmptyMap
    /\ cancelTokens = EmptyMap
    /\ signalled = {}
    /\ sent = [w \in Turns |-> <<>>]
    /\ pc = [w \in Workers |-> "idle"]
    /\ taskOf = [w \in Workers |-> NoTask]
    /\ existing = [w \in Workers |-> <<>>]
    /\ firstEvent = [w \in Workers |-> w \in Turns]
    /\ sawOutcome = [w \in Workers |-> FALSE]
    /\ emitted = [w \in Workers |-> 0]
    /\ event = [w \in Workers |-> NoEvent]
    /\ seq = [w \in Workers |-> 0]
    /\ pending = [w \in Workers |-> <<>>]
    /\ last = [w \in Workers |-> FALSE]
    /\ attached = [c \in Cancels |-> {}]
    /\ returned = [c \in Cancels |-> <<>>]

-----------------------------------------------------------------------------
(***************************************************************************)
(* What clients wait for.  "free": nothing.  "answered": the next message  *)
(* on a task waits for the closing event of the turns before it, as the    *)
(* client of a chat replies to what it was asked; the pumps of those turns *)
(* may still be cleaning up.  "orderly": CancelTask waits as well, and is  *)
(* waited for.                                                             *)
(***************************************************************************)
Ended(w) == pc[w] \in {"done", "rejected", "aborted"}

Answered(w) ==
    \/ Ended(w)
    \/ /\ pc[w] \in {"removeBus", "removeToken"}
       /\ \E i \in DOMAIN sent[w] : ClosesStream(sent[w][i].event)

CallsOn(t) == {w \in Workers : taskOf[w] = t}

MaySendMessage(t) ==
    /\ Pacing # "free" => \A w \in CallsOn(t) \cap Turns : Answered(w)
    /\ Pacing = "orderly" => \A w \in CallsOn(t) : Answered(w)

MayCancel(t) == Pacing = "orderly" => \A w \in CallsOn(t) : Answered(w)

GoTo(w, label) == pc' = [pc EXCEPT ![w] = label]

Get(t) == IF t \in DOMAIN store THEN <<store[t]>> ELSE <<>>

(***************************************************************************)
(* start_execution: validation, id resolution, registration.               *)
(***************************************************************************)

\* A message without a task id: resolve_ids makes up a fresh id.
StartNewTask(w, t) ==
    /\ pc[w] = "idle"
    /\ t \notin DOMAIN store
    /\ \A v \in Workers : taskOf[v] # t
    /\ taskOf' = [taskOf EXCEPT ![w] = t]
    /\ GoTo(w, "insertBus")
    /\ UNCHANGED <<shared, existing, turnVars, emitted, applying, cancelVars>>

\* Mutant: a terminal task still accepts messages.
ContinueTask_Terminal(w, t) ==
    /\ pc[w] = "idle"
    /\ t \in DOMAIN store
    /\ MaySendMessage(t)
    /\ taskOf' = [taskOf EXCEPT ![w] = t]
    /\ existing' = [existing EXCEPT ![w] = Get(t)]
    /\ GoTo(w, "insertBus")
    /\ UNCHANGED <<shared, turnVars, emitted, applying, cancelVars>>

\* A message that continues a task.
ContinueTask(w, t) ==
    /\ pc[w] = "idle"
    /\ t \in DOMAIN store
    /\ ~IsTerminal(store[t].state)
    /\ MaySendMessage(t)
    /\ taskOf' = [taskOf EXCEPT ![w] = t]
    /\ existing' = [existing EXCEPT ![w] = Get(t)]
    /\ GoTo(w, "insertBus")
    /\ UNCHANGED <<shared, turnVars, emitted, applying, cancelVars>>

\* No parts, content type not accepted, unknown task, another context id,
\* not authorized, or a terminal task: refused before anything is touched.
RefuseCall(w) ==
    /\ pc[w] = "idle"
    /\ GoTo(w, "rejected")
    /\ UNCHANGED <<shared, call, turnVars, emitted, applying, cancelVars>>

InsertBus(w) ==
    /\ pc[w] = "insertBus"
    /\ buses' = Insert(buses, taskOf[w], w)
    /\ GoTo(w, "insertToken")
    /\ UNCHANGED <<store, eventLogs, nextSeq, cancelTokens, signalled, sent,
                   call, turnVars, emitted, applying, cancelVars>>

\* ... and the pump is spawned.
InsertToken(w) ==
    /\ pc[w] = "insertToken"
    /\ cancelTokens' = Insert(cancelTokens, taskOf[w], w)
    /\ GoTo(w, "recv")
    /\ UNCHANGED <<store, eventLogs, nextSeq, buses, signalled, sent,
                   call, turnVars, emitted, applying, cancelVars>>

-----------------------------------------------------------------------------
(***************************************************************************)
(* The executor's events, as the pump (at "recv") and CancelTask (at       *)
(* "drain") take them from the channel.                                    *)
(***************************************************************************)
MayReport(w) ==
    emitted[w] < IF w \in Turns THEN MaxEvents ELSE MaxCancelEvents

\* Mutant: only the first turn of a task is led by the Task.
LeadsWithTask_NewOnly(w, e) ==
    w \in Turns /\ firstEvent[w] /\ e.kind # "message" /\ existing[w] = <<>>

\* The first task-shaped event of a turn is led by the Task.
LeadsWithTask(w, e) == w \in Turns /\ firstEvent[w] /\ e.kind # "message"

Apply(w, e) ==
    /\ event' = [event EXCEPT ![w] = e]
    /\ GoTo(w, IF LeadsWithTask(w, e) THEN "lead" ELSE "takeSeq")

ReceiveEvent(w) ==
    /\ pc[w] \in {"recv", "drain"}
    /\ MayReport(w)
    /\ \E e \in Reports : Apply(w, e)
    /\ emitted' = [emitted EXCEPT ![w] = @ + 1]
    /\ UNCHANGED <<shared, call, turnVars, seq, pending, last, cancelVars>>

\* An artifact update without parts is dropped; it is not the first event.
SkipEmptyArtifact(w) ==
    /\ pc[w] \in {"recv", "drain"}
    /\ MayReport(w)
    /\ emitted' = [emitted EXCEPT ![w] = @ + 1]
    /\ UNCHANGED <<shared, pc, call, turnVars, applying, cancelVars>>

\* Mutant: an early return skips the clean-up.
ExecutorReturns_NoCleanUp(w) ==
    /\ pc[w] = "recv"
    /\ GoTo(w, "done")
    /\ UNCHANGED <<shared, call, turnVars, emitted, applying, cancelVars>>

\* Mutant: after AUTH_REQUIRED the pump goes on waiting for a closing event.
ExecutorReturns_Waits(w) ==
    /\ pc[w] = "recv"
    /\ IF sawOutcome[w] THEN UNCHANGED pc ELSE GoTo(w, "removeBus")
    /\ UNCHANGED <<shared, call, turnVars, emitted, applying, cancelVars>>

(***************************************************************************)
(* The executor's channel is closed and the loop ends.  If no outcome was  *)
(* reported, an error or a panic of the executor becomes a FAILED status.  *)
(***************************************************************************)
ExecutorReturns(w) ==
    /\ pc[w] = "recv"
    /\ GoTo(w, "removeBus")
    /\ UNCHANGED <<shared, call, turnVars, emitted, applying, cancelVars>>

ExecutorFails(w) ==
    /\ pc[w] = "recv"
    /\ ~sawOutcome[w]
    /\ Apply(w, StatusUpdate("Failed", TRUE))
    /\ last' = [last EXCEPT ![w] = TRUE]
    /\ UNCHANGED <<shared, call, turnVars, emitted, seq, pending, cancelVars>>

-----------------------------------------------------------------------------
(***************************************************************************)
(* lead_with_task_if_needed: a Task snapshot goes out on the bus alone.    *)
(***************************************************************************)
LeadTask(w) ==
    IF existing[w] = <<>>
    THEN NewTask("Submitted", UserMessage(w))
    ELSE existing[w][1]

BusesOf(w) == IF w \in Turns THEN {w} ELSE attached[w]

Broadcast(w, e) ==
    sent' = [b \in Turns |->
                IF b \in BusesOf(w)
                THEN Append(sent[b], [seq |-> seq[w], by |-> w, event |-> e])
                ELSE sent[b]]

FetchSeq(w) ==
    /\ seq' = [seq EXCEPT ![w] = nextSeq]
    /\ nextSeq' = nextSeq + 1

\* Mutant: the lead is sent under the number the first event will take.
TakeLeadSeq_Peeks(w) ==
    /\ pc[w] = "lead"
    /\ seq' = [seq EXCEPT ![w] = nextSeq]
    /\ GoTo(w, "sendLead")
    /\ UNCHANGED <<shared, call, turnVars, emitted, event, pending, last,
                   cancelVars>>

TakeLeadSeq(w) ==
    /\ pc[w] = "lead"
    /\ FetchSeq(w)
    /\ GoTo(w, "sendLead")
    /\ UNCHANGED <<store, eventLogs, buses, cancelTokens, signalled, sent,
                   call, turnVars, emitted, event, pending, last, cancelVars>>

SendLead(w) ==
    /\ pc[w] = "sendLead"
    /\ Broadcast(w, TaskEvent(LeadTask(w)))
    /\ GoTo(w, "takeSeq")
    /\ UNCHANGED <<store, eventLogs, nextSeq, buses, cancelTokens, signalled,
                   call, turnVars, emitted, applying, cancelVars>>

\* Mutant: the counter is read but not advanced.
TakeSeq_Peeks(w) ==
    /\ pc[w] = "takeSeq"
    /\ seq' = [seq EXCEPT ![w] = nextSeq]
    /\ GoTo(w, "appendLog")
    /\ UNCHANGED <<shared, call, turnVars, emitted, event, pending, last,
                   cancelVars>>

(***************************************************************************)
(* apply_event, and the bus send with the same sequence number after it.   *)
(***************************************************************************)
TakeSeq(w) ==
    /\ pc[w] = "takeSeq"
    /\ FetchSeq(w)
    /\ GoTo(w, "appendLog")
    /\ UNCHANGED <<store, eventLogs, buses, cancelTokens, signalled, sent,
                   call, turnVars, emitted, event, pending, last, cancelVars>>

\* Mutant: the bound is off by one.
AppendBounded_Late(log, item) ==
    IF Len(log) > EventLogCapacity
    THEN Append(Tail(log), item)
    ELSE Append(log, item)

AppendBounded(log, item) ==
    IF Len(log) >= EventLogCapacity
    THEN Append(Tail(log), item)
    ELSE Append(log, item)

\* Mutant: the events the engine makes up itself are not logged.
AppendLog_ReportedOnly(w) ==
    /\ pc[w] = "appendLog"
    /\ eventLogs' = IF last[w] THEN eventLogs
                    ELSE [eventLogs EXCEPT ![taskOf[w]] = AppendBounded(@,
                            [seq |-> seq[w], by |-> w, event |-> event[w]])]
    /\ GoTo(w, IF event[w].kind = "message" THEN "send" ELSE "getTask")
    /\ UNCHANGED <<store, nextSeq, buses, cancelTokens, signalled, sent,
                   call, turnVars, emitted, applying, cancelVars>>

AppendLog(w) ==
    /\ pc[w] = "appendLog"
    /\ eventLogs' = [eventLogs EXCEPT ![taskOf[w]] =
            AppendBounded(@, [seq |-> seq[w], by |-> w, event |-> event[w]])]
    /\ GoTo(w, IF event[w].kind = "message" THEN "send" ELSE "getTask")
    /\ UNCHANGED <<store, nextSeq, buses, cancelTokens, signalled, sent,
                   call, turnVars, emitted, applying, cancelVars>>

\* CancelTask seeds with the last message of the history it found.
Seed(w) ==
    IF w \in Turns
    THEN UserMessage(w)
    ELSE LET history == existing[w][1].history IN history[Len(history)]

\* Mutant: the update starts from the row read when the turn started.
GetTask_StaleRow(w) ==
    /\ pc[w] = "getTask"
    /\ LET found == SeededTask(existing[w], firstEvent[w], Seed(w), event[w])
       IN pending' = [pending EXCEPT ![w] =
                        <<UpdateTask(found, event[w], seq[w])>>]
    /\ GoTo(w, "putTask")
    /\ UNCHANGED <<shared, call, turnVars, emitted, event, seq, last, cancelVars>>

GetTask(w) ==
    /\ pc[w] = "getTask"
    /\ LET found == SeededTask(Get(taskOf[w]), firstEvent[w], Seed(w), event[w])
       IN pending' = [pending EXCEPT ![w] =
                        <<UpdateTask(found, event[w], seq[w])>>]
    /\ GoTo(w, "putTask")
    /\ UNCHANGED <<shared, call, turnVars, emitted, event, seq, last, cancelVars>>

PutTask(w) ==
    /\ pc[w] = "putTask"
    /\ store' = Insert(store, taskOf[w], pending[w][1])
    /\ pending' = [pending EXCEPT ![w] = <<>>]
    /\ GoTo(w, "send")
    /\ UNCHANGED <<eventLogs, nextSeq, buses, cancelTokens, signalled, sent,
                   call, turnVars, emitted, event, seq, last, cancelVars>>

\* Mutant: the pump does not break at a closing event.
AfterSend_NoBreak(w) ==
    IF w \in Turns
    THEN IF last[w] THEN "removeBus" ELSE "recv"
    ELSE IF last[w] THEN "finalGet" ELSE "drain"

\* Where a worker goes once its event is out.
AfterSend(w) ==
    IF w \in Turns
    THEN IF ClosesStream(event[w]) \/ last[w] THEN "removeBus" ELSE "recv"
    ELSE IF last[w] THEN "finalGet" ELSE "drain"

\* Mutant: every event counts as the first of its turn.
SendEvent_AlwaysFirst(w) ==
    /\ pc[w] = "send"
    /\ Broadcast(w, event[w])
    /\ sawOutcome' = [sawOutcome EXCEPT ![w] = @ \/ IsTurnOutcome(event[w])]
    /\ event' = [event EXCEPT ![w] = NoEvent]
    /\ seq' = [seq EXCEPT ![w] = 0]
    /\ GoTo(w, AfterSend(w))
    /\ UNCHANGED <<store, eventLogs, nextSeq, buses, cancelTokens, signalled,
                   call, firstEvent, emitted, pending, last, cancelVars>>

SendEvent(w) ==
    /\ pc[w] = "send"
    /\ Broadcast(w, event[w])
    /\ firstEvent' = [firstEvent EXCEPT ![w] = FALSE]
    /\ sawOutcome' = [sawOutcome EXCEPT ![w] = @ \/ IsTurnOutcome(event[w])]
    /\ event' = [event EXCEPT ![w] = NoEvent]
    /\ seq' = [seq EXCEPT ![w] = 0]
    /\ GoTo(w, AfterSend(w))
    /\ UNCHANGED <<store, eventLogs, nextSeq, buses, cancelTokens, signalled,
                   call, emitted, pending, last, cancelVars>>

(***************************************************************************)
(* The pump's clean-up: by task id, whatever is registered there.          *)
(***************************************************************************)
RemoveBus(w) ==
    /\ pc[w] = "removeBus"
    /\ buses' = Without(buses, taskOf[w])
    /\ GoTo(w, "removeToken")
    /\ UNCHANGED <<store, eventLogs, nextSeq, cancelTokens, signalled, sent,
                   call, turnVars, emitted, applying, cancelVars>>

RemoveToken(w) ==
    /\ pc[w] = "removeToken"
    /\ cancelTokens' = Without(cancelTokens, taskOf[w])
    /\ GoTo(w, "done")
    /\ UNCHANGED <<store, eventLogs, nextSeq, buses, signalled, sent,
                   call, turnVars, emitted, applying, cancelVars>>

\* Every sender of the bus is gone: the pump's, the registry's, the cancels'.
BusClosed(w) ==
    /\ pc[w] \in {"done", "aborted"}
    /\ \A t \in DOMAIN buses : buses[t] # w
    /\ \A c \in Cancels : w \notin attached[c]

-----------------------------------------------------------------------------
(***************************************************************************)
(* cancel_task.                                                            *)
(***************************************************************************)
StartCancel(c, t) ==
    /\ pc[c] = "idle"
    /\ t \in DOMAIN store
    /\ ~IsTerminal(store[t].state)
    /\ MayCancel(t)
    /\ taskOf' = [taskOf EXCEPT ![c] = t]
    /\ existing' = [existing EXCEPT ![c] = Get(t)]
    /\ GoTo(c, "signal")
    /\ UNCHANGED <<shared, turnVars, emitted, applying, cancelVars>>

SignalToken(c) ==
    /\ pc[c] = "signal"
    /\ signalled' = IF taskOf[c] \in DOMAIN cancelTokens
                    THEN signalled \cup {cancelTokens[taskOf[c]]}
                    ELSE signalled
    /\ GoTo(c, "executorCancel")
    /\ UNCHANGED <<store, eventLogs, nextSeq, buses, cancelTokens, sent,
                   call, turnVars, emitted, applying, cancelVars>>

ExecutorCancelOk(c) ==
    /\ pc[c] = "executorCancel"
    /\ GoTo(c, "lookupBus")
    /\ UNCHANGED <<shared, call, turnVars, emitted, applying, cancelVars>>

\* The error is returned; events already reported are dropped.
ExecutorCancelErr(c) ==
    /\ pc[c] = "executorCancel"
    /\ GoTo(c, "rejected")
    /\ UNCHANGED <<shared, call, turnVars, emitted, applying, cancelVars>>

\* Mutant: the key is kept, not the sender found there.
LookupBus_Key(c) ==
    /\ pc[c] = "lookupBus"
    /\ attached' = [attached EXCEPT ![c] = DOMAIN buses \cap {taskOf[c]}]
    /\ GoTo(c, "drain")
    /\ UNCHANGED <<shared, call, turnVars, emitted, applying, returned>>

LookupBus(c) ==
    /\ pc[c] = "lookupBus"
    /\ attached' = [attached EXCEPT ![c] =
            {buses[t] : t \in DOMAIN buses \cap {taskOf[c]}}]
    /\ GoTo(c, "drain")
    /\ UNCHANGED <<shared, call, turnVars, emitted, applying, returned>>

Return(c, task) ==
    /\ returned' = [returned EXCEPT ![c] = <<task>>]
    /\ attached' = [attached EXCEPT ![c] = {}]
    /\ GoTo(c, "done")

\* Mutant: CancelTask trusts the executor to have reported an outcome.
Reread_Trusting(c) ==
    /\ pc[c] = "drain"
    /\ Return(c, store[taskOf[c]])
    /\ UNCHANGED <<shared, call, turnVars, emitted, applying>>

(***************************************************************************)
(* The channel is drained: re-read the task, and make up a CANCELED status *)
(* if it is still not terminal.  The row was there when the call started   *)
(* and no TaskStore operation removes one, so neither read falls back.     *)
(***************************************************************************)
Reread(c) ==
    /\ pc[c] = "drain"
    /\ LET task == store[taskOf[c]]
       IN IF IsTerminal(task.state)
          THEN /\ Return(c, task)
               /\ UNCHANGED <<event, last>>
          ELSE /\ Apply(c, StatusUpdate("Canceled", FALSE))
               /\ last' = [last EXCEPT ![c] = TRUE]
               /\ UNCHANGED cancelVars
    /\ UNCHANGED <<shared, call, turnVars, emitted, seq, pending>>

FinalGet(c) ==
    /\ pc[c] = "finalGet"
    /\ Return(c, store[taskOf[c]])
    /\ UNCHANGED <<shared, call, turnVars, emitted, applying>>

-----------------------------------------------------------------------------
(***************************************************************************)
(* The client goes away: the server drops the handler's future at the      *)
(* await it is at, and what is left of the handler does not run.  A turn   *)
(* is out of reach once its pump is spawned.                               *)
(***************************************************************************)
InHandler(w) ==
    IF w \in Turns
    THEN pc[w] \in {"insertBus", "insertToken"}
    ELSE pc[w] # "idle" /\ ~Ended(w)

AbortCall(w) ==
    /\ Disconnects
    /\ InHandler(w)
    /\ GoTo(w, "aborted")
    /\ event' = [event EXCEPT ![w] = NoEvent]
    /\ seq' = [seq EXCEPT ![w] = 0]
    /\ pending' = [pending EXCEPT ![w] = <<>>]
    /\ attached' = [c \in Cancels |-> IF c = w THEN {} ELSE attached[c]]
    /\ UNCHANGED <<shared, call, turnVars, emitted, last, returned>>

-----------------------------------------------------------------------------
(***************************************************************************)
(* Steps the server takes once a call is in.  Calls come from clients.     *)
(***************************************************************************)
ApplyStep(w) ==
    \/ ReceiveEvent(w)
    \/ SkipEmptyArtifact(w)
    \/ TakeSeq(w)
    \/ AppendLog(w)
    \/ GetTask(w)
    \/ PutTask(w)
    \/ SendEvent(w)

TurnStep(w) ==
    \/ InsertBus(w)
    \/ InsertToken(w)
    \/ ExecutorReturns(w)
    \/ ExecutorFails(w)
    \/ TakeLeadSeq(w)
    \/ SendLead(w)
    \/ RemoveBus(w)
    \/ RemoveToken(w)

CancelStep(c) ==
    \/ SignalToken(c)
    \/ ExecutorCancelOk(c)
    \/ ExecutorCancelErr(c)
    \/ LookupBus(c)
    \/ Reread(c)
    \/ FinalGet(c)

ServerStep(w) ==
    \/ ApplyStep(w)
    \/ w \in Turns /\ TurnStep(w)
    \/ w \in Cancels /\ CancelStep(w)

ClientStep(w) ==
    \/ RefuseCall(w)
    \/ AbortCall(w)
    \/ \E t \in Tasks :
          \/ w \in Turns /\ (StartNewTask(w, t) \/ ContinueTask(w, t))
          \/ w \in Cancels /\ StartCancel(w, t)

\* Every client has had its answer and nothing is left to run.
Finished ==
    /\ \A w \in Workers : Ended(w)
    /\ UNCHANGED vars

Next ==
    \/ \E w \in Workers : ClientStep(w) \/ ServerStep(w)
    \/ Finished

Spec == Init /\ [][Next]_vars

(***************************************************************************)
(* tokio runs every spawned task and every handler to its next await; the  *)
(* executor is assumed to return (MaxEvents bounds what it reports).       *)
(***************************************************************************)
FairSpec == Spec /\ \A w \in Workers : WF_vars(ServerStep(w))

-----------------------------------------------------------------------------
(***************************************************************************)
(* Properties that hold however calls overlap.                             *)
(***************************************************************************)

BusItems == UNION {{sent[b][i] : i \in DOMAIN sent[b]} : b \in Turns}
LoggedItems == UNION {{eventLogs[t][i] : i \in DOMAIN eventLogs[t]} : t \in Tasks}

\* A sequence number names one event: wherever two items carry the same
\* number, in the log a subscriber replays or on the bus it then follows,
\* they are the same item of the same worker.  The dedup by number in
\* subscribe_to_task rests on this.
SeqNamesOneEvent ==
    \A x, y \in BusItems \cup LoggedItems : x.seq = y.seq => x = y

\* An event goes out on a bus only after it is in the log of the bus's task
\* (it may have been evicted since, when the log is full); only the leading
\* Task is on the bus alone.  A subscriber that takes the bus first and the
\* log second relies on this order.
LoggedBeforeSent ==
    \A b \in Turns : \A i \in DOMAIN sent[b] :
        sent[b][i].event.kind # "task" =>
            \/ \E j \in DOMAIN eventLogs[taskOf[b]] :
                  eventLogs[taskOf[b]][j] = sent[b][i]
            \/ Len(eventLogs[taskOf[b]]) = EventLogCapacity

\* The log keeps at most EVENT_LOG_CAPACITY events, and those of one worker
\* are in the order of their numbers.
LogIsWindow ==
    \A t \in Tasks :
        /\ Len(eventLogs[t]) <= EventLogCapacity
        /\ \A i, j \in DOMAIN eventLogs[t] :
              i < j /\ eventLogs[t][i].by = eventLogs[t][j].by =>
                  eventLogs[t][i].seq < eventLogs[t][j].seq

\* No message is recorded twice in a task's history, whatever the number of
\* events of its turn and the turns and cancels that rewrite the record.
HistoryHasNoDuplicates ==
    \A t \in DOMAIN store : \A i, j \in DOMAIN store[t].history :
        store[t].history[i] = store[t].history[j] => i = j

\* After its closing event a pump sends nothing more: not the events the
\* executor still reports, not a FAILED status for its error.
NothingAfterClose ==
    \A b \in Turns : \A i, j \in DOMAIN sent[b] :
        i < j /\ sent[b][i].by = b /\ ClosesStream(sent[b][i].event) =>
            sent[b][j].by # b

\* The registries hold no entry of a task without a turn still to clean it
\* up, so no bus stays open and no token stays behind when all turns end.
\* Only a client that goes away between the two registrations leaves a bus.
Running(w) == ~Ended(w) /\ pc[w] \notin {"idle", "insertBus"}

RegistriesDrain ==
    /\ \A t \in DOMAIN buses : \E w \in Turns :
          /\ taskOf[w] = t
          /\ (Running(w) /\ pc[w] # "removeToken") \/ pc[w] = "aborted"
    /\ \A t \in DOMAIN cancelTokens : \E w \in Turns :
          taskOf[w] = t /\ Running(w) /\ pc[w] # "insertToken"

\* A CancelTask that succeeds leaves a terminal status event in the task's
\* log, whether the executor or the engine reported it (it may have been
\* evicted since, when the log is full).
CancelLeavesTerminalEvent ==
    \A c \in Cancels : returned[c] # <<>> =>
        \/ Len(eventLogs[taskOf[c]]) = EventLogCapacity
        \/ \E i \in DOMAIN eventLogs[taskOf[c]] :
            LET e == eventLogs[taskOf[c]][i].event
            IN e.kind = "status" /\ IsTerminal(e.state)

\* Every call ends: a turn's pump cleans up and a cancel answers.
CallsEnd == \A w \in Workers : pc[w] # "idle" ~> Ended(w)

-----------------------------------------------------------------------------
(***************************************************************************)
(* Properties the documentation states, which hold when calls on a task do *)
(* not overlap.                                                            *)
(***************************************************************************)

\* "Terminal states never transition further."
TerminalIsFinal ==
    [][\A t \in DOMAIN store : IsTerminal(store[t].state) =>
          store'[t].state = store[t].state]_vars

\* A task-shaped stream begins with the Task.
StreamLeadsWithTask ==
    \A b \in Turns : sent[b] # <<>> => sent[b][1].event.kind \in {"task", "message"}

\* A successful CancelTask guarantees a terminal outcome.
CancelReturnsTerminal ==
    \A c \in Cancels : returned[c] # <<>> => IsTerminal(returned[c][1].state)

\* CancelTask signals the turn whose executor is running on the task.
CancelSignalsRunningTurn ==
    [][\A c \in Cancels : pc[c] = "signal" /\ pc'[c] # "signal" =>
          \A w \in CallsOn(taskOf[c]) \cap Turns :
              pc[w] = "recv" => w \in signalled']_vars

\* The log is in the order of the sequence numbers, which is what
\* max_replayed, the number of its last entry, stands for.
LogIsOrdered ==
    \A t \in Tasks : \A i, j \in DOMAIN eventLogs[t] :
        i < j => eventLogs[t][i].seq < eventLogs[t][j].seq

-----------------------------------------------------------------------------
(***************************************************************************)
(* Refinement: the stored task changes by whole updates.  The read and the *)
(* write of apply_event are two accesses of the store, so this holds only  *)
(* while one worker at a time writes a task.                               *)
(***************************************************************************)
Record == INSTANCE TaskRecord WITH task <- store, clock <- nextSeq

\* The store behaves as TaskRecord.
RefinesTaskRecord == Record!Spec
=============================================================================
