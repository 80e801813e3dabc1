# A verification project for rusty_a2a

rusty_a2a is a Rust implementation of the A2A protocol: a server (`AgentServer`)
that runs an application's `AgentExecutor` behind three bindings (JSON-RPC, REST,
gRPC), and clients for each. The three bindings share one `Engine`
(`src/server/engine.rs`), and what is hard in this code is in the engine: several
tasks of a multi-threaded tokio runtime read and write one task's record, event
log, broadcast bus and cancellation token, and no lock is held from one access
to the next.

This directory holds TLA+ modules of the engine, the TLC configurations that
check them, and proofs checked by TLAPS.

## 1. Inventory

| part | state | operations | modelled in |
|---|---|---|---|
| task data model (`types/task.rs`, `types/events.rs`) | - | `is_terminal`, `is_final_for_blocking_send`, `closes_stream`, `is_turn_outcome`, what an event does to a `Task` | `TaskTypes` |
| `InMemoryTaskStore` (`server/store.rs`) | `tasks`, `push_configs`, each behind an `RwLock` | `get`, `put`, `list`, and four for configurations; each atomic | where it is used |
| a turn: `start_execution`, its pump, `apply_event` (`engine.rs`) | `buses`, `cancel_tokens`, `event_logs`, `next_seq`; per turn: the broadcast channel, `first_event`, `saw_turn_outcome` | register, pump one event at a time, make up FAILED, clean up | `TaskEngine` |
| `cancel_task` | - | signal, let the executor cancel, drain, make up CANCELED, read | `TaskEngine` |
| `send_message`, `send_streaming_message` | the receiver of the channel | wait, return a snapshot, stream through the closing event | `SendMessage` |
| `subscribe_to_task`, `replay_then_live` | the receiver, the replay, `max_replayed` | bus, log, lead, replay, live tail; reconnect with `Last-Event-ID` | `Subscribe` |
| `list_tasks` | the page token in the client's hand | page loop with authorization | `TaskListing` |
| push notifications (`push.rs`) | the configurations; one delivery task per update and configuration | register, replace, delete, notify, retry | `PushDelivery` |
| `AgentExecutor` (application code), `EventSink` | - | reports events, returns, fails, panics | `TaskEngine`, nondeterministically |
| authentication (`auth.rs`, `Engine::authenticate`, `authorize_task`) | - | a decision per request, with awaits of the application | `RequestGate`; hidden tasks in `TaskListing` |
| bindings (`router.rs`, `rest.rs`, `grpc/`) | - | parse, check, dispatch, convert | `RequestGate` (their checks); `Last-Event-ID` in `Subscribe` |
| errors (`error.rs`, `types/jsonrpc.rs`) and the clients' way back (`client/`) | - | tables | `ErrorCodes` |
| wire types (`types/*.rs`, `timestamp.rs`) and what serde makes of them | - | write and read every field of every type that a reader parses | `WireTypes`; sent around in `DocumentExchange` |
| gRPC conversions (`grpc_convert.rs`) | - | `our_*_to_pb`, `pb_*_to_ours` | `GrpcConvert`; sent around in `DocumentExchange` |
| agent card signing (`signing.rs`), `discover_and_verify` and the verification of cards (`client/mod.rs`) | the signatures a card carries | sign, append, verify one, verify any | `CardSigning`; over copies of a card in `DocumentExchange` |
| clients otherwise (`client/`), `codec.rs` | - | one request and one response | what a caller does around them is in `SendMessage`, `Subscribe`, `TaskListing` |

How they interact. A request handler calls `start_execution`, which registers a
broadcast bus and a cancellation token under the task id and spawns a pump. The
pump spawns the executor and takes its events from an unbounded channel. For each
event it takes a number, appends to the task's log, reads the task, puts it back,
notifies the webhooks, and sends event and number on the bus. The handler, and any
subscriber, reads the bus. `cancel_task` applies events to the same task from its
own handler, and sends them on whatever bus is registered. A client that
disconnects makes the server drop the handler at the await it is at; the pump
goes on. Everything that crosses a binding is converted twice, field by field, to
JSON or to protobuf and back; an agent card's signature is made over the JSON of
the card and verified over the JSON of whatever copy has arrived.

What makes each part correct: the record is what the log says happened, numbers
identify events, terminal states stay, registries drain, a call returns and says
what became of the turn, a stream is in order, without repetition or gap and ends
with the outcome, a webhook misses no update, a walk over pages misses no task
that is left alone and in its place,
nobody is served whom the agent card excludes, the bindings answer alike, a document
loses nothing on its way but what its encodings cannot say, and a card is trusted
only if a trusted key signed what it says.
What can go wrong is listed line by line under `hazards` in `PROJECT.json`.

## 2. Modules

* `TaskTypes`: the data. An `Option` is a sequence of at most one element, a
  `HashMap` a function with a partial domain. A message of a history is named by
  the turn whose client sent it or the number of the status that carried it; a
  part of an artifact by the number of its update. So two records are equal in
  the model exactly if they came about by the same events.
* `TaskEngine`: turns and cancels, the *workers*. `pc[w]` is the access of
  shared state a worker is about to make; each action is one of them. Turn:
  `StartNewTask`/`ContinueTask` (validation and the read of the task),
  `InsertBus`, `InsertToken`, then per event `ReceiveEvent`, `TakeLeadSeq`,
  `SendLead`, `TakeSeq`, `AppendLog`, `GetTask`, `PutTask`, `SendEvent`, and at
  the end `ExecutorReturns` or `ExecutorFails`, `RemoveBus`, `RemoveToken`.
  Cancel: `StartCancel`, `SignalToken`, `ExecutorCancelOk`/`Err`, `LookupBus`,
  the same steps per event, `Reread`, `FinalGet`. `AbortCall` is a client that
  goes away. `sent` keeps all that was sent on a bus; readers have a position.
* `TaskRecord`: the abstract specification, a record per task that changes by
  one whole update at a time. `TaskEngine` implements it (`RefinesTaskRecord`,
  `store` for `task`, `next_seq` for its clock) as long as one worker at a time
  writes a task.
* `TaskReplay`: the record as a function of the log, read off the places of its entries.
* `SendMessage`, `Subscribe`: the readers, each over `TaskEngine`. A reader that
  falls `BusCapacity` behind skips to the oldest item kept, as tokio's channel
  makes it. In `Subscribe` a client may drop its connection at any time while it
  streams, and come back with the last id it received.
  Four properties say what such a client is owed: `NoEventTwice`,
  `ResumedCatchesUp`, `AttachedSeesClose`, `StreamsEnd`.
* `PushDelivery`: the configurations of one task, a set of at most one per id (the
  order of the list in the store decides only in which order deliveries are spawned),
  and the fan-out. Deliveries
  share nothing, so one of them (any: `watched` is chosen at the start) is
  followed through its attempts.
* `TaskListing`: one store page per step, writes in between. `InOrder` is the sort of the
  store, given by what it returns; what the caller may not see is dropped from a page,
  which leaves the rest in order. A put may give a task any timestamp, an older one than
  it had, too: a status carries the time it was reported at (`executor.rs:96`), a task
  that an artifact made has the time of the put (`engine.rs:1309`), and a pump may put a
  status reported before the CANCELED it replaces. `undisturbed` is a history variable:
  it loses the tasks that are written, and those that the task the token names is put
  behind (`MovedPast`).
* `RequestGate`: one call on its way through a binding, up to where the operation
  begins to have an effect, and its answer on the way back. A call is a record of
  everything the checks look at: the agent card, the request, and what
  `AuthVerifier` and the store say. One action per check: `ReadBody`, `CheckVersion`,
  `CheckExtensions`, `Authenticate`, `TryAlternative` for each alternative of
  `authenticate_against`, `RejectCaller`, `ParseParams`, and `Operate` (or
  `OperateCard`) with `EngineChecks`, the checks of each operation in the order of
  the code. `Verdict` says what the answer should be, over whichever binding.
* `ErrorCodes`: the tables of `error.rs`, and what each client makes of an error.
* `WireTypes`: the tables of the data types. A type is a record of its fields, a
  field the rule its serde attributes make: its kind, what is left out when it is
  written, and what a missing one is read as. A value is a token for all that an
  encoding treats alike (`"millis"` and `"nanos"` for a timestamp, `"whole"`, `"float"`,
  `"huge"` for numbers inside JSON). `WriteJson` and `ReadJson` are what serde does.
* `GrpcConvert`: `WritePb` and `ReadPb`, and the tables of the optional fields that are
  sent as a zero value, of those whose zero value is read as unset, and of those
  without which a message is refused.
* `CardSigning`: `SignAgentCard`, `Signed`, `VerifyAgentCardSignature`,
  `VerifyAnySignature`, over `CanonicalJson`.
* `DocumentExchange`: programs that pass documents on, over JSON and gRPC, or get them
  from a program not built with this crate; cards are signed, signed again, edited,
  fetched with `discover_and_verify` or verified in hand. `Write`, `ReceiveForeign`,
  `Carry`, `DiscoverAndVerify`, `VerifySignature`, `Sign`, `Edit`. A document is one
  field of one type, since conversions go field by field.
* `TaskEngine_proofs`, `TaskOrder_proofs` over it, `SendMessage_proofs` and
  `Subscribe_proofs` over that; `TaskListing_proofs`, `PushDelivery_proofs`,
  `RequestGate_proofs`, `DocumentExchange_proofs`: the theorems.
* `MCReports` and the `MC...` modules: instances. Every definition whose name ends
  in `_Something` after the name of another one is marked *Mutant*: a plausible
  bug, used only to see that the properties notice it.

## 3. Runs

| run | instance | shows |
|---|---|---|
| `engine_cancel` | one turn, one cancel, 2 + 1 events of {WORKING, AUTH_REQUIRED, COMPLETED}, log of 4, disconnects, fair | `TypeOK`, `SeqNamesOneEvent`, `LoggedBeforeSent`, `LogIsWindow`, `NothingAfterClose`, `CancelLeavesTerminalEvent` hold however the two interleave and wherever a handler is dropped; `CallsEnd` |
| `engine_chat` | two turns, one cancel, 2 events of {INPUT_REQUIRED with a message, COMPLETED, artifact, artifact chunk}, calls wait for one another's answer | `StreamLeadsWithTask`, `LogIsOrdered`, `StoreIsReplayOfLog`, `CancelReturnsTerminal`, `TerminalIsFinal`, `RefinesTaskRecord` |
| `send_outcome` | two turns of a chat, each in any mode, channel of 2, fair | `StreamIsInOrder`, `StreamDeliversOutcome`, `BlockingReturnsFinal`, `FailureMeansNoTask`, `HistoryHasNoDuplicates`, `RegistriesDrain`, `CallsReturn` |
| `sub_turn` | a subscriber with 3 connections, a turn of 3 events of {WORKING, AUTH_REQUIRED, COMPLETED} and a possible FAILED, log of 4, channel of 3, fair | `NoEventTwice`, `ResumedCatchesUp`, `AttachedSeesClose`, `StreamsEnd` |
| `push_fanout` | 2 configuration ids, 2 registrations, 2 updates by a pump and a handler, 3 attempts, fair | `NoUpdateMissed`, `RetiredStaysSilent`, `OutcomeIsEarned`, `LastUpdateIsPosted` |
| `listing_walk` | 4 tasks, two hidden, page sizes 1 and 2, 2 store pages per response, 2 writes, fair | `NothingUndisturbedMissed`, `ListedOnceInOrder`, `WalkEnds` |
| `gate` | 13076 calls: every operation through every binding, with and without each thing a check looks for, up to two failing checks of one operation, two schemes in four places, six lists of requirements, eight verifiers | `ServedMeansAllowed`, `BindingsAgree`, `ClientLearnsError` |
| `cards` | two programs, two keys, every field of every type with every value an encoding could lose, either binding, foreign documents; four fields of cards signed twice and edited once; symmetric programs | `TypeOK`, `OnlyKnownLosses`, `SignatureOutlivesHops`, `VouchedIsSigned` |
| `engine_terminal_overwritten` | one turn, one cancel | violates `TerminalIsFinal` |
| `engine_cancel_misses_turn` | two turns of a chat, one cancel | violates `CancelSignalsRunningTurn` |
| `sub_gap` | one turn, one cancel, one subscriber | violates `NoGap` |
| `sub_resume` | one turn, one subscriber with 2 connections | violates `ResumeIsPrecise` |

The four violations are described under `findings` in `PROJECT.json`, with the
sentence of the repository each contradicts: an update lost between the `get` and
the `put` of `apply_event` revives a canceled task; the clean-up by task id takes
away the next turn's bus and token; numbers taken before the log is locked let
replay and live tail both miss an event; the number of the leading Task is above
those of the replay it precedes, so a client that returns with it is not sent
that replay.

**Bounds.** Two workers on one task are enough for the races of the shared state:
every one of them is between an access of one worker and a pair of accesses of
another. Two events per turn distinguish the first from a later one, and with the
made-up FAILED or CANCELED there is a third. Capacities are small so that logs
and channels overflow within these events. Three attempts show a first, a middle
and a last one. Two hidden tasks of four, with pages of one and two, make a store
page empty, full, and filled in the middle. In `gate` two schemes make alternatives
that are single, joint, overlapping and empty, and two failing checks tell every
order of two checks from the other; parts of a call that no common check reads are
varied separately. Each set of reports in `MCReports`
has the events one question needs. `MaxEvents`, `MaxCancelEvents`, `MaxConnects`,
`MaxRegistrations`, `MaxUpdates`, `MaxTime` and `MaxWrites` are bounds of the
model and not of the code, and so are `MaxSignings`, `MaxEdits` and `SignedFields`:
two signings are needed for one signature to be there when the next is made, one
edit to make a signature stale, and of the four signed fields gRPC changes two (a
whole number to a double, an empty text to an unset one) and no binding the others. Two programs suffice since a hop is
from one copy to another and `crossed` remembers all hops before. A channel of
three in `sub_turn` is the smallest that a turn can outrun after a subscriber has
caught up once. Symmetry is used in `cards` only, which checks invariants only.
Turns that overlap freely on one task, any number of them, are left to the proofs:
they cover types, registries, numbers, histories, logs and buses.

**Pacing.** `Pacing` says what clients wait for. With `"free"` nothing; the
properties checked so hold of the server whatever clients do. Some of what the
documentation says is true only of clients that wait, and is checked with
`"answered"` (the next message on a task comes after the closing event of the
turn before, as in a chat; its pump may still be cleaning up) or `"orderly"`
(CancelTask waits too and is waited for): `StreamLeadsWithTask`, `LogIsOrdered`,
`StoreIsReplayOfLog`, `CancelReturnsTerminal`, `TerminalIsFinal`,
`RefinesTaskRecord`, `BlockingReturnsFinal`. Each of them fails with free pacing; the
hazards say at which line.

**Limits of single properties.** `NoEventTwice` excepts the events a client
returned with: one that came from the log may still be on its way to the bus, and
is then sent again. It speaks, too, of clients that returned with the number of an
event each time: one that returned with the number of a Task, which is above those of
the events its bus has yet to carry, may have had any of these. `ResumedCatchesUp` and `AttachedSeesClose` speak of clients that
returned with the number of an event each time: the number of the leading Task loses
the replay (`sub_resume`), and no later connection makes up for it. Both are checked for one turn: an INPUT_REQUIRED of an earlier turn
in the replay ends the stream of a later one, and with a second writer `NoGap` fails.
`ResumedCatchesUp` says nothing once the log or the channel has overflowed, as the
code promises nothing then; `sub_turn` has both kinds of behaviours. `StreamsEnd`
is checked without disconnects of calls: a handler dropped between its two
registrations leaves a bus that nobody closes. `StoreIsReplayOfLog` is checked without
disconnects, as a dropped CancelTask may have logged an event it never stores, and
with a log that does not overflow. `NothingUndisturbedMissed` excepts the tasks that the
token's task is put behind with an older timestamp, and has to: three tasks A, B and C,
the newest first, page size one, A listed and B in the token; a write gives B a
timestamp older than C's, the next page begins at B, and C, which nobody wrote, is never
listed. `OnlyKnownLosses` takes the losses of an encoding
from `spec/a2a.proto` and from what protobuf and JSON can say: where gRPC cannot
tell an empty string from an unset one, it does not count as the code's fault.

**Fairness.** tokio polls every spawned task and every handler again when what
it awaits is there, so each worker, reader and delivery has weak fairness on its
own server steps. The locks are held for single accesses and are fair. Two things
are assumed of what is not this code: the executor returns (it has no time limit in
the code either), and the HTTP client's timeout ends a request (`REQUEST_TIMEOUT`).
Clients have no fairness: they need not call, and may go away. In `TaskListing` a
client that began to walk goes on, which is the meaning of a walk.

**Bindings.** `BindingsAgree` speaks of well-formed requests without keys in the
query: REST parses before it authenticates, and of its routes some read the query
and some do not. `GetExtendedAgentCard` is left out of it, since without
requirements the schemes are tried in the order of a `HashMap`. What `AuthVerifier`
answers in `ClientLearnsError` is any error of `A2aError`.

**Deadlock** is checked everywhere except in `push_fanout`, where the bounds on
registrations and updates end the run.

## 4. Proofs

What follows holds for every value of the constants that satisfies the assumptions of
the module: any sets of turns, cancels, tasks and clients, any capacity, any
reports, any bounds. Each proof is hierarchical, with a step per action. Where a
theorem needs more, it says so:

* `NoOverlap` (`TaskOrder_proofs`): `Pacing = "orderly"`, or `"answered"` and no
  cancels. So calls on one task do not overlap, except that the pump of a turn which
  has been answered may still be cleaning up. With free pacing the statements are
  false, and `engine_terminal_overwritten` and `sub_gap` show it.
* `MaxCancelEvents <= 1`: the `cancel` of an executor reports at most one event. It
  may report a terminal status and then another event, which undoes it, as nothing in
  `cancel_task` looks at what it drains.
* `~Disconnects`: no handler is dropped (one that is dropped between its two
  registrations leaves a bus behind on which a later cancel may be the first to send).
* `NoneDropped` (`TaskOrder_proofs`): no handler is dropped, or there are no cancels. A
  CancelTask that is dropped between its log entry and its put leaves an event in the
  log that the record never gets.
* `[]OneCallEach` (`Subscribe_proofs`): a task is that of one turn or cancel. With a
  second turn the replay carries the INPUT_REQUIRED of the first, which ends the
  stream before it has caught up (a listed hazard); with a cancel beside the turn,
  `sub_gap` applies.
* `Conversation` (`SendMessage_proofs`): clients wait for one another, nobody cancels,
  and the executor never reports AUTH_REQUIRED, which ends the wait and not the turn.

**The engine** (`TaskEngine_proofs`; any pacing, with disconnects or without).

* `TypeCorrect`: `Spec => []TypeOK`. `TypeOK` alone is not inductive:
  `FinalGet` returns `store[taskOf[c]]`, and `Seed` takes the last message of the
  history a cancel found. `TypeInv` adds `Recorded` (every stored, held or
  pending task has a history, so it has a last message) and `HoldsOf(w)` for each
  worker: which of `taskOf`, `event`, `pending`, `existing` it holds at each control
  point, and that its task is in the store where the code relies on it.
* `RegistriesAlwaysDrain`: `Spec => []RegistriesDrain`, inductive over
  `TypeInv`. `StillKept` says that a step of one worker does not take from another
  worker what makes it the keeper of an entry; `RegistrySteps` that only the four
  registry actions change the registries, and `RegistryDomains` how. That
  the clean-up goes by task id does no harm here: it removes more than its own.
* `SeqAlwaysNamesOneEvent`: `Spec => []SeqNamesOneEvent`. The invariant:
  numbers held by workers are distinct and below `next_seq`, every item on a bus or
  in a log has a number below `next_seq`, and an item that bears a number a worker
  holds is that worker's event. A number is therefore fresh when taken, and what
  is logged and later sent under it is one item.
* `HistoryNeverRepeats`: `Spec => []HistoryHasNoDuplicates`.
  Lost updates are the difficulty: a record that a worker read long ago may replace a
  newer one. `HistoryInv` says of every stored and every pending history that it lacks
  what is still to be added, the message of a turn that has not seeded yet and
  of a number not yet applied, so that it makes no difference which of them survives.
* `LogIsAlwaysWindow`: `Spec => []LogIsWindow`. The
  invariant `LogInv` adds that a worker about to log holds a number above all its
  logged ones, which `SeqInv` gives it when it takes the number.
  `AppendBoundedIndexes` says which item of a full log ends up where.
* `NothingEverAfterClose`: `Spec => []NothingAfterClose`. `CloseInv`: a pump with a
  closing event behind it is at its clean-up or past it.
* `AlwaysLoggedBeforeSent`: `Spec => []LoggedBeforeSent`. `SentInv`: a worker past
  `AppendLog` has its item in its task's log, or the log is full; and the buses that
  the registry and the cancels know are of turns on that very task, which is what
  makes the bus's log and the worker's log one. `Onward` is the frame: what is kept
  stays kept.
* `CancelAlwaysLeavesTerminalEvent`: `Spec =>
  []CancelLeavesTerminalEvent`. A stored or pending record is terminal only if a
  terminal status is in the log (`Rows`); a cancel that made up CANCELED is applying
  that event until its final read (`Canceling`). It rests on `SentInv`.

**Calls that do not overlap** (`TaskOrder_proofs`, from `NoOverlap`). `OneAtATime` is
the invariant behind all of it: of two workers on a task at most one is not
`Answered`, and `OthersUntouched` says that a step of any worker leaves the log, the
record and the registered bus of every other unanswered call alone.

* `LogAlwaysOrdered`: `[]LogIsOrdered`; a worker that holds a number and has not
  logged it is the only one on its task, and every logged number is below its own.
* `CancelAlwaysReturnsTerminal`: `[]CancelReturnsTerminal`. `FinalInv`: a cancel at its
  final read has found the task terminal, or has just put CANCELED, and nobody else
  puts the task meanwhile. It holds however many events the executor reports.
* `EngineImplementsTaskRecord` (and at most one event per cancel): `RefinesTaskRecord`.
  `RowInv` says that what a worker has read is still what is stored, so that its put is
  one update of the abstract record; `OpenInv` that it is not terminal. Every step of
  `TaskEngine` is a step of `TaskRecord` or a stutter (`StepIsRecordStep`).
* `TerminalAlwaysFinal` (and at most one event per cancel): `TerminalIsFinal`, an action
  property, from the same `OpenInv`.
* `StreamAlwaysLedByTask` (and no disconnects): `[]StreamLeadsWithTask`.
* `StoreAlwaysReplayOfLog` (and `NoneDropped`): `[]StoreIsReplayOfLog`. `ReplayInv`: while
  the log is not full, the record is the replay of the log unless a worker is between its
  log entry and its put, and then that worker is about to put the replay. `FirstInv`: a
  turn takes its update for its first exactly if the log has none of it, which decides
  where its client's message goes. `TopInv` has it that the last entry of the log is that of
  the worker applying it. `UpdateIsReplay`, about the operators alone, is the step: what
  `apply_event` makes of the replay of a log is the replay of the log with the event
  (`StateGrows`, `HistoryGrows`, `ArtifactGrows`). It needs that the members of a set of
  numbers, listed in order, keep their places when a larger one joins them
  (`AscendingGrows`), and that the list has just those members (`AscendingPlaces`, by a
  smallest bound under which it has not).

**Readers** (`SendMessage_proofs`, over the invariants of the engine: every step of
`ClientSpec` is a step of the engine or leaves it alone).

* `StreamAlwaysInOrder`: `[]StreamIsInOrder`, however often a reader lags.
* `OutcomeLostOnlyToLag`: whatever overlaps, a stream that ends without a closing event
  its bus carried was more than the capacity of the channel behind it.
* `StreamAlwaysDeliversOutcome` (no cancels): `[]StreamDeliversOutcome`. From the one
  above: nothing is sent after a closing event, so nothing can have pushed it out.
* `FailureAlwaysMeansNoTask`: `[]FailureMeansNoTask`, with any overlap.
* `BlockingAlwaysReturnsFinal` (`Conversation`): `[]BlockingReturnsFinal`. `AnswerInv`
  follows the final status from the put to the bus to the reader and back to the store.

**SubscribeToTask** (`Subscribe_proofs`; any number of subscribers, connections, turns
and events, any capacities, with lag, drops and disconnects).

* `NeverTwice` (from `NoOverlap`): `[]NoEventTwice`. The invariant `Streams` joins that of the engine
  (`Engine`: the log is in order, what is on a bus is in the order of the log and of
  its task, and a worker's item that it has yet to send is above all it has sent),
  what a subscriber holds at each stage (`Connections`), and `StreamInv`: as long as a
  client returned with numbers of events only, what it was sent is in order after each
  connection's start (`InOrderTo`), the rest of the replay goes on from there
  (`QueueInOrder`), and what the bus has yet to carry to it is above what it was sent,
  or at most `replayed` and so filtered out (`LiveInOrder`). The one exception the
  property makes is the event the client returned with, which the bus may still carry.
* `Newer`, the filter of the log, is given by the increasing enumeration of the indexes
  that it keeps. That there is one, and that it has every item with a higher number and
  no other, in the order of the log, is proved (`Enumerable`, `NewerItems`), by a
  largest number for which there is none (`Least`, `OneMore`).
* `AlwaysCatchesUp`, `AlwaysSeesClose` (from `[]OneCallEach`, any pacing):
  `[]ResumedCatchesUp`, `[]AttachedSeesClose`. The invariant `Reached` says where every
  event of the log is that a client is still owed: it was sent it before (`HadSoFar`,
  until the log is read), it waits in the replay, or it is to come on the bus the client
  is attached to (`GoesOn`, `OnItsWay`), also from a pump that has logged and not yet sent
  it. `Closes` does the same for the closing event, which lag never takes:
  it is the last of the bus (`OwnBus`), and a bus drops its oldest.
  `AppendedItems` and `LogAfter` say what one append leaves of a full log, and
  `LostForGood` that what was evicted stays so, which is why the clients that the
  log outran are left out once and for all.

**ListTasks** (`TaskListing_proofs`, any finite set of ids).

* The sort is given by what it returns; that such a list exists is proved (`Sortable`),
  by taking a smallest set of tasks for which there is none (`Least`), removing a
  task, and inserting it again (`Insertion`). `InOrderSorts`: it has every task in one
  place.
* `ListingIsTyped`, `NothingUndisturbedEverMissed`, `AlwaysListedOnceInOrder`:
  `[]TypeOK`, `[]NothingUndisturbedMissed`, `[]ListedOnceInOrder`. `StorePageGoesOn`,
  `ResumeGoesOn` and `ReadGoesOn` say of a store page, of a page that fills up midway,
  and of the three ways list_tasks goes on from a page: what is listed begins at the
  token, the next token is behind it, and nothing lies between. The invariant `Covered`
  (an undisturbed task has been taken or is ahead of the token) survives a write: one of
  the token's task leaves it ahead of what it does not move past, another does not
  change their order.

**Push notifications** (`PushDelivery_proofs`).

* `NoUpdateEverMissed`, `RetiredAlwaysSilent`: `[]NoUpdateMissed`,
  `[]RetiredStaysSilent`, from `RegistryInv`, which ties the configurations to the
  registrations made and retired so far, and both to the clock of updates.
* `OutcomeAlwaysEarned`: `[]OutcomeIsEarned`; `AttemptInv` says what answers there were
  by the attempt a delivery is at.

**Requests** (`RequestGate_proofs`), for any finite set of schemes (`SchemesAssumption`:
they are the keys of a map) and any set of calls, with any number of alternatives.

* `ServedOnlyIfAllowed`: `Spec => []ServedMeansAllowed`. The invariant `Gate` says
  what has been made sure of when a stage is reached, that `authenticate_against`
  only tries alternatives of the card (`Trying`), and that a caller past
  authentication is known unless the agent is public (`Known`). That each operation
  on a task looks at the authorization is read off its list of checks
  (`ScopeIsChecked`), and an operation that is served failed none of them
  (`ServedPassesAll`).
* `BindingsAnswerAlike`: `Spec => []BindingsAgree`. The invariant `Agreement` adds how
  many alternatives were tried, that none of them was accepted, and which rejection
  is the last (`Pending`); `OutcomeOk`, `OutcomeRejected` and `OutcomeUntried` connect
  that to `AuthOutcome`, which looks at all alternatives at once.
* `VerdictIgnoresBinding`: what the answers are compared with is the same over any
  two bindings, so that the theorem above does say that they agree with each other.
* `AnswersAreTyped`, `ClientAlwaysLearns`: `[]TypeOK`, `[]ClientLearnsError`. Every
  failed check names an error of the protocol (`EngineChecksTyped`), what cannot be read
  is answered at once and as malformed (`Unreadable`), and for each binding the client's
  table inverts the server's on all errors but those the binding cannot tell apart
  (`JsonRpcTellsAll`, `RestTells`, `GrpcTells`).

**Documents** (`DocumentExchange_proofs`), for any programs, keys, fields, and any number
of hops, signings and edits, from `ExchangeAssumption` (a card has no timestamps) and
`TablesAssumption`, which collects what the tables of `WireTypes` and `GrpcConvert` say of
each field. The tables are data, so TLC evaluates the assumption on all fields there are
(run `cards`), and the proofs go on from there to any number of hops.

* `VouchedIsAlwaysSigned`: `Spec => []VouchedIsSigned`. The invariant says that
  every signature on a copy was made by somebody, over a value that was then the
  card's, and that a card's value is never an ambiguous one, which JSON writes as it
  writes another (a timestamp finer than milliseconds). On the others canonical
  JSON is injective, so a signature that verifies was made over the value at hand;
  every hop is shown to keep values clear.
* `DocumentsAreTyped`, `OnlyKnownLossesEver`, `SignaturesAlwaysOutliveHops`: `[]TypeOK`,
  `[]OnlyKnownLosses`, `[]SignatureOutlivesHops`. The invariant `Travelled` says of each
  copy that it differs from what was written by the losses of the encodings it
  crossed, and `JsonHop`, `GrpcHop` and `HopLoses` that one hop adds its own and
  that a second hop over the same encoding adds nothing.

**Model-checked only.** Liveness (`CallsEnd`, `CallsReturn`, `StreamsEnd`,
`LastUpdateIsPosted`, `WalkEnds`): fairness and ENABLED are beyond the prover.
The tables of `ErrorCodes`, `WireTypes` and `GrpcConvert` are compared with one another
field by field, by TLC.

## 5. Not modelled

Tenants (separate key spaces of the same maps; task ids are UUIDs, so the
registries, which are keyed by task id alone, are not shared), `history_length`,
`include_artifacts`, timestamps other than for the order of a listing, the durations
of backoff, which URLs SSRF protection allows, how credentials are cut
out of headers, the JSON-RPC envelope, the caching of agent cards by `ETag` (of the
card's version), the paging of push configurations, URLs and headers of clients and
the splitting of an SSE stream into events, `GetExtendedAgentCardRequest` (clients write
its tenant, and no server reads it), the token in the `RequestContext` of
`AgentExecutor::cancel` (its doc, `executor.rs:168`, says that it is signaled already;
`cancel_task` passes a new one, `engine.rs:872`, and an executor that waits for it waits
in vain), the construction and wiring of
`AgentServer`, cryptography, base64url and the byte form of canonical JSON, and process
restarts: nothing is persisted. A
`TaskStore` other than the in-memory one is modelled as far as its methods are
atomic and it does not remove tasks.

## 6. Plan

In this order; all but the last are there.

1. `TaskTypes`, `TaskEngine` with its runs; types, registries and numbers proved.
2. `SendMessage`, `Subscribe` over it.
3. `TaskRecord`, `TaskReplay`.
4. `PushDelivery`.
5. `TaskListing`.
6. `ErrorCodes`, `RequestGate`; `ServedMeansAllowed` and `BindingsAgree` proved.
7. `WireTypes`, `GrpcConvert`, `CardSigning`, `DocumentExchange`; `VouchedIsSigned` proved.
8. Logs, buses, histories and cancels of `TaskEngine` proved; reconnects in `Subscribe`.
9. Proofs: calls that do not overlap and the refinement of `TaskRecord`; `SendMessage`;
   `PushDelivery`; `TaskListing`; `RequestGate` and `DocumentExchange` completed;
   `Subscribe`, its safety; `StoreIsReplayOfLog`, with the replay as an invariant of each
   event's step.
10. Paging of configurations, and tenants, as instances of `TaskListing`'s walk; in
   `Subscribe`, a lead that keeps the number the client came with, to see that it
   closes the window `sub_resume` shows.
