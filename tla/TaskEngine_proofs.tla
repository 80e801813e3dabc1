------------------------- MODULE TaskEngine_proofs -------------------------
(***************************************************************************)
(* What TaskEngine guarantees for every number of turns, cancels, tasks    *)
(* and reported events and for every capacity of the log.                  *)
(***************************************************************************)
EXTENDS TaskEngine, TLAPS

(***************************************************************************)
(* Operators on the data model.                                            *)
(***************************************************************************)
LEMMA InsertType ==
    ASSUME NEW K, NEW V, NEW map, IsMap(map, K, V), NEW k \in K, NEW v \in V
    PROVE  /\ IsMap(Insert(map, k, v), K, V)
           /\ DOMAIN Insert(map, k, v) = DOMAIN map \cup {k}
           /\ Insert(map, k, v)[k] = v
           /\ \A j \in DOMAIN map : j # k => Insert(map, k, v)[j] = map[j]
BY DEF IsMap, Insert

LEMMA WithoutType ==
    ASSUME NEW K, NEW V, NEW map, IsMap(map, K, V), NEW k
    PROVE  /\ IsMap(Without(map, k), K, V)
           /\ DOMAIN Without(map, k) = DOMAIN map \ {k}
           /\ \A j \in DOMAIN map : j # k => Without(map, k)[j] = map[j]
BY DEF IsMap, Without

LEMMA EmptyMapType ==
    ASSUME NEW K, NEW V
    PROVE  IsMap(EmptyMap, K, V) /\ DOMAIN EmptyMap = {}
BY DEF IsMap, EmptyMap

LEMMA OptionType ==
    ASSUME NEW S
    PROVE  /\ <<>> \in Option(S)
           /\ \A x \in S : <<x>> \in Option(S)
           /\ \A o \in Option(S) : o # <<>> => o[1] \in S
BY DEF Option

LEMMA AppendType ==
    ASSUME NEW S, NEW s \in Seq(S), NEW x \in S
    PROVE  Append(s, x) \in Seq(S) /\ Append(s, x) # <<>>
<1>1. Append(s, x) \in Seq(S)
  OBVIOUS
<1>2. Append(s, x)[Len(s) + 1] = x /\ Len(Append(s, x)) = Len(s) + 1
  OBVIOUS
<1>3. Len(s) + 1 # 0 /\ Len(<<>>) = 0
  OBVIOUS
<1> QED BY <1>1, <1>2, <1>3

\* A task as the engine stores it: one with a message in its history.
Recorded(task) == task \in Task /\ task.history # <<>>

LEMMA MessageType ==
    /\ \A w \in Turns : UserMessage(w) \in HistoryMessage
    /\ \A n \in Nat : AgentMessage(n) \in HistoryMessage
BY DEF UserMessage, AgentMessage, HistoryMessage

LEMMA NewTaskRecorded ==
    ASSUME NEW state \in TaskStates, NEW seed \in HistoryMessage
    PROVE  Recorded(NewTask(state, seed))
BY DEF Recorded, NewTask, Task

LEMMA SeededTaskRecorded ==
    ASSUME NEW found \in Option(Task), found # <<>> => Recorded(found[1]),
           NEW first \in BOOLEAN, NEW seed \in HistoryMessage,
           NEW e \in TaskUpdates
    PROVE  Recorded(SeededTask(found, first, seed, e))
<1>1. CASE found = <<>>
  <2>1. {"Submitted", "Working"} \subseteq TaskStates
    BY DEF TaskStates
  <2> QED BY <1>1, <2>1, NewTaskRecorded DEF SeededTask
<1>2. CASE found # <<>> /\ first
  <2>1. found[1] \in Task
    BY <1>2, OptionType
  <2>2. Append(found[1].history, seed) \in Seq(HistoryMessage)
        /\ Append(found[1].history, seed) # <<>>
    BY <2>1, AppendType DEF Task
  <2> QED BY <1>2, <2>1, <2>2 DEF SeededTask, Recorded, Task
<1>3. CASE found # <<>> /\ ~first
  BY <1>3 DEF SeededTask
<1> QED BY <1>1, <1>2, <1>3

LEMMA UpdateTaskRecorded ==
    ASSUME NEW task, Recorded(task), NEW e \in TaskUpdates, NEW n \in Nat
    PROVE  Recorded(UpdateTask(task, e, n))
<1>1. CASE e.kind = "status"
  <2>1. e.state \in TaskStates
    BY <1>1 DEF TaskUpdates
  <2>2. Append(task.history, AgentMessage(n)) \in Seq(HistoryMessage)
        /\ Append(task.history, AgentMessage(n)) # <<>>
    BY MessageType, AppendType DEF Recorded, Task
  <2> QED BY <1>1, <2>1, <2>2 DEF UpdateTask, Recorded, Task
<1>2. CASE e.kind # "status"
  <2>1. e.id \in ArtifactIds
    BY <1>2 DEF TaskUpdates
  <2>2. MergeArtifact(task.artifacts, e, n) \in [ArtifactIds -> Seq(Nat)]
    BY <2>1 DEF MergeArtifact, Recorded, Task
  <2> QED BY <1>2, <2>2 DEF UpdateTask, Recorded, Task
<1> QED BY <1>1, <1>2

LEMMA AppendBoundedType ==
    ASSUME NEW S, NEW log \in Seq(S), NEW item \in S
    PROVE  AppendBounded(log, item) \in Seq(S)
<1>1. Len(log) >= EventLogCapacity => Tail(log) \in Seq(S)
  BY EngineAssumption
<1> QED BY <1>1 DEF AppendBounded

-----------------------------------------------------------------------------
(***************************************************************************)
(* Type correctness.  TypeOK alone is not inductive: whether an event can  *)
(* be applied, a row found or a seed taken depends on where the worker is. *)
(***************************************************************************)
Active == PCs \ {"idle", "rejected"}

\* What a worker holds at each point of its call.
HoldsOf(w) ==
    /\ pc[w] \in Active => taskOf[w] \in Tasks
    /\ pc[w] \in {"takeSeq", "appendLog", "send"} => event[w] \in ExecutorEvents
    /\ pc[w] \in {"lead", "sendLead", "getTask", "putTask"} => event[w] \in TaskUpdates
    /\ pc[w] = "putTask" => pending[w] # <<>> /\ Recorded(pending[w][1])
    /\ w \in Cancels /\ pc[w] \in Active =>
          /\ taskOf[w] \in DOMAIN store
          /\ existing[w] # <<>> /\ Recorded(existing[w][1])

TypeInv ==
    /\ TypeOK
    /\ \A t \in DOMAIN store : Recorded(store[t])
    /\ \A w \in Workers : HoldsOf(w)

\* The abbreviations of the variables that actions leave alone.
USE DEF vars, shared, call, turnVars, applying, cancelVars, GoTo

LEMMA InitTypeInv == Init => TypeInv
<1> SUFFICES ASSUME Init PROVE TypeInv
  OBVIOUS
<1>1. TypeOK
  BY EmptyMapType, OptionType, EngineAssumption
  DEF Init, TypeOK, Workers, PCs
<1>2. \A w \in Workers : HoldsOf(w)
  BY DEF Init, HoldsOf, Active
<1> QED BY <1>1, <1>2, EmptyMapType DEF Init, TypeInv

LEMMA StartNewTaskType ==
    ASSUME TypeInv, NEW w \in Turns, NEW t \in Tasks, StartNewTask(w, t)
    PROVE  TypeInv'
<1>1. w \in Workers /\ w \notin Cancels
  BY EngineAssumption DEF Workers
<1>2. TypeOK'
  BY <1>1 DEF TypeInv, TypeOK, StartNewTask, PCs
<1>3. ASSUME NEW v \in Workers PROVE HoldsOf(v)'
  BY <1>1 DEF TypeInv, TypeOK, HoldsOf, StartNewTask, Active, PCs
<1> QED BY <1>2, <1>3 DEF TypeInv, StartNewTask

LEMMA ContinueTaskType ==
    ASSUME TypeInv, NEW w \in Turns, NEW t \in Tasks, ContinueTask(w, t)
    PROVE  TypeInv'
<1>1. w \in Workers /\ w \notin Cancels
  BY EngineAssumption DEF Workers
<1>2. Get(t) \in Option(Task)
  BY OptionType DEF TypeInv, TypeOK, IsMap, Get
<1>3. TypeOK'
  BY <1>1, <1>2 DEF TypeInv, TypeOK, ContinueTask, PCs
<1>4. ASSUME NEW v \in Workers PROVE HoldsOf(v)'
  BY <1>1 DEF TypeInv, TypeOK, HoldsOf, ContinueTask, Active, PCs
<1> QED BY <1>3, <1>4 DEF TypeInv, ContinueTask

LEMMA RegistrationType ==
    ASSUME TypeInv, NEW w \in Turns,
           InsertBus(w) \/ InsertToken(w) \/ RemoveBus(w) \/ RemoveToken(w)
    PROVE  TypeInv'
<1>1. w \in Workers /\ w \notin Cancels
  BY EngineAssumption DEF Workers
<1>2. taskOf[w] \in Tasks
  BY <1>1 DEF TypeInv, HoldsOf, InsertBus, InsertToken, RemoveBus, RemoveToken, Active, PCs
<1>3. IsMap(buses', Tasks, Turns)
  <2>1. IsMap(buses, Tasks, Turns)
    BY DEF TypeInv, TypeOK
  <2>2. /\ IsMap(Insert(buses, taskOf[w], w), Tasks, Turns)
        /\ IsMap(Without(buses, taskOf[w]), Tasks, Turns)
    BY <1>2, <2>1, InsertType, WithoutType
  <2> QED BY <2>1, <2>2 DEF InsertBus, InsertToken, RemoveBus, RemoveToken
<1>4. IsMap(cancelTokens', Tasks, Turns)
  <2>1. IsMap(cancelTokens, Tasks, Turns)
    BY DEF TypeInv, TypeOK
  <2>2. /\ IsMap(Insert(cancelTokens, taskOf[w], w), Tasks, Turns)
        /\ IsMap(Without(cancelTokens, taskOf[w]), Tasks, Turns)
    BY <1>2, <2>1, InsertType, WithoutType
  <2> QED BY <2>1, <2>2 DEF InsertBus, InsertToken, RemoveBus, RemoveToken
<1>5. TypeOK'
  BY <1>1, <1>3, <1>4
  DEF TypeInv, TypeOK, InsertBus, InsertToken, RemoveBus, RemoveToken, PCs
<1>6. ASSUME NEW v \in Workers PROVE HoldsOf(v)'
  BY <1>1, ZenonT(40) DEF TypeInv, TypeOK, HoldsOf, InsertBus, InsertToken, RemoveBus, RemoveToken, Active, PCs
<1> QED BY <1>5, <1>6 DEF TypeInv, InsertBus, InsertToken, RemoveBus, RemoveToken

LEMMA RefuseCallType ==
    ASSUME TypeInv, NEW w \in Workers, RefuseCall(w)
    PROVE  TypeInv'
<1>1. TypeOK'
  BY DEF TypeInv, TypeOK, RefuseCall, PCs
<1>2. ASSUME NEW v \in Workers PROVE HoldsOf(v)'
  BY DEF TypeInv, TypeOK, HoldsOf, RefuseCall, Active
<1> QED BY <1>1, <1>2 DEF TypeInv, RefuseCall

LEMMA SkipEmptyArtifactType ==
    ASSUME TypeInv, NEW w \in Workers, SkipEmptyArtifact(w)
    PROVE  TypeInv'
<1>1. TypeOK'
  BY DEF TypeInv, TypeOK, SkipEmptyArtifact
<1>2. ASSUME NEW v \in Workers PROVE HoldsOf(v)'
  BY DEF TypeInv, HoldsOf, SkipEmptyArtifact
<1> QED BY <1>1, <1>2 DEF TypeInv, SkipEmptyArtifact

\* Taking up an event, whoever made it: from the channel or by the engine.
LEMMA ApplyType ==
    ASSUME TypeInv, NEW w \in Workers, NEW e \in ExecutorEvents,
           pc[w] \in {"recv", "drain"}, Apply(w, e),
           UNCHANGED <<shared, call, turnVars, seq, pending, cancelVars>>,
           emitted' \in [Workers -> Nat], last' \in [Workers -> BOOLEAN]
    PROVE  TypeInv'
<1>1. TypeOK'
  BY DEF TypeInv, TypeOK, Apply, PCs
<1>2. LeadsWithTask(w, e) => e \in TaskUpdates
  BY DEF LeadsWithTask, ExecutorEvents, BareMessage
<1>3. ASSUME NEW v \in Workers PROVE HoldsOf(v)'
  BY <1>2 DEF TypeInv, TypeOK, HoldsOf, Apply, Active, PCs
<1> QED BY <1>1, <1>3 DEF TypeInv

LEMMA ReceiveEventType ==
    ASSUME TypeInv, NEW w \in Workers, ReceiveEvent(w)
    PROVE  TypeInv'
<1>1. PICK e \in Reports : Apply(w, e)
  BY DEF ReceiveEvent
<1>2. e \in ExecutorEvents
  BY EngineAssumption
<1>3. emitted' \in [Workers -> Nat] /\ last' \in [Workers -> BOOLEAN]
  BY DEF TypeInv, TypeOK, ReceiveEvent
<1> QED BY <1>1, <1>2, <1>3, ApplyType DEF ReceiveEvent

LEMMA StatusUpdateType ==
    ASSUME NEW state \in TaskStates, NEW msg \in BOOLEAN
    PROVE  StatusUpdate(state, msg) \in ExecutorEvents
BY DEF StatusUpdate, ExecutorEvents, TaskUpdates

LEMMA ExecutorEndsType ==
    ASSUME TypeInv, NEW w \in Turns, ExecutorReturns(w) \/ ExecutorFails(w)
    PROVE  TypeInv'
<1>1. w \in Workers
  BY DEF Workers
<1>2. CASE ExecutorReturns(w)
  <2>1. TypeOK'
    BY <1>1, <1>2 DEF TypeInv, TypeOK, ExecutorReturns, PCs
  <2>2. ASSUME NEW v \in Workers PROVE HoldsOf(v)'
    BY <1>1, <1>2 DEF TypeInv, TypeOK, HoldsOf, ExecutorReturns, Active, PCs
  <2> QED BY <1>2, <2>1, <2>2 DEF TypeInv, ExecutorReturns
<1>3. CASE ExecutorFails(w)
  <2>1. StatusUpdate("Failed", TRUE) \in ExecutorEvents
    BY StatusUpdateType DEF TaskStates, TerminalStates
  <2>2. emitted' \in [Workers -> Nat] /\ last' \in [Workers -> BOOLEAN]
    BY <1>3 DEF TypeInv, TypeOK, ExecutorFails
  <2> QED BY <1>1, <1>3, <2>1, <2>2, ApplyType DEF ExecutorFails
<1> QED BY <1>2, <1>3

LEMMA BroadcastType ==
    ASSUME TypeInv, NEW w \in Workers, NEW e \in Events, Broadcast(w, e)
    PROVE  sent' \in [Turns -> Seq(Item)]
<1>1. [seq |-> seq[w], by |-> w, event |-> e] \in Item
  BY DEF TypeInv, TypeOK, Item
<1>2. \A b \in Turns :
        Append(sent[b], [seq |-> seq[w], by |-> w, event |-> e]) \in Seq(Item)
  BY <1>1, AppendType DEF TypeInv, TypeOK
<1> QED BY <1>2 DEF Broadcast, TypeInv, TypeOK

LEMMA TakeSeqType ==
    ASSUME TypeInv, NEW w \in Workers, TakeSeq(w) \/ TakeLeadSeq(w)
    PROVE  TypeInv'
<1>1. /\ nextSeq' \in Nat
      /\ seq' \in [Workers -> Nat]
      /\ pc' \in [Workers -> PCs]
  <2>1. CASE TakeSeq(w)
    BY <2>1 DEF TypeInv, TypeOK, TakeSeq, FetchSeq, PCs
  <2>2. CASE TakeLeadSeq(w)
    BY <2>2 DEF TypeInv, TypeOK, TakeLeadSeq, FetchSeq, PCs
  <2> QED BY <2>1, <2>2
<1>2. TypeOK'
  BY <1>1 DEF TypeInv, TypeOK, TakeSeq, TakeLeadSeq
<1>3. ASSUME NEW v \in Workers PROVE HoldsOf(v)'
  BY DEF TypeInv, TypeOK, HoldsOf, TakeSeq, TakeLeadSeq, FetchSeq, Active, PCs
<1> QED BY <1>2, <1>3 DEF TypeInv, TakeSeq, TakeLeadSeq

LEMMA SendLeadType ==
    ASSUME TypeInv, NEW w \in Turns, SendLead(w)
    PROVE  TypeInv'
<1>1. w \in Workers
  BY DEF Workers
<1>2. LeadTask(w) \in Task
  <2>1. "Submitted" \in TaskStates
    BY DEF TaskStates
  <2>2. NewTask("Submitted", UserMessage(w)) \in Task
    BY <2>1, MessageType, NewTaskRecorded DEF Recorded
  <2>3. existing[w] \in Option(Task)
    BY <1>1 DEF TypeInv, TypeOK
  <2> QED BY <2>2, <2>3, OptionType DEF LeadTask
<1>3. TaskEvent(LeadTask(w)) \in Events
  BY <1>2 DEF TaskEvent, Events
<1>4. sent' \in [Turns -> Seq(Item)]
  BY <1>1, <1>3, BroadcastType DEF SendLead
<1>5. TypeOK'
  BY <1>1, <1>4 DEF TypeInv, TypeOK, SendLead, PCs
<1>6. TaskUpdates \subseteq ExecutorEvents
  BY DEF ExecutorEvents
<1>7. ASSUME NEW v \in Workers PROVE HoldsOf(v)'
  BY <1>1, <1>6 DEF TypeInv, TypeOK, HoldsOf, SendLead, Active, PCs
<1> QED BY <1>5, <1>7 DEF TypeInv, SendLead

LEMMA AppendLogType ==
    ASSUME TypeInv, NEW w \in Workers, AppendLog(w)
    PROVE  TypeInv'
<1> DEFINE item == [seq |-> seq[w], by |-> w, event |-> event[w]]
<1>1. taskOf[w] \in Tasks /\ event[w] \in ExecutorEvents
  BY DEF TypeInv, TypeOK, HoldsOf, AppendLog, Active, PCs
<1>2. item \in Item
  BY <1>1 DEF TypeInv, TypeOK, Item, Events
<1>3. AppendBounded(eventLogs[taskOf[w]], item) \in Seq(Item)
  BY <1>1, <1>2, AppendBoundedType DEF TypeInv, TypeOK
<1>4. eventLogs' \in [Tasks -> Seq(Item)]
  BY <1>1, <1>3 DEF TypeInv, TypeOK, AppendLog
<1>5. TypeOK'
  BY <1>4 DEF TypeInv, TypeOK, AppendLog, PCs
<1>6. event[w].kind # "message" => event[w] \in TaskUpdates
  BY <1>1 DEF ExecutorEvents, BareMessage
<1>7. ASSUME NEW v \in Workers PROVE HoldsOf(v)'
  BY <1>1, <1>6 DEF TypeInv, TypeOK, HoldsOf, AppendLog, Active, PCs
<1> QED BY <1>5, <1>7 DEF TypeInv, AppendLog

\* CancelTask takes its seed from the task it found, which has a message.
LEMMA SeedType ==
    ASSUME TypeInv, NEW w \in Workers, pc[w] \in {"getTask", "putTask"}
    PROVE  Seed(w) \in HistoryMessage
<1>1. CASE w \in Turns
  BY <1>1, MessageType DEF Seed
<1>2. CASE w \notin Turns
  <2>1. w \in Cancels /\ pc[w] \in Active
    BY <1>2 DEF Workers, Active, PCs
  <2>2. Recorded(existing[w][1])
    BY <2>1 DEF TypeInv, HoldsOf
  <2> DEFINE history == existing[w][1].history
  <2>3. history \in Seq(HistoryMessage) /\ history # <<>>
    BY <2>2 DEF Recorded, Task
  <2>4. history[Len(history)] \in HistoryMessage
    BY <2>3
  <2> QED BY <1>2, <2>4 DEF Seed
<1> QED BY <1>1, <1>2

LEMMA GetTaskType ==
    ASSUME TypeInv, NEW w \in Workers, GetTask(w)
    PROVE  TypeInv'
<1> DEFINE found == SeededTask(Get(taskOf[w]), firstEvent[w], Seed(w), event[w])
           updated == UpdateTask(found, event[w], seq[w])
<1>1. /\ taskOf[w] \in Tasks /\ event[w] \in TaskUpdates
      /\ seq[w] \in Nat /\ firstEvent[w] \in BOOLEAN
  BY DEF TypeInv, TypeOK, HoldsOf, GetTask, Active, PCs
<1>2. /\ Get(taskOf[w]) \in Option(Task)
      /\ Get(taskOf[w]) # <<>> => Recorded(Get(taskOf[w])[1])
  BY <1>1, OptionType DEF TypeInv, TypeOK, IsMap, Get
<1>3. Seed(w) \in HistoryMessage
  BY SeedType DEF GetTask
<1>4. Recorded(found)
  BY <1>1, <1>2, <1>3, SeededTaskRecorded
<1>5. Recorded(updated)
  BY <1>1, <1>4, UpdateTaskRecorded
<1> HIDE DEF updated
<1>6. pending' = [pending EXCEPT ![w] = <<updated>>]
  BY DEF GetTask, updated
<1>7. <<updated>> \in Option(Task)
  BY <1>5, OptionType DEF Recorded
<1>8. TypeOK'
  BY <1>6, <1>7, SMTT(30) DEF TypeInv, TypeOK, GetTask, PCs
<1>9. ASSUME NEW v \in Workers PROVE HoldsOf(v)'
  BY <1>1, <1>5, <1>6 DEF TypeInv, TypeOK, HoldsOf, GetTask, Active, PCs
<1> QED BY <1>8, <1>9 DEF TypeInv, GetTask

LEMMA PutTaskType ==
    ASSUME TypeInv, NEW w \in Workers, PutTask(w)
    PROVE  TypeInv'
<1> DEFINE t == taskOf[w]
           new == pending[w][1]
<1>1. t \in Tasks /\ Recorded(new) /\ event[w] \in TaskUpdates
  BY DEF TypeInv, TypeOK, HoldsOf, PutTask, Active, PCs
<1>2. store' = Insert(store, t, new)
  BY DEF PutTask
<1>3. IsMap(store, Tasks, Task) /\ new \in Task
  BY <1>1 DEF TypeInv, TypeOK, Recorded
<1> HIDE DEF t, new
<1>4. /\ IsMap(store', Tasks, Task)
      /\ DOMAIN store' = DOMAIN store \cup {t}
      /\ store'[t] = new
      /\ \A j \in DOMAIN store : j # t => store'[j] = store[j]
  BY <1>1, <1>2, <1>3, InsertType
<1>5. TypeOK'
  BY <1>4, OptionType DEF TypeInv, TypeOK, PutTask, PCs
<1>6. \A j \in DOMAIN store' : Recorded(store'[j])
  BY <1>1, <1>4 DEF TypeInv
<1>7. TaskUpdates \subseteq ExecutorEvents
  BY DEF ExecutorEvents
<1>8. ASSUME NEW v \in Workers PROVE HoldsOf(v)'
  BY <1>1, <1>4, <1>7 DEF TypeInv, TypeOK, HoldsOf, PutTask, Active, PCs
<1> QED BY <1>5, <1>6, <1>8 DEF TypeInv

LEMMA SendEventType ==
    ASSUME TypeInv, NEW w \in Workers, SendEvent(w)
    PROVE  TypeInv'
<1>1. event[w] \in Events
  BY DEF TypeInv, HoldsOf, SendEvent, Events
<1>2. sent' \in [Turns -> Seq(Item)]
  BY <1>1, BroadcastType DEF SendEvent
<1>3. AfterSend(w) \in {"removeBus", "recv", "finalGet", "drain"}
  BY DEF AfterSend
<1>4. /\ pc' \in [Workers -> PCs]
      /\ firstEvent' \in [Workers -> BOOLEAN]
      /\ event' \in [Workers -> ExecutorEvents \cup {NoEvent}]
      /\ seq' \in [Workers -> Nat]
  BY <1>3 DEF TypeInv, TypeOK, SendEvent, PCs
<1>5. (sawOutcome[w] \/ IsTurnOutcome(event[w])) \in BOOLEAN
  OBVIOUS
<1>6. sawOutcome' \in [Workers -> BOOLEAN]
  BY <1>5 DEF TypeInv, TypeOK, SendEvent
<1>7. TypeOK'
  BY <1>2, <1>4, <1>6 DEF TypeInv, TypeOK, SendEvent
<1>8. ASSUME NEW v \in Workers PROVE HoldsOf(v)'
  BY <1>3 DEF TypeInv, TypeOK, HoldsOf, SendEvent, Active, PCs
<1> QED BY <1>7, <1>8 DEF TypeInv, SendEvent

LEMMA StartCancelType ==
    ASSUME TypeInv, NEW c \in Cancels, NEW t \in Tasks, StartCancel(c, t)
    PROVE  TypeInv'
<1>1. c \in Workers
  BY DEF Workers
<1>2. Get(t) = <<store[t]>> /\ Get(t) \in Option(Task) /\ Recorded(store[t])
  BY OptionType DEF TypeInv, TypeOK, IsMap, StartCancel, Get
<1>3. TypeOK'
  BY <1>1, <1>2 DEF TypeInv, TypeOK, StartCancel, PCs
<1>4. ASSUME NEW v \in Workers PROVE HoldsOf(v)'
  BY <1>1, <1>2 DEF TypeInv, TypeOK, HoldsOf, StartCancel, Active, PCs
<1> QED BY <1>3, <1>4 DEF TypeInv, StartCancel

LEMMA CancelTokenType ==
    ASSUME TypeInv, NEW c \in Cancels,
           SignalToken(c) \/ ExecutorCancelOk(c) \/ ExecutorCancelErr(c) \/ LookupBus(c)
    PROVE  TypeInv'
<1>1. c \in Workers
  BY DEF Workers
<1>2. signalled' \subseteq Workers
  BY DEF TypeInv, TypeOK, IsMap, Workers, SignalToken, ExecutorCancelOk,
         ExecutorCancelErr, LookupBus
<1>3. attached' \in [Cancels -> SUBSET Turns]
  <2>1. {buses[t] : t \in DOMAIN buses \cap {taskOf[c]}} \in SUBSET Turns
    BY DEF TypeInv, TypeOK, IsMap
  <2> QED BY <2>1 DEF TypeInv, TypeOK, SignalToken, ExecutorCancelOk,
                      ExecutorCancelErr, LookupBus
<1>4. pc' \in [Workers -> PCs]
  BY <1>1, ZenonT(40) DEF TypeInv, TypeOK, PCs, SignalToken, ExecutorCancelOk,
              ExecutorCancelErr, LookupBus
<1>5. TypeOK'
  BY <1>2, <1>3, <1>4 DEF TypeInv, TypeOK, SignalToken, ExecutorCancelOk,
                          ExecutorCancelErr, LookupBus
<1>6. ASSUME NEW v \in Workers PROVE HoldsOf(v)'
  BY <1>1, SMTT(30) DEF TypeInv, TypeOK, HoldsOf, Active, PCs, SignalToken,
              ExecutorCancelOk, ExecutorCancelErr, LookupBus
<1> QED BY <1>5, <1>6 DEF TypeInv, SignalToken, ExecutorCancelOk,
                          ExecutorCancelErr, LookupBus

LEMMA ReturnType ==
    ASSUME TypeInv, NEW c \in Cancels, pc[c] \in Active,
           Return(c, store[taskOf[c]]),
           UNCHANGED <<shared, call, turnVars, emitted, applying>>
    PROVE  TypeInv'
<1>1. c \in Workers
  BY DEF Workers
<1>2. store[taskOf[c]] \in Task
  BY <1>1 DEF TypeInv, HoldsOf, Recorded
<1>3. <<store[taskOf[c]]>> \in Option(Task)
  BY <1>2, OptionType
<1>4. /\ returned' \in [Cancels -> Option(Task)]
      /\ attached' \in [Cancels -> SUBSET Turns]
      /\ pc' \in [Workers -> PCs]
  BY <1>1, <1>3 DEF TypeInv, TypeOK, Return, PCs
<1>5. TypeOK'
  BY <1>4 DEF TypeInv, TypeOK
<1>6. ASSUME NEW v \in Workers PROVE HoldsOf(v)'
  BY <1>1 DEF TypeInv, TypeOK, HoldsOf, Return, Active, PCs
<1> QED BY <1>5, <1>6 DEF TypeInv

LEMMA RereadType ==
    ASSUME TypeInv, NEW c \in Cancels, Reread(c) \/ FinalGet(c)
    PROVE  TypeInv'
<1>1. c \in Workers /\ pc[c] \in Active
  BY DEF Workers, Reread, FinalGet, Active, PCs
<1>2. CASE FinalGet(c) \/ (Reread(c) /\ IsTerminal(store[taskOf[c]].state))
  BY <1>1, <1>2, ReturnType DEF Reread, FinalGet
<1>3. CASE Reread(c) /\ ~IsTerminal(store[taskOf[c]].state)
  <2>1. StatusUpdate("Canceled", FALSE) \in ExecutorEvents
    BY StatusUpdateType DEF TaskStates, TerminalStates
  <2>2. emitted' \in [Workers -> Nat] /\ last' \in [Workers -> BOOLEAN]
    BY <1>3 DEF TypeInv, TypeOK, Reread
  <2> QED BY <1>1, <1>3, <2>1, <2>2, ApplyType DEF Reread
<1> QED BY <1>2, <1>3

LEMMA AbortCallType ==
    ASSUME TypeInv, NEW w \in Workers, AbortCall(w)
    PROVE  TypeInv'
<1>1. pc[w] \in Active
  BY DEF TypeInv, TypeOK, AbortCall, InHandler, Ended, Active, PCs
<1>2. TypeOK'
  BY OptionType DEF TypeInv, TypeOK, AbortCall, PCs
<1>3. ASSUME NEW v \in Workers PROVE HoldsOf(v)'
  BY <1>1 DEF TypeInv, TypeOK, HoldsOf, AbortCall, Active, PCs
<1> QED BY <1>2, <1>3 DEF TypeInv, AbortCall

LEMMA NextTypeInv == TypeInv /\ [Next]_vars => TypeInv'
<1> SUFFICES ASSUME TypeInv, [Next]_vars PROVE TypeInv'
  OBVIOUS
<1>1. ASSUME NEW w \in Workers, ClientStep(w) PROVE TypeInv'
  BY <1>1, RefuseCallType, AbortCallType, StartNewTaskType, ContinueTaskType,
     StartCancelType DEF ClientStep
<1>2. ASSUME NEW w \in Workers, ApplyStep(w) PROVE TypeInv'
  BY <1>2, ReceiveEventType, SkipEmptyArtifactType, TakeSeqType, AppendLogType,
     GetTaskType, PutTaskType, SendEventType DEF ApplyStep
<1>3. ASSUME NEW w \in Turns, TurnStep(w) PROVE TypeInv'
  <2>1. w \in Workers
    BY DEF Workers
  <2> QED BY <1>3, <2>1, RegistrationType, ExecutorEndsType, TakeSeqType,
             SendLeadType DEF TurnStep
<1>4. ASSUME NEW c \in Cancels, CancelStep(c) PROVE TypeInv'
  BY <1>4, CancelTokenType, RereadType DEF CancelStep
<1>5. CASE UNCHANGED vars
  <2>1. TypeOK'
    BY <1>5 DEF TypeInv, TypeOK
  <2>2. ASSUME NEW v \in Workers PROVE HoldsOf(v)'
    BY <1>5 DEF TypeInv, HoldsOf
  <2> QED BY <1>5, <2>1, <2>2 DEF TypeInv
<1> QED BY <1>1, <1>2, <1>3, <1>4, <1>5 DEF Next, ServerStep, Finished

\* Every variable keeps its type.  For the store this says that no worker ever
\* takes a row, a seed message or an event where there is none: a CancelTask
\* finds its row at every later access, and its seed in the row's history.
THEOREM TypeCorrect == Spec => []TypeOK
<1>1. TypeInv => TypeOK
  BY DEF TypeInv
<1> QED BY <1>1, InitTypeInv, NextTypeInv, PTL DEF Spec

-----------------------------------------------------------------------------
(***************************************************************************)
(* The registries.  RegistriesDrain is inductive over TypeInv: the clean-up *)
(* of a turn removes the entries of its own task only, and the turn that   *)
(* stands for an entry cannot end without a clean-up.                      *)
(***************************************************************************)
KeepsBus(w, t) ==
    taskOf[w] = t /\ ((Running(w) /\ pc[w] # "removeToken") \/ pc[w] = "aborted")
KeepsToken(w, t) == taskOf[w] = t /\ Running(w) /\ pc[w] # "insertToken"

LEMMA InitRegistries == Init => RegistriesDrain
BY EmptyMapType DEF Init, RegistriesDrain

\* A turn that keeps an entry keeps it through every step but its clean-up.
LEMMA StillKept ==
    ASSUME TypeInv, [Next]_vars, NEW w \in Turns, NEW t
    PROVE  /\ KeepsBus(w, t) => KeepsBus(w, t)' \/ RemoveBus(w)
           /\ KeepsToken(w, t) => KeepsToken(w, t)' \/ RemoveToken(w)
<1> USE DEF KeepsBus, KeepsToken, Running, Ended
<1>1. w \in Workers /\ w \notin Cancels
  BY EngineAssumption DEF Workers
<1>2. ASSUME NEW v \in Workers, ClientStep(v)
      PROVE  /\ KeepsBus(w, t) => KeepsBus(w, t)'
             /\ KeepsToken(w, t) => KeepsToken(w, t)'
  BY <1>1, <1>2 DEF TypeInv, TypeOK, ClientStep, RefuseCall, AbortCall, InHandler,
     StartNewTask, ContinueTask, StartCancel
<1>3. ASSUME NEW v \in Workers, ApplyStep(v)
      PROVE  /\ KeepsBus(w, t) => KeepsBus(w, t)'
             /\ KeepsToken(w, t) => KeepsToken(w, t)'
  BY <1>1, <1>3 DEF TypeInv, TypeOK, ApplyStep, ReceiveEvent, Apply,
     SkipEmptyArtifact, TakeSeq, AppendLog, GetTask, PutTask, SendEvent, AfterSend
<1>4. ASSUME NEW v \in Turns, TurnStep(v)
      PROVE  /\ KeepsBus(w, t) => KeepsBus(w, t)' \/ RemoveBus(w)
             /\ KeepsToken(w, t) => KeepsToken(w, t)' \/ RemoveToken(w)
  BY <1>1, <1>4, ZenonT(40) DEF TypeInv, TypeOK, TurnStep, InsertBus, InsertToken,
     ExecutorReturns, ExecutorFails, Apply, TakeLeadSeq, SendLead, RemoveBus,
     RemoveToken
<1>5. ASSUME NEW c \in Cancels, CancelStep(c)
      PROVE  /\ KeepsBus(w, t) => KeepsBus(w, t)'
             /\ KeepsToken(w, t) => KeepsToken(w, t)'
  BY <1>1, <1>5 DEF TypeInv, TypeOK, CancelStep, SignalToken, ExecutorCancelOk,
     ExecutorCancelErr, LookupBus, Reread, FinalGet, Return, Apply
<1>6. UNCHANGED vars => /\ KeepsBus(w, t) => KeepsBus(w, t)'
                        /\ KeepsToken(w, t) => KeepsToken(w, t)'
  OBVIOUS
<1> QED BY <1>2, <1>3, <1>4, <1>5, <1>6 DEF Next, ServerStep, Finished

\* The registries change at the two registrations and the two removals only.
LEMMA RegistrySteps ==
    ASSUME [Next]_vars
    PROVE  \/ UNCHANGED <<buses, cancelTokens>>
           \/ \E w \in Turns : \/ InsertBus(w) \/ InsertToken(w)
                             \/ RemoveBus(w) \/ RemoveToken(w)
<1>1. ASSUME NEW w \in Workers, ClientStep(w) PROVE UNCHANGED <<buses, cancelTokens>>
  BY <1>1 DEF ClientStep, RefuseCall, AbortCall, StartNewTask, ContinueTask, StartCancel
<1>2. ASSUME NEW w \in Workers, ApplyStep(w) PROVE UNCHANGED <<buses, cancelTokens>>
  BY <1>2 DEF ApplyStep, ReceiveEvent, SkipEmptyArtifact, TakeSeq, AppendLog,
     GetTask, PutTask, SendEvent
<1>3. ASSUME NEW w \in Turns, TurnStep(w)
      PROVE  \/ UNCHANGED <<buses, cancelTokens>>
             \/ InsertBus(w) \/ InsertToken(w) \/ RemoveBus(w) \/ RemoveToken(w)
  BY <1>3 DEF TurnStep, ExecutorReturns, ExecutorFails, TakeLeadSeq, SendLead
<1>4. ASSUME NEW c \in Cancels, CancelStep(c) PROVE UNCHANGED <<buses, cancelTokens>>
  BY <1>4 DEF CancelStep, SignalToken, ExecutorCancelOk, ExecutorCancelErr,
     LookupBus, Reread, FinalGet
<1>5. UNCHANGED vars => UNCHANGED <<buses, cancelTokens>>
  OBVIOUS
<1> QED BY <1>1, <1>2, <1>3, <1>4, <1>5 DEF Next, ServerStep, Finished

LEMMA RegistryDomains ==
    ASSUME NEW w \in Turns
    PROVE  /\ InsertBus(w) => /\ DOMAIN buses' = DOMAIN buses \cup {taskOf[w]}
                              /\ cancelTokens' = cancelTokens
           /\ InsertToken(w) => /\ DOMAIN cancelTokens' = DOMAIN cancelTokens \cup {taskOf[w]}
                                /\ buses' = buses
           /\ RemoveBus(w) => /\ DOMAIN buses' = DOMAIN buses \ {taskOf[w]}
                              /\ cancelTokens' = cancelTokens
           /\ RemoveToken(w) => /\ DOMAIN cancelTokens' = DOMAIN cancelTokens \ {taskOf[w]}
                                /\ buses' = buses
BY DEF InsertBus, InsertToken, RemoveBus, RemoveToken, Insert, Without

LEMMA NextRegistries == TypeInv /\ RegistriesDrain /\ [Next]_vars => RegistriesDrain'
<1> SUFFICES ASSUME TypeInv, RegistriesDrain, [Next]_vars PROVE RegistriesDrain'
  OBVIOUS
<1> USE DEF KeepsBus, KeepsToken
<1>1. ASSUME NEW t \in DOMAIN buses'
      PROVE  \E w \in Turns : KeepsBus(w, t)'
  <2>1. CASE \E w \in Turns : InsertBus(w) /\ taskOf[w] = t
    BY <2>1 DEF InsertBus, Running, Ended, TypeInv, TypeOK, Workers
  <2>2. CASE ~ \E w \in Turns : InsertBus(w) /\ taskOf[w] = t
    <3>1. t \in DOMAIN buses
      BY <2>2, RegistrySteps, RegistryDomains
    <3>2. \A w \in Turns : RemoveBus(w) => taskOf[w] # t
      BY RegistryDomains
    <3>3. PICK w \in Turns : KeepsBus(w, t)
      BY <3>1 DEF RegistriesDrain
    <3> QED BY <3>2, <3>3, StillKept
  <2> QED BY <2>1, <2>2
<1>2. ASSUME NEW t \in DOMAIN cancelTokens'
      PROVE  \E w \in Turns : KeepsToken(w, t)'
  <2>1. CASE \E w \in Turns : InsertToken(w) /\ taskOf[w] = t
    BY <2>1 DEF InsertToken, Running, Ended, TypeInv, TypeOK, Workers
  <2>2. CASE ~ \E w \in Turns : InsertToken(w) /\ taskOf[w] = t
    <3>1. t \in DOMAIN cancelTokens
      BY <2>2, RegistrySteps, RegistryDomains
    <3>2. \A w \in Turns : RemoveToken(w) => taskOf[w] # t
      BY RegistryDomains
    <3>3. PICK w \in Turns : KeepsToken(w, t)
      BY <3>1 DEF RegistriesDrain
    <3> QED BY <3>2, <3>3, StillKept
  <2> QED BY <2>1, <2>2
<1> QED BY <1>1, <1>2 DEF RegistriesDrain

\* No bus and no token stays behind without a turn that will remove it, in
\* spite of turns that remove each other's entries; the one exception is a
\* handler dropped between its two registrations.
THEOREM RegistriesAlwaysDrain == Spec => []RegistriesDrain
BY InitTypeInv, NextTypeInv, InitRegistries, NextRegistries, PTL DEF Spec

-----------------------------------------------------------------------------
(***************************************************************************)
(* Sequence numbers.  A worker that has taken a number holds it until it   *)
(* has sent the event.  The invariant: numbers held are distinct, below    *)
(* the counter, and borne by nothing on a bus or in a log but the event    *)
(* the worker holds, and by that only once it is logged.                   *)
(***************************************************************************)
Items == BusItems \cup LoggedItems
Unlogged(w) == pc[w] \in {"sendLead", "appendLog"}
Numbered(w) == Unlogged(w) \/ pc[w] \in {"getTask", "putTask", "send"}
Held(w) == [seq |-> seq[w], by |-> w, event |-> event[w]]

SeqInv ==
    /\ \A x \in Items : x.seq < nextSeq
    /\ \A w \in Workers : Numbered(w) => seq[w] < nextSeq
    /\ \A v, w \in Workers :
          Numbered(v) /\ Numbered(w) /\ seq[v] = seq[w] => v = w
    /\ \A w \in Workers : Numbered(w) =>
          \A x \in Items : x.seq = seq[w] => ~Unlogged(w) /\ x = Held(w)
    /\ SeqNamesOneEvent

LEMMA BusItem ==
    \A x : x \in BusItems <=> \E b \in Turns : \E i \in DOMAIN sent[b] : x = sent[b][i]
BY DEF BusItems

LEMMA LoggedItem ==
    \A x : x \in LoggedItems <=>
              \E t \in Tasks : \E i \in DOMAIN eventLogs[t] : x = eventLogs[t][i]
BY DEF LoggedItems

LEMMA ItemsTyped ==
    ASSUME TypeInv
    PROVE  \A x \in Items : x \in Item
BY BusItem, LoggedItem DEF Items, TypeInv, TypeOK

LEMMA AppendMembers ==
    ASSUME NEW S, NEW s \in Seq(S), NEW x \in S,
           NEW i \in DOMAIN Append(s, x)
    PROVE  Append(s, x)[i] = x \/ \E j \in DOMAIN s : Append(s, x)[i] = s[j]
<1>1. i \in 1 .. Len(s) + 1
  OBVIOUS
<1>2. CASE i = Len(s) + 1
  BY <1>2
<1>3. CASE i # Len(s) + 1
  <2>1. i \in DOMAIN s /\ Append(s, x)[i] = s[i]
    BY <1>1, <1>3
  <2> QED BY <2>1
<1> QED BY <1>2, <1>3

LEMMA TailMembers ==
    ASSUME NEW S, NEW s \in Seq(S), s # <<>>
    PROVE  /\ Tail(s) \in Seq(S)
           /\ \A i \in DOMAIN Tail(s) : \E j \in DOMAIN s : Tail(s)[i] = s[j]
<1>1. Tail(s) \in Seq(S) /\ Len(Tail(s)) = Len(s) - 1
  OBVIOUS
<1>2. ASSUME NEW i \in DOMAIN Tail(s) PROVE i + 1 \in DOMAIN s /\ Tail(s)[i] = s[i + 1]
  BY <1>1
<1> QED BY <1>1, <1>2

LEMMA AppendBoundedMembers ==
    ASSUME NEW S, NEW log \in Seq(S), NEW item \in S,
           NEW i \in DOMAIN AppendBounded(log, item)
    PROVE  \/ AppendBounded(log, item)[i] = item
           \/ \E j \in DOMAIN log : AppendBounded(log, item)[i] = log[j]
<1>1. CASE Len(log) >= EventLogCapacity
  <2>1. log # <<>>
    BY <1>1, EngineAssumption
  <2>2. AppendBounded(log, item) = Append(Tail(log), item)
    BY <1>1 DEF AppendBounded
  <2>3. Tail(log) \in Seq(S)
    BY <2>1, TailMembers
  <2> QED BY <2>1, <2>2, <2>3, TailMembers, AppendMembers
<1>2. CASE ~ (Len(log) >= EventLogCapacity)
  <2>1. AppendBounded(log, item) = Append(log, item)
    BY <1>2 DEF AppendBounded
  <2> QED BY <2>1, AppendMembers
<1> QED BY <1>1, <1>2

LEMMA BroadcastItems ==
    ASSUME TypeInv, NEW w \in Workers, NEW e \in Events, Broadcast(w, e)
    PROVE  BusItems' \subseteq BusItems \cup {[seq |-> seq[w], by |-> w, event |-> e]}
<1> DEFINE item == [seq |-> seq[w], by |-> w, event |-> e]
<1>1. item \in Item
  BY DEF TypeInv, TypeOK, Item
<1>2. SUFFICES ASSUME NEW b \in Turns, NEW i \in DOMAIN sent'[b]
               PROVE  sent'[b][i] \in BusItems \cup {item}
  BY BusItem DEF BusItems
<1>3. sent[b] \in Seq(Item)
  BY DEF TypeInv, TypeOK
<1>4. sent'[b] = Append(sent[b], item) \/ sent'[b] = sent[b]
  BY DEF Broadcast
<1>5. sent'[b][i] = item \/ \E j \in DOMAIN sent[b] : sent'[b][i] = sent[b][j]
  BY <1>1, <1>3, <1>4, AppendMembers
<1> QED BY <1>5, BusItem

LEMMA AppendLogItems ==
    ASSUME TypeInv, NEW w \in Workers, AppendLog(w)
    PROVE  LoggedItems' \subseteq LoggedItems \cup {Held(w)}
<1>1. taskOf[w] \in Tasks /\ event[w] \in ExecutorEvents
  BY DEF TypeInv, TypeOK, HoldsOf, AppendLog, Active, PCs
<1>2. Held(w) \in Item
  BY <1>1 DEF TypeInv, TypeOK, Item, Events, Held
<1>3. SUFFICES ASSUME NEW t \in Tasks, NEW i \in DOMAIN eventLogs'[t]
               PROVE  eventLogs'[t][i] \in LoggedItems \cup {Held(w)}
  BY LoggedItem DEF LoggedItems
<1>4. eventLogs[t] \in Seq(Item)
  BY DEF TypeInv, TypeOK
<1>5. eventLogs'[t] = AppendBounded(eventLogs[t], Held(w)) \/ eventLogs'[t] = eventLogs[t]
  BY DEF AppendLog, Held, TypeInv, TypeOK
<1>6. eventLogs'[t][i] = Held(w) \/ \E j \in DOMAIN eventLogs[t] : eventLogs'[t][i] = eventLogs[t][j]
  BY <1>2, <1>4, <1>5, AppendBoundedMembers
<1> QED BY <1>6, LoggedItem

LEMMA InitSeqInv == Init => SeqInv
<1> SUFFICES ASSUME Init PROVE SeqInv
  OBVIOUS
<1>1. Items = {}
  BY BusItem, LoggedItem DEF Init, Items
<1>2. \A w \in Workers : ~Numbered(w)
  BY DEF Init, Numbered, Unlogged
<1> QED BY <1>1, <1>2 DEF SeqInv, SeqNamesOneEvent, Items

\* A step that takes no number and publishes nothing.
Quiet ==
    /\ UNCHANGED <<nextSeq, sent, eventLogs>>
    /\ \A w \in Workers :
          /\ Numbered(w)' => /\ Numbered(w) /\ seq'[w] = seq[w]
                             /\ event'[w] = event[w]
          /\ Unlogged(w)' => Unlogged(w)

LEMMA QuietSeqInv ==
    ASSUME SeqInv, Quiet
    PROVE  SeqInv'
<1>1. Items' = Items /\ nextSeq' = nextSeq
  BY DEF Quiet, Items, BusItems, LoggedItems
<1>2. \A w \in Workers : Numbered(w)' =>
        /\ Numbered(w) /\ seq'[w] = seq[w] /\ Held(w)' = Held(w)
        /\ Unlogged(w)' => Unlogged(w)
  BY DEF Quiet, Held
<1>3. SeqNamesOneEvent'
  BY <1>1 DEF SeqInv, SeqNamesOneEvent, Items
<1> QED BY <1>1, <1>2, <1>3 DEF SeqInv

\* A number is taken: it is above all others.
LEMMA FetchSeqInv ==
    ASSUME TypeInv, SeqInv, NEW w \in Workers, TakeSeq(w) \/ TakeLeadSeq(w)
    PROVE  SeqInv'
<1>1. Items' = Items /\ nextSeq' = nextSeq + 1 /\ nextSeq \in Nat
  BY DEF TakeSeq, TakeLeadSeq, FetchSeq, Items, BusItems, LoggedItems, TypeInv, TypeOK
<1>2. /\ seq'[w] = nextSeq
      /\ \A v \in Workers : v # w =>
            /\ seq'[v] = seq[v] /\ Held(v)' = Held(v)
            /\ Numbered(v)' = Numbered(v) /\ Unlogged(v)' = Unlogged(v)
  BY DEF TakeSeq, TakeLeadSeq, FetchSeq, Numbered, Unlogged, Held, TypeInv, TypeOK
<1>3. \A x \in Items : x.seq \in Nat
  BY ItemsTyped DEF Item
<1>4. \A v \in Workers : seq[v] \in Nat
  BY DEF TypeInv, TypeOK
<1>5. \A x \in Items' : x.seq < nextSeq' /\ x.seq # seq'[w]
  BY <1>1, <1>2, <1>3 DEF SeqInv
<1>6. \A v \in Workers : Numbered(v)' =>
        seq'[v] < nextSeq' /\ (seq'[v] = seq'[w] => v = w)
  BY <1>1, <1>2, <1>4 DEF SeqInv
<1>7. \A u, v \in Workers : Numbered(u)' /\ Numbered(v)' /\ seq'[u] = seq'[v] => u = v
  BY <1>2, <1>6 DEF SeqInv
<1>8. \A v \in Workers : Numbered(v)' =>
        \A x \in Items' : x.seq = seq'[v] => ~Unlogged(v)' /\ x = Held(v)'
  BY <1>1, <1>2, <1>5 DEF SeqInv
<1>9. SeqNamesOneEvent'
  BY <1>1 DEF SeqInv, SeqNamesOneEvent, Items
<1> QED BY <1>5, <1>6, <1>7, <1>8, <1>9 DEF SeqInv

\* A worker publishes an item under the number it holds, on its buses or in
\* the log; nothing else bears that number, or only the same item does.
LEMMA PublishSeqInv ==
    ASSUME TypeInv, SeqInv, NEW w \in Workers, NEW item \in Item, Numbered(w),
           item.seq = seq[w],
           Items' \subseteq Items \cup {item},
           Unlogged(w) \/ item = Held(w),
           nextSeq' = nextSeq,
           Numbered(w)' => /\ item = Held(w) /\ Held(w)' = Held(w)
                           /\ seq'[w] = seq[w] /\ ~Unlogged(w)',
           \A v \in Workers : v # w =>
              /\ seq'[v] = seq[v] /\ Held(v)' = Held(v)
              /\ Numbered(v)' = Numbered(v) /\ Unlogged(v)' = Unlogged(v)
    PROVE  SeqInv'
<1>1. \A x \in Items : x.seq = item.seq => x = item
  BY DEF SeqInv
<1>2. SeqNamesOneEvent'
  <2>1. \A x, y \in Items : x.seq = y.seq => x = y
    BY DEF SeqInv, SeqNamesOneEvent, Items
  <2>2. \A x, y \in Items' : x.seq = y.seq => x = y
    BY <1>1, <2>1
  <2> QED BY <2>2 DEF SeqNamesOneEvent, Items
<1>3. \A x \in Items' : x.seq < nextSeq'
  BY DEF SeqInv
<1>4. \A v \in Workers : Numbered(v)' => Numbered(v) /\ seq'[v] = seq[v]
  OBVIOUS
<1>5. \A v \in Workers : Numbered(v)' => seq'[v] < nextSeq'
  BY <1>4 DEF SeqInv
<1>6. \A u, v \in Workers : Numbered(u)' /\ Numbered(v)' /\ seq'[u] = seq'[v] => u = v
  BY <1>4 DEF SeqInv
<1>7. ASSUME NEW v \in Workers, Numbered(v)', NEW x \in Items', x.seq = seq'[v]
      PROVE  ~Unlogged(v)' /\ x = Held(v)'
  <2>1. CASE v = w
    BY <1>1, <1>4, <1>7, <2>1
  <2>2. CASE v # w
    <3>1. item.seq # seq[v]
      BY <1>4, <1>7, <2>2 DEF SeqInv
    <3> QED BY <1>4, <1>7, <2>2, <3>1 DEF SeqInv
  <2> QED BY <2>1, <2>2
<1> QED BY <1>2, <1>3, <1>5, <1>6, <1>7 DEF SeqInv

LEMMA SendLeadSeqInv ==
    ASSUME TypeInv, SeqInv, NEW w \in Turns, SendLead(w)
    PROVE  SeqInv'
<1> DEFINE item == [seq |-> seq[w], by |-> w, event |-> TaskEvent(LeadTask(w))]
<1>1. w \in Workers
  BY DEF Workers
<1>2. TaskEvent(LeadTask(w)) \in Events
  <2>1. "Submitted" \in TaskStates
    BY DEF TaskStates
  <2>2. NewTask("Submitted", UserMessage(w)) \in Task
    BY <2>1, MessageType, NewTaskRecorded DEF Recorded
  <2>3. existing[w] \in Option(Task)
    BY <1>1 DEF TypeInv, TypeOK
  <2>4. LeadTask(w) \in Task
    BY <2>2, <2>3, OptionType DEF LeadTask
  <2> QED BY <2>4 DEF TaskEvent, Events
<1>3. item \in Item
  BY <1>1, <1>2 DEF TypeInv, TypeOK, Item
<1>4. BusItems' \subseteq BusItems \cup {item}
  BY <1>1, <1>2, BroadcastItems DEF SendLead
<1>5. LoggedItems' = LoggedItems
  BY DEF SendLead, LoggedItems
<1>6. Items' \subseteq Items \cup {item}
  BY <1>4, <1>5 DEF Items
<1>7. Numbered(w) /\ Unlogged(w) /\ ~Numbered(w)'
  BY <1>1 DEF SendLead, Numbered, Unlogged, TypeInv, TypeOK
<1>8. \A v \in Workers : v # w =>
        /\ seq'[v] = seq[v] /\ Held(v)' = Held(v)
        /\ Numbered(v)' = Numbered(v) /\ Unlogged(v)' = Unlogged(v)
  BY DEF SendLead, Numbered, Unlogged, Held, TypeInv, TypeOK
<1>9. item.seq = seq[w] /\ nextSeq' = nextSeq
  BY DEF SendLead
<1> HIDE DEF item
<1> QED BY <1>1, <1>3, <1>6, <1>7, <1>8, <1>9, PublishSeqInv

LEMMA AppendLogSeqInv ==
    ASSUME TypeInv, SeqInv, NEW w \in Workers, AppendLog(w)
    PROVE  SeqInv'
<1>1. Held(w) \in Item /\ Held(w).seq = seq[w]
  BY DEF TypeInv, TypeOK, HoldsOf, AppendLog, Item, Events, Held
<1>2. LoggedItems' \subseteq LoggedItems \cup {Held(w)}
  BY AppendLogItems
<1>3. Items' \subseteq Items \cup {Held(w)}
  <2>1. BusItems' = BusItems
    BY DEF AppendLog, BusItems
  <2> QED BY <1>2, <2>1 DEF Items
<1>4. /\ Numbered(w) /\ Unlogged(w) /\ ~Unlogged(w)' /\ Held(w)' = Held(w)
      /\ seq' = seq /\ nextSeq' = nextSeq
  BY DEF AppendLog, Numbered, Unlogged, Held, TypeInv, TypeOK
<1>5. \A v \in Workers : v # w =>
        /\ seq'[v] = seq[v] /\ Held(v)' = Held(v)
        /\ Numbered(v)' = Numbered(v) /\ Unlogged(v)' = Unlogged(v)
  BY DEF AppendLog, Numbered, Unlogged, Held, TypeInv, TypeOK
<1> QED BY <1>1, <1>3, <1>4, <1>5, PublishSeqInv

LEMMA SendEventSeqInv ==
    ASSUME TypeInv, SeqInv, NEW w \in Workers, SendEvent(w)
    PROVE  SeqInv'
<1>1. event[w] \in Events /\ Held(w) \in Item /\ Held(w).seq = seq[w]
  BY DEF TypeInv, TypeOK, HoldsOf, SendEvent, Item, Events, Held
<1>2. BusItems' \subseteq BusItems \cup {Held(w)} /\ LoggedItems' = LoggedItems
  BY <1>1, BroadcastItems DEF SendEvent, LoggedItems, Held
<1>3. Items' \subseteq Items \cup {Held(w)}
  BY <1>2 DEF Items
<1>4. AfterSend(w) \in {"removeBus", "recv", "finalGet", "drain"}
  BY DEF AfterSend
<1>5. Numbered(w) /\ ~Numbered(w)' /\ nextSeq' = nextSeq
  BY <1>4 DEF SendEvent, Numbered, Unlogged, TypeInv, TypeOK
<1>6. \A v \in Workers : v # w =>
        /\ seq'[v] = seq[v] /\ Held(v)' = Held(v)
        /\ Numbered(v)' = Numbered(v) /\ Unlogged(v)' = Unlogged(v)
  BY DEF SendEvent, Numbered, Unlogged, Held, TypeInv, TypeOK
<1> QED BY <1>1, <1>3, <1>5, <1>6, PublishSeqInv

LEMMA NextSeqInv == TypeInv /\ SeqInv /\ [Next]_vars => SeqInv'
<1> SUFFICES ASSUME TypeInv, SeqInv, [Next]_vars PROVE SeqInv'
  OBVIOUS
<1> USE DEF Quiet, Numbered, Unlogged
<1>1. ASSUME NEW w \in Workers, ClientStep(w) PROVE Quiet
  BY <1>1 DEF TypeInv, TypeOK, ClientStep, RefuseCall, AbortCall, StartNewTask,
     ContinueTask, StartCancel
<1>2. ASSUME NEW w \in Workers, ApplyStep(w) PROVE SeqInv'
  <2>1. CASE ReceiveEvent(w) \/ SkipEmptyArtifact(w) \/ GetTask(w) \/ PutTask(w)
    <3>1. Quiet
      BY <2>1 DEF TypeInv, TypeOK, ReceiveEvent, Apply, SkipEmptyArtifact, GetTask, PutTask
    <3> QED BY <3>1, QuietSeqInv
  <2>2. CASE TakeSeq(w) \/ AppendLog(w) \/ SendEvent(w)
    BY <2>2, FetchSeqInv, AppendLogSeqInv, SendEventSeqInv
  <2> QED BY <1>2, <2>1, <2>2 DEF ApplyStep
<1>3. ASSUME NEW w \in Turns, TurnStep(w) PROVE SeqInv'
  <2>1. w \in Workers
    BY DEF Workers
  <2>2. CASE TakeLeadSeq(w) \/ SendLead(w)
    BY <2>1, <2>2, FetchSeqInv, SendLeadSeqInv
  <2>3. CASE ~(TakeLeadSeq(w) \/ SendLead(w))
    <3>1. Quiet
      BY <1>3, <2>1, <2>3, ZenonT(40) DEF TypeInv, TypeOK, TurnStep, InsertBus, InsertToken,
         ExecutorReturns, ExecutorFails, Apply, RemoveBus, RemoveToken
    <3> QED BY <3>1, QuietSeqInv
  <2> QED BY <2>2, <2>3
<1>4. ASSUME NEW c \in Cancels, CancelStep(c) PROVE Quiet
  <2>1. c \in Workers
    BY DEF Workers
  <2>2. CASE SignalToken(c) \/ ExecutorCancelOk(c) \/ ExecutorCancelErr(c) \/ LookupBus(c)
    BY <2>1, <2>2 DEF TypeInv, TypeOK, SignalToken, ExecutorCancelOk,
       ExecutorCancelErr, LookupBus
  <2>3. CASE Reread(c) \/ FinalGet(c)
    BY <2>1, <2>3, ZenonT(40) DEF TypeInv, TypeOK, Reread, FinalGet, Return, Apply
  <2> QED BY <1>4, <2>2, <2>3 DEF CancelStep
<1>5. UNCHANGED vars => Quiet
  OBVIOUS
<1> QED BY <1>1, <1>2, <1>3, <1>4, <1>5, QuietSeqInv DEF Next, ServerStep, Finished

\* A sequence number names one event, in every log and on every bus, however
\* many turns and cancels share the counter: what subscribers deduplicate by.
THEOREM SeqAlwaysNamesOneEvent == Spec => []SeqNamesOneEvent
<1>1. SeqInv => SeqNamesOneEvent
  BY DEF SeqInv
<1> QED BY <1>1, InitTypeInv, NextTypeInv, InitSeqInv, NextSeqInv, PTL DEF Spec

-----------------------------------------------------------------------------
(***************************************************************************)
(* The histories of tasks: however many turns and cancels rewrite the      *)
(* record of a task, and lose one another's updates, no message is in it   *)
(* twice.                                                                  *)
(***************************************************************************)
In(message, history) == \E i \in DOMAIN history : history[i] = message

NoRepeats(history) ==
    \A i, j \in DOMAIN history : history[i] = history[j] => i = j

\* A turn that has not recorded its client's message yet.
Unseeded(w) == firstEvent[w] /\ pc[w] # "send"

\* A worker that has taken a number for an event and not applied it yet.
Unapplied(w) == pc[w] \in {"appendLog", "getTask"}

\* A history that lacks the messages that turns, all but those in `seeding',
\* and events are still to add to it.
Clean(history, seeding) ==
    /\ NoRepeats(history)
    /\ \A w \in Turns \ seeding : Unseeded(w) => ~In(UserMessage(w), history)
    /\ \A w \in Workers : Unapplied(w) => ~In(AgentMessage(seq[w]), history)
    /\ \A n \in Nat : In(AgentMessage(n), history) => n < nextSeq

\* The histories that are stored, and those that a worker has read and updated
\* and not put back yet.
HistoryInv ==
    /\ \A t \in DOMAIN store : Clean(store[t].history, {})
    /\ \A w \in Workers : pc[w] = "putTask" => Clean(pending[w][1].history, {w})
    /\ \A c \in Cancels : ~firstEvent[c]

-----------------------------------------------------------------------------
LEMMA MessagesDiffer ==
    /\ \A v, w \in Turns : UserMessage(v) = UserMessage(w) => v = w
    /\ \A m, n \in Nat : AgentMessage(m) = AgentMessage(n) => m = n
    /\ \A w \in Turns : \A n \in Nat : UserMessage(w) # AgentMessage(n)
BY DEF UserMessage, AgentMessage

LEMMA InAppend ==
    ASSUME NEW S, NEW history \in Seq(S), NEW message \in S
    PROVE  /\ \A m : In(m, Append(history, message)) <=> In(m, history) \/ m = message
           /\ NoRepeats(history) /\ ~In(message, history) =>
                  NoRepeats(Append(history, message))
<1> DEFINE longer == Append(history, message)
<1>1. /\ DOMAIN history = 1 .. Len(history) /\ Len(history) \in Nat
      /\ DOMAIN longer = 1 .. Len(history) + 1
      /\ \A i \in 1 .. Len(history) : longer[i] = history[i]
      /\ longer[Len(history) + 1] = message
  OBVIOUS
<1> HIDE DEF longer
<1>2. \A i \in DOMAIN longer : i \in DOMAIN history \/ i = Len(history) + 1
  BY <1>1
<1>3. \A m : In(m, longer) <=> In(m, history) \/ m = message
  BY <1>1, <1>2 DEF In
<1>4. NoRepeats(history) /\ ~In(message, history) => NoRepeats(longer)
  BY <1>1, <1>2 DEF In, NoRepeats
<1> QED BY <1>3, <1>4 DEF longer

LEMMA InSingle ==
    ASSUME NEW message
    PROVE  /\ \A m : In(m, <<message>>) <=> m = message
           /\ NoRepeats(<<message>>)
BY DEF In, NoRepeats

\* A history stays clean through a step that makes no turn unseeded and takes
\* none but a new number.
Keeps ==
    /\ nextSeq' \in Nat /\ nextSeq' >= nextSeq
    /\ \A w \in Turns : Unseeded(w)' => Unseeded(w)
    /\ \A w \in Workers : Unapplied(w)' =>
          (Unapplied(w) /\ seq'[w] = seq[w]) \/ seq'[w] = nextSeq

LEMMA KeepsClean ==
    ASSUME TypeInv, Keeps, NEW history, NEW seeding, Clean(history, seeding)
    PROVE  Clean(history, seeding)'
<1>1. nextSeq \in Nat /\ nextSeq' \in Nat /\ nextSeq' >= nextSeq
  BY DEF TypeInv, TypeOK, Keeps
<1>2. \A n \in Nat : In(AgentMessage(n), history) => n < nextSeq
  BY DEF Clean
<1>3. \A n \in Nat : In(AgentMessage(n), history) => n < nextSeq'
  BY <1>1, <1>2
<1>4. ~In(AgentMessage(nextSeq), history)
  BY <1>1, <1>2
<1>5. \A w \in Workers : Unapplied(w)' => ~In(AgentMessage(seq'[w]), history)
  BY <1>4 DEF Clean, Keeps
<1>6. \A w \in Turns \ seeding : Unseeded(w)' => ~In(UserMessage(w), history)
  BY DEF Clean, Keeps
<1> QED BY <1>3, <1>5, <1>6 DEF Clean

\* A step that neither reads nor writes a record.
Aside ==
    /\ Keeps
    /\ store' = store
    /\ \A w \in Workers : pc'[w] = "putTask" => pc[w] = "putTask" /\ pending'[w] = pending[w]
    /\ \A c \in Cancels : firstEvent'[c] => firstEvent[c]

\* A worker moves on, and at most a number is taken.
LEMMA MoveAside ==
    ASSUME TypeInv, NEW w \in Workers, NEW label,
           pc' = [pc EXCEPT ![w] = label],
           pc[w] # "send", label \notin {"appendLog", "getTask", "putTask"},
           nextSeq' \in Nat, nextSeq' >= nextSeq,
           \A v \in Workers \ {w} : seq'[v] = seq[v] /\ pending'[v] = pending[v],
           UNCHANGED <<store, firstEvent>>
    PROVE  Aside
<1>1. /\ \A v \in Workers \ {w} : pc'[v] = pc[v]
      /\ pc'[w] = label
  BY DEF TypeInv, TypeOK
<1>2. Turns \subseteq Workers
  BY DEF Workers
<1>3. \A v \in Turns : Unseeded(v)' => Unseeded(v)
  BY <1>1, <1>2 DEF Unseeded
<1>4. \A v \in Workers : Unapplied(v)' => Unapplied(v) /\ seq'[v] = seq[v]
  BY <1>1 DEF Unapplied
<1> QED BY <1>1, <1>3, <1>4 DEF Aside, Keeps

LEMMA AsideHistoryInv ==
    ASSUME TypeInv, HistoryInv, Aside
    PROVE  HistoryInv'
<1>1. \A t \in DOMAIN store' : Clean(store[t].history, {})'
  <2> SUFFICES ASSUME NEW t \in DOMAIN store' PROVE Clean(store[t].history, {})'
    OBVIOUS
  <2>1. t \in DOMAIN store /\ store'[t].history = store[t].history
    BY DEF Aside
  <2>2. PICK history : history = store[t].history
    OBVIOUS
  <2>3. Clean(history, {})
    BY <2>1, <2>2 DEF HistoryInv
  <2>4. Clean(history, {})'
    BY <2>3, KeepsClean DEF Aside
  <2> QED BY <2>1, <2>2, <2>4
<1>2. ASSUME NEW w \in Workers, pc'[w] = "putTask"
      PROVE  Clean(pending[w][1].history, {w})'
  <2>1. pc[w] = "putTask" /\ pending'[w][1].history = pending[w][1].history
    BY <1>2 DEF Aside
  <2>2. PICK history : history = pending[w][1].history
    OBVIOUS
  <2>3. Clean(history, {w})
    BY <2>1, <2>2 DEF HistoryInv
  <2>4. Clean(history, {w})'
    BY <2>3, KeepsClean DEF Aside
  <2> QED BY <2>1, <2>2, <2>4
<1> QED BY <1>1, <1>2 DEF HistoryInv, Aside

\* Seeding: the client's message of a turn is new to a history that still
\* lacks it; CancelTask seeds nothing.
LEMMA SeededIsClean ==
    ASSUME TypeInv, HistoryInv, NEW w \in Workers, pc[w] = "getTask"
    PROVE  LET found == SeededTask(Get(taskOf[w]), firstEvent[w], Seed(w), event[w])
           IN  Recorded(found) /\ Clean(found.history, {w})
<1> DEFINE t == taskOf[w]
           found == SeededTask(Get(t), firstEvent[w], Seed(w), event[w])
<1>1. /\ t \in Tasks /\ event[w] \in TaskUpdates
      /\ firstEvent[w] \in BOOLEAN /\ Seed(w) \in HistoryMessage
      /\ w \in Turns => Seed(w) = UserMessage(w)
      /\ w \in Cancels => ~firstEvent[w] /\ t \in DOMAIN store
  BY SeedType DEF TypeInv, TypeOK, HoldsOf, Active, PCs, HistoryInv, Seed
<1>2. /\ Get(t) \in Option(Task)
      /\ Get(t) # <<>> => t \in DOMAIN store /\ Get(t)[1] = store[t] /\ Recorded(store[t])
      /\ Get(t) = <<>> => t \notin DOMAIN store
  BY <1>1, OptionType DEF TypeInv, TypeOK, IsMap, Get
<1>3. Recorded(found)
  BY <1>1, <1>2, SeededTaskRecorded
<1>4. CASE Get(t) = <<>>
  <2>1. w \in Turns
    BY <1>1, <1>2, <1>4 DEF Workers
  <2>2. found.history = <<UserMessage(w)>>
    BY <1>1, <1>4, <2>1 DEF SeededTask, NewTask
  <2>3. \A v \in Workers : seq[v] \in Nat
    BY DEF TypeInv, TypeOK
  <2> HIDE DEF found
  <2>4. Clean(<<UserMessage(w)>>, {w})
    BY <2>1, <2>3, InSingle, MessagesDiffer DEF Clean
  <2> QED BY <1>3, <2>2, <2>4 DEF found
<1>5. CASE Get(t) # <<>> /\ ~firstEvent[w]
  <2>1. found = store[t]
    BY <1>2, <1>5 DEF SeededTask
  <2>2. Clean(store[t].history, {})
    BY <1>2, <1>5 DEF HistoryInv
  <2>3. Clean(store[t].history, {w})
    BY <2>2 DEF Clean
  <2> QED BY <1>3, <2>1, <2>3
<1>6. CASE Get(t) # <<>> /\ firstEvent[w]
  <2> DEFINE history == store[t].history
  <2>1. w \in Turns
    BY <1>1, <1>6 DEF Workers
  <2>2. found.history = Append(history, UserMessage(w))
    BY <1>1, <1>2, <1>6, <2>1 DEF SeededTask, Recorded, Task
  <2>3. history \in Seq(HistoryMessage) /\ UserMessage(w) \in HistoryMessage
    BY <1>2, <1>6, <2>1, MessageType DEF Recorded, Task
  <2>4. Clean(history, {})
    BY <1>2, <1>6 DEF HistoryInv
  <2>5. ~In(UserMessage(w), history)
    BY <1>6, <2>1, <2>4 DEF Clean, Unseeded
  <2>6. \A v \in Workers : seq[v] \in Nat
    BY DEF TypeInv, TypeOK
  <2> HIDE DEF history, found
  <2>7. /\ \A m : In(m, Append(history, UserMessage(w))) <=> In(m, history) \/ m = UserMessage(w)
        /\ NoRepeats(Append(history, UserMessage(w)))
    BY <2>3, <2>4, <2>5, InAppend DEF Clean
  <2>8. Clean(Append(history, UserMessage(w)), {w})
    BY <2>1, <2>4, <2>6, <2>7, MessagesDiffer DEF Clean
  <2> QED BY <1>3, <2>2, <2>8 DEF found
<1> QED BY <1>4, <1>5, <1>6

\* Updating: the message of a status is named by the event's number, which no
\* history has and no other worker holds.
LEMMA UpdatedIsClean ==
    ASSUME TypeInv, SeqInv, HistoryInv, NEW w \in Workers, pc[w] = "getTask",
           NEW found, Recorded(found), Clean(found.history, {w})
    PROVE  LET history == UpdateTask(found, event[w], seq[w]).history
           IN  /\ NoRepeats(history)
               /\ \A v \in Turns \ {w} : Unseeded(v) => ~In(UserMessage(v), history)
               /\ \A v \in Workers \ {w} : Unapplied(v) => ~In(AgentMessage(seq[v]), history)
               /\ \A n \in Nat : In(AgentMessage(n), history) => n < nextSeq
<1> DEFINE history == UpdateTask(found, event[w], seq[w]).history
<1>1. event[w] \in TaskUpdates /\ \A v \in Workers : seq[v] \in Nat
  BY DEF TypeInv, TypeOK, HoldsOf
<1>2. CASE event[w].kind = "status" /\ event[w].msg
  <2>1. history = Append(found.history, AgentMessage(seq[w]))
    BY <1>2 DEF UpdateTask, Recorded, Task
  <2>2. found.history \in Seq(HistoryMessage) /\ AgentMessage(seq[w]) \in HistoryMessage
    BY <1>1, MessageType DEF Recorded, Task
  <2>3. ~In(AgentMessage(seq[w]), found.history)
    BY DEF Clean, Unapplied
  <2>4. /\ seq[w] < nextSeq
        /\ \A v \in Workers \ {w} : Unapplied(v) => seq[v] # seq[w]
    BY DEF SeqInv, Numbered, Unlogged, Unapplied
  <2>5. /\ \A m : In(m, history) <=> In(m, found.history) \/ m = AgentMessage(seq[w])
        /\ NoRepeats(history)
    BY <2>1, <2>2, <2>3, InAppend DEF Clean
  <2> HIDE DEF history
  <2> QED BY <1>1, <2>4, <2>5, MessagesDiffer DEF Clean, history
<1>3. CASE ~(event[w].kind = "status" /\ event[w].msg)
  <2>1. history = found.history
    BY <1>3 DEF UpdateTask, Recorded, Task
  <2> HIDE DEF history
  <2> QED BY <2>1 DEF Clean, history
<1> QED BY <1>2, <1>3

LEMMA GetTaskHistoryInv ==
    ASSUME TypeInv, SeqInv, HistoryInv, NEW w \in Workers, GetTask(w)
    PROVE  HistoryInv'
<1> DEFINE found == SeededTask(Get(taskOf[w]), firstEvent[w], Seed(w), event[w])
           updated == UpdateTask(found, event[w], seq[w])
<1>1. pc[w] = "getTask" /\ pc' = [pc EXCEPT ![w] = "putTask"]
      /\ pending' = [pending EXCEPT ![w] = <<updated>>]
      /\ store' = store /\ seq' = seq /\ nextSeq' = nextSeq /\ firstEvent' = firstEvent
  BY DEF GetTask
<1>2. Recorded(found) /\ Clean(found.history, {w})
  BY <1>1, SeededIsClean
<1> HIDE DEF found
<1>3. LET history == updated.history
      IN  /\ NoRepeats(history)
          /\ \A v \in Turns \ {w} : Unseeded(v) => ~In(UserMessage(v), history)
          /\ \A v \in Workers \ {w} : Unapplied(v) => ~In(AgentMessage(seq[v]), history)
          /\ \A n \in Nat : In(AgentMessage(n), history) => n < nextSeq
  BY <1>1, <1>2, UpdatedIsClean
<1> HIDE DEF updated
<1>4. /\ \A v \in Workers : v # w => pc'[v] = pc[v] /\ pending'[v] = pending[v]
      /\ pc'[w] = "putTask" /\ pending'[w][1] = updated
  BY <1>1 DEF TypeInv, TypeOK
<1>5. nextSeq \in Nat /\ Turns \subseteq Workers
  BY DEF TypeInv, TypeOK, Workers
<1>6. Keeps
  BY <1>1, <1>4, <1>5 DEF Keeps, Unseeded, Unapplied
<1>7. ASSUME NEW t \in DOMAIN store PROVE Clean(store[t].history, {})'
  <2>1. PICK history : history = store[t].history
    OBVIOUS
  <2>2. Clean(history, {})'
    BY <1>6, <2>1, KeepsClean DEF HistoryInv
  <2> QED BY <1>1, <2>1, <2>2
<1>8. Clean(pending[w][1].history, {w})'
  <2>1. \A v \in Turns \ {w} : Unseeded(v)' => Unseeded(v)
    BY <1>6 DEF Keeps
  <2>2. ~Unapplied(w)' /\ \A v \in Workers \ {w} : Unapplied(v)' => Unapplied(v) /\ seq'[v] = seq[v]
    BY <1>1, <1>4 DEF Unapplied
  <2>3. pending'[w][1].history = updated.history /\ nextSeq' = nextSeq
    BY <1>1, <1>4
  <2> QED BY <1>3, <2>1, <2>2, <2>3 DEF Clean
<1>9. ASSUME NEW v \in Workers, v # w, pc'[v] = "putTask"
      PROVE  Clean(pending[v][1].history, {v})'
  <2>1. PICK history : history = pending[v][1].history
    OBVIOUS
  <2>2. Clean(history, {v})
    BY <1>4, <1>9, <2>1 DEF HistoryInv
  <2>3. Clean(history, {v})'
    BY <1>6, <2>2, KeepsClean
  <2> QED BY <1>4, <1>9, <2>1, <2>3
<1> QED BY <1>1, <1>7, <1>8, <1>9 DEF HistoryInv

LEMMA PutTaskHistoryInv ==
    ASSUME TypeInv, HistoryInv, NEW w \in Workers, PutTask(w)
    PROVE  HistoryInv'
<1>a. PICK t, new : t = taskOf[w] /\ new = pending[w][1]
  OBVIOUS
<1>b. store' = Insert(store, t, new)
  BY <1>a DEF PutTask
<1>1. /\ pc[w] = "putTask" /\ pc' = [pc EXCEPT ![w] = "send"]
      /\ pending' = [pending EXCEPT ![w] = <<>>]
      /\ seq' = seq /\ nextSeq' = nextSeq /\ firstEvent' = firstEvent
  BY DEF PutTask
<1>2. t \in Tasks /\ new \in Task /\ IsMap(store, Tasks, Task)
  BY <1>a, <1>1 DEF TypeInv, TypeOK, HoldsOf, Active, PCs, Recorded
<1>3. /\ IsMap(store', Tasks, Task)
      /\ DOMAIN store' = DOMAIN store \cup {t}
      /\ store'[t] = new
      /\ \A j \in DOMAIN store : j # t => store'[j] = store[j]
  BY <1>b, <1>2 DEF IsMap, Insert
<1>4. /\ \A v \in Workers : v # w => pc'[v] = pc[v] /\ pending'[v] = pending[v]
      /\ pc'[w] = "send"
  BY <1>1 DEF TypeInv, TypeOK
<1>5. nextSeq \in Nat /\ Turns \subseteq Workers
  BY DEF TypeInv, TypeOK, Workers
<1>6. Keeps
  BY <1>1, <1>4, <1>5 DEF Keeps, Unseeded, Unapplied
<1>7. Clean(store[t].history, {})'
  <2>1. PICK history : history = new.history
    OBVIOUS
  <2>2. Clean(history, {w})
    BY <1>a, <1>1, <2>1 DEF HistoryInv
  <2>3. Clean(history, {w})'
    BY <1>6, <2>2, KeepsClean
  <2>4. ~Unseeded(w)'
    BY <1>4 DEF Unseeded
  <2>5. Clean(history, {})'
    BY <2>3, <2>4 DEF Clean
  <2> QED BY <1>3, <2>1, <2>5
<1>8. ASSUME NEW j \in DOMAIN store', j # t PROVE Clean(store[j].history, {})'
  <2>1. PICK history : history = store[j].history
    OBVIOUS
  <2>2. Clean(history, {}) /\ store'[j].history = history
    BY <1>3, <1>8, <2>1 DEF HistoryInv
  <2>3. Clean(history, {})'
    BY <1>6, <2>2, KeepsClean
  <2> QED BY <2>2, <2>3
<1>9. ASSUME NEW v \in Workers, pc'[v] = "putTask"
      PROVE  Clean(pending[v][1].history, {v})'
  <2>1. v # w /\ pc[v] = "putTask" /\ pending'[v] = pending[v]
    BY <1>4, <1>9
  <2>2. PICK history : history = pending[v][1].history
    OBVIOUS
  <2>3. Clean(history, {v})'
    BY <1>6, <2>1, <2>2, KeepsClean DEF HistoryInv
  <2> QED BY <2>1, <2>2, <2>3
<1> QED BY <1>1, <1>7, <1>8, <1>9 DEF HistoryInv

LEMMA InitHistoryInv == Init => HistoryInv
<1> SUFFICES ASSUME Init PROVE HistoryInv
  OBVIOUS
<1>1. DOMAIN store = {}
  BY EmptyMapType DEF Init
<1>2. \A c \in Cancels : ~firstEvent[c]
  BY EngineAssumption DEF Init, Workers
<1> QED BY <1>1, <1>2 DEF Init, HistoryInv

LEMMA NextHistoryInv == TypeInv /\ SeqInv /\ HistoryInv /\ [Next]_vars => HistoryInv'
<1> SUFFICES ASSUME TypeInv, SeqInv, HistoryInv, [Next]_vars PROVE HistoryInv'
  OBVIOUS
<1> USE DEF Aside, Keeps, Unseeded, Unapplied
<1>0. nextSeq \in Nat /\ nextSeq >= nextSeq /\ Turns \subseteq Workers /\ Cancels \subseteq Workers
  BY DEF TypeInv, TypeOK, Workers
<1>1. ASSUME NEW w \in Workers, ClientStep(w) PROVE Aside
  BY <1>0, <1>1 DEF TypeInv, TypeOK, ClientStep, RefuseCall, AbortCall, InHandler, Ended,
     StartNewTask, ContinueTask, StartCancel
<1>2. ASSUME NEW w \in Workers, ApplyStep(w) PROVE HistoryInv'
  <2>1. CASE ReceiveEvent(w) \/ SkipEmptyArtifact(w) \/ TakeSeq(w)
    <3>1. Aside
      BY <1>0, <2>1 DEF TypeInv, TypeOK, ReceiveEvent, Apply, SkipEmptyArtifact, TakeSeq,
         FetchSeq
    <3> QED BY <3>1, AsideHistoryInv
  <2>2. CASE AppendLog(w)
    <3>1. Aside
      BY <1>0, <2>2 DEF TypeInv, TypeOK, AppendLog
    <3> QED BY <3>1, AsideHistoryInv
  <2>3. CASE SendEvent(w)
    <3>1. AfterSend(w) \in {"removeBus", "recv", "finalGet", "drain"}
      BY DEF AfterSend
    <3>2. Aside
      BY <1>0, <2>3, <3>1 DEF TypeInv, TypeOK, SendEvent
    <3> QED BY <3>2, AsideHistoryInv
  <2>4. CASE GetTask(w) \/ PutTask(w)
    BY <2>4, GetTaskHistoryInv, PutTaskHistoryInv
  <2> QED BY <1>2, <2>1, <2>2, <2>3, <2>4 DEF ApplyStep
<1>3. ASSUME NEW w \in Turns, TurnStep(w) PROVE Aside
  <2> w \in Workers
    BY <1>0
  <2>1. CASE InsertBus(w) \/ InsertToken(w) \/ ExecutorReturns(w)
    BY <1>0, <2>1, MoveAside DEF InsertBus, InsertToken, ExecutorReturns
  <2>2. CASE ExecutorFails(w)
    <3>1. PICK label \in {"lead", "takeSeq"} : pc' = [pc EXCEPT ![w] = label]
      BY <2>2 DEF ExecutorFails, Apply
    <3> QED BY <1>0, <2>2, <3>1, MoveAside DEF ExecutorFails
  <2>3. CASE TakeLeadSeq(w)
    <3>1. /\ nextSeq' = nextSeq + 1
          /\ \A v \in Workers \ {w} : seq'[v] = seq[v]
      BY <2>3 DEF TakeLeadSeq, FetchSeq, TypeInv, TypeOK
    <3> QED BY <1>0, <2>3, <3>1, MoveAside DEF TakeLeadSeq
  <2>4. CASE SendLead(w) \/ RemoveBus(w) \/ RemoveToken(w)
    BY <1>0, <2>4, MoveAside DEF SendLead, RemoveBus, RemoveToken
  <2> QED BY <1>3, <2>1, <2>2, <2>3, <2>4 DEF TurnStep
<1>4. ASSUME NEW c \in Cancels, CancelStep(c) PROVE Aside
  <2> c \in Workers
    BY <1>0
  <2>1. CASE SignalToken(c) \/ ExecutorCancelOk(c) \/ ExecutorCancelErr(c) \/ LookupBus(c)
    BY <1>0, <2>1, MoveAside DEF SignalToken, ExecutorCancelOk, ExecutorCancelErr, LookupBus
  <2>2. CASE Reread(c)
    <3>1. PICK label \in {"done", "lead", "takeSeq"} : pc' = [pc EXCEPT ![c] = label]
      BY <2>2 DEF Reread, Return, Apply
    <3> QED BY <1>0, <2>2, <3>1, MoveAside DEF Reread
  <2>3. CASE FinalGet(c)
    BY <1>0, <2>3, MoveAside DEF FinalGet, Return
  <2> QED BY <1>4, <2>1, <2>2, <2>3 DEF CancelStep
<1>5. UNCHANGED vars => Aside
  BY <1>0
<1> QED BY <1>1, <1>2, <1>3, <1>4, <1>5, AsideHistoryInv DEF Next, ServerStep, Finished

\* No message is recorded twice in a task's history (apply_event's seed and its
\* status messages), however many turns and cancels read, update and put the
\* record, and whichever of their updates are lost.
THEOREM HistoryNeverRepeats == Spec => []HistoryHasNoDuplicates
<1>1. HistoryInv => HistoryHasNoDuplicates
  BY DEF HistoryInv, Clean, NoRepeats, HistoryHasNoDuplicates
<1> QED BY <1>1, InitTypeInv, NextTypeInv, InitSeqInv, NextSeqInv, InitHistoryInv,
           NextHistoryInv, PTL DEF Spec

-----------------------------------------------------------------------------
(***************************************************************************)
(* The logs and the buses: what a subscriber replays and then follows, and *)
(* the terminal status a cancel leaves behind.                             *)
(***************************************************************************)
\* Items of one worker are in the order of their numbers.
InOrder(log) ==
    \A i, j \in DOMAIN log :
        i < j /\ log[i].by = log[j].by => log[i].seq < log[j].seq

\* What `log' has of a worker comes before `number'.
Before(log, w, number) ==
    \A i \in DOMAIN log : log[i].by = w => log[i].seq < number

-----------------------------------------------------------------------------
\* The longer log, index by index: one item at the end, and the rest moved
\* down by one if the log was full.
LEMMA AppendBoundedIndexes ==
    ASSUME NEW log \in Seq(Item), NEW item \in Item, Len(log) <= EventLogCapacity
    PROVE  LET longer == AppendBounded(log, item)
           IN  /\ longer \in Seq(Item)
               /\ Len(longer) <= EventLogCapacity
               /\ longer[Len(longer)] = item /\ Len(longer) > 0
               /\ \/ /\ Len(longer) = EventLogCapacity /\ Len(log) = EventLogCapacity
                     /\ \A i \in 1 .. Len(longer) - 1 :
                           i + 1 \in DOMAIN log /\ longer[i] = log[i + 1]
                  \/ /\ Len(longer) = Len(log) + 1
                     /\ \A i \in 1 .. Len(longer) - 1 :
                           i \in DOMAIN log /\ longer[i] = log[i]
<1>1. EventLogCapacity \in Nat \ {0}
  BY EngineAssumption
<1>2. CASE Len(log) >= EventLogCapacity
  <2> DEFINE tail == Tail(log)
  <2>1. Len(log) = EventLogCapacity
    BY <1>1, <1>2
  <2>2. /\ tail \in Seq(Item) /\ Len(tail) = Len(log) - 1
        /\ \A i \in 1 .. Len(tail) : i + 1 \in DOMAIN log /\ tail[i] = log[i + 1]
    BY <1>1, <2>1
  <2>3. AppendBounded(log, item) = Append(tail, item)
    BY <1>2 DEF AppendBounded
  <2> HIDE DEF tail
  <2>4. /\ Append(tail, item) \in Seq(Item)
        /\ Len(Append(tail, item)) = Len(tail) + 1
        /\ Append(tail, item)[Len(tail) + 1] = item
        /\ \A i \in 1 .. Len(tail) : Append(tail, item)[i] = tail[i]
    BY <2>2
  <2> QED BY <1>1, <2>1, <2>2, <2>3, <2>4
<1>3. CASE ~(Len(log) >= EventLogCapacity)
  <2>1. AppendBounded(log, item) = Append(log, item)
    BY <1>3 DEF AppendBounded
  <2>2. /\ Append(log, item) \in Seq(Item)
        /\ Len(Append(log, item)) = Len(log) + 1
        /\ Append(log, item)[Len(log) + 1] = item
        /\ \A i \in 1 .. Len(log) : Append(log, item)[i] = log[i]
    OBVIOUS
  <2> QED BY <1>1, <1>3, <2>1, <2>2
<1> QED BY <1>2, <1>3

LEMMA AppendBoundedInOrder ==
    ASSUME NEW log \in Seq(Item), NEW item \in Item, Len(log) <= EventLogCapacity,
           InOrder(log), Before(log, item.by, item.seq)
    PROVE  InOrder(AppendBounded(log, item))
<1> DEFINE longer == AppendBounded(log, item)
           n == Len(longer)
<1>1. /\ longer \in Seq(Item)
      /\ longer[n] = item
      /\ \/ \A i \in 1 .. n - 1 : i + 1 \in DOMAIN log /\ longer[i] = log[i + 1]
         \/ \A i \in 1 .. n - 1 : i \in DOMAIN log /\ longer[i] = log[i]
  BY AppendBoundedIndexes
<1> HIDE DEF longer
<1>2. n \in Nat /\ DOMAIN longer = 1 .. n
  BY <1>1
<1> HIDE DEF n
<1>3. ASSUME NEW i \in 1 .. n, NEW j \in 1 .. n, i < j, longer[i].by = longer[j].by
      PROVE  longer[i].seq < longer[j].seq
  <2>1. i \in 1 .. n - 1
    BY <1>2, <1>3
  <2>2. CASE j = n
    <3>1. \E k \in DOMAIN log : longer[i] = log[k]
      BY <1>1, <2>1
    <3> QED BY <1>1, <1>3, <2>2, <3>1 DEF Before
  <2>3. CASE j # n
    <3>1. j \in 1 .. n - 1
      BY <1>2, <2>3
    <3>2. CASE \A k \in 1 .. n - 1 : k + 1 \in DOMAIN log /\ longer[k] = log[k + 1]
      BY <1>3, <2>1, <3>1, <3>2 DEF InOrder
    <3>3. CASE \A k \in 1 .. n - 1 : k \in DOMAIN log /\ longer[k] = log[k]
      BY <1>3, <2>1, <3>1, <3>3 DEF InOrder
    <3> QED BY <1>1, <3>2, <3>3
  <2> QED BY <2>2, <2>3
<1> QED BY <1>2, <1>3 DEF InOrder, longer

-----------------------------------------------------------------------------
(***************************************************************************)
(* The logs.  A number about to be logged is above those the log has of    *)
(* its worker.                                                             *)
(***************************************************************************)
LogInv ==
    /\ \A t \in Tasks : Len(eventLogs[t]) <= EventLogCapacity /\ InOrder(eventLogs[t])
    /\ \A w \in Workers : pc[w] = "appendLog" =>
          \A t \in Tasks : Before(eventLogs[t], w, seq[w])

LEMMA InitLogInv == Init => LogInv
<1> SUFFICES ASSUME Init PROVE LogInv
  OBVIOUS
<1>1. \A w \in Workers : pc[w] # "appendLog"
  BY DEF Init
<1>2. \A t \in Tasks : eventLogs[t] = <<>>
  BY DEF Init
<1> QED BY <1>1, <1>2, EngineAssumption DEF LogInv, InOrder

\* A step that leaves the logs alone and brings no worker to them.
LogQuiet ==
    /\ eventLogs' = eventLogs
    /\ \A w \in Workers : pc'[w] = "appendLog" => pc[w] = "appendLog" /\ seq'[w] = seq[w]

LEMMA LogQuietInv ==
    ASSUME LogInv, LogQuiet
    PROVE  LogInv'
BY DEF LogInv, LogQuiet, InOrder, Before

\* A worker moves on, to anywhere but its log.
LEMMA MoveLogQuiet ==
    ASSUME TypeInv, NEW w \in Workers, NEW label, label # "appendLog",
           pc' = [pc EXCEPT ![w] = label],
           \A v \in Workers \ {w} : seq'[v] = seq[v],
           eventLogs' = eventLogs
    PROVE  LogQuiet
BY DEF LogQuiet, TypeInv, TypeOK

LEMMA TakeSeqLogInv ==
    ASSUME TypeInv, SeqInv, LogInv, NEW w \in Workers, TakeSeq(w)
    PROVE  LogInv'
<1>1. /\ eventLogs' = eventLogs /\ seq'[w] = nextSeq
      /\ \A v \in Workers \ {w} : pc'[v] = pc[v] /\ seq'[v] = seq[v]
  BY DEF TakeSeq, FetchSeq, TypeInv, TypeOK
<1>2. \A t \in Tasks : \A i \in DOMAIN eventLogs[t] : eventLogs[t][i] \in Items
  BY LoggedItem DEF Items
<1>3. \A t \in Tasks : Before(eventLogs[t], w, nextSeq)
  BY <1>2 DEF SeqInv, Before
<1> QED BY <1>1, <1>3 DEF LogInv, InOrder, Before

LEMMA AppendLogLogInv ==
    ASSUME TypeInv, LogInv, NEW w \in Workers, AppendLog(w)
    PROVE  LogInv'
<1>1. taskOf[w] \in Tasks /\ event[w] \in ExecutorEvents
  BY DEF TypeInv, TypeOK, HoldsOf, AppendLog, Active, PCs
<1>2. Held(w) \in Item /\ Held(w).by = w /\ Held(w).seq = seq[w]
  BY <1>1 DEF TypeInv, TypeOK, Item, Events, Held
<1>3. PICK t \in Tasks : t = taskOf[w]
  BY <1>1
<1>4. PICK log : log = eventLogs[t]
  OBVIOUS
<1>5. log \in Seq(Item) /\ Len(log) <= EventLogCapacity /\ InOrder(log)
      /\ Before(log, w, seq[w])
  BY <1>4 DEF LogInv, AppendLog, TypeInv, TypeOK
<1>6. PICK longer : longer = AppendBounded(log, Held(w))
  OBVIOUS
<1>7. eventLogs'[t] = longer /\ \A u \in Tasks \ {t} : eventLogs'[u] = eventLogs[u]
  BY <1>3, <1>4, <1>6 DEF AppendLog, Held, TypeInv, TypeOK
<1>8. /\ pc[w] = "appendLog" /\ pc'[w] # "appendLog" /\ seq' = seq
      /\ \A v \in Workers \ {w} : pc'[v] = pc[v]
  BY DEF AppendLog, TypeInv, TypeOK
<1>9. Len(longer) <= EventLogCapacity /\ InOrder(longer)
  BY <1>2, <1>5, <1>6, AppendBoundedIndexes, AppendBoundedInOrder
<1>10. \A i \in DOMAIN longer : longer[i] = Held(w) \/ \E j \in DOMAIN log : longer[i] = log[j]
  BY <1>2, <1>5, <1>6, AppendBoundedMembers
<1>11. ASSUME NEW v \in Workers, pc'[v] = "appendLog", NEW u \in Tasks
       PROVE  Before(eventLogs[u], v, seq[v])'
  <2>1. v # w /\ pc[v] = "appendLog" /\ Before(eventLogs[u], v, seq[v])
    BY <1>8, <1>11 DEF LogInv
  <2>2. CASE u # t
    BY <1>7, <1>8, <2>1, <2>2 DEF Before
  <2>3. CASE u = t
    <3>1. Before(log, v, seq[v])
      BY <1>4, <2>1, <2>3
    <3>2. Before(longer, v, seq[v])
      BY <1>2, <1>10, <2>1, <3>1 DEF Before
    <3> QED BY <1>7, <1>8, <2>3, <3>2 DEF Before
  <2> QED BY <2>2, <2>3
<1>12. ASSUME NEW u \in Tasks
       PROVE  Len(eventLogs'[u]) <= EventLogCapacity /\ InOrder(eventLogs[u])'
  <2>1. CASE u = t
    BY <1>7, <1>9, <2>1 DEF InOrder
  <2>2. CASE u # t
    BY <1>7, <2>2 DEF LogInv, InOrder
  <2> QED BY <2>1, <2>2
<1> QED BY <1>11, <1>12 DEF LogInv

LEMMA NextLogInv == TypeInv /\ SeqInv /\ LogInv /\ [Next]_vars => LogInv'
<1> SUFFICES ASSUME TypeInv, SeqInv, LogInv, [Next]_vars PROVE LogInv'
  OBVIOUS
<1>0. Turns \subseteq Workers /\ Cancels \subseteq Workers
  BY DEF Workers
<1>1. ASSUME NEW w \in Workers, ClientStep(w) PROVE LogQuiet
  BY <1>0, <1>1 DEF LogQuiet, TypeInv, TypeOK, ClientStep, RefuseCall, AbortCall,
     StartNewTask, ContinueTask, StartCancel
<1>2. ASSUME NEW w \in Workers, ApplyStep(w) PROVE LogInv'
  <2>1. CASE ReceiveEvent(w)
    <3>1. PICK label \in {"lead", "takeSeq"} : pc' = [pc EXCEPT ![w] = label]
      BY <2>1 DEF ReceiveEvent, Apply
    <3> QED BY <2>1, <3>1, MoveLogQuiet, LogQuietInv DEF ReceiveEvent
  <2>2. CASE SkipEmptyArtifact(w)
    BY <2>2, LogQuietInv DEF SkipEmptyArtifact, LogQuiet
  <2>3. CASE GetTask(w) \/ PutTask(w)
    BY <2>3, MoveLogQuiet, LogQuietInv DEF GetTask, PutTask
  <2>4. CASE SendEvent(w)
    <3>1. PICK label \in {"removeBus", "recv", "finalGet", "drain"} :
             pc' = [pc EXCEPT ![w] = label]
      BY <2>4 DEF SendEvent, AfterSend
    <3>2. \A v \in Workers \ {w} : seq'[v] = seq[v]
      BY <2>4 DEF SendEvent, TypeInv, TypeOK
    <3> QED BY <2>4, <3>1, <3>2, MoveLogQuiet, LogQuietInv DEF SendEvent
  <2>5. CASE TakeSeq(w) \/ AppendLog(w)
    BY <2>5, TakeSeqLogInv, AppendLogLogInv
  <2> QED BY <1>2, <2>1, <2>2, <2>3, <2>4, <2>5 DEF ApplyStep
<1>3. ASSUME NEW w \in Turns, TurnStep(w) PROVE LogQuiet
  <2> w \in Workers
    BY <1>0
  <2>1. CASE InsertBus(w) \/ InsertToken(w) \/ ExecutorReturns(w)
    BY <2>1, MoveLogQuiet DEF InsertBus, InsertToken, ExecutorReturns
  <2>2. CASE ExecutorFails(w)
    <3>1. PICK label \in {"lead", "takeSeq"} : pc' = [pc EXCEPT ![w] = label]
      BY <2>2 DEF ExecutorFails, Apply
    <3> QED BY <2>2, <3>1, MoveLogQuiet DEF ExecutorFails
  <2>3. CASE TakeLeadSeq(w)
    <3>1. \A v \in Workers \ {w} : seq'[v] = seq[v]
      BY <2>3 DEF TakeLeadSeq, FetchSeq, TypeInv, TypeOK
    <3> QED BY <2>3, <3>1, MoveLogQuiet DEF TakeLeadSeq
  <2>4. CASE SendLead(w) \/ RemoveBus(w) \/ RemoveToken(w)
    BY <2>4, MoveLogQuiet DEF SendLead, RemoveBus, RemoveToken
  <2> QED BY <1>3, <2>1, <2>2, <2>3, <2>4 DEF TurnStep
<1>4. ASSUME NEW c \in Cancels, CancelStep(c) PROVE LogQuiet
  <2> c \in Workers
    BY <1>0
  <2>1. CASE SignalToken(c) \/ ExecutorCancelOk(c) \/ ExecutorCancelErr(c) \/ LookupBus(c)
    BY <2>1, MoveLogQuiet DEF SignalToken, ExecutorCancelOk, ExecutorCancelErr, LookupBus
  <2>2. CASE Reread(c)
    <3>1. PICK label \in {"done", "lead", "takeSeq"} : pc' = [pc EXCEPT ![c] = label]
      BY <2>2 DEF Reread, Return, Apply
    <3> QED BY <2>2, <3>1, MoveLogQuiet DEF Reread
  <2>3. CASE FinalGet(c)
    BY <2>3, MoveLogQuiet DEF FinalGet, Return
  <2> QED BY <1>4, <2>1, <2>2, <2>3 DEF CancelStep
<1>5. UNCHANGED vars => LogQuiet
  BY DEF LogQuiet
<1> QED BY <1>1, <1>2, <1>3, <1>4, <1>5, LogQuietInv DEF Next, ServerStep, Finished

\* The log of a task never exceeds its capacity, and has the events of each
\* turn and cancel in the order of their numbers, though it loses its oldest
\* ones and two workers may append to it in either order.
THEOREM LogIsAlwaysWindow == Spec => []LogIsWindow
<1>1. LogInv => LogIsWindow
  BY DEF LogInv, LogIsWindow, InOrder
<1> QED BY <1>1, InitTypeInv, NextTypeInv, InitSeqInv, NextSeqInv, InitLogInv,
           NextLogInv, PTL DEF Spec
-----------------------------------------------------------------------------
(***************************************************************************)
(* The buses.  A pump that has sent a closing event is on its way out.     *)
(***************************************************************************)
HasClosed(b) ==
    \E i \in DOMAIN sent[b] : sent[b][i].by = b /\ ClosesStream(sent[b][i].event)

CloseInv ==
    /\ NothingAfterClose
    /\ \A b \in Turns : HasClosed(b) => pc[b] \in {"removeBus", "removeToken", "done"}

\* A step that sends nothing and keeps who is on the way out there.
CloseQuiet ==
    /\ sent' = sent
    /\ \A b \in Turns : pc[b] \in {"removeBus", "removeToken", "done"} =>
          pc'[b] \in {"removeBus", "removeToken", "done"}

LEMMA CloseQuietInv ==
    ASSUME CloseInv, CloseQuiet
    PROVE  CloseInv'
BY DEF CloseInv, CloseQuiet, NothingAfterClose, HasClosed

\* A worker that is not on the way out, or stays on it, moves on.
LEMMA MoveCloseQuiet ==
    ASSUME TypeInv, NEW w \in Workers, NEW label,
           pc' = [pc EXCEPT ![w] = label],
           \/ w \notin Turns
           \/ pc[w] \notin {"removeBus", "removeToken", "done"}
           \/ label \in {"removeBus", "removeToken", "done"},
           sent' = sent
    PROVE  CloseQuiet
<1>1. pc'[w] = label /\ \A v \in Workers \ {w} : pc'[v] = pc[v]
  BY DEF TypeInv, TypeOK
<1>2. Turns \subseteq Workers
  BY DEF Workers
<1> QED BY <1>1, <1>2 DEF CloseQuiet

\* A worker that sends an event: all buses it sends on get it last.
LEMMA BroadcastCloseInv ==
    ASSUME TypeInv, CloseInv, NEW w \in Workers, NEW e \in Events, NEW label,
           Broadcast(w, e), pc[w] \in {"send", "sendLead"},
           pc' = [pc EXCEPT ![w] = label],
           w \in Turns /\ ClosesStream(e) => label = "removeBus"
    PROVE  CloseInv'
<1>1. /\ pc'[w] = label
      /\ \A v \in Workers \ {w} : pc'[v] = pc[v]
      /\ Turns \subseteq Workers
  BY DEF TypeInv, TypeOK, Workers
<1>2. w \in Turns => ~HasClosed(w)
  BY DEF CloseInv
<1>3. PICK item : item = [seq |-> seq[w], by |-> w, event |-> e]
  OBVIOUS
<1>4. item \in Item /\ item.by = w /\ item.event = e
  BY <1>3 DEF TypeInv, TypeOK, Item
<1>5. ASSUME NEW b \in Turns
      PROVE  /\ \A i, j \in DOMAIN sent'[b] :
                   i < j /\ sent'[b][i].by = b /\ ClosesStream(sent'[b][i].event) =>
                       sent'[b][j].by # b
             /\ HasClosed(b)' => HasClosed(b) \/ (w = b /\ ClosesStream(e))
  <2>1. sent[b] \in Seq(Item)
    BY DEF TypeInv, TypeOK
  <2>2. \A i, j \in DOMAIN sent[b] :
           i < j /\ sent[b][i].by = b /\ ClosesStream(sent[b][i].event) => sent[b][j].by # b
    BY DEF CloseInv, NothingAfterClose
  <2>3. CASE sent'[b] = sent[b]
    BY <2>2, <2>3 DEF HasClosed
  <2>4. CASE sent'[b] = Append(sent[b], item)
    <3>1. PICK old, n : old = sent[b] /\ n = Len(sent[b])
      OBVIOUS
    <3>2. /\ n \in Nat /\ DOMAIN old = 1 .. n /\ DOMAIN sent'[b] = 1 .. n + 1
          /\ \A i \in 1 .. n : sent'[b][i] = old[i]
          /\ sent'[b][n + 1] = item
      BY <1>4, <2>1, <2>4, <3>1
    <3>3. HasClosed(b)' => HasClosed(b) \/ (w = b /\ ClosesStream(e))
      BY <1>4, <3>1, <3>2 DEF HasClosed
    <3>4. ASSUME NEW i \in 1 .. n + 1, NEW j \in 1 .. n + 1, i < j,
                 sent'[b][i].by = b, ClosesStream(sent'[b][i].event)
          PROVE  sent'[b][j].by # b
      <4>1. i \in 1 .. n
        BY <3>2, <3>4
      <4>4. old[i].by = b /\ ClosesStream(old[i].event) /\ i \in DOMAIN old
        BY <3>2, <3>4, <4>1
      <4>5. HasClosed(b)
        BY <3>1, <4>4 DEF HasClosed
      <4>2. CASE j = n + 1
        BY <1>2, <1>4, <3>2, <4>2, <4>5
      <4>3. CASE j # n + 1
        <5>1. j \in 1 .. n
          BY <3>2, <4>3
        <5> QED BY <2>2, <3>1, <3>2, <3>4, <4>1, <4>4, <5>1
      <4> QED BY <4>2, <4>3
    <3> QED BY <3>2, <3>3, <3>4
  <2> QED BY <1>3, <2>3, <2>4 DEF Broadcast
<1>6. NothingAfterClose'
  BY <1>5 DEF NothingAfterClose
<1>7. ASSUME NEW b \in Turns, HasClosed(b)'
      PROVE  pc'[b] \in {"removeBus", "removeToken", "done"}
  <2>1. CASE b = w
    BY <1>1, <1>2, <1>5, <1>7, <2>1
  <2>2. CASE b # w
    BY <1>1, <1>5, <1>7, <2>2 DEF CloseInv
  <2> QED BY <2>1, <2>2
<1> QED BY <1>6, <1>7 DEF CloseInv

\* The Task a turn is led with.
LEMMA LeadTaskType ==
    ASSUME TypeInv, NEW w \in Turns
    PROVE  LeadTask(w) \in Task
<1>1. w \in Workers
  BY DEF Workers
<1>2. "Submitted" \in TaskStates
  BY DEF TaskStates
<1>3. NewTask("Submitted", UserMessage(w)) \in Task
  BY <1>2, MessageType, NewTaskRecorded DEF Recorded
<1>4. existing[w] \in Option(Task)
  BY <1>1 DEF TypeInv, TypeOK
<1> QED BY <1>3, <1>4, OptionType DEF LeadTask

LEMMA InitCloseInv == Init => CloseInv
BY DEF Init, CloseInv, NothingAfterClose, HasClosed

LEMMA NextCloseInv == TypeInv /\ CloseInv /\ [Next]_vars => CloseInv'
<1> SUFFICES ASSUME TypeInv, CloseInv, [Next]_vars PROVE CloseInv'
  OBVIOUS
<1>0. Turns \subseteq Workers /\ Turns \cap Cancels = {}
  BY EngineAssumption DEF Workers
<1>1. ASSUME NEW w \in Workers, ClientStep(w) PROVE CloseQuiet
  BY <1>0, <1>1 DEF CloseQuiet, TypeInv, TypeOK, ClientStep, RefuseCall, AbortCall,
     InHandler, StartNewTask, ContinueTask, StartCancel
<1>2. ASSUME NEW w \in Workers, ApplyStep(w) PROVE CloseInv'
  <2>1. CASE SendEvent(w)
    <3>1. event[w] \in Events
      BY <2>1 DEF SendEvent, TypeInv, HoldsOf, Events
    <3>2. w \in Turns /\ ClosesStream(event[w]) => AfterSend(w) = "removeBus"
      BY DEF AfterSend
    <3> QED BY <2>1, <3>1, <3>2, BroadcastCloseInv DEF SendEvent
  <2>2. CASE ReceiveEvent(w)
    <3>1. PICK label : pc' = [pc EXCEPT ![w] = label]
      BY <2>2 DEF ReceiveEvent, Apply
    <3> QED BY <2>2, <3>1, MoveCloseQuiet, CloseQuietInv DEF ReceiveEvent
  <2>3. CASE SkipEmptyArtifact(w)
    BY <2>3, CloseQuietInv DEF SkipEmptyArtifact, CloseQuiet
  <2>4. CASE TakeSeq(w) \/ GetTask(w) \/ PutTask(w)
    BY <2>4, MoveCloseQuiet, CloseQuietInv DEF TakeSeq, GetTask, PutTask
  <2>5. CASE AppendLog(w)
    <3>1. PICK label : pc' = [pc EXCEPT ![w] = label]
      BY <2>5 DEF AppendLog
    <3> QED BY <2>5, <3>1, MoveCloseQuiet, CloseQuietInv DEF AppendLog
  <2> QED BY <1>2, <2>1, <2>2, <2>3, <2>4, <2>5 DEF ApplyStep
<1>3. ASSUME NEW w \in Turns, TurnStep(w) PROVE CloseInv'
  <2> w \in Workers
    BY <1>0
  <2>1. CASE SendLead(w)
    <3>1. PICK e : e = TaskEvent(LeadTask(w))
      OBVIOUS
    <3>2. LeadTask(w) \in Task
      BY LeadTaskType
    <3>3. e \in Events /\ ~ClosesStream(e)
      BY <3>1, <3>2 DEF TaskEvent, Events, ClosesStream
    <3> QED BY <2>1, <3>1, <3>3, BroadcastCloseInv DEF SendLead
  <2>2. CASE ExecutorFails(w)
    <3>1. PICK label : pc' = [pc EXCEPT ![w] = label]
      BY <2>2 DEF ExecutorFails, Apply
    <3> QED BY <2>2, <3>1, MoveCloseQuiet, CloseQuietInv DEF ExecutorFails
  <2>3. CASE InsertBus(w) \/ InsertToken(w) \/ ExecutorReturns(w) \/ TakeLeadSeq(w)
    BY <2>3, MoveCloseQuiet, CloseQuietInv
    DEF InsertBus, InsertToken, ExecutorReturns, TakeLeadSeq
  <2>4. CASE RemoveBus(w) \/ RemoveToken(w)
    BY <2>4, MoveCloseQuiet, CloseQuietInv DEF RemoveBus, RemoveToken
  <2> QED BY <1>3, <2>1, <2>2, <2>3, <2>4 DEF TurnStep
<1>4. ASSUME NEW c \in Cancels, CancelStep(c) PROVE CloseQuiet
  <2>1. c \in Workers /\ c \notin Turns
    BY <1>0 DEF Workers
  <2>2. CASE SignalToken(c) \/ ExecutorCancelOk(c) \/ ExecutorCancelErr(c) \/ LookupBus(c)
    BY <2>1, <2>2, MoveCloseQuiet
    DEF SignalToken, ExecutorCancelOk, ExecutorCancelErr, LookupBus
  <2>3. CASE Reread(c) \/ FinalGet(c)
    <3>1. PICK label : pc' = [pc EXCEPT ![c] = label]
      BY <2>3 DEF Reread, FinalGet, Return, Apply
    <3> QED BY <2>1, <2>3, <3>1, MoveCloseQuiet DEF Reread, FinalGet, Return
  <2> QED BY <1>4, <2>2, <2>3 DEF CancelStep
<1>5. UNCHANGED vars => CloseQuiet
  BY DEF CloseQuiet
<1> QED BY <1>1, <1>2, <1>3, <1>4, <1>5, CloseQuietInv DEF Next, ServerStep, Finished

\* A pump sends nothing of its own on its bus after the event that closes the
\* stream (engine.rs: the break after ClosesStream), whatever the executor still
\* reports, and whatever a CancelTask sends on that bus.
THEOREM NothingEverAfterClose == Spec => []NothingAfterClose
<1>1. CloseInv => NothingAfterClose
  BY DEF CloseInv
<1> QED BY <1>1, InitTypeInv, NextTypeInv, InitCloseInv, NextCloseInv, PTL DEF Spec
-----------------------------------------------------------------------------
(***************************************************************************)
(* Log and bus.  An event is logged before its worker comes to send it,    *)
(* and the buses it is sent on are those of the log's task.                *)
(***************************************************************************)
Kept(x, t) ==
    \/ \E j \in DOMAIN eventLogs[t] : eventLogs[t][j] = x
    \/ Len(eventLogs[t]) = EventLogCapacity

Logged(w) == pc[w] \in {"getTask", "putTask", "send"}

\* The turn has begun and its task is t.
Of(b, t) == b \in Turns /\ pc[b] # "idle" /\ taskOf[b] = t

SentInv ==
    /\ LoggedBeforeSent
    /\ \A b \in Turns : sent[b] # <<>> => pc[b] # "idle" /\ taskOf[b] \in Tasks
    /\ \A w \in Workers : Logged(w) => Kept(Held(w), taskOf[w])
    /\ \A t \in DOMAIN buses : Of(buses[t], t)
    /\ \A c \in Cancels : \A b \in attached[c] : pc[c] # "idle" /\ Of(b, taskOf[c])

\* What is kept stays kept, and workers keep their tasks.
Onward ==
    /\ \A t \in Tasks : \A x : Kept(x, t) => Kept(x, t)'
    /\ \A w \in Workers : pc[w] # "idle" => pc'[w] # "idle" /\ taskOf'[w] = taskOf[w]
    /\ \A w \in Workers : Logged(w)' =>
          Kept(Held(w), taskOf[w])' \/ (Logged(w) /\ Held(w)' = Held(w))
    /\ \A t \in DOMAIN buses' : Of(buses'[t], t)
    /\ \A c \in Cancels : \A b \in attached'[c] : pc[c] # "idle" /\ Of(b, taskOf[c])

\* All of the invariant but what it says of `sent'.
LEMMA OnwardInv ==
    ASSUME TypeInv, SentInv, Onward
    PROVE  /\ \A w \in Workers : Logged(w)' => Kept(Held(w), taskOf[w])'
           /\ \A t \in DOMAIN buses' : Of(buses[t], t)'
           /\ \A c \in Cancels : \A b \in attached'[c] : pc'[c] # "idle" /\ Of(b, taskOf[c])'
<1>1. Turns \subseteq Workers /\ Cancels \subseteq Workers
  BY DEF Workers
<1>2. ASSUME NEW w \in Workers, Logged(w)' PROVE Kept(Held(w), taskOf[w])'
  <2>1. CASE Kept(Held(w), taskOf[w])'
    BY <2>1
  <2>2. CASE Logged(w) /\ Held(w)' = Held(w)
    <3>1. taskOf[w] \in Tasks /\ taskOf'[w] = taskOf[w]
      BY <2>2 DEF Logged, Onward, TypeInv, HoldsOf, Active, PCs
    <3>2. PICK x, t : x = Held(w) /\ t = taskOf[w]
      OBVIOUS
    <3>3. Kept(x, t)'
      BY <2>2, <3>1, <3>2 DEF SentInv, Onward
    <3> QED BY <2>2, <3>1, <3>2, <3>3
  <2> QED BY <1>2, <2>1, <2>2 DEF Onward
<1>3. \A t \in DOMAIN buses' : Of(buses[t], t)'
  BY <1>1 DEF Onward, Of
<1>4. \A c \in Cancels : \A b \in attached'[c] : pc'[c] # "idle" /\ Of(b, taskOf[c])'
  BY <1>1 DEF Onward, Of
<1> QED BY <1>2, <1>3, <1>4

LEMMA SilentSentInv ==
    ASSUME TypeInv, SentInv, Onward, sent' = sent
    PROVE  SentInv'
<1>1. Turns \subseteq Workers
  BY DEF Workers
<1>2. \A b \in Turns : sent'[b] # <<>> => pc'[b] # "idle" /\ taskOf'[b] \in Tasks
  BY <1>1 DEF SentInv, Onward
<1>3. ASSUME NEW b \in Turns, NEW i \in DOMAIN sent'[b], sent'[b][i].event.kind # "task"
      PROVE  Kept(sent[b][i], taskOf[b])'
  <2>1. PICK x, t : x = sent[b][i] /\ t = taskOf[b]
    OBVIOUS
  <2>2. sent[b] # <<>>
    BY <1>3
  <2>3. t \in Tasks /\ taskOf'[b] = t
    BY <1>1, <2>1, <2>2 DEF SentInv, Onward
  <2>4. Kept(x, t)
    BY <1>3, <2>1 DEF SentInv, LoggedBeforeSent, Kept
  <2>5. Kept(x, t)'
    BY <2>3, <2>4 DEF Onward
  <2> QED BY <2>1, <2>3, <2>5
<1>4. LoggedBeforeSent'
  BY <1>3 DEF LoggedBeforeSent, Kept
<1> QED BY <1>2, <1>4, OnwardInv DEF SentInv

\* A worker sends an item: a leading Task, or the event it has logged.
LEMMA BroadcastSentInv ==
    ASSUME TypeInv, SentInv, Onward, NEW w \in Workers, NEW e \in Events,
           Broadcast(w, e), pc[w] \in {"send", "sendLead"}, eventLogs' = eventLogs,
           e.kind = "task" \/ (pc[w] = "send" /\ e = event[w])
    PROVE  SentInv'
<1>1. Turns \subseteq Workers
  BY DEF Workers
<1>2. PICK item : item = [seq |-> seq[w], by |-> w, event |-> e]
  OBVIOUS
<1>3. item \in Item /\ item.event = e
  BY <1>2 DEF TypeInv, TypeOK, Item
<1>4. taskOf[w] \in Tasks
  BY DEF TypeInv, HoldsOf, Active, PCs
<1>5. ASSUME NEW b \in BusesOf(w) PROVE Of(b, taskOf[w])
  BY <1>5 DEF SentInv, BusesOf, Of, Workers
<1>6. e.kind # "task" => Kept(item, taskOf[w])
  BY <1>2 DEF SentInv, Logged, Held
<1>7. ASSUME NEW b \in Turns
      PROVE  /\ sent'[b] # <<>> => pc'[b] # "idle" /\ taskOf'[b] \in Tasks
             /\ \A i \in DOMAIN sent'[b] : sent'[b][i].event.kind # "task" =>
                   Kept(sent[b][i], taskOf[b])'
  <2>1. sent[b] \in Seq(Item)
    BY DEF TypeInv, TypeOK
  <2>2. ASSUME NEW i \in DOMAIN sent[b], sent[b][i].event.kind # "task"
        PROVE  Kept(sent[b][i], taskOf[b])
    BY <2>2 DEF SentInv, LoggedBeforeSent, Kept
  <2>3. sent[b] # <<>> => pc[b] # "idle" /\ taskOf[b] \in Tasks
    BY DEF SentInv
  <2>4. CASE b \notin BusesOf(w)
    <3>1. sent'[b] = sent[b]
      BY <2>4 DEF Broadcast
    <3>2. sent[b] # <<>> => taskOf'[b] = taskOf[b]
      BY <1>1, <2>3 DEF Onward
    <3> QED BY <1>1, <2>2, <2>3, <3>1, <3>2 DEF Onward, Kept
  <2>5. CASE b \in BusesOf(w)
    <3>1. sent'[b] = Append(sent[b], item)
      BY <1>2, <2>5 DEF Broadcast
    <3>2. pc[b] # "idle" /\ taskOf[b] = taskOf[w]
      BY <1>5, <2>5 DEF Of
    <3>3. pc'[b] # "idle" /\ taskOf'[b] = taskOf[b]
      BY <1>1, <3>2 DEF Onward
    <3>4. ASSUME NEW i \in DOMAIN sent'[b], sent'[b][i].event.kind # "task"
          PROVE  Kept(sent'[b][i], taskOf[b])
      <4>1. PICK longer : longer = sent'[b]
        OBVIOUS
      <4>2. longer[i] = item \/ \E j \in DOMAIN sent[b] : longer[i] = sent[b][j]
        BY <1>3, <2>1, <3>1, <3>4, <4>1, AppendMembers
      <4>3. Kept(longer[i], taskOf[b])
        BY <1>3, <1>6, <2>2, <3>2, <3>4, <4>1, <4>2
      <4> QED BY <4>1, <4>3
    <3> QED BY <1>4, <3>2, <3>3, <3>4 DEF Kept
  <2> QED BY <2>4, <2>5
<1>8. LoggedBeforeSent'
  BY <1>7 DEF LoggedBeforeSent, Kept
<1> QED BY <1>7, <1>8, OnwardInv DEF SentInv
LEMMA InitSentInv == Init => SentInv
<1> SUFFICES ASSUME Init PROVE SentInv
  OBVIOUS
<1>1. DOMAIN buses = {}
  BY EmptyMapType DEF Init
<1> QED BY <1>1 DEF Init, SentInv, LoggedBeforeSent, Logged

\* The buses that workers know are the ones they knew.
SameBuses ==
    /\ buses' = buses
    /\ \A c \in Cancels : attached'[c] \subseteq attached[c]

LEMMA SameBusesOf ==
    ASSUME SentInv, SameBuses
    PROVE  /\ \A t \in DOMAIN buses' : Of(buses'[t], t)
           /\ \A c \in Cancels : \A b \in attached'[c] : pc[c] # "idle" /\ Of(b, taskOf[c])
BY DEF SentInv, SameBuses

\* A worker at work moves on; if its event is logged, it keeps it.
LEMMA MoveOnward ==
    ASSUME TypeInv, SentInv, NEW w \in Workers, NEW label,
           pc[w] # "idle", label # "idle", pc' = [pc EXCEPT ![w] = label],
           \/ label \notin {"getTask", "putTask", "send"}
           \/ Logged(w) /\ seq' = seq /\ event' = event,
           \A v \in Workers \ {w} : seq'[v] = seq[v] /\ event'[v] = event[v],
           taskOf' = taskOf, eventLogs' = eventLogs,
           \A t \in DOMAIN buses' : Of(buses'[t], t),
           \A c \in Cancels : \A b \in attached'[c] : pc[c] # "idle" /\ Of(b, taskOf[c])
    PROVE  Onward
<1>1. pc'[w] = label /\ \A v \in Workers \ {w} : pc'[v] = pc[v]
  BY DEF TypeInv, TypeOK
<1>2. \A t \in Tasks : \A x : Kept(x, t) => Kept(x, t)'
  BY DEF Kept
<1>3. \A v \in Workers : Logged(v)' => Logged(v) /\ Held(v)' = Held(v)
  BY <1>1 DEF Logged, Held
<1> QED BY <1>1, <1>2, <1>3 DEF Onward

LEMMA ClientOnward ==
    ASSUME TypeInv, SentInv, NEW w \in Workers, ClientStep(w)
    PROVE  Onward /\ sent' = sent
<1>0. Turns \subseteq Workers /\ Cancels \subseteq Workers
  BY DEF Workers
<1>1. CASE AbortCall(w)
  <2>1. SameBuses
    BY <1>1 DEF AbortCall, SameBuses
  <2>2. pc[w] # "idle"
    BY <1>1 DEF AbortCall, InHandler
  <2>3. \A v \in Workers \ {w} : seq'[v] = seq[v] /\ event'[v] = event[v]
    BY <1>1 DEF AbortCall, TypeInv, TypeOK
  <2> QED BY <1>1, <2>1, <2>2, <2>3, SameBusesOf, MoveOnward DEF AbortCall
<1>2. CASE ~AbortCall(w)
  <2>1. PICK label \in {"rejected", "insertBus", "signal"} :
           /\ pc[w] = "idle" /\ pc' = [pc EXCEPT ![w] = label]
           /\ \A v \in Workers \ {w} : taskOf'[v] = taskOf[v]
           /\ UNCHANGED <<eventLogs, buses, sent, attached, seq, event>>
    BY <1>2 DEF ClientStep, RefuseCall, StartNewTask, ContinueTask, StartCancel,
       TypeInv, TypeOK
  <2>2. pc'[w] = label /\ \A v \in Workers \ {w} : pc'[v] = pc[v]
    BY <2>1 DEF TypeInv, TypeOK
  <2>3. \A v \in Workers : Logged(v)' => Logged(v) /\ Held(v)' = Held(v)
    BY <2>1, <2>2 DEF Logged, Held
  <2>4. \A t \in Tasks : \A x : Kept(x, t) => Kept(x, t)'
    BY <2>1 DEF Kept
  <2>5. SameBuses
    BY <2>1 DEF SameBuses
  <2> QED BY <2>1, <2>2, <2>3, <2>4, <2>5, SameBusesOf DEF Onward
<1> QED BY <1>1, <1>2

LEMMA AppendLogOnward ==
    ASSUME TypeInv, LogInv, SentInv, NEW w \in Workers, AppendLog(w)
    PROVE  Onward /\ sent' = sent
<1>1. taskOf[w] \in Tasks /\ event[w] \in ExecutorEvents
  BY DEF TypeInv, TypeOK, HoldsOf, AppendLog, Active, PCs
<1>2. PICK item : item = Held(w)
  OBVIOUS
<1>3. item \in Item
  BY <1>1, <1>2 DEF TypeInv, TypeOK, Item, Events, Held
<1>4. PICK t \in Tasks : t = taskOf[w]
  BY <1>1
<1>5. PICK log, longer : log = eventLogs[t] /\ longer = AppendBounded(log, item)
  OBVIOUS
<1>6. eventLogs'[t] = longer /\ \A u \in Tasks \ {t} : eventLogs'[u] = eventLogs[u]
  BY <1>2, <1>4, <1>5 DEF AppendLog, Held, TypeInv, TypeOK
<1>7. log \in Seq(Item) /\ Len(log) <= EventLogCapacity
  BY <1>5 DEF LogInv, TypeInv, TypeOK
<1>8. /\ \E j \in DOMAIN longer : longer[j] = item
      /\ \/ Len(longer) = EventLogCapacity
         \/ \A i \in DOMAIN log : i \in DOMAIN longer /\ longer[i] = log[i]
      /\ Len(log) = EventLogCapacity => Len(longer) = EventLogCapacity
  <2>1. /\ longer \in Seq(Item) /\ Len(longer) <= EventLogCapacity
        /\ longer[Len(longer)] = item /\ Len(longer) > 0
        /\ \/ Len(longer) = EventLogCapacity
           \/ /\ Len(longer) = Len(log) + 1
              /\ \A i \in 1 .. Len(longer) - 1 : i \in DOMAIN log /\ longer[i] = log[i]
    BY <1>3, <1>5, <1>7, AppendBoundedIndexes, ZenonT(40)
  <2>2. Len(longer) \in DOMAIN longer
    BY <2>1
  <2>3. CASE Len(longer) = Len(log) + 1
             /\ \A i \in 1 .. Len(longer) - 1 : i \in DOMAIN log /\ longer[i] = log[i]
    <3>1. \A i \in DOMAIN log : i \in 1 .. Len(longer) - 1 /\ i \in DOMAIN longer
      BY <1>7, <2>1, <2>3
    <3> QED BY <1>7, <2>1, <2>2, <2>3, <3>1, EngineAssumption
  <2> QED BY <2>1, <2>2, <2>3
<1>9. ASSUME NEW u \in Tasks, NEW x, Kept(x, u) PROVE Kept(x, u)'
  <2>1. CASE u # t
    BY <1>6, <1>9, <2>1 DEF Kept
  <2>2. CASE u = t
    BY <1>5, <1>6, <1>8, <1>9, <2>2 DEF Kept
  <2> QED BY <2>1, <2>2
<1>10. Kept(item, t)'
  BY <1>6, <1>8 DEF Kept
<1>11. PICK label \in {"send", "getTask"} : pc' = [pc EXCEPT ![w] = label]
  BY DEF AppendLog
<1>12. /\ pc[w] = "appendLog" /\ pc'[w] = label /\ \A v \in Workers \ {w} : pc'[v] = pc[v]
       /\ UNCHANGED <<seq, event, taskOf, buses, attached, sent>>
  BY <1>11 DEF AppendLog, TypeInv, TypeOK
<1>13. Kept(Held(w), taskOf[w])'
  <2>1. item = Held(w)' /\ t = taskOf'[w]
    BY <1>2, <1>4, <1>12 DEF Held
  <2> QED BY <1>10, <2>1
<1>14. \A v \in Workers \ {w} : Logged(v)' => Logged(v) /\ Held(v)' = Held(v)
  BY <1>12 DEF Logged, Held
<1>15. SameBuses
  BY <1>12 DEF SameBuses
<1> QED BY <1>9, <1>12, <1>13, <1>14, <1>15, SameBusesOf DEF Onward

LEMMA NextSentInv == TypeInv /\ LogInv /\ SentInv /\ [Next]_vars => SentInv'
<1> SUFFICES ASSUME TypeInv, LogInv, SentInv, [Next]_vars PROVE SentInv'
  OBVIOUS
<1>0. Turns \subseteq Workers /\ Cancels \subseteq Workers
  BY DEF Workers
<1>1. ASSUME NEW w \in Workers, ClientStep(w) PROVE SentInv'
  BY <1>1, ClientOnward, SilentSentInv
<1>2. ASSUME NEW w \in Workers, ApplyStep(w) PROVE SentInv'
  <2>1. CASE SendEvent(w)
    <3>1. PICK label \in {"removeBus", "recv", "finalGet", "drain"} :
             pc' = [pc EXCEPT ![w] = label]
      BY <2>1 DEF SendEvent, AfterSend
    <3>2. \A v \in Workers \ {w} : seq'[v] = seq[v] /\ event'[v] = event[v]
      BY <2>1 DEF SendEvent, TypeInv, TypeOK
    <3>3. SameBuses
      BY <2>1 DEF SendEvent, SameBuses
    <3>4. Onward
      BY <2>1, <3>1, <3>2, <3>3, SameBusesOf, MoveOnward, ZenonT(40) DEF SendEvent
    <3>5. event[w] \in Events
      BY <2>1 DEF SendEvent, TypeInv, HoldsOf, Events
    <3> QED BY <2>1, <3>4, <3>5, BroadcastSentInv DEF SendEvent
  <2>2. CASE ReceiveEvent(w)
    <3>1. PICK label \in {"lead", "takeSeq"} : pc' = [pc EXCEPT ![w] = label]
      BY <2>2 DEF ReceiveEvent, Apply
    <3>2. \A v \in Workers \ {w} : seq'[v] = seq[v] /\ event'[v] = event[v]
      BY <2>2 DEF ReceiveEvent, Apply, TypeInv, TypeOK
    <3>3. SameBuses
      BY <2>2 DEF ReceiveEvent, SameBuses
    <3> QED BY <2>2, <3>1, <3>2, <3>3, SameBusesOf, MoveOnward, SilentSentInv DEF ReceiveEvent
  <2>3. CASE SkipEmptyArtifact(w)
    <3>1. SameBuses
      BY <2>3 DEF SkipEmptyArtifact, SameBuses
    <3>2. Onward
      BY <2>3, <3>1, SameBusesOf DEF SkipEmptyArtifact, Onward, Kept, Logged, Held
    <3> QED BY <2>3, <3>2, SilentSentInv DEF SkipEmptyArtifact
  <2>4. CASE TakeSeq(w)
    <3>1. \A v \in Workers \ {w} : seq'[v] = seq[v] /\ event'[v] = event[v]
      BY <2>4 DEF TakeSeq, FetchSeq, TypeInv, TypeOK
    <3>2. SameBuses
      BY <2>4 DEF TakeSeq, SameBuses
    <3> QED BY <2>4, <3>1, <3>2, SameBusesOf, MoveOnward, SilentSentInv DEF TakeSeq
  <2>5. CASE GetTask(w) \/ PutTask(w)
    <3>1. SameBuses
      BY <2>5 DEF GetTask, PutTask, SameBuses
    <3> QED BY <2>5, <3>1, SameBusesOf, MoveOnward, SilentSentInv DEF GetTask, PutTask, Logged
  <2>6. CASE AppendLog(w)
    BY <2>6, AppendLogOnward, SilentSentInv
  <2> QED BY <1>2, <2>1, <2>2, <2>3, <2>4, <2>5, <2>6 DEF ApplyStep
<1>3. ASSUME NEW w \in Turns, TurnStep(w) PROVE SentInv'
  <2> w \in Workers
    BY <1>0
  <2>1. CASE SendLead(w)
    <3>1. SameBuses
      BY <2>1 DEF SendLead, SameBuses
    <3>2. Onward
      BY <2>1, <3>1, SameBusesOf, MoveOnward DEF SendLead
    <3>3. PICK e : e = TaskEvent(LeadTask(w))
      OBVIOUS
    <3>4. e \in Events /\ e.kind = "task"
      BY <3>3, LeadTaskType DEF TaskEvent, Events
    <3> QED BY <2>1, <3>2, <3>3, <3>4, BroadcastSentInv DEF SendLead
  <2>2. CASE InsertBus(w)
    <3>1. taskOf[w] \in Tasks /\ IsMap(buses, Tasks, Turns)
      BY <2>2 DEF InsertBus, TypeInv, TypeOK, HoldsOf, Active, PCs
    <3>2. \A t \in DOMAIN buses' : Of(buses'[t], t)
      BY <2>2, <3>1 DEF InsertBus, Insert, Of, SentInv
    <3>3. \A c \in Cancels : \A b \in attached'[c] : pc[c] # "idle" /\ Of(b, taskOf[c])
      BY <2>2 DEF InsertBus, SentInv
    <3> QED BY <2>2, <3>2, <3>3, MoveOnward, SilentSentInv DEF InsertBus
  <2>3. CASE RemoveBus(w)
    <3>1. \A t \in DOMAIN buses' : Of(buses'[t], t)
      BY <2>3 DEF RemoveBus, Without, SentInv
    <3>2. \A c \in Cancels : \A b \in attached'[c] : pc[c] # "idle" /\ Of(b, taskOf[c])
      BY <2>3 DEF RemoveBus, SentInv
    <3> QED BY <2>3, <3>1, <3>2, MoveOnward, SilentSentInv DEF RemoveBus
  <2>4. CASE InsertToken(w) \/ ExecutorReturns(w) \/ RemoveToken(w)
    <3>1. SameBuses
      BY <2>4 DEF InsertToken, ExecutorReturns, RemoveToken, SameBuses
    <3> QED BY <2>4, <3>1, SameBusesOf, MoveOnward, SilentSentInv
            DEF InsertToken, ExecutorReturns, RemoveToken
  <2>5. CASE ExecutorFails(w)
    <3>1. PICK label \in {"lead", "takeSeq"} : pc' = [pc EXCEPT ![w] = label]
      BY <2>5 DEF ExecutorFails, Apply
    <3>2. \A v \in Workers \ {w} : seq'[v] = seq[v] /\ event'[v] = event[v]
      BY <2>5 DEF ExecutorFails, Apply, TypeInv, TypeOK
    <3>3. SameBuses
      BY <2>5 DEF ExecutorFails, SameBuses
    <3> QED BY <2>5, <3>1, <3>2, <3>3, SameBusesOf, MoveOnward, SilentSentInv DEF ExecutorFails
  <2>6. CASE TakeLeadSeq(w)
    <3>1. \A v \in Workers \ {w} : seq'[v] = seq[v] /\ event'[v] = event[v]
      BY <2>6 DEF TakeLeadSeq, FetchSeq, TypeInv, TypeOK
    <3>2. SameBuses
      BY <2>6 DEF TakeLeadSeq, SameBuses
    <3> QED BY <2>6, <3>1, <3>2, SameBusesOf, MoveOnward, SilentSentInv DEF TakeLeadSeq
  <2> QED BY <1>3, <2>1, <2>2, <2>3, <2>4, <2>5, <2>6 DEF TurnStep
<1>4. ASSUME NEW c \in Cancels, CancelStep(c) PROVE SentInv'
  <2> c \in Workers
    BY <1>0
  <2>1. CASE LookupBus(c)
    <3>1. pc[c] # "idle" /\ \A b \in attached'[c] : Of(b, taskOf[c])
      BY <2>1 DEF LookupBus, SentInv, TypeInv, TypeOK
    <3>2. \A d \in Cancels \ {c} : attached'[d] = attached[d]
      BY <2>1 DEF LookupBus, TypeInv, TypeOK
    <3>3. \A d \in Cancels : \A b \in attached'[d] : pc[d] # "idle" /\ Of(b, taskOf[d])
      BY <3>1, <3>2 DEF SentInv
    <3>4. \A t \in DOMAIN buses' : Of(buses'[t], t)
      BY <2>1 DEF LookupBus, SentInv
    <3> QED BY <2>1, <3>3, <3>4, MoveOnward, SilentSentInv DEF LookupBus
  <2>2. CASE SignalToken(c) \/ ExecutorCancelOk(c) \/ ExecutorCancelErr(c)
    <3>1. SameBuses
      BY <2>2 DEF SignalToken, ExecutorCancelOk, ExecutorCancelErr, SameBuses
    <3> QED BY <2>2, <3>1, SameBusesOf, MoveOnward, SilentSentInv
            DEF SignalToken, ExecutorCancelOk, ExecutorCancelErr
  <2>3. CASE Reread(c) \/ FinalGet(c)
    <3>1. PICK label \in {"done", "lead", "takeSeq"} : pc' = [pc EXCEPT ![c] = label]
      BY <2>3 DEF Reread, FinalGet, Return, Apply
    <3>2. \A v \in Workers \ {c} : seq'[v] = seq[v] /\ event'[v] = event[v]
      BY <2>3 DEF Reread, FinalGet, Apply, TypeInv, TypeOK
    <3>3. SameBuses
      BY <2>3 DEF Reread, FinalGet, Return, SameBuses, TypeInv, TypeOK
    <3> QED BY <2>3, <3>1, <3>2, <3>3, SameBusesOf, MoveOnward, SilentSentInv
            DEF Reread, FinalGet
  <2> QED BY <1>4, <2>1, <2>2, <2>3 DEF CancelStep
<1>5. CASE UNCHANGED vars
  <2>1. SameBuses
    BY <1>5 DEF SameBuses
  <2>2. Onward
    BY <1>5, <2>1, SameBusesOf DEF Onward, Kept, Logged, Held
  <2> QED BY <1>5, <2>2, SilentSentInv
<1> QED BY <1>1, <1>2, <1>3, <1>4, <1>5 DEF Next, ServerStep, Finished

\* Whatever a bus carries but the leading Task is in the log of the task first
\* (or the log is full and has dropped it), so that a subscriber that takes the
\* bus and then reads the log (subscribe_to_task) sees what was sent before.
THEOREM AlwaysLoggedBeforeSent == Spec => []LoggedBeforeSent
<1>1. SentInv => LoggedBeforeSent
  BY DEF SentInv
<1> QED BY <1>1, InitTypeInv, NextTypeInv, InitSeqInv, NextSeqInv, InitLogInv, NextLogInv,
           InitSentInv, NextSentInv, PTL DEF Spec

-----------------------------------------------------------------------------
(***************************************************************************)
(* Cancels.  A record is terminal only once a terminal status is in the    *)
(* log, and the CANCELED that CancelTask makes up is logged before it      *)
(* answers.                                                                *)
(***************************************************************************)
HasTerminal(t) ==
    \/ Len(eventLogs[t]) = EventLogCapacity
    \/ \E i \in DOMAIN eventLogs[t] :
          LET e == eventLogs[t][i].event
          IN e.kind = "status" /\ IsTerminal(e.state)

Rows ==
    /\ \A t \in DOMAIN store : IsTerminal(store[t].state) => HasTerminal(t)
    /\ \A w \in Workers : pc[w] = "putTask" /\ IsTerminal(pending[w][1].state) =>
          HasTerminal(taskOf[w])

Applying(w) == pc[w] \in {"takeSeq", "appendLog", "getTask", "putTask", "send"}

Canceling(c) ==
    /\ pc[c] # "recv"
    /\ pc[c] \in {"idle", "signal", "executorCancel", "lookupBus", "drain"} => ~last[c]
    /\ Applying(c) /\ last[c] => event[c] = StatusUpdate("Canceled", FALSE)
    /\ pc[c] = "finalGet" => HasTerminal(taskOf[c])
    /\ returned[c] # <<>> => pc[c] = "done" /\ taskOf[c] \in Tasks /\ HasTerminal(taskOf[c])

OutcomeInv == Rows /\ \A c \in Cancels : Canceling(c)

LEMMA InitOutcomeInv == Init => OutcomeInv
<1> SUFFICES ASSUME Init PROVE OutcomeInv
  OBVIOUS
<1>1. DOMAIN store = {}
  BY EmptyMapType DEF Init
<1>2. Cancels \subseteq Workers
  BY DEF Workers
<1> QED BY <1>1, <1>2 DEF Init, OutcomeInv, Rows, Canceling, Applying

LEMMA FullStaysFull ==
    ASSUME TypeInv, NEW w \in Workers, AppendLog(w), NEW t \in Tasks,
           Len(eventLogs[t]) = EventLogCapacity
    PROVE  Len(eventLogs'[t]) = EventLogCapacity
<1>1. taskOf[w] \in Tasks /\ event[w] \in ExecutorEvents
  BY DEF TypeInv, TypeOK, HoldsOf, AppendLog, Active, PCs
<1>2. Held(w) \in Item
  BY <1>1 DEF TypeInv, TypeOK, Item, Events, Held
<1>3. PICK log, longer : log = eventLogs[t] /\ longer = AppendBounded(log, Held(w))
  OBVIOUS
<1>4. eventLogs'[t] = log \/ eventLogs'[t] = longer
  BY <1>3 DEF AppendLog, Held, TypeInv, TypeOK
<1>5. log \in Seq(Item) /\ Len(log) = EventLogCapacity /\ EventLogCapacity \in Nat
  BY <1>3, EngineAssumption DEF TypeInv, TypeOK
<1>6. Len(longer) = EventLogCapacity
  <2>1. /\ longer \in Seq(Item) /\ Len(longer) <= EventLogCapacity
        /\ Len(longer) = EventLogCapacity \/ Len(longer) = Len(log) + 1
    BY <1>2, <1>3, <1>5, AppendBoundedIndexes
  <2> QED BY <1>5, <2>1
<1> QED BY <1>3, <1>4, <1>5, <1>6

\* Where a log changes, and what it keeps.
LEMMA TerminalStays ==
    ASSUME TypeInv, LogInv, SentInv, [Next]_vars, NEW t \in Tasks, HasTerminal(t)
    PROVE  HasTerminal(t)'
<1>1. CASE \E w \in Workers : AppendLog(w)
  <2>1. \A x : Kept(x, t) => Kept(x, t)'
    BY <1>1, AppendLogOnward DEF Onward
  <2>2. CASE Len(eventLogs[t]) = EventLogCapacity
    <3>1. Len(eventLogs'[t]) = EventLogCapacity
      BY <1>1, <2>2, FullStaysFull
    <3> QED BY <3>1 DEF HasTerminal
  <2>3. ASSUME NEW i \in DOMAIN eventLogs[t], eventLogs[t][i].event.kind = "status",
               IsTerminal(eventLogs[t][i].event.state)
        PROVE  HasTerminal(t)'
    <3>1. PICK x : x = eventLogs[t][i]
      OBVIOUS
    <3>2. Kept(x, t)
      BY <3>1 DEF Kept
    <3>3. Kept(x, t)'
      BY <2>1, <3>2
    <3> QED BY <2>3, <3>1, <3>3 DEF Kept, HasTerminal
  <2> QED BY <2>2, <2>3 DEF HasTerminal
<1>2. CASE ~ \E w \in Workers : AppendLog(w)
  <2>1. eventLogs' = eventLogs
    <3>1. ASSUME NEW w \in Workers, ClientStep(w) PROVE eventLogs' = eventLogs
      BY <3>1 DEF ClientStep, RefuseCall, AbortCall, StartNewTask, ContinueTask, StartCancel
    <3>2. ASSUME NEW w \in Workers, ApplyStep(w) PROVE eventLogs' = eventLogs
      BY <1>2, <3>2 DEF ApplyStep, ReceiveEvent, SkipEmptyArtifact, TakeSeq, GetTask,
         PutTask, SendEvent
    <3>3. ASSUME NEW w \in Workers, TurnStep(w) PROVE eventLogs' = eventLogs
      BY <3>3 DEF TurnStep, InsertBus, InsertToken, ExecutorReturns, ExecutorFails,
         TakeLeadSeq, SendLead, RemoveBus, RemoveToken
    <3>4. ASSUME NEW w \in Workers, CancelStep(w) PROVE eventLogs' = eventLogs
      BY <3>4 DEF CancelStep, SignalToken, ExecutorCancelOk, ExecutorCancelErr, LookupBus,
         Reread, FinalGet
    <3> QED BY <3>1, <3>2, <3>3, <3>4 DEF Next, ServerStep, Finished
  <2> QED BY <2>1 DEF HasTerminal
<1> QED BY <1>1, <1>2

\* A worker's step leaves the other workers where they are.
Alone(w) ==
    /\ \A v \in Workers \ {w} :
          /\ pc'[v] = pc[v] /\ last'[v] = last[v] /\ event'[v] = event[v]
          /\ taskOf'[v] = taskOf[v] /\ pending'[v] = pending[v]
          /\ seq'[v] = seq[v] /\ firstEvent'[v] = firstEvent[v]
          /\ existing'[v] = existing[v] /\ emitted'[v] = emitted[v]
    /\ \A c \in Cancels \ {w} :
          returned'[c] = returned[c] /\ attached'[c] = attached[c]

LEMMA StepsAlone ==
    ASSUME TypeInv, NEW w \in Workers, ClientStep(w) \/ ServerStep(w)
    PROVE  Alone(w)
<1> USE DEF Alone, TypeInv, TypeOK
<1>1. CASE ClientStep(w)
  <2>1. CASE AbortCall(w) \/ RefuseCall(w)
    BY <2>1 DEF AbortCall, RefuseCall
  <2>2. CASE \E t \in Tasks : StartNewTask(w, t) \/ ContinueTask(w, t) \/ StartCancel(w, t)
    BY <2>2 DEF StartNewTask, ContinueTask, StartCancel
  <2> QED BY <1>1, <2>1, <2>2 DEF ClientStep
<1>2. CASE ApplyStep(w)
  <2>1. CASE ReceiveEvent(w) \/ SkipEmptyArtifact(w)
    BY <2>1 DEF ReceiveEvent, Apply, SkipEmptyArtifact
  <2>2. CASE TakeSeq(w) \/ AppendLog(w)
    BY <2>2 DEF TakeSeq, FetchSeq, AppendLog
  <2>3. CASE GetTask(w) \/ PutTask(w) \/ SendEvent(w)
    BY <2>3 DEF GetTask, PutTask, SendEvent
  <2> QED BY <1>2, <2>1, <2>2, <2>3 DEF ApplyStep
<1>3. CASE TurnStep(w)
  <2>1. CASE InsertBus(w) \/ InsertToken(w) \/ ExecutorReturns(w) \/ ExecutorFails(w)
    BY <2>1 DEF InsertBus, InsertToken, ExecutorReturns, ExecutorFails, Apply
  <2>2. CASE TakeLeadSeq(w) \/ SendLead(w) \/ RemoveBus(w) \/ RemoveToken(w)
    BY <2>2 DEF TakeLeadSeq, FetchSeq, SendLead, RemoveBus, RemoveToken
  <2> QED BY <1>3, <2>1, <2>2 DEF TurnStep
<1>4. CASE CancelStep(w)
  <2>1. CASE SignalToken(w) \/ ExecutorCancelOk(w) \/ ExecutorCancelErr(w) \/ LookupBus(w)
    BY <2>1 DEF SignalToken, ExecutorCancelOk, ExecutorCancelErr, LookupBus
  <2>2. CASE Reread(w)
    BY <2>2 DEF Reread, Apply, Return
  <2>3. CASE FinalGet(w)
    BY <2>3 DEF FinalGet, Return
  <2> QED BY <1>4, <2>1, <2>2, <2>3 DEF CancelStep
<1> QED BY <1>1, <1>2, <1>3, <1>4 DEF ServerStep

\* The record an update finds is terminal only if the store's is.
LEMMA SeededState ==
    ASSUME NEW found, NEW first, NEW seed, NEW e, found # <<>> => found[1] \in Task
    PROVE  IsTerminal(SeededTask(found, first, seed, e).state) =>
               found # <<>> /\ IsTerminal(found[1].state)
<1>1. ASSUME found = <<>>
      PROVE  SeededTask(found, first, seed, e).state \in {"Submitted", "Working"}
  BY <1>1 DEF SeededTask, NewTask
<1>2. {"Submitted", "Working"} \cap TerminalStates = {}
  BY DEF TerminalStates
<1>3. CASE found = <<>>
  BY <1>1, <1>2, <1>3 DEF IsTerminal
<1>4. CASE found # <<>>
  <2>1. SeededTask(found, first, seed, e).state = found[1].state
    BY <1>4 DEF SeededTask, Task
  <2> QED BY <1>4, <2>1
<1> QED BY <1>3, <1>4
LEMMA OtherRows ==
    ASSUME TypeInv, LogInv, SentInv, Rows, [Next]_vars,
           NEW w \in Workers, Alone(w), store' = store, pc'[w] # "putTask"
    PROVE  Rows'
<1>1. \A t \in DOMAIN store : t \in Tasks
  BY DEF TypeInv, TypeOK, IsMap
<1>2. \A v \in Workers : pc[v] = "putTask" => taskOf[v] \in Tasks
  BY DEF TypeInv, HoldsOf, Active, PCs
<1>3. \A t \in DOMAIN store' : IsTerminal(store'[t].state) => HasTerminal(t)'
  BY <1>1, TerminalStays DEF Rows
<1>4. ASSUME NEW v \in Workers, pc'[v] = "putTask", IsTerminal(pending'[v][1].state)
      PROVE  HasTerminal(taskOf[v])'
  <2>1. v # w /\ pc[v] = "putTask" /\ pending'[v] = pending[v] /\ taskOf'[v] = taskOf[v]
    BY <1>4 DEF Alone
  <2>2. PICK t \in Tasks : t = taskOf[v]
    BY <1>2, <2>1
  <2>3. HasTerminal(t)
    BY <1>4, <2>1, <2>2 DEF Rows
  <2>4. HasTerminal(t)'
    BY <2>3, TerminalStays
  <2> QED BY <2>1, <2>2, <2>4
<1> QED BY <1>3, <1>4 DEF Rows

LEMMA FoundRecorded ==
    ASSUME TypeInv, NEW w \in Workers, pc[w] \in {"getTask", "putTask"}
    PROVE  Recorded(SeededTask(Get(taskOf[w]), firstEvent[w], Seed(w), event[w]))
<1>1. /\ taskOf[w] \in Tasks /\ event[w] \in TaskUpdates
      /\ firstEvent[w] \in BOOLEAN /\ Seed(w) \in HistoryMessage
  BY SeedType DEF TypeInv, TypeOK, HoldsOf, Active, PCs
<1>2. /\ Get(taskOf[w]) \in Option(Task)
      /\ Get(taskOf[w]) # <<>> => Recorded(Get(taskOf[w])[1])
  BY <1>1, OptionType DEF TypeInv, TypeOK, IsMap, Get
<1> QED BY <1>1, <1>2, SeededTaskRecorded

LEMMA GetTaskRows ==
    ASSUME TypeInv, SentInv, Rows, NEW w \in Workers, GetTask(w)
    PROVE  Rows'
<1> DEFINE found == SeededTask(Get(taskOf[w]), firstEvent[w], Seed(w), event[w])
           updated == UpdateTask(found, event[w], seq[w])
<1>1. pc[w] = "getTask" /\ pending' = [pending EXCEPT ![w] = <<updated>>]
      /\ UNCHANGED <<store, eventLogs, taskOf>>
      /\ \A v \in Workers \ {w} : pc'[v] = pc[v]
  BY DEF GetTask, TypeInv, TypeOK
<1>2. /\ event[w] \in TaskUpdates
      /\ Get(taskOf[w]) # <<>> => /\ taskOf[w] \in DOMAIN store
                                  /\ Get(taskOf[w])[1] = store[taskOf[w]]
                                  /\ Get(taskOf[w])[1] \in Task
  BY <1>1 DEF TypeInv, TypeOK, HoldsOf, IsMap, Get
<1>3. IsTerminal(found.state) => HasTerminal(taskOf[w])
  BY <1>2, SeededState DEF Rows
<1>4. Recorded(found)
  BY <1>1, FoundRecorded
<1> HIDE DEF found
<1>5. IsTerminal(updated.state) => HasTerminal(taskOf[w])
  <2>1. CASE event[w].kind = "status"
    <3>1. updated.state = event[w].state
      BY <1>4, <2>1 DEF UpdateTask, Recorded, Task
    <3>2. Kept(Held(w), taskOf[w])
      BY <1>1 DEF SentInv, Logged
    <3> QED BY <2>1, <3>1, <3>2 DEF Kept, Held, HasTerminal
  <2>2. CASE event[w].kind # "status"
    <3>1. updated.state = found.state
      BY <1>4, <2>2 DEF UpdateTask, Recorded, Task
    <3> QED BY <1>3, <3>1
  <2> QED BY <2>1, <2>2
<1> HIDE DEF updated
<1>6. pending'[w][1] = updated /\ \A v \in Workers \ {w} : pending'[v] = pending[v]
  BY <1>1 DEF TypeInv, TypeOK
<1>7. \A t : HasTerminal(t)' <=> HasTerminal(t)
  BY <1>1 DEF HasTerminal
<1> QED BY <1>1, <1>5, <1>6, <1>7 DEF Rows

LEMMA PutTaskRows ==
    ASSUME TypeInv, Rows, NEW w \in Workers, PutTask(w)
    PROVE  Rows'
<1>1. PICK t, new : t = taskOf[w] /\ new = pending[w][1]
  OBVIOUS
<1>2. /\ pc[w] = "putTask" /\ pc'[w] = "send" /\ store' = Insert(store, t, new)
      /\ UNCHANGED <<eventLogs, taskOf>>
      /\ \A v \in Workers \ {w} : pc'[v] = pc[v] /\ pending'[v] = pending[v]
  BY <1>1 DEF PutTask, TypeInv, TypeOK
<1>3. IsTerminal(new.state) => HasTerminal(t)
  BY <1>1, <1>2 DEF Rows
<1>4. \A u : HasTerminal(u)' <=> HasTerminal(u)
  BY <1>2 DEF HasTerminal
<1>5. \A u \in DOMAIN store' : IsTerminal(store'[u].state) => HasTerminal(u)
  BY <1>2, <1>3 DEF Insert, Rows
<1> QED BY <1>2, <1>4, <1>5 DEF Rows

LEMMA NextRows ==
    ASSUME TypeInv, LogInv, SentInv, Rows, [Next]_vars,
           NEW w \in Workers, ClientStep(w) \/ ServerStep(w)
    PROVE  Rows'
<1>0. Alone(w)
  BY StepsAlone
<1>1. CASE ClientStep(w)
  BY <1>0, <1>1, OtherRows DEF ClientStep, RefuseCall, AbortCall, StartNewTask,
     ContinueTask, StartCancel, TypeInv, TypeOK
<1>2. CASE ApplyStep(w)
  <2>1. CASE GetTask(w) \/ PutTask(w)
    BY <2>1, GetTaskRows, PutTaskRows
  <2>2. CASE ReceiveEvent(w) \/ SkipEmptyArtifact(w)
    BY <1>0, <2>2, OtherRows DEF ReceiveEvent, Apply, SkipEmptyArtifact, TypeInv, TypeOK
  <2>3. CASE TakeSeq(w) \/ AppendLog(w)
    BY <1>0, <2>3, OtherRows DEF TakeSeq, AppendLog, TypeInv, TypeOK
  <2>4. CASE SendEvent(w)
    BY <1>0, <2>4, OtherRows DEF SendEvent, AfterSend, TypeInv, TypeOK
  <2> QED BY <1>2, <2>1, <2>2, <2>3, <2>4 DEF ApplyStep
<1>3. CASE TurnStep(w)
  <2>1. CASE InsertBus(w) \/ InsertToken(w) \/ ExecutorReturns(w) \/ ExecutorFails(w)
    BY <1>0, <2>1, OtherRows
    DEF InsertBus, InsertToken, ExecutorReturns, ExecutorFails, Apply, TypeInv, TypeOK
  <2>2. CASE TakeLeadSeq(w) \/ SendLead(w) \/ RemoveBus(w) \/ RemoveToken(w)
    BY <1>0, <2>2, OtherRows
    DEF TakeLeadSeq, SendLead, RemoveBus, RemoveToken, TypeInv, TypeOK
  <2> QED BY <1>3, <2>1, <2>2 DEF TurnStep
<1>4. CASE CancelStep(w)
  <2>1. CASE SignalToken(w) \/ ExecutorCancelOk(w) \/ ExecutorCancelErr(w) \/ LookupBus(w)
    BY <1>0, <2>1, OtherRows
    DEF SignalToken, ExecutorCancelOk, ExecutorCancelErr, LookupBus, TypeInv, TypeOK
  <2>2. CASE Reread(w) \/ FinalGet(w)
    BY <1>0, <2>2, OtherRows DEF Reread, FinalGet, Apply, Return, TypeInv, TypeOK
  <2> QED BY <1>4, <2>1, <2>2 DEF CancelStep
<1> QED BY <1>1, <1>2, <1>3, <1>4 DEF ServerStep

-----------------------------------------------------------------------------
LEMMA OtherCanceling ==
    ASSUME TypeInv, LogInv, SentInv, [Next]_vars, NEW w \in Workers, Alone(w),
           NEW c \in Cancels, c # w, Canceling(c)
    PROVE  Canceling(c)'
<1>1. c \in Workers
  BY DEF Workers
<1>2. /\ pc'[c] = pc[c] /\ last'[c] = last[c] /\ event'[c] = event[c]
      /\ taskOf'[c] = taskOf[c] /\ returned'[c] = returned[c]
  BY <1>1 DEF Alone
<1>3. pc[c] = "finalGet" => taskOf[c] \in Tasks
  BY <1>1 DEF TypeInv, HoldsOf, Active, PCs
<1>4. PICK t : t = taskOf[c]
  OBVIOUS
<1>5. t \in Tasks /\ HasTerminal(t) => HasTerminal(t)'
  BY TerminalStays
<1>6. HasTerminal(taskOf[c])' <=> HasTerminal(t)'
  BY <1>2, <1>4
<1> QED BY <1>2, <1>3, <1>4, <1>5, <1>6 DEF Canceling, Applying

LEMMA OwnCanceling ==
    ASSUME TypeInv, LogInv, SentInv, Rows, [Next]_vars,
           NEW c \in Cancels, Canceling(c), ClientStep(c) \/ ServerStep(c)
    PROVE  Canceling(c)'
<1> USE DEF Applying
<1>0. c \in Workers /\ c \notin Turns
  BY EngineAssumption DEF Workers
<1>1. pc[c] # "done" => returned[c] = <<>>
  BY DEF Canceling
<1>2. CASE ClientStep(c)
  <2>1. CASE AbortCall(c)
    <3>1. pc[c] # "done" /\ pc'[c] = "aborted" /\ returned'[c] = returned[c]
      BY <1>0, <2>1 DEF AbortCall, InHandler, Ended, TypeInv, TypeOK
    <3> QED BY <1>1, <3>1 DEF Canceling
  <2>2. CASE RefuseCall(c) \/ \E t \in Tasks : StartCancel(c, t)
    <3>1. /\ pc[c] = "idle" /\ pc'[c] \in {"rejected", "signal"}
          /\ returned' = returned /\ last' = last
      BY <1>0, <2>2 DEF RefuseCall, StartCancel, TypeInv, TypeOK
    <3> QED BY <1>1, <3>1 DEF Canceling
  <2> QED BY <1>0, <1>2, <2>1, <2>2 DEF ClientStep
<1>3. CASE ApplyStep(c)
  <2>1. CASE ReceiveEvent(c)
    <3>1. /\ pc[c] \in {"recv", "drain"} /\ pc'[c] = "takeSeq"
          /\ last' = last /\ returned' = returned
      BY <1>0, <2>1 DEF ReceiveEvent, Apply, LeadsWithTask, TypeInv, TypeOK
    <3> QED BY <1>1, <3>1 DEF Canceling
  <2>2. CASE SkipEmptyArtifact(c)
    <3>1. /\ pc[c] \in {"recv", "drain"} /\ UNCHANGED <<pc, last, returned>>
      BY <2>2 DEF SkipEmptyArtifact
    <3> QED BY <1>1, <3>1 DEF Canceling
  <2>3. CASE TakeSeq(c) \/ AppendLog(c) \/ GetTask(c) \/ PutTask(c)
    <3>1. /\ Applying(c) /\ Applying(c)' /\ UNCHANGED <<last, event, returned>>
      BY <1>0, <2>3 DEF TakeSeq, AppendLog, GetTask, PutTask, TypeInv, TypeOK
    <3> QED BY <1>1, <3>1 DEF Canceling
  <2>4. CASE SendEvent(c)
    <3>1. /\ pc[c] = "send" /\ pc'[c] = IF last[c] THEN "finalGet" ELSE "drain"
          /\ UNCHANGED <<last, returned, eventLogs, taskOf>>
      BY <1>0, <2>4 DEF SendEvent, AfterSend, TypeInv, TypeOK
    <3>2. last[c] => HasTerminal(taskOf[c])
      <4>1. Kept(Held(c), taskOf[c])
        BY <1>0, <3>1 DEF SentInv, Logged
      <4>2. last[c] => Held(c).event.kind = "status" /\ IsTerminal(Held(c).event.state)
        BY <3>1 DEF Canceling, StatusUpdate, Held, IsTerminal, TerminalStates
      <4> QED BY <4>1, <4>2 DEF Kept, HasTerminal
    <3>3. last[c] => HasTerminal(taskOf[c])'
      BY <3>1, <3>2 DEF HasTerminal
    <3> QED BY <1>1, <3>1, <3>3 DEF Canceling
  <2> QED BY <1>3, <2>1, <2>2, <2>3, <2>4 DEF ApplyStep
<1>4. CASE CancelStep(c)
  <2>1. CASE SignalToken(c) \/ ExecutorCancelOk(c) \/ ExecutorCancelErr(c) \/ LookupBus(c)
    <3>1. /\ pc[c] \in {"signal", "executorCancel", "lookupBus"}
          /\ pc'[c] \in {"executorCancel", "lookupBus", "rejected", "drain"}
          /\ UNCHANGED <<last, returned>>
      BY <1>0, <2>1 DEF SignalToken, ExecutorCancelOk, ExecutorCancelErr, LookupBus,
         TypeInv, TypeOK
    <3> QED BY <1>1, <3>1 DEF Canceling
  <2>2. CASE Reread(c)
    <3>1. /\ pc[c] = "drain" /\ taskOf[c] \in Tasks /\ taskOf[c] \in DOMAIN store
          /\ UNCHANGED <<eventLogs, taskOf>>
      BY <1>0, <2>2 DEF Reread, TypeInv, HoldsOf, Active, PCs
    <3>2. CASE IsTerminal(store[taskOf[c]].state)
      <4>1. pc'[c] = "done"
        BY <1>0, <2>2, <3>2 DEF Reread, Return, TypeInv, TypeOK
      <4>2. HasTerminal(taskOf[c])'
        BY <3>1, <3>2 DEF Rows, HasTerminal
      <4> QED BY <3>1, <4>1, <4>2 DEF Canceling
    <3>3. CASE ~IsTerminal(store[taskOf[c]].state)
      <4>1. /\ pc'[c] = "takeSeq" /\ event'[c] = StatusUpdate("Canceled", FALSE)
            /\ returned' = returned
        BY <1>0, <2>2, <3>3 DEF Reread, Apply, LeadsWithTask, TypeInv, TypeOK
      <4> QED BY <1>1, <3>1, <4>1 DEF Canceling
    <3> QED BY <3>2, <3>3
  <2>3. CASE FinalGet(c)
    <3>1. /\ pc[c] = "finalGet" /\ pc'[c] = "done" /\ taskOf[c] \in Tasks
          /\ UNCHANGED <<eventLogs, taskOf>>
      BY <1>0, <2>3 DEF FinalGet, Return, TypeInv, TypeOK, HoldsOf, Active, PCs
    <3>2. HasTerminal(taskOf[c])'
      BY <3>1 DEF Canceling, HasTerminal
    <3> QED BY <3>1, <3>2 DEF Canceling
  <2> QED BY <1>4, <2>1, <2>2, <2>3 DEF CancelStep
<1> QED BY <1>0, <1>2, <1>3, <1>4 DEF ServerStep

LEMMA NextOutcomeInv ==
    TypeInv /\ LogInv /\ SentInv /\ OutcomeInv /\ [Next]_vars => OutcomeInv'
<1> SUFFICES ASSUME TypeInv, LogInv, SentInv, OutcomeInv, [Next]_vars
             PROVE  OutcomeInv'
  OBVIOUS
<1>1. ASSUME NEW w \in Workers, ClientStep(w) \/ ServerStep(w) PROVE OutcomeInv'
  <2>1. Rows'
    BY <1>1, NextRows DEF OutcomeInv
  <2>2. ASSUME NEW c \in Cancels PROVE Canceling(c)'
    <3>1. CASE c = w
      BY <1>1, <3>1, OwnCanceling DEF OutcomeInv
    <3>2. CASE c # w
      BY <1>1, <3>2, StepsAlone, OtherCanceling DEF OutcomeInv
    <3> QED BY <3>1, <3>2
  <2> QED BY <2>1, <2>2 DEF OutcomeInv
<1>2. CASE UNCHANGED vars
  BY <1>2 DEF OutcomeInv, Rows, Canceling, Applying, HasTerminal
<1> QED BY <1>1, <1>2 DEF Next, Finished

\* A CancelTask that answers has left a terminal status in the log of its task,
\* its executor's, a turn's or its own CANCELED, unless the log has dropped it:
\* a subscriber that replays the log learns that the task has ended.
THEOREM CancelAlwaysLeavesTerminalEvent == Spec => []CancelLeavesTerminalEvent
<1>1. OutcomeInv => CancelLeavesTerminalEvent
  BY DEF OutcomeInv, Canceling, HasTerminal, CancelLeavesTerminalEvent
<1> QED BY <1>1, InitTypeInv, NextTypeInv, InitSeqInv, NextSeqInv, InitLogInv, NextLogInv,
           InitSentInv, NextSentInv, InitOutcomeInv, NextOutcomeInv, PTL DEF Spec
=============================================================================
