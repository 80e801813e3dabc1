-------------------------- MODULE TaskOrder_proofs --------------------------
(***************************************************************************)
(* What TaskEngine guarantees to clients that do not let calls on a task   *)
(* overlap (NoOverlap below), for every value of the other constants:      *)
(* the log is in order, a cancel returns a terminal task, and the store    *)
(* implements TaskRecord.  None of it holds without that discipline; the   *)
(* runs engine_cancel_misses_turn and engine_terminal_overwritten show two *)
(* ways it fails.                                                          *)
(***************************************************************************)
EXTENDS TaskEngine_proofs, TaskReplay, FiniteSetTheorems, WellFoundedInduction

USE DEF vars, shared, call, turnVars, applying, cancelVars, GoTo

\* Every call on a task waits for the answers to those before it: by
\* discipline, or because only turns are started and turns wait.
NoOverlap == Pacing = "orderly" \/ (Pacing = "answered" /\ Cancels = {})

-----------------------------------------------------------------------------
(***************************************************************************)
(* One call at a time.  Of two calls on a task one has been answered; a    *)
(* turn that has been answered only cleans up.                             *)
(***************************************************************************)
OneAtATime ==
    /\ \A w \in Workers : pc[w] = "idle" => taskOf[w] = NoTask
    /\ \A v, w \in Workers :
          v # w /\ taskOf[v] = taskOf[w] /\ taskOf[v] \in Tasks =>
              Answered(v) \/ Answered(w)

Outside == {"idle", "done", "rejected", "aborted", "removeBus", "removeToken"}

\* Turns and cancels keep to their own parts of the code.
TurnPlaces ==
    {"insertBus", "insertToken", "recv", "lead", "sendLead", "removeBus", "removeToken"}
CancelPlaces == {"signal", "executorCancel", "lookupBus", "drain", "finalGet"}

PlacesInv ==
    /\ \A w \in Turns : pc[w] \notin CancelPlaces
    /\ \A c \in Cancels : pc[c] \notin TurnPlaces

\* A step as the proofs below take it: of one worker, which is named.
StepOf(w) == w \in Workers /\ (ClientStep(w) \/ ServerStep(w))

LEMMA StepsOrStutter == [Next]_vars => (\E w \in Workers : StepOf(w)) \/ UNCHANGED vars
BY DEF Next, Finished, StepOf

LEMMA StepNext == ASSUME NEW w, StepOf(w) PROVE Next
BY DEF Next, StepOf

\* A step sends one event or none.
LEMMA SentOnly ==
    ASSUME TypeInv, NEW w \in Workers, StepOf(w)
    PROVE  sent' = sent \/ \E e \in Events : Broadcast(w, e)
<1>1. CASE ClientStep(w)
  BY <1>1 DEF ClientStep, RefuseCall, AbortCall, StartNewTask, ContinueTask, StartCancel
<1>2. CASE ApplyStep(w)
  <2>1. CASE SendEvent(w)
    <3>1. event[w] \in Events
      BY <2>1 DEF SendEvent, TypeInv, HoldsOf, Events
    <3> QED BY <2>1, <3>1 DEF SendEvent
  <2>2. CASE ~SendEvent(w)
    BY <1>2, <2>2 DEF ApplyStep, ReceiveEvent, SkipEmptyArtifact, TakeSeq, AppendLog,
       GetTask, PutTask
  <2> QED BY <2>1, <2>2
<1>3. CASE w \in Turns /\ TurnStep(w)
  <2>1. CASE SendLead(w)
    <3>1. TaskEvent(LeadTask(w)) \in Events
      BY <1>3, LeadTaskType DEF TaskEvent, Events
    <3> QED BY <2>1, <3>1 DEF SendLead
  <2>2. CASE ~SendLead(w)
    BY <1>3, <2>2 DEF TurnStep, InsertBus, InsertToken, ExecutorReturns, ExecutorFails,
       TakeLeadSeq, RemoveBus, RemoveToken
  <2> QED BY <2>1, <2>2
<1>4. CASE w \in Cancels /\ CancelStep(w)
  BY <1>4 DEF CancelStep, SignalToken, ExecutorCancelOk, ExecutorCancelErr, LookupBus,
     Reread, FinalGet
<1> QED BY <1>1, <1>2, <1>3, <1>4 DEF StepOf, ServerStep

LEMMA SentGrows ==
    ASSUME TypeInv, [Next]_vars, NEW b \in Turns, NEW i \in DOMAIN sent[b]
    PROVE  i \in DOMAIN sent'[b] /\ sent'[b][i] = sent[b][i]
<1>1. CASE sent' = sent
  BY <1>1
<1>2. ASSUME NEW w \in Workers, NEW e \in Events, Broadcast(w, e)
      PROVE  i \in DOMAIN sent'[b] /\ sent'[b][i] = sent[b][i]
  <2>1. PICK item : item = [seq |-> seq[w], by |-> w, event |-> e]
    OBVIOUS
  <2>2. PICK log : log = sent[b]
    OBVIOUS
  <2>3. log \in Seq(Item) /\ item \in Item
    BY <2>1, <2>2 DEF TypeInv, TypeOK, Item
  <2>4. i \in DOMAIN Append(log, item) /\ Append(log, item)[i] = log[i]
    BY <2>2, <2>3
  <2>5. sent'[b] = log \/ sent'[b] = Append(log, item)
    BY <1>2, <2>1, <2>2 DEF Broadcast
  <2> QED BY <2>2, <2>4, <2>5
<1> QED BY <1>1, <1>2, SentOnly, StepsOrStutter

LEMMA InitPlacesInv == Init => PlacesInv
BY DEF Init, PlacesInv, Workers, TurnPlaces, CancelPlaces

\* Where a step takes its worker.
LEMMA TurnMoves ==
    ASSUME TypeInv, PlacesInv, NEW w \in Turns, StepOf(w)
    PROVE  pc'[w] \notin CancelPlaces
<1>0. w \in Workers /\ w \notin Cancels
  BY EngineAssumption DEF Workers
<1> USE <1>0 DEF TypeInv, TypeOK, CancelPlaces
<1>1. CASE ClientStep(w)
  BY <1>1 DEF ClientStep, RefuseCall, AbortCall, StartNewTask, ContinueTask
<1>2. CASE ApplyStep(w)
  <2>1. CASE ReceiveEvent(w) \/ SkipEmptyArtifact(w)
    BY <2>1 DEF ReceiveEvent, Apply, SkipEmptyArtifact, PlacesInv
  <2>2. CASE TakeSeq(w) \/ AppendLog(w) \/ GetTask(w) \/ PutTask(w)
    BY <2>2 DEF TakeSeq, AppendLog, GetTask, PutTask
  <2>3. CASE SendEvent(w)
    BY <2>3 DEF SendEvent, AfterSend
  <2> QED BY <1>2, <2>1, <2>2, <2>3 DEF ApplyStep
<1>3. CASE TurnStep(w)
  <2>1. CASE InsertBus(w) \/ InsertToken(w) \/ ExecutorReturns(w) \/ ExecutorFails(w)
    BY <2>1 DEF InsertBus, InsertToken, ExecutorReturns, ExecutorFails, Apply
  <2>2. CASE TakeLeadSeq(w) \/ SendLead(w) \/ RemoveBus(w) \/ RemoveToken(w)
    BY <2>2 DEF TakeLeadSeq, SendLead, RemoveBus, RemoveToken
  <2> QED BY <1>3, <2>1, <2>2 DEF TurnStep
<1> QED BY <1>1, <1>2, <1>3 DEF StepOf, ServerStep

LEMMA CancelMoves ==
    ASSUME TypeInv, PlacesInv, NEW c \in Cancels, StepOf(c)
    PROVE  pc'[c] \notin TurnPlaces
<1>0. c \in Workers /\ c \notin Turns
  BY EngineAssumption DEF Workers
<1> USE <1>0 DEF TypeInv, TypeOK, TurnPlaces
<1>1. CASE ClientStep(c)
  BY <1>1 DEF ClientStep, RefuseCall, AbortCall, StartCancel
<1>2. CASE ApplyStep(c)
  <2>1. CASE ReceiveEvent(c) \/ SkipEmptyArtifact(c)
    BY <2>1 DEF ReceiveEvent, Apply, LeadsWithTask, SkipEmptyArtifact, PlacesInv
  <2>2. CASE TakeSeq(c) \/ AppendLog(c) \/ GetTask(c) \/ PutTask(c)
    BY <2>2 DEF TakeSeq, AppendLog, GetTask, PutTask
  <2>3. CASE SendEvent(c)
    BY <2>3 DEF SendEvent, AfterSend
  <2> QED BY <1>2, <2>1, <2>2, <2>3 DEF ApplyStep
<1>3. CASE CancelStep(c)
  <2>1. CASE SignalToken(c) \/ ExecutorCancelOk(c) \/ ExecutorCancelErr(c) \/ LookupBus(c)
    BY <2>1 DEF SignalToken, ExecutorCancelOk, ExecutorCancelErr, LookupBus
  <2>2. CASE Reread(c) \/ FinalGet(c)
    BY <2>2 DEF Reread, FinalGet, Apply, LeadsWithTask, Return
  <2> QED BY <1>3, <2>1, <2>2 DEF CancelStep
<1> QED BY <1>1, <1>2, <1>3 DEF StepOf, ServerStep

LEMMA NextPlacesInv == TypeInv /\ PlacesInv /\ [Next]_vars => PlacesInv'
<1> SUFFICES ASSUME TypeInv, PlacesInv, [Next]_vars PROVE PlacesInv'
  OBVIOUS
<1>1. ASSUME NEW w \in Workers, StepOf(w) PROVE PlacesInv'
  <2>1. \A v \in Workers \ {w} : pc'[v] = pc[v]
    BY <1>1, StepsAlone DEF StepOf, Alone
  <2>2. /\ w \in Turns => pc'[w] \notin CancelPlaces
        /\ w \in Cancels => pc'[w] \notin TurnPlaces
    BY <1>1, TurnMoves, CancelMoves
  <2> QED BY <2>1, <2>2 DEF PlacesInv, Workers
<1>2. UNCHANGED vars => PlacesInv'
  BY DEF PlacesInv
<1> QED BY <1>1, <1>2, StepsOrStutter

LEMMA AnsweredStays ==
    ASSUME TypeInv, PlacesInv, NEW v \in Workers, Answered(v), [Next]_vars
    PROVE  Answered(v)'
<1>1. ASSUME pc[v] \in {"removeBus", "removeToken"} PROVE v \in Turns
  BY <1>1 DEF PlacesInv, TurnPlaces, Workers
<1>2. ASSUME v \in Turns, \E i \in DOMAIN sent[v] : ClosesStream(sent[v][i].event)
      PROVE  \E i \in DOMAIN sent'[v] : ClosesStream(sent'[v][i].event)
  BY <1>2, SentGrows
<1>3. CASE UNCHANGED vars
  BY <1>3 DEF Answered, Ended
<1>4. ASSUME NEW w \in Workers, StepOf(w)
      PROVE  pc'[v] = pc[v] \/ Ended(v)' \/ (pc[v] = "removeBus" /\ pc'[v] = "removeToken")
  <2>1. CASE v # w
    BY <1>4, <2>1, StepsAlone DEF StepOf, Alone
  <2>2. CASE v = w
    <3> USE DEF TypeInv, TypeOK, Answered, Ended
    <3>1. pc[v] \in {"done", "rejected", "aborted", "removeBus", "removeToken"}
      OBVIOUS
    <3>2. CASE ClientStep(v)
      BY <1>1, <3>1, <3>2 DEF ClientStep, RefuseCall, AbortCall, InHandler, StartNewTask,
         ContinueTask, StartCancel
    <3>3. CASE ApplyStep(v)
      BY <3>1, <3>3 DEF ApplyStep, ReceiveEvent, SkipEmptyArtifact, TakeSeq, AppendLog,
         GetTask, PutTask, SendEvent
    <3>4. CASE TurnStep(v)
      BY <3>1, <3>4 DEF TurnStep, InsertBus, InsertToken, ExecutorReturns, ExecutorFails,
         TakeLeadSeq, SendLead, RemoveBus, RemoveToken
    <3>5. CASE CancelStep(v)
      BY <3>1, <3>5 DEF CancelStep, SignalToken, ExecutorCancelOk, ExecutorCancelErr,
         LookupBus, Reread, FinalGet
    <3> QED BY <1>4, <2>2, <3>2, <3>3, <3>4, <3>5 DEF StepOf, ServerStep
  <2> QED BY <2>1, <2>2
<1>5. ASSUME NEW w \in Workers, StepOf(w) PROVE Answered(v)'
  <2>1. pc'[v] = pc[v] \/ Ended(v)' \/ (pc[v] = "removeBus" /\ pc'[v] = "removeToken")
    BY <1>4, <1>5
  <2> QED BY <1>1, <1>2, <2>1 DEF Answered, Ended
<1> QED BY <1>3, <1>5, StepsOrStutter

\* A call keeps its task, and takes one only when it may.
LEMMA TasksKept ==
    ASSUME TypeInv, PlacesInv, NEW w \in Workers, StepOf(w)
    PROVE  \/ taskOf' = taskOf /\ (pc'[w] = "idle" => pc[w] = "idle")
           \/ /\ pc[w] = "idle" /\ pc'[w] # "idle"
              /\ \E t \in Tasks :
                    /\ taskOf' = [taskOf EXCEPT ![w] = t]
                    /\ \/ \A v \in Workers : taskOf[v] # t
                       \/ w \in Turns /\ MaySendMessage(t)
                       \/ w \in Cancels /\ MayCancel(t)
<1> USE DEF TypeInv, TypeOK
<1>1. CASE ClientStep(w)
  BY <1>1 DEF ClientStep, RefuseCall, AbortCall, StartNewTask, ContinueTask, StartCancel
<1>2. CASE ApplyStep(w)
  BY <1>2 DEF ApplyStep, ReceiveEvent, Apply, SkipEmptyArtifact, TakeSeq, AppendLog,
     GetTask, PutTask, SendEvent, AfterSend
<1>3. CASE TurnStep(w)
  BY <1>3 DEF TurnStep, InsertBus, InsertToken, ExecutorReturns, ExecutorFails, Apply,
     TakeLeadSeq, SendLead, RemoveBus, RemoveToken
<1>4. CASE CancelStep(w)
  BY <1>4 DEF CancelStep, SignalToken, ExecutorCancelOk, ExecutorCancelErr, LookupBus,
     Reread, Apply, FinalGet, Return
<1> QED BY <1>1, <1>2, <1>3, <1>4 DEF StepOf, ServerStep

LEMMA InitOneAtATime == Init => OneAtATime
BY EngineAssumption DEF Init, OneAtATime

LEMMA NextOneAtATime ==
    ASSUME NoOverlap
    PROVE  TypeInv /\ PlacesInv /\ OneAtATime /\ [Next]_vars => OneAtATime'
<1> SUFFICES ASSUME TypeInv, PlacesInv, OneAtATime, [Next]_vars PROVE OneAtATime'
  OBVIOUS
<1>1. CASE UNCHANGED vars
  BY <1>1 DEF OneAtATime, Answered, Ended
<1>2. ASSUME NEW w \in Workers, StepOf(w) PROVE OneAtATime'
  <2>1. \A v \in Workers : Answered(v) => Answered(v)'
    BY AnsweredStays
  <2>2. \A v \in Workers \ {w} : pc'[v] = pc[v] /\ taskOf'[v] = taskOf[v]
    BY <1>2, StepsAlone DEF StepOf, Alone
  <2>3. CASE taskOf' = taskOf /\ (pc'[w] = "idle" => pc[w] = "idle")
    BY <2>1, <2>2, <2>3 DEF OneAtATime
  <2>4. ASSUME NEW t \in Tasks, pc'[w] # "idle", taskOf' = [taskOf EXCEPT ![w] = t],
               \/ \A v \in Workers : taskOf[v] # t
               \/ w \in Turns /\ MaySendMessage(t)
               \/ w \in Cancels /\ MayCancel(t)
        PROVE  OneAtATime'
    <3>1. taskOf'[w] = t
      BY <2>4 DEF TypeInv, TypeOK
    <3>2. \A v \in Workers : taskOf[v] = t => Answered(v)
      BY <2>4 DEF NoOverlap, MaySendMessage, MayCancel, CallsOn, Workers
    <3> QED BY <2>1, <2>2, <2>4, <3>1, <3>2 DEF OneAtATime
  <2> QED BY <1>2, <2>3, <2>4, TasksKept
<1> QED BY <1>1, <1>2, StepsOrStutter

-----------------------------------------------------------------------------
(***************************************************************************)
(* A record and its log.  While a call on a task is not answered, no other *)
(* worker changes the task's record or its log.                            *)
(***************************************************************************)
LEMMA Untouched ==
    ASSUME TypeInv, NEW w \in Workers, StepOf(w), NEW t \in Tasks,
           taskOf[w] # t \/ pc[w] \notin {"appendLog", "putTask"}
    PROVE  Get(t)' = Get(t) /\ eventLogs'[t] = eventLogs[t]
<1> USE DEF Get
<1>1. CASE ClientStep(w)
  BY <1>1 DEF ClientStep, RefuseCall, AbortCall, StartNewTask, ContinueTask, StartCancel
<1>2. CASE ApplyStep(w)
  <2>1. CASE AppendLog(w)
    BY <2>1 DEF AppendLog, TypeInv, TypeOK
  <2>2. CASE PutTask(w)
    BY <2>2 DEF PutTask, Insert
  <2>3. CASE ~AppendLog(w) /\ ~PutTask(w)
    BY <1>2, <2>3 DEF ApplyStep, ReceiveEvent, SkipEmptyArtifact, TakeSeq, GetTask, SendEvent
  <2> QED BY <2>1, <2>2, <2>3
<1>3. CASE TurnStep(w)
  BY <1>3 DEF TurnStep, InsertBus, InsertToken, ExecutorReturns, ExecutorFails,
     TakeLeadSeq, SendLead, RemoveBus, RemoveToken
<1>4. CASE CancelStep(w)
  BY <1>4 DEF CancelStep, SignalToken, ExecutorCancelOk, ExecutorCancelErr, LookupBus,
     Reread, FinalGet
<1> QED BY <1>1, <1>2, <1>3, <1>4 DEF StepOf, ServerStep

LEMMA OthersUntouched ==
    ASSUME TypeInv, OneAtATime, NEW w \in Workers, StepOf(w),
           NEW v \in Workers, v # w, ~Answered(v), NEW t \in Tasks, t = taskOf[v]
    PROVE  Get(t)' = Get(t) /\ eventLogs'[t] = eventLogs[t]
<1>1. taskOf[w] = t => Answered(w)
  BY DEF OneAtATime
<1>2. Answered(w) => pc[w] \notin {"appendLog", "putTask"}
  BY DEF Answered, Ended
<1>3. taskOf[w] # t \/ pc[w] \notin {"appendLog", "putTask"}
  BY <1>1, <1>2
<1> QED BY <1>3, Untouched

-----------------------------------------------------------------------------
(***************************************************************************)
(* The order of the log.                                                   *)
(***************************************************************************)
Ordered(log) == \A i, j \in DOMAIN log : i < j => log[i].seq < log[j].seq

Below(log, n) == \A i \in DOMAIN log : log[i].seq < n

OrderInv ==
    /\ \A t \in Tasks : Ordered(eventLogs[t])
    /\ \A w \in Workers : pc[w] = "appendLog" => Below(eventLogs[taskOf[w]], seq[w])

LEMMA AppendBoundedOrdered ==
    ASSUME NEW log \in Seq(Item), NEW item \in Item, Len(log) <= EventLogCapacity,
           Ordered(log), Below(log, item.seq)
    PROVE  Ordered(AppendBounded(log, item))
<1>1. PICK longer, n : longer = AppendBounded(log, item) /\ n = Len(longer)
  OBVIOUS
<1>2. /\ longer \in Seq(Item)
      /\ longer[n] = item
      /\ \/ \A i \in 1 .. n - 1 : i + 1 \in DOMAIN log /\ longer[i] = log[i + 1]
         \/ \A i \in 1 .. n - 1 : i \in DOMAIN log /\ longer[i] = log[i]
  BY <1>1, AppendBoundedIndexes, ZenonT(40)
<1>3. n \in Nat /\ DOMAIN longer = 1 .. n
  BY <1>1, <1>2
<1>4. ASSUME NEW i \in 1 .. n, NEW j \in 1 .. n, i < j
      PROVE  longer[i].seq < longer[j].seq
  <2>1. i \in 1 .. n - 1
    BY <1>3, <1>4
  <2>2. CASE j = n
    <3>1. \E k \in DOMAIN log : longer[i] = log[k]
      BY <1>2, <2>1
    <3> QED BY <1>2, <2>2, <3>1 DEF Below
  <2>3. CASE j # n
    <3>1. j \in 1 .. n - 1
      BY <1>3, <2>3
    <3>2. CASE \A k \in 1 .. n - 1 : k + 1 \in DOMAIN log /\ longer[k] = log[k + 1]
      <4>1. i + 1 \in DOMAIN log /\ j + 1 \in DOMAIN log /\ i + 1 < j + 1
        BY <1>3, <1>4, <2>1, <3>1, <3>2
      <4> QED BY <2>1, <3>1, <3>2, <4>1 DEF Ordered
    <3>3. CASE \A k \in 1 .. n - 1 : k \in DOMAIN log /\ longer[k] = log[k]
      BY <1>4, <2>1, <3>1, <3>3 DEF Ordered
    <3> QED BY <1>2, <3>2, <3>3
  <2> QED BY <2>2, <2>3
<1> QED BY <1>1, <1>3, <1>4 DEF Ordered

LEMMA InitOrderInv == Init => OrderInv
BY DEF Init, OrderInv, Ordered

\* The worker whose step it is: it appends in order, and a number it has just
\* taken is above all those in the logs.
LEMMA OwnOrder ==
    ASSUME TypeInv, SeqInv, LogInv, OrderInv, NEW w \in Workers, StepOf(w)
    PROVE  /\ \A t \in Tasks : Ordered(eventLogs'[t])
           /\ pc'[w] = "appendLog" => Below(eventLogs'[taskOf'[w]], seq'[w])
<1>1. CASE AppendLog(w)
  <2>1. taskOf[w] \in Tasks /\ event[w] \in ExecutorEvents /\ pc[w] = "appendLog"
    BY <1>1 DEF TypeInv, TypeOK, HoldsOf, AppendLog, Active, PCs
  <2>2. Held(w) \in Item /\ Held(w).seq = seq[w]
    BY <2>1 DEF TypeInv, TypeOK, Item, Events, Held
  <2>3. PICK log, longer : log = eventLogs[taskOf[w]] /\ longer = AppendBounded(log, Held(w))
    OBVIOUS
  <2>4. log \in Seq(Item) /\ Len(log) <= EventLogCapacity /\ Ordered(log) /\ Below(log, seq[w])
    BY <2>1, <2>3 DEF LogInv, OrderInv, TypeInv, TypeOK
  <2>5. Ordered(longer)
    BY <2>2, <2>3, <2>4, AppendBoundedOrdered
  <2>6. \A t \in Tasks : eventLogs'[t] = IF t = taskOf[w] THEN longer ELSE eventLogs[t]
    BY <1>1, <2>3 DEF AppendLog, Held, TypeInv, TypeOK
  <2>7. pc'[w] # "appendLog"
    BY <1>1 DEF AppendLog, TypeInv, TypeOK
  <2> QED BY <2>5, <2>6, <2>7 DEF OrderInv
<1>2. CASE TakeSeq(w)
  <2>1. eventLogs' = eventLogs /\ taskOf' = taskOf /\ taskOf[w] \in Tasks /\ seq'[w] = nextSeq
    BY <1>2 DEF TakeSeq, FetchSeq, TypeInv, TypeOK, HoldsOf, Active, PCs
  <2>2. \A i \in DOMAIN eventLogs[taskOf[w]] : eventLogs[taskOf[w]][i] \in Items
    BY <2>1, LoggedItem DEF Items
  <2> QED BY <2>1, <2>2 DEF OrderInv, SeqInv, Below
<1>3. CASE ~AppendLog(w) /\ ~TakeSeq(w)
  <2> USE DEF TypeInv, TypeOK
  <2>1. CASE ClientStep(w)
    BY <2>1 DEF OrderInv, ClientStep, RefuseCall, AbortCall, StartNewTask, ContinueTask,
       StartCancel
  <2>2. CASE ApplyStep(w)
    <3>1. eventLogs' = eventLogs /\ pc'[w] # "appendLog"
      BY <1>3, <2>2 DEF ApplyStep, ReceiveEvent, Apply, SkipEmptyArtifact, GetTask, PutTask,
         SendEvent, AfterSend
    <3> QED BY <3>1 DEF OrderInv
  <2>3. CASE TurnStep(w)
    <3>1. eventLogs' = eventLogs /\ pc'[w] # "appendLog"
      BY <2>3 DEF TurnStep, InsertBus, InsertToken, ExecutorReturns, ExecutorFails, Apply,
         TakeLeadSeq, SendLead, RemoveBus, RemoveToken
    <3> QED BY <3>1 DEF OrderInv
  <2>4. CASE CancelStep(w)
    <3>1. eventLogs' = eventLogs /\ pc'[w] # "appendLog"
      BY <2>4 DEF CancelStep, SignalToken, ExecutorCancelOk, ExecutorCancelErr, LookupBus,
         Reread, Apply, FinalGet, Return
    <3> QED BY <3>1 DEF OrderInv
  <2> QED BY <2>1, <2>2, <2>3, <2>4 DEF StepOf, ServerStep
<1> QED BY <1>1, <1>2, <1>3

LEMMA NextOrderInv ==
    TypeInv /\ SeqInv /\ LogInv /\ OneAtATime /\ OrderInv /\ [Next]_vars => OrderInv'
<1> SUFFICES ASSUME TypeInv, SeqInv, LogInv, OneAtATime, OrderInv, [Next]_vars
             PROVE  OrderInv'
  OBVIOUS
<1>1. CASE UNCHANGED vars
  BY <1>1 DEF OrderInv, Ordered, Below
<1>2. ASSUME NEW w \in Workers, StepOf(w) PROVE OrderInv'
  <2>1. /\ \A t \in Tasks : Ordered(eventLogs'[t])
        /\ pc'[w] = "appendLog" => Below(eventLogs'[taskOf'[w]], seq'[w])
    BY <1>2, OwnOrder
  <2>2. ASSUME NEW v \in Workers, v # w, pc'[v] = "appendLog"
        PROVE  Below(eventLogs'[taskOf'[v]], seq'[v])
    <3>1. pc[v] = "appendLog" /\ taskOf'[v] = taskOf[v] /\ seq'[v] = seq[v]
      BY <1>2, <2>2, StepsAlone DEF StepOf, Alone
    <3>2. taskOf[v] \in Tasks /\ ~Answered(v)
      BY <3>1 DEF TypeInv, HoldsOf, Active, PCs, Answered, Ended
    <3>3. eventLogs'[taskOf[v]] = eventLogs[taskOf[v]]
      BY <1>2, <2>2, <3>2, OthersUntouched
    <3> QED BY <3>1, <3>3 DEF OrderInv
  <2> QED BY <2>1, <2>2 DEF OrderInv, Ordered, Below
<1> QED BY <1>1, <1>2, StepsOrStutter

\* While calls on a task do not overlap, its log is in the order of the
\* sequence numbers, so that the number of the last replayed entry
\* (max_replayed) bounds all that a subscriber has been given.
THEOREM LogAlwaysOrdered ==
    ASSUME NoOverlap
    PROVE  Spec => []LogIsOrdered
<1>1. OrderInv => LogIsOrdered
  BY DEF OrderInv, Ordered, LogIsOrdered
<1> QED BY <1>1, InitTypeInv, NextTypeInv, InitSeqInv, NextSeqInv, InitLogInv, NextLogInv,
           InitPlacesInv, NextPlacesInv, InitOneAtATime, NextOneAtATime, InitOrderInv,
           NextOrderInv, PTL DEF Spec
-----------------------------------------------------------------------------
(***************************************************************************)
(* What a call writes.  Nobody has written the record since the call read  *)
(* it, so what it puts is an update of what is stored.                     *)
(***************************************************************************)
Updated(w) ==
    UpdateTask(SeededTask(Get(taskOf[w]), firstEvent[w], Seed(w), event[w]),
               event[w], seq[w])

Current(w) ==
    /\ pending[w][1] = Updated(w)
    /\ Get(taskOf[w]) # <<>> =>
          ~In(AgentMessage(seq[w]), Get(taskOf[w])[1].history)

RowInv ==
    /\ nextSeq >= 1
    /\ \A w \in Workers : pc[w] \in {"appendLog", "getTask", "putTask"} => seq[w] >= 1
    /\ \A w \in Workers : pc[w] = "putTask" => Current(w)

LEMMA InitRowInv == Init => RowInv
BY DEF Init, RowInv

\* The counter and the numbers taken from it.
LEMMA CounterGrows ==
    ASSUME TypeInv, NEW w \in Workers, StepOf(w)
    PROVE  /\ nextSeq' = nextSeq \/ nextSeq' = nextSeq + 1
           /\ pc'[w] \in {"appendLog", "getTask", "putTask"} =>
                 \/ seq'[w] = nextSeq
                 \/ seq'[w] = seq[w] /\ pc[w] \in {"appendLog", "getTask", "putTask"}
<1> USE DEF TypeInv, TypeOK
<1>1. CASE ClientStep(w)
  BY <1>1 DEF ClientStep, RefuseCall, AbortCall, StartNewTask, ContinueTask, StartCancel
<1>2. CASE ApplyStep(w)
  BY <1>2 DEF ApplyStep, ReceiveEvent, Apply, SkipEmptyArtifact, TakeSeq, FetchSeq,
     AppendLog, GetTask, PutTask, SendEvent, AfterSend
<1>3. CASE TurnStep(w)
  BY <1>3 DEF TurnStep, InsertBus, InsertToken, ExecutorReturns, ExecutorFails, Apply,
     TakeLeadSeq, FetchSeq, SendLead, RemoveBus, RemoveToken
<1>4. CASE CancelStep(w)
  BY <1>4 DEF CancelStep, SignalToken, ExecutorCancelOk, ExecutorCancelErr, LookupBus,
     Reread, Apply, FinalGet, Return
<1> QED BY <1>1, <1>2, <1>3, <1>4 DEF StepOf, ServerStep

LEMMA OnlyGetTaskPends ==
    ASSUME TypeInv, NEW w \in Workers, StepOf(w), pc'[w] = "putTask"
    PROVE  GetTask(w)
<1> USE DEF TypeInv, TypeOK
<1>1. ~ClientStep(w)
  BY DEF ClientStep, RefuseCall, AbortCall, StartNewTask, ContinueTask, StartCancel
<1>2. ApplyStep(w) => GetTask(w)
  BY DEF ApplyStep, ReceiveEvent, Apply, SkipEmptyArtifact, TakeSeq, AppendLog, PutTask,
     SendEvent, AfterSend
<1>3. ~TurnStep(w)
  BY DEF TurnStep, InsertBus, InsertToken, ExecutorReturns, ExecutorFails, Apply,
     TakeLeadSeq, SendLead, RemoveBus, RemoveToken
<1>4. ~CancelStep(w)
  BY DEF CancelStep, SignalToken, ExecutorCancelOk, ExecutorCancelErr, LookupBus,
     Reread, Apply, FinalGet, Return
<1> QED BY <1>1, <1>2, <1>3, <1>4 DEF StepOf, ServerStep

LEMMA OwnCurrent ==
    ASSUME TypeInv, HistoryInv, NEW w \in Workers, GetTask(w)
    PROVE  Current(w)'
<1>1. PICK t, e, n, first, seed :
         t = taskOf[w] /\ e = event[w] /\ n = seq[w] /\ first = firstEvent[w] /\ seed = Seed(w)
  OBVIOUS
<1>2. /\ taskOf'[w] = t /\ event'[w] = e /\ seq'[w] = n /\ firstEvent'[w] = first
      /\ Get(t)' = Get(t) /\ Seed(w)' = seed
  BY <1>1 DEF GetTask, Get, Seed
<1>3. pending'[w][1] = UpdateTask(SeededTask(Get(t), first, seed, e), e, n)
  BY <1>1 DEF GetTask, TypeInv, TypeOK
<1>4. pending'[w][1] = Updated(w)'
  BY <1>2, <1>3 DEF Updated
<1>5. Get(t) # <<>> => ~In(AgentMessage(n), Get(t)[1].history)
  BY <1>1 DEF HistoryInv, Clean, Unapplied, GetTask, Get
<1> QED BY <1>2, <1>4, <1>5 DEF Current

LEMMA OtherCurrent ==
    ASSUME TypeInv, OneAtATime, NEW w \in Workers, StepOf(w),
           NEW v \in Workers, v # w, pc[v] = "putTask", Current(v)
    PROVE  Current(v)'
<1>1. PICK t, e, n, first, seed :
         t = taskOf[v] /\ e = event[v] /\ n = seq[v] /\ first = firstEvent[v] /\ seed = Seed(v)
  OBVIOUS
<1>2. t \in Tasks /\ ~Answered(v)
  BY <1>1 DEF TypeInv, HoldsOf, Active, PCs, Answered, Ended
<1>3. /\ taskOf'[v] = t /\ event'[v] = e /\ seq'[v] = n /\ firstEvent'[v] = first
      /\ pending'[v] = pending[v] /\ Seed(v)' = seed
  BY <1>1, StepsAlone DEF StepOf, Alone, Seed
<1>4. Get(t)' = Get(t)
  BY <1>1, <1>2, OthersUntouched
<1> QED BY <1>1, <1>3, <1>4 DEF Current, Updated

LEMMA NextRowInv ==
    TypeInv /\ HistoryInv /\ OneAtATime /\ RowInv /\ [Next]_vars => RowInv'
<1> SUFFICES ASSUME TypeInv, HistoryInv, OneAtATime, RowInv, [Next]_vars
             PROVE  RowInv'
  OBVIOUS
<1>1. CASE UNCHANGED vars
  BY <1>1 DEF RowInv, Current, Updated, Get, Seed
<1>2. ASSUME NEW w \in Workers, StepOf(w) PROVE RowInv'
  <2>1. nextSeq \in Nat /\ nextSeq >= 1
    BY DEF TypeInv, TypeOK, RowInv
  <2>2. \A v \in Workers \ {w} : pc'[v] = pc[v] /\ seq'[v] = seq[v]
    BY <1>2, StepsAlone DEF StepOf, Alone
  <2>3. nextSeq' >= 1
    BY <1>2, <2>1, CounterGrows
  <2>4. \A v \in Workers : pc'[v] \in {"appendLog", "getTask", "putTask"} => seq'[v] >= 1
    BY <1>2, <2>1, <2>2, CounterGrows DEF RowInv
  <2>5. ASSUME NEW v \in Workers, pc'[v] = "putTask" PROVE Current(v)'
    <3>1. CASE v = w
      BY <1>2, <2>5, <3>1, OnlyGetTaskPends, OwnCurrent
    <3>2. CASE v # w
      BY <1>2, <2>2, <2>5, <3>2, OtherCurrent DEF RowInv
    <3> QED BY <3>1, <3>2
  <2> QED BY <2>3, <2>4, <2>5 DEF RowInv
<1> QED BY <1>1, <1>2, StepsOrStutter

-----------------------------------------------------------------------------
(***************************************************************************)
(* What a cancel returns.  The CANCELED it makes up is what is stored when *)
(* it reads the task for the last time.                                    *)
(***************************************************************************)
TerminalRow(t) == Get(t) # <<>> /\ IsTerminal(Get(t)[1].state)

FinalInv ==
    \A c \in Cancels :
        /\ pc[c] = "finalGet" \/ (pc[c] = "send" /\ last[c]) => TerminalRow(taskOf[c])
        /\ returned[c] # <<>> => IsTerminal(returned[c][1].state)

LEMMA InitFinalInv == Init => FinalInv
BY DEF Init, FinalInv, Workers

\* An update by a status leaves the state of the status.
LEMMA StatusOfUpdate ==
    ASSUME NEW found, Recorded(found), NEW e, NEW n
    PROVE  UpdateTask(found, e, n).state = IF e.kind = "status" THEN e.state ELSE found.state
BY DEF UpdateTask, Recorded, Task

LEMMA RowOfPut ==
    ASSUME NEW w \in Workers, PutTask(w), NEW t, t = taskOf[w]
    PROVE  Get(t)' = <<pending[w][1]>>
BY DEF PutTask, Insert, Get

LEMMA OwnFinal ==
    ASSUME TypeInv, RowInv, NEW c \in Cancels, Canceling(c), StepOf(c),
           pc[c] = "finalGet" \/ (pc[c] = "send" /\ last[c]) => TerminalRow(taskOf[c]),
           returned[c] # <<>> => IsTerminal(returned[c][1].state)
    PROVE  /\ pc'[c] = "finalGet" \/ (pc'[c] = "send" /\ last'[c]) => TerminalRow(taskOf[c])'
           /\ returned'[c] # <<>> => IsTerminal(returned'[c][1].state)
<1>0. c \in Workers /\ c \notin Turns
  BY EngineAssumption DEF Workers
<1> USE <1>0 DEF TypeInv, TypeOK
<1>1. CASE ClientStep(c)
  <2>1. returned' = returned /\ pc'[c] \notin {"finalGet", "send"}
    BY <1>1 DEF ClientStep, RefuseCall, AbortCall, StartCancel
  <2> QED BY <2>1
<1>2. CASE ApplyStep(c)
  <2>1. CASE ReceiveEvent(c) \/ SkipEmptyArtifact(c) \/ TakeSeq(c) \/ GetTask(c)
    <3>1. returned' = returned /\ pc'[c] \notin {"finalGet", "send"}
      BY <2>1 DEF ReceiveEvent, Apply, LeadsWithTask, SkipEmptyArtifact, TakeSeq, GetTask
    <3> QED BY <3>1
  <2>2. CASE AppendLog(c)
    <3>1. returned' = returned /\ last' = last /\ pc[c] = "appendLog"
          /\ pc'[c] = IF event[c].kind = "message" THEN "send" ELSE "getTask"
      BY <2>2 DEF AppendLog
    <3>2. last[c] => event[c].kind = "status"
      BY <3>1 DEF Canceling, Applying, StatusUpdate
    <3> QED BY <3>1, <3>2
  <2>3. CASE PutTask(c)
    <3>1. PICK t, e, found :
             /\ t = taskOf[c] /\ e = event[c]
             /\ found = SeededTask(Get(taskOf[c]), firstEvent[c], Seed(c), event[c])
      OBVIOUS
    <3>2. /\ pc[c] = "putTask" /\ pc'[c] = "send" /\ returned' = returned /\ last' = last
          /\ taskOf'[c] = t /\ e \in TaskUpdates
      BY <2>3, <3>1 DEF PutTask, HoldsOf
    <3>3. pending[c][1] = UpdateTask(found, e, seq[c])
      BY <3>1, <3>2 DEF RowInv, Current, Updated
    <3>4. last[c] => e = StatusUpdate("Canceled", FALSE)
      BY <3>1, <3>2 DEF Canceling, Applying
    <3>5. last[c] => pending[c][1].state = "Canceled"
      <4>1. e.kind = "status" /\ e.state = "Canceled" => UpdateTask(found, e, seq[c]).state = "Canceled"
        BY <3>3, <3>2 DEF UpdateTask
      <4> QED BY <3>3, <3>4, <4>1 DEF StatusUpdate
    <3>6. Get(t)' = <<pending[c][1]>>
      BY <2>3, <3>1, RowOfPut
    <3>7. last[c] => Get(t)' # <<>> /\ IsTerminal(Get(t)'[1].state)
      BY <3>5, <3>6 DEF IsTerminal, TerminalStates
    <3> QED BY <3>2, <3>7 DEF TerminalRow
  <2>4. CASE SendEvent(c)
    <3>1. /\ pc[c] = "send" /\ pc'[c] = IF last[c] THEN "finalGet" ELSE "drain"
          /\ UNCHANGED <<returned, last, store, taskOf>>
      BY <2>4 DEF SendEvent, AfterSend
    <3> QED BY <3>1 DEF TerminalRow, Get
  <2> QED BY <1>2, <2>1, <2>2, <2>3, <2>4 DEF ApplyStep
<1>3. CASE CancelStep(c)
  <2>1. CASE SignalToken(c) \/ ExecutorCancelOk(c) \/ ExecutorCancelErr(c) \/ LookupBus(c)
    <3>1. returned' = returned /\ pc'[c] \notin {"finalGet", "send"}
      BY <2>1 DEF SignalToken, ExecutorCancelOk, ExecutorCancelErr, LookupBus
    <3> QED BY <3>1
  <2>2. CASE Reread(c)
    <3>1. pc'[c] \in {"done", "takeSeq"}
      BY <2>2 DEF Reread, Apply, LeadsWithTask, Return
    <3>2. returned'[c] = returned[c] \/ IsTerminal(returned'[c][1].state)
      <4>1. PICK task : task = store[taskOf[c]]
        OBVIOUS
      <4>2. CASE IsTerminal(task.state)
        <5>1. returned'[c] = <<task>>
          BY <2>2, <4>1, <4>2 DEF Reread, Return
        <5> QED BY <4>2, <5>1
      <4>3. CASE ~IsTerminal(task.state)
        BY <2>2, <4>1, <4>3 DEF Reread
      <4> QED BY <4>2, <4>3
    <3> QED BY <3>1, <3>2
  <2>3. CASE FinalGet(c)
    <3>1. /\ pc[c] = "finalGet" /\ pc'[c] = "done"
          /\ returned'[c] = <<store[taskOf[c]]>> /\ taskOf[c] \in DOMAIN store
      BY <2>3 DEF FinalGet, Return, HoldsOf, Active, PCs
    <3>2. IsTerminal(store[taskOf[c]].state)
      BY <3>1 DEF TerminalRow, Get
    <3> QED BY <3>1, <3>2
  <2> QED BY <1>3, <2>1, <2>2, <2>3 DEF CancelStep
<1> QED BY <1>1, <1>2, <1>3 DEF StepOf, ServerStep

LEMMA NextFinalInv ==
    TypeInv /\ OneAtATime /\ RowInv /\ OutcomeInv /\ FinalInv /\ [Next]_vars => FinalInv'
<1> SUFFICES ASSUME TypeInv, OneAtATime, RowInv, OutcomeInv, FinalInv, [Next]_vars
             PROVE  FinalInv'
  OBVIOUS
<1>1. CASE UNCHANGED vars
  BY <1>1 DEF FinalInv, TerminalRow, Get
<1>2. ASSUME NEW w \in Workers, StepOf(w), NEW c \in Cancels
      PROVE  /\ pc'[c] = "finalGet" \/ (pc'[c] = "send" /\ last'[c]) => TerminalRow(taskOf[c])'
             /\ returned'[c] # <<>> => IsTerminal(returned'[c][1].state)
  <2>1. c \in Workers /\ Canceling(c)
    BY DEF Workers, OutcomeInv
  <2>2. CASE c = w
    BY <1>2, <2>1, <2>2, OwnFinal DEF FinalInv
  <2>3. CASE c # w
    <3>1. PICK t : t = taskOf[c]
      OBVIOUS
    <3>2. /\ pc'[c] = pc[c] /\ last'[c] = last[c] /\ taskOf'[c] = t
          /\ returned'[c] = returned[c]
      BY <1>2, <2>1, <2>3, <3>1, StepsAlone DEF StepOf, Alone
    <3>3. ASSUME pc[c] \in {"finalGet", "send"} PROVE Get(t)' = Get(t)
      <4>1. t \in Tasks /\ ~Answered(c)
        BY <2>1, <3>1, <3>3 DEF TypeInv, HoldsOf, Active, PCs, Answered, Ended
      <4> QED BY <1>2, <2>1, <2>3, <3>1, <4>1, OthersUntouched
    <3> QED BY <3>1, <3>2, <3>3 DEF FinalInv, TerminalRow
  <2> QED BY <2>2, <2>3
<1> QED BY <1>1, <1>2, StepsOrStutter DEF FinalInv

\* While calls on a task do not overlap, a CancelTask that answers returns a
\* task in a terminal state (the guarantee engine.rs documents), whatever its
\* executor reported and even if it reported nothing.
THEOREM CancelAlwaysReturnsTerminal ==
    ASSUME NoOverlap
    PROVE  Spec => []CancelReturnsTerminal
<1>1. FinalInv => CancelReturnsTerminal
  BY DEF FinalInv, CancelReturnsTerminal
<1> QED BY <1>1, InitTypeInv, NextTypeInv, InitSeqInv, NextSeqInv, InitLogInv, NextLogInv,
           InitSentInv, NextSentInv, InitOutcomeInv, NextOutcomeInv, InitHistoryInv,
           NextHistoryInv, InitPlacesInv, NextPlacesInv, InitOneAtATime, NextOneAtATime,
           InitRowInv, NextRowInv, InitFinalInv, NextFinalInv, PTL DEF Spec

-----------------------------------------------------------------------------
(***************************************************************************)
(* Who may still write.  A call that has not reported an outcome works on  *)
(* a task that is not terminal.  A pump stops at a terminal status; of a   *)
(* cancel the hypothesis MaxCancelEvents <= 1 says as much: its executor   *)
(* reports one status and returns, as the default AgentExecutor::cancel    *)
(* does.                                                                   *)
(***************************************************************************)
OpenPlaces ==
    {"insertBus", "insertToken", "recv", "lead", "sendLead", "takeSeq", "appendLog",
     "getTask", "putTask", "signal", "executorCancel", "lookupBus"}

Open(w) ==
    \/ pc[w] \in OpenPlaces
    \/ pc[w] = "drain" /\ emitted[w] = 0
    \/ pc[w] = "send" /\ w \in Turns /\ ~ClosesStream(event[w])

OpenInv ==
    /\ \A w \in Workers : Open(w) => ~TerminalRow(taskOf[w])
    /\ \A c \in Cancels : Applying(c) /\ ~last[c] => emitted[c] >= 1

LEMMA InitOpenInv == Init => OpenInv
BY DEF Init, OpenInv, Open, OpenPlaces, Workers, Applying

\* A call opens a task that is not terminal.
LEMMA OpensOpenTask ==
    ASSUME TypeInv, NEW w \in Workers, StepOf(w), pc[w] = "idle", Open(w)',
           NEW t, t = taskOf'[w]
    PROVE  ~TerminalRow(t)'
<1> USE DEF TypeInv, TypeOK
<1>1. ASSUME NEW u \in Tasks, StartNewTask(w, u) \/ ContinueTask(w, u) \/ StartCancel(w, u)
      PROVE  ~TerminalRow(t)'
  <2>1. taskOf'[w] = u /\ store' = store
    BY <1>1 DEF StartNewTask, ContinueTask, StartCancel
  <2>2. u \notin DOMAIN store \/ ~IsTerminal(store[u].state)
    BY <1>1 DEF StartNewTask, ContinueTask, StartCancel
  <2> QED BY <2>1, <2>2 DEF TerminalRow, Get
<1>2. ~RefuseCall(w) /\ ~AbortCall(w)
  BY DEF RefuseCall, AbortCall, InHandler, Ended, Open, OpenPlaces
<1>3. ~ApplyStep(w)
  BY DEF ApplyStep, ReceiveEvent, SkipEmptyArtifact, TakeSeq, AppendLog, GetTask, PutTask,
     SendEvent
<1>4. ~TurnStep(w)
  BY DEF TurnStep, InsertBus, InsertToken, ExecutorReturns, ExecutorFails, TakeLeadSeq,
     SendLead, RemoveBus, RemoveToken
<1>5. ~CancelStep(w)
  BY DEF CancelStep, SignalToken, ExecutorCancelOk, ExecutorCancelErr, LookupBus, Reread,
     FinalGet
<1> QED BY <1>1, <1>2, <1>3, <1>4, <1>5 DEF StepOf, ClientStep, ServerStep

\* A call that may still write could before, unless it has just looked.
LEMMA StaysOpen ==
    ASSUME MaxCancelEvents <= 1, TypeInv, PlacesInv, OpenInv, NEW w \in Workers, StepOf(w),
           pc[w] # "idle", ~PutTask(w), ~Reread(w), Open(w)'
    PROVE  Open(w) /\ taskOf'[w] = taskOf[w] /\ store' = store
<1>0. w \in Turns \/ w \in Cancels
  BY DEF Workers
<1> USE DEF TypeInv, TypeOK, Open, OpenPlaces
<1>1. CASE ClientStep(w)
  BY <1>1 DEF ClientStep, RefuseCall, AbortCall, StartNewTask, ContinueTask, StartCancel
<1>2. CASE ReceiveEvent(w)
  <2>1. /\ pc[w] \in {"recv", "drain"} /\ taskOf' = taskOf /\ store' = store
    BY <1>2 DEF ReceiveEvent
  <2>2. w \in Cancels => w \notin Turns /\ pc[w] # "recv"
    BY EngineAssumption DEF PlacesInv, TurnPlaces
  <2>3. w \in Turns => pc[w] # "drain"
    BY DEF PlacesInv, CancelPlaces
  <2>4. w \in Cancels => emitted[w] < MaxCancelEvents
    BY <1>2, <2>2 DEF ReceiveEvent, MayReport
  <2>5. w \in Cancels => emitted[w] = 0
    BY <2>4, EngineAssumption
  <2> QED BY <1>0, <2>1, <2>2, <2>3, <2>5
<1>3. CASE SkipEmptyArtifact(w)
  <2>1. /\ pc[w] \in {"recv", "drain"} /\ UNCHANGED <<pc, event, taskOf, store>>
        /\ emitted'[w] = emitted[w] + 1 /\ emitted[w] \in Nat
    BY <1>3 DEF SkipEmptyArtifact
  <2>2. emitted'[w] # 0
    BY <2>1
  <2> QED BY <2>1, <2>2
<1>4. CASE TakeSeq(w) \/ AppendLog(w) \/ GetTask(w)
  BY <1>4 DEF TakeSeq, AppendLog, GetTask
<1>5. CASE SendEvent(w)
  <2>1. /\ pc[w] = "send" /\ UNCHANGED <<emitted, last, taskOf, store>>
        /\ pc'[w] = AfterSend(w)
    BY <1>5 DEF SendEvent
  <2>2. CASE w \in Turns
    BY <2>1, <2>2 DEF AfterSend
  <2>3. CASE w \notin Turns
    <3>1. pc'[w] = "drain" /\ ~last[w]
      BY <2>1, <2>3 DEF AfterSend
    <3>2. emitted[w] >= 1 /\ emitted[w] \in Nat
      BY <1>0, <2>1, <2>3, <3>1 DEF OpenInv, Applying
    <3>3. emitted'[w] # 0
      BY <2>1, <3>2
    <3> QED BY <3>1, <3>3
  <2> QED BY <2>2, <2>3
<1>6. CASE TurnStep(w)
  BY <1>6 DEF TurnStep, InsertBus, InsertToken, ExecutorReturns, ExecutorFails, Apply,
     TakeLeadSeq, SendLead, RemoveBus, RemoveToken
<1>7. CASE CancelStep(w)
  BY <1>7 DEF CancelStep, SignalToken, ExecutorCancelOk, ExecutorCancelErr, LookupBus,
     FinalGet, Return
<1> QED BY <1>1, <1>2, <1>3, <1>4, <1>5, <1>6, <1>7 DEF StepOf, ServerStep, ApplyStep

\* A put that is not a closing status leaves the task open.
LEMMA PutStaysOpen ==
    ASSUME TypeInv, RowInv, OpenInv, NEW w \in Workers, PutTask(w), Open(w)',
           NEW t, t = taskOf'[w]
    PROVE  ~TerminalRow(t)'
<1>1. /\ pc[w] = "putTask" /\ pc'[w] = "send" /\ event' = event /\ t = taskOf[w]
      /\ event[w] \in TaskUpdates
  BY DEF PutTask, TypeInv, TypeOK, HoldsOf
<1>2. w \in Turns /\ ~ClosesStream(event[w])
  BY <1>1 DEF Open, OpenPlaces
<1>3. ~TerminalRow(taskOf[w])
  BY <1>1 DEF OpenInv, Open, OpenPlaces
<1>4. PICK found : found = SeededTask(Get(taskOf[w]), firstEvent[w], Seed(w), event[w])
  OBVIOUS
<1>5. Recorded(found)
  BY <1>1, <1>4, FoundRecorded
<1>6. ~IsTerminal(found.state)
  <2>1. Get(taskOf[w]) # <<>> => Get(taskOf[w])[1] \in Task
    BY DEF TypeInv, TypeOK, IsMap, Get
  <2> QED BY <1>3, <1>4, <2>1, SeededState DEF TerminalRow
<1>7. pending[w][1] = UpdateTask(found, event[w], seq[w])
  BY <1>1, <1>4 DEF RowInv, Current, Updated
<1>8. ~IsTerminal(pending[w][1].state)
  <2>1. CASE event[w].kind = "status"
    <3>1. ~IsTerminal(event[w].state)
      BY <1>2, <2>1 DEF ClosesStream
    <3> QED BY <1>5, <1>7, <2>1, <3>1, StatusOfUpdate
  <2>2. CASE event[w].kind # "status"
    BY <1>5, <1>6, <1>7, <2>2, StatusOfUpdate
  <2> QED BY <2>1, <2>2
<1>9. Get(t)' = <<pending[w][1]>>
  BY <1>1, RowOfPut
<1> QED BY <1>8, <1>9 DEF TerminalRow

LEMMA OwnOpen ==
    ASSUME MaxCancelEvents <= 1, TypeInv, PlacesInv, RowInv, OpenInv,
           NEW w \in Workers, StepOf(w), Open(w)', NEW t, t = taskOf'[w]
    PROVE  ~TerminalRow(t)'
<1>1. CASE pc[w] = "idle"
  BY <1>1, OpensOpenTask
<1>2. CASE PutTask(w)
  BY <1>2, PutStaysOpen
<1>3. CASE Reread(w)
  <2>1. PICK row : row = store[taskOf[w]]
    OBVIOUS
  <2>2. /\ store' = store /\ taskOf' = taskOf
        /\ IsTerminal(row.state) => pc' = [pc EXCEPT ![w] = "done"]
    BY <1>3, <2>1 DEF Reread, Return
  <2>3. ~IsTerminal(row.state)
    BY <2>2 DEF Open, OpenPlaces, TypeInv, TypeOK
  <2> QED BY <2>1, <2>2, <2>3 DEF TerminalRow, Get
<1>4. CASE pc[w] # "idle" /\ ~PutTask(w) /\ ~Reread(w)
  <2>1. Open(w) /\ taskOf'[w] = taskOf[w] /\ store' = store
    BY <1>4, StaysOpen
  <2>2. ~TerminalRow(t)
    BY <2>1 DEF OpenInv
  <2> QED BY <2>1, <2>2 DEF TerminalRow, Get
<1> QED BY <1>1, <1>2, <1>3, <1>4

LEMMA OwnEmitted ==
    ASSUME TypeInv, OpenInv, NEW c \in Cancels, StepOf(c), Applying(c)', ~last'[c]
    PROVE  emitted'[c] >= 1
<1>0. c \in Workers /\ c \notin Turns
  BY EngineAssumption DEF Workers
<1> USE <1>0 DEF TypeInv, TypeOK, Applying
<1>1. CASE ClientStep(c)
  BY <1>1 DEF ClientStep, RefuseCall, AbortCall, StartCancel
<1>2. CASE ReceiveEvent(c)
  <2>1. emitted'[c] = emitted[c] + 1 /\ emitted[c] \in Nat
    BY <1>2 DEF ReceiveEvent
  <2> QED BY <2>1
<1>3. CASE SkipEmptyArtifact(c) \/ SendEvent(c)
  BY <1>3 DEF SkipEmptyArtifact, SendEvent, AfterSend
<1>4. CASE TakeSeq(c) \/ AppendLog(c) \/ GetTask(c) \/ PutTask(c)
  <2>1. Applying(c) /\ last' = last /\ emitted' = emitted
    BY <1>4 DEF TakeSeq, AppendLog, GetTask, PutTask
  <2> QED BY <2>1 DEF OpenInv
<1>5. CASE CancelStep(c)
  <2>1. CASE Reread(c)
    <3>1. last'[c] \/ pc'[c] = "done"
      BY <2>1 DEF Reread, Return
    <3> QED BY <3>1
  <2>2. CASE ~Reread(c)
    BY <1>5, <2>2 DEF CancelStep, SignalToken, ExecutorCancelOk, ExecutorCancelErr,
       LookupBus, FinalGet, Return
  <2> QED BY <2>1, <2>2
<1> QED BY <1>1, <1>2, <1>3, <1>4, <1>5 DEF StepOf, ServerStep, ApplyStep

LEMMA NextOpenInv ==
    ASSUME MaxCancelEvents <= 1
    PROVE  TypeInv /\ PlacesInv /\ OneAtATime /\ RowInv /\ OpenInv /\ [Next]_vars => OpenInv'
<1> SUFFICES ASSUME TypeInv, PlacesInv, OneAtATime, RowInv, OpenInv, [Next]_vars
             PROVE  OpenInv'
  OBVIOUS
<1>1. CASE UNCHANGED vars
  BY <1>1 DEF OpenInv, Open, TerminalRow, Get, Applying
<1>2. ASSUME NEW w \in Workers, StepOf(w) PROVE OpenInv'
  <2>1. ASSUME NEW v \in Workers, Open(v)', NEW t, t = taskOf'[v]
        PROVE  ~TerminalRow(t)'
    <3>1. CASE v = w
      BY <1>2, <2>1, <3>1, OwnOpen
    <3>2. CASE v # w
      <4>1. /\ pc'[v] = pc[v] /\ taskOf'[v] = taskOf[v] /\ event'[v] = event[v]
            /\ emitted'[v] = emitted[v]
        BY <1>2, <3>2, StepsAlone DEF StepOf, Alone
      <4>2. Open(v)
        BY <2>1, <4>1 DEF Open
      <4>3. t \in Tasks /\ ~Answered(v)
        BY <2>1, <4>1, <4>2 DEF TypeInv, HoldsOf, Active, PCs, Open, OpenPlaces, Answered, Ended
      <4>4. Get(t)' = Get(t)
        BY <1>2, <2>1, <3>2, <4>1, <4>3, OthersUntouched
      <4> QED BY <2>1, <4>1, <4>2, <4>4 DEF OpenInv, TerminalRow
    <3> QED BY <3>1, <3>2
  <2>2. ASSUME NEW c \in Cancels, Applying(c)', ~last'[c] PROVE emitted'[c] >= 1
    <3>1. CASE c = w
      BY <1>2, <2>2, <3>1, OwnEmitted
    <3>2. CASE c # w
      <4>1. pc'[c] = pc[c] /\ last'[c] = last[c] /\ emitted'[c] = emitted[c]
        BY <1>2, <3>2, StepsAlone DEF StepOf, Alone, Workers
      <4> QED BY <2>2, <4>1 DEF OpenInv, Applying
    <3> QED BY <3>1, <3>2
  <2> QED BY <2>1, <2>2 DEF OpenInv, TerminalRow
<1> QED BY <1>1, <1>2, StepsOrStutter

-----------------------------------------------------------------------------
(***************************************************************************)
(* The refinement.  A put is an update of TaskRecord, of the kind that the *)
(* row it finds and the turn it is of say; every other step takes a number *)
(* or leaves the record alone.                                             *)
(***************************************************************************)
LEMMA RecordOperators ==
    /\ Record!TaskUpdates = TaskUpdates
    /\ Record!EmptyMap = EmptyMap
    /\ \A state : Record!IsTerminal(state) <=> IsTerminal(state)
    /\ \A w : Record!UserMessage(w) = UserMessage(w)
    /\ \A n : Record!AgentMessage(n) = AgentMessage(n)
    /\ \A map, key, value : Record!Insert(map, key, value) = Insert(map, key, value)
    /\ \A found, first, seed, e :
          Record!SeededTask(found, first, seed, e) = SeededTask(found, first, seed, e)
    /\ \A task, e, n : Record!UpdateTask(task, e, n) = UpdateTask(task, e, n)
<1>1. Record!TaskUpdates = TaskUpdates
  BY DEF Record!TaskUpdates, TaskUpdates, Record!TaskStates, TaskStates,
     Record!TerminalStates, TerminalStates, Record!InterruptedStates, InterruptedStates
<1>2. Record!EmptyMap = EmptyMap
  BY DEF Record!EmptyMap, EmptyMap
<1>3. \A state : Record!IsTerminal(state) <=> IsTerminal(state)
  BY DEF Record!IsTerminal, IsTerminal, Record!TerminalStates, TerminalStates
<1>4. \A w : Record!UserMessage(w) = UserMessage(w)
  BY DEF Record!UserMessage, UserMessage
<1>5. \A n : Record!AgentMessage(n) = AgentMessage(n)
  BY DEF Record!AgentMessage, AgentMessage
<1>6. \A map, key, value : Record!Insert(map, key, value) = Insert(map, key, value)
  BY DEF Record!Insert, Insert
<1>7. \A found, first, seed, e :
         Record!SeededTask(found, first, seed, e) = SeededTask(found, first, seed, e)
  BY DEF Record!SeededTask, SeededTask, Record!NewTask, NewTask
<1>8. \A task, e, n : Record!UpdateTask(task, e, n) = UpdateTask(task, e, n)
  BY DEF Record!UpdateTask, UpdateTask, Record!MergeArtifact, MergeArtifact,
     Record!AgentMessage, AgentMessage
<1> QED BY <1>1, <1>2, <1>3, <1>4, <1>5, <1>6, <1>7, <1>8

LEMMA OnlyPutTaskWrites ==
    ASSUME NEW w, StepOf(w), ~PutTask(w)
    PROVE  store' = store
<1>1. CASE ClientStep(w)
  BY <1>1 DEF ClientStep, RefuseCall, AbortCall, StartNewTask, ContinueTask, StartCancel
<1>2. CASE ApplyStep(w)
  BY <1>2 DEF ApplyStep, ReceiveEvent, SkipEmptyArtifact, TakeSeq, AppendLog, GetTask,
     SendEvent
<1>3. CASE TurnStep(w)
  BY <1>3 DEF TurnStep, InsertBus, InsertToken, ExecutorReturns, ExecutorFails,
     TakeLeadSeq, SendLead, RemoveBus, RemoveToken
<1>4. CASE CancelStep(w)
  BY <1>4 DEF CancelStep, SignalToken, ExecutorCancelOk, ExecutorCancelErr, LookupBus,
     Reread, FinalGet
<1> QED BY <1>1, <1>2, <1>3, <1>4 DEF StepOf, ServerStep

LEMMA PutIsRecordStep ==
    ASSUME TypeInv, SeqInv, HistoryInv, RowInv, OpenInv, NEW w \in Workers, PutTask(w)
    PROVE  Record!Next
<1>1. PICK t, n, e, first, seed :
         t = taskOf[w] /\ n = seq[w] /\ e = event[w] /\ first = firstEvent[w] /\ seed = Seed(w)
  OBVIOUS
<1>2. /\ pc[w] = "putTask" /\ t \in Tasks /\ e \in TaskUpdates /\ n \in Nat
      /\ first \in BOOLEAN /\ nextSeq \in Nat /\ nextSeq' = nextSeq
  BY <1>1 DEF PutTask, TypeInv, TypeOK, HoldsOf, Active, PCs
<1>3. n \in 1 .. nextSeq - 1
  <2>1. n >= 1 /\ n < nextSeq
    BY <1>1, <1>2 DEF RowInv, SeqInv, Numbered
  <2> QED BY <1>2, <2>1
<1>4. store' = Insert(store, t, UpdateTask(SeededTask(Get(t), first, seed, e), e, n))
  <2>1. Current(w)
    BY <1>2 DEF RowInv
  <2> QED BY <1>1, <2>1 DEF PutTask, Current, Updated
<1>5. /\ w \in Cancels => ~first /\ t \in DOMAIN store
      /\ w \in Turns => seed = UserMessage(w)
      /\ w \in Turns \/ w \in Cancels
  BY <1>1, <1>2 DEF TypeInv, HoldsOf, Active, PCs, HistoryInv, Seed, Workers
<1>6. CASE t \notin DOMAIN store
  <2>1. w \in Turns /\ seed = UserMessage(w)
    BY <1>5, <1>6
  <2>2. SeededTask(Get(t), first, seed, e) = SeededTask(<<>>, TRUE, UserMessage(w), e)
    BY <1>6, <2>1 DEF Get, SeededTask
  <2>3. Record!Create(t, w, n, e)
    BY <1>2, <1>4, <1>6, <2>2, RecordOperators DEF Record!Create, Record!Write
  <2> QED BY <1>2, <1>3, <2>1, <2>3, RecordOperators DEF Record!Next
<1>7. CASE t \in DOMAIN store
  <2>1. Get(t) = <<store[t]>> /\ ~IsTerminal(store[t].state)
    BY <1>1, <1>2, <1>7 DEF Get, OpenInv, Open, OpenPlaces, TerminalRow
  <2>2. CASE first
    <3>1. w \in Turns /\ seed = UserMessage(w)
      BY <1>5, <2>2
    <3>2. ~In(UserMessage(w), store[t].history)
      BY <1>1, <1>2, <1>7, <2>2, <3>1 DEF HistoryInv, Clean, Unseeded
    <3>3. UserMessage(w) \notin Record!Messages(t)
      BY <3>2 DEF Record!Messages, In
    <3>4. SeededTask(Get(t), first, seed, e) = SeededTask(<<store[t]>>, TRUE, UserMessage(w), e)
      BY <2>1, <2>2, <3>1
    <3>5. Record!Continue(t, w, n, e)
      BY <1>2, <1>4, <1>7, <2>1, <3>3, <3>4, RecordOperators DEF Record!Continue, Record!Write
    <3> QED BY <1>2, <1>3, <3>1, <3>5, RecordOperators DEF Record!Next
  <2>3. CASE ~first
    <3>1. SeededTask(Get(t), first, seed, e) = store[t]
      BY <2>1, <2>3 DEF SeededTask
    <3>2. ~In(AgentMessage(n), store[t].history)
      BY <1>1, <1>2, <2>1 DEF RowInv, Current
    <3>3. AgentMessage(n) \notin Record!Messages(t)
      BY <3>2 DEF Record!Messages, In
    <3>4. Record!Update(t, n, e)
      BY <1>2, <1>4, <1>7, <2>1, <3>1, <3>3, RecordOperators DEF Record!Update
    <3> QED BY <1>2, <1>3, <3>4, RecordOperators DEF Record!Next
  <2> QED BY <2>2, <2>3
<1> QED BY <1>6, <1>7

LEMMA StepIsRecordStep ==
    TypeInv /\ SeqInv /\ HistoryInv /\ RowInv /\ OpenInv /\ [Next]_vars =>
        [Record!Next]_(Record!vars)
<1> SUFFICES ASSUME TypeInv, SeqInv, HistoryInv, RowInv, OpenInv, [Next]_vars
             PROVE  [Record!Next]_(Record!vars)
  OBVIOUS
<1>1. CASE UNCHANGED vars
  BY <1>1 DEF Record!vars
<1>2. ASSUME NEW w \in Workers, StepOf(w) PROVE [Record!Next]_(Record!vars)
  <2>1. CASE PutTask(w)
    BY <2>1, PutIsRecordStep
  <2>2. CASE ~PutTask(w)
    <3>1. store' = store
      BY <1>2, <2>2, OnlyPutTaskWrites
    <3>2. CASE nextSeq' = nextSeq
      BY <3>1, <3>2 DEF Record!vars
    <3>3. CASE nextSeq' = nextSeq + 1
      BY <3>1, <3>3 DEF Record!Next, Record!Tick
    <3> QED BY <1>2, <3>2, <3>3, CounterGrows
  <2> QED BY <2>1, <2>2
<1> QED BY <1>1, <1>2, StepsOrStutter

LEMMA InitIsRecordInit == Init => Record!Init
BY RecordOperators DEF Init, Record!Init

\* While calls on a task do not overlap, the store, written by pumps and
\* cancels in separate reads and puts (apply_event), behaves as TaskRecord: a
\* task changes by whole updates, takes in the message of a turn once, and does
\* not change any more once it is terminal.
THEOREM EngineImplementsTaskRecord ==
    ASSUME NoOverlap, MaxCancelEvents <= 1
    PROVE  Spec => RefinesTaskRecord
BY InitTypeInv, NextTypeInv, InitSeqInv, NextSeqInv, InitHistoryInv, NextHistoryInv,
   InitPlacesInv, NextPlacesInv, InitOneAtATime, NextOneAtATime, InitRowInv, NextRowInv,
   InitOpenInv, NextOpenInv, InitIsRecordInit, StepIsRecordStep, PTL
DEF Spec, RefinesTaskRecord, Record!Spec

\* A put writes an open row, or another task's.
LEMMA TerminalRowKept ==
    TypeInv /\ OpenInv /\ [Next]_vars =>
        \A t \in DOMAIN store : IsTerminal(store[t].state) =>
            store'[t].state = store[t].state
<1> SUFFICES ASSUME TypeInv, OpenInv, [Next]_vars,
                    NEW t \in DOMAIN store, IsTerminal(store[t].state)
             PROVE  store'[t].state = store[t].state
  OBVIOUS
<1>1. ASSUME NEW w \in Workers, PutTask(w) PROVE store'[t] = store[t]
  <2>1. ~TerminalRow(taskOf[w])
    BY <1>1 DEF OpenInv, Open, OpenPlaces, PutTask
  <2>2. taskOf[w] # t
    BY <2>1 DEF TerminalRow, Get
  <2> QED BY <1>1, <2>2 DEF PutTask, Insert
<1>2. ASSUME NEW w \in Workers, StepOf(w), ~PutTask(w) PROVE store'[t] = store[t]
  BY <1>2, OnlyPutTaskWrites
<1>3. UNCHANGED vars => store'[t] = store[t]
  OBVIOUS
<1> QED BY <1>1, <1>2, <1>3, StepsOrStutter

\* "Terminal states never transition further": true of the store while calls
\* on a task do not overlap.  A pump stops at a terminal status, and neither a
\* message nor a cancel is accepted for a terminal task.
THEOREM TerminalAlwaysFinal ==
    ASSUME NoOverlap, MaxCancelEvents <= 1
    PROVE  Spec => TerminalIsFinal
<1>1. TypeInv /\ OpenInv /\ [Next]_vars =>
        [\A t \in DOMAIN store : IsTerminal(store[t].state) =>
            store'[t].state = store[t].state]_vars
  BY TerminalRowKept
<1> QED BY <1>1, InitTypeInv, NextTypeInv, InitSeqInv, NextSeqInv, InitHistoryInv,
           NextHistoryInv, InitPlacesInv, NextPlacesInv, InitOneAtATime, NextOneAtATime,
           InitRowInv, NextRowInv, InitOpenInv, NextOpenInv, PTL DEF Spec, TerminalIsFinal

-----------------------------------------------------------------------------
(***************************************************************************)
(* How a stream begins.  A bus that has carried nothing belongs to a pump  *)
(* that has yet to apply its first event; a registered bus belongs to a    *)
(* call on its task, so a cancel finds one on which the turn's closing     *)
(* event has gone out, or one whose client went away before a pump ran.    *)
(***************************************************************************)
Abandoned(b) == pc[b] = "aborted"

Leads(e) == e.kind \in {"task", "message"}

LeadInv ==
    /\ \A t \in DOMAIN buses :
          /\ taskOf[buses[t]] = t
          /\ pc[buses[t]] \notin {"idle", "insertBus", "removeToken", "done", "rejected"}
    /\ \A c \in Cancels : \A b \in attached[c] : sent[b] # <<>> \/ Abandoned(b)
    /\ \A w \in Turns : sent[w] = <<>> =>
          firstEvent[w] /\ (Applying(w) => event[w].kind = "message")
    /\ \A b \in Turns : sent[b] # <<>> => Leads(sent[b][1].event) \/ Abandoned(b)

LEMMA InitLeadInv == Init => LeadInv
<1> SUFFICES ASSUME Init PROVE LeadInv
  OBVIOUS
<1>1. DOMAIN buses = {}
  BY DEF Init, EmptyMap
<1>2. \A c \in Cancels : attached[c] = {}
  BY DEF Init
<1>3. ASSUME NEW w \in Turns PROVE sent[w] = <<>> /\ firstEvent[w] /\ ~Applying(w)
  <2>1. w \in Workers
    BY DEF Workers
  <2>2. sent[w] = <<>>
    BY DEF Init
  <2>3. firstEvent[w]
    BY <2>1, Zenon DEF Init
  <2>4. pc[w] = "idle"
    BY <2>1 DEF Init
  <2> QED BY <2>2, <2>3, <2>4 DEF Applying
<1> QED BY <1>1, <1>2, <1>3 DEF LeadInv

\* Who changes the registry of buses, and the bus a cancel holds.
LEMMA BusesChange ==
    ASSUME TypeInv, NEW w \in Workers, StepOf(w)
    PROVE  (w \in Turns /\ (InsertBus(w) \/ RemoveBus(w))) \/ buses' = buses
<1>1. CASE ClientStep(w)
  BY <1>1 DEF ClientStep, RefuseCall, AbortCall, StartNewTask, ContinueTask, StartCancel
<1>2. CASE ApplyStep(w)
  BY <1>2 DEF ApplyStep, ReceiveEvent, SkipEmptyArtifact, TakeSeq, AppendLog, GetTask,
     PutTask, SendEvent
<1>3. CASE w \in Turns /\ TurnStep(w)
  BY <1>3 DEF TurnStep, InsertToken, ExecutorReturns, ExecutorFails, TakeLeadSeq,
     SendLead, RemoveToken
<1>4. CASE CancelStep(w)
  BY <1>4 DEF CancelStep, SignalToken, ExecutorCancelOk, ExecutorCancelErr, LookupBus,
     Reread, FinalGet
<1> QED BY <1>1, <1>2, <1>3, <1>4 DEF StepOf, ServerStep

LEMMA OnlyLookupAttaches ==
    ASSUME TypeInv, NEW w \in Workers, StepOf(w), NEW c \in Cancels,
           NEW b \in attached'[c], b \notin attached[c]
    PROVE  LookupBus(c)
<1>0. c = w /\ c \notin Turns
  BY StepsAlone, EngineAssumption DEF StepOf, Alone
<1> USE DEF TypeInv, TypeOK
<1>1. ~ClientStep(c)
  BY <1>0 DEF ClientStep, RefuseCall, AbortCall, StartCancel
<1>2. ~ApplyStep(c)
  BY DEF ApplyStep, ReceiveEvent, SkipEmptyArtifact, TakeSeq, AppendLog, GetTask,
     PutTask, SendEvent
<1>3. CancelStep(c)
  BY <1>0, <1>1, <1>2 DEF StepOf, ServerStep
<1> QED BY <1>3 DEF CancelStep, SignalToken, ExecutorCancelOk, ExecutorCancelErr,
        Reread, FinalGet, Return

\* A turn that has ended takes no step.
LEMMA EndedStops ==
    ASSUME TypeInv, NEW b \in Turns, Ended(b) PROVE ~StepOf(b)
<1>1. pc[b] \in {"done", "rejected", "aborted"} /\ b \notin Cancels
  BY EngineAssumption DEF Ended
<1>2. ~ClientStep(b)
  BY <1>1 DEF ClientStep, RefuseCall, AbortCall, InHandler, StartNewTask, ContinueTask
<1>3. ~ApplyStep(b)
  BY <1>1 DEF ApplyStep, ReceiveEvent, SkipEmptyArtifact, TakeSeq, AppendLog, GetTask,
     PutTask, SendEvent
<1>4. ~TurnStep(b)
  BY <1>1 DEF TurnStep, InsertBus, InsertToken, ExecutorReturns, ExecutorFails,
     TakeLeadSeq, SendLead, RemoveBus, RemoveToken
<1> QED BY <1>1, <1>2, <1>3, <1>4 DEF StepOf, ServerStep

LEMMA BusesFollow ==
    ASSUME TypeInv, PlacesInv, LeadInv, NEW w \in Workers, StepOf(w), NEW t \in DOMAIN buses'
    PROVE  /\ taskOf'[buses'[t]] = t
           /\ pc'[buses'[t]] \notin {"idle", "insertBus", "removeToken", "done", "rejected"}
<1>0. /\ IsMap(buses, Tasks, Turns) /\ Turns \subseteq Workers
      /\ \A v \in Workers \ {w} : pc'[v] = pc[v] /\ taskOf'[v] = taskOf[v]
  BY StepsAlone DEF StepOf, Alone, TypeInv, TypeOK, Workers
<1> USE DEF TypeInv, TypeOK
<1>1. CASE w \in Turns /\ InsertBus(w)
  <2>1. /\ t \in DOMAIN buses \cup {taskOf[w]}
        /\ buses'[t] = IF t = taskOf[w] THEN w ELSE buses[t]
        /\ taskOf' = taskOf /\ pc'[w] = "insertToken" /\ pc[w] = "insertBus"
    BY <1>1 DEF InsertBus, Insert
  <2> QED BY <1>0, <2>1 DEF LeadInv, IsMap
<1>2. CASE w \in Turns /\ RemoveBus(w)
  <2>1. /\ t \in DOMAIN buses /\ t # taskOf[w] /\ buses'[t] = buses[t]
        /\ taskOf' = taskOf
    BY <1>2 DEF RemoveBus, Without
  <2>2. buses[t] # w
    BY <2>1 DEF LeadInv
  <2> QED BY <1>0, <2>1, <2>2 DEF LeadInv, IsMap
<1>3. CASE buses' = buses
  <2>1. buses[t] \in Turns /\ buses[t] \in Workers
    BY <1>0, <1>3 DEF IsMap
  <2>2. CASE buses[t] # w
    BY <1>0, <1>3, <2>1, <2>2 DEF LeadInv
  <2>3. CASE buses[t] = w /\ ~RemoveBus(w)
    <3>1. /\ pc[w] \notin {"idle", "insertBus", "removeToken", "done", "rejected"}
          /\ taskOf[w] = t
      BY <1>3, <2>3 DEF LeadInv
    <3>2. taskOf' = taskOf
      BY <3>1, TasksKept
    <3>3. pc'[w] \notin {"idle", "insertBus", "removeToken", "done", "rejected"}
      <4>1. w \notin Cancels
        BY <2>1, <2>3, EngineAssumption
      <4>2. CASE ClientStep(w)
        BY <3>1, <4>1, <4>2 DEF ClientStep, RefuseCall, AbortCall, StartNewTask, ContinueTask
      <4>3. CASE ApplyStep(w)
        BY <2>1, <2>3, <3>1, <4>3 DEF ApplyStep, ReceiveEvent, Apply, SkipEmptyArtifact,
           TakeSeq, AppendLog, GetTask, PutTask, SendEvent, AfterSend
      <4>4. CASE TurnStep(w)
        BY <2>3, <3>1, <4>4 DEF TurnStep, InsertBus, InsertToken, ExecutorReturns,
           ExecutorFails, Apply, TakeLeadSeq, SendLead, RemoveToken
      <4> QED BY <4>1, <4>2, <4>3, <4>4 DEF StepOf, ServerStep
    <3> QED BY <1>3, <2>3, <3>1, <3>2, <3>3
  <2>4. CASE buses[t] = w /\ RemoveBus(w)
    BY <1>3, <2>1, <2>4, <1>2
  <2> QED BY <2>2, <2>3, <2>4
<1> QED BY <1>1, <1>2, <1>3, BusesChange

\* A turn that ended early stays so.
LEMMA AbandonedStays ==
    ASSUME TypeInv, PlacesInv, NEW b \in Turns, Abandoned(b), NEW w \in Workers, StepOf(w)
    PROVE  Abandoned(b)'
<1>1. b \in Workers /\ b # w
  BY EndedStops DEF Workers, Ended, Abandoned
<1> QED BY <1>1, StepsAlone DEF StepOf, Alone, Abandoned

\* The bus a cancel finds has carried the closing event of its turn.
LEMMA FoundBusUsed ==
    ASSUME TypeInv, OneAtATime, LeadInv, NEW c \in Cancels, LookupBus(c),
           NEW b \in attached'[c]
    PROVE  sent[b] # <<>> \/ Abandoned(b)
<1>1. PICK t : t = taskOf[c]
  OBVIOUS
<1>2. t \in DOMAIN buses /\ b = buses[t] /\ pc[c] = "lookupBus"
  BY <1>1 DEF LookupBus, TypeInv, TypeOK
<1>3. b \in Turns /\ t \in Tasks /\ b # c /\ b \in Workers /\ c \in Workers
  BY <1>2, EngineAssumption DEF TypeInv, TypeOK, IsMap, Workers
<1>4. /\ taskOf[b] = t
      /\ pc[b] \notin {"idle", "insertBus", "removeToken", "done", "rejected"}
  BY <1>2 DEF LeadInv
<1>5. Answered(b)
  BY <1>1, <1>2, <1>3, <1>4 DEF OneAtATime, Answered, Ended
<1>6. CASE pc[b] = "aborted"
  BY <1>6 DEF Abandoned
<1>7. CASE \E i \in DOMAIN sent[b] : ClosesStream(sent[b][i].event)
  BY <1>7
<1> QED BY <1>4, <1>5, <1>6, <1>7 DEF Answered, Ended

LEMMA AttachedUsed ==
    ASSUME TypeInv, PlacesInv, OneAtATime, LeadInv, NEW w \in Workers, StepOf(w),
           NEW c \in Cancels, NEW b \in attached'[c]
    PROVE  sent'[b] # <<>> \/ Abandoned(b)'
<1>1. [Next]_vars
  BY StepNext
<1>2. ASSUME b \in Turns, sent[b] # <<>> \/ Abandoned(b)
      PROVE  sent'[b] # <<>> \/ Abandoned(b)'
  <2>1. CASE Abandoned(b)
    BY <1>2, <2>1, AbandonedStays
  <2>2. CASE sent[b] # <<>>
    <3>1. PICK log : log = sent[b]
      OBVIOUS
    <3>2. log \in Seq(Item) /\ log # <<>>
      BY <1>2, <2>2, <3>1 DEF TypeInv, TypeOK
    <3>3. 1 \in DOMAIN log
      BY <3>2
    <3>4. 1 \in DOMAIN sent'[b]
      BY <1>1, <1>2, <3>1, <3>3, SentGrows
    <3> QED BY <3>4
  <2> QED BY <1>2, <2>1, <2>2
<1> USE DEF TypeInv, TypeOK
<1>3. CASE b \in attached[c]
  BY <1>2, <1>3 DEF LeadInv
<1>4. CASE b \notin attached[c]
  <2>1. LookupBus(c)
    BY <1>4, OnlyLookupAttaches
  <2>2. sent[b] # <<>> \/ Abandoned(b)
    BY <2>1, FoundBusUsed
  <2>3. b \in Turns
    BY <2>1 DEF LookupBus, IsMap
  <2> QED BY <1>2, <2>2, <2>3
<1> QED BY <1>3, <1>4

\* Until its own pump has sent something a bus is empty, and what the pump
\* sends first is the Task or a message.
LEMMA FirstSent ==
    ASSUME TypeInv, PlacesInv, LeadInv, NEW w \in Workers, StepOf(w), NEW b \in Turns,
           sent[b] = <<>>
    PROVE  /\ sent'[b] = <<>> =>
                firstEvent'[b] /\ (Applying(b)' => event'[b].kind = "message")
           /\ sent'[b] # <<>> => Leads(sent'[b][1].event) \/ Abandoned(b)'
<1>0. firstEvent[b] /\ (Applying(b) => event[b].kind = "message")
  BY DEF LeadInv
<1>1. b \in Workers /\ b \notin Cancels
  BY EngineAssumption DEF Workers
<1>2. ASSUME b \notin BusesOf(w) PROVE sent'[b] = <<>>
  <2>1. ASSUME NEW e, Broadcast(w, e) PROVE sent'[b] = <<>>
    BY <1>2, <2>1 DEF Broadcast
  <2> QED BY <2>1, SentOnly
<1> USE DEF TypeInv, TypeOK, Leads
<1>3. ASSUME NEW e \in Events, Broadcast(w, e), b \in BusesOf(w)
      PROVE  sent'[b] # <<>> /\ sent'[b][1].event = e
  <2>1. PICK item, log : item = [seq |-> seq[w], by |-> w, event |-> e] /\ log = sent[b]
    OBVIOUS
  <2>2. item \in Item /\ log \in Seq(Item) /\ log = <<>>
    BY <2>1 DEF Item
  <2>3. Append(log, item) # <<>> /\ Append(log, item)[1] = item
    BY <2>2
  <2>4. sent'[b] = Append(log, item)
    BY <1>3, <2>1 DEF Broadcast
  <2> QED BY <2>1, <2>3, <2>4
<1>4. CASE b = w
  <2>0. BusesOf(w) = {w}
    BY <1>4 DEF BusesOf
  <2>1. CASE ClientStep(w)
    BY <1>0, <1>1, <1>4, <2>1 DEF ClientStep, RefuseCall, AbortCall, StartNewTask,
       ContinueTask, Applying
  <2>2. CASE ReceiveEvent(w) \/ ExecutorFails(w)
    <3>1. PICK e \in Events : Apply(w, e)
      BY <2>2, EngineAssumption, StatusUpdateType DEF ReceiveEvent, ExecutorFails, Events,
         TaskStates, TerminalStates
    <3>2. e.kind # "message" => ~Applying(w)'
      BY <1>0, <1>4, <3>1 DEF Apply, LeadsWithTask, Applying
    <3>3. event'[w] = e /\ firstEvent' = firstEvent /\ sent' = sent
      BY <2>2, <3>1 DEF Apply, ReceiveEvent, ExecutorFails
    <3> QED BY <1>0, <1>4, <3>2, <3>3
  <2>3. CASE SendLead(w)
    <3>1. TaskEvent(LeadTask(w)) \in Events
      BY <1>4, LeadTaskType DEF TaskEvent, Events
    <3> QED BY <1>3, <1>4, <2>0, <2>3, <3>1 DEF SendLead, TaskEvent
  <2>4. CASE SendEvent(w)
    <3>1. event[w] \in Events /\ event[w].kind = "message"
      BY <1>0, <1>4, <2>4 DEF SendEvent, HoldsOf, Events, Applying
    <3> QED BY <1>3, <1>4, <2>0, <2>4, <3>1 DEF SendEvent
  <2>5. CASE SkipEmptyArtifact(w) \/ TakeSeq(w) \/ AppendLog(w) \/ GetTask(w) \/ PutTask(w)
    BY <1>0, <1>4, <2>5 DEF SkipEmptyArtifact, TakeSeq, AppendLog, GetTask, PutTask, Applying
  <2>6. CASE TurnStep(w) /\ ~SendLead(w) /\ ~ExecutorFails(w)
    BY <1>0, <1>4, <2>6 DEF TurnStep, InsertBus, InsertToken, ExecutorReturns, TakeLeadSeq,
       RemoveBus, RemoveToken, Applying
  <2> QED BY <1>1, <1>4, <2>1, <2>2, <2>3, <2>4, <2>5, <2>6 DEF StepOf, ServerStep, ApplyStep
<1>5. CASE b # w
  <2>1. /\ pc'[b] = pc[b] /\ firstEvent'[b] = firstEvent[b] /\ event'[b] = event[b]
    BY <1>1, <1>5, StepsAlone DEF StepOf, Alone
  <2>2. b \in BusesOf(w) => Abandoned(b)
    BY <1>5 DEF BusesOf, LeadInv, Workers
  <2>3. Abandoned(b) => Abandoned(b)'
    BY AbandonedStays
  <2> QED BY <1>0, <1>2, <2>1, <2>2, <2>3 DEF Applying
<1> QED BY <1>4, <1>5

LEMMA NextLeadInv ==
    TypeInv /\ PlacesInv /\ OneAtATime /\ LeadInv /\ [Next]_vars => LeadInv'
<1> SUFFICES ASSUME TypeInv, PlacesInv, OneAtATime, LeadInv, [Next]_vars PROVE LeadInv'
  OBVIOUS
<1>1. CASE UNCHANGED vars
  BY <1>1 DEF LeadInv, Abandoned, Applying
<1>2. ASSUME NEW w \in Workers, StepOf(w) PROVE LeadInv'
  <2>1. ASSUME NEW b \in Turns, sent[b] # <<>>
        PROVE  sent'[b] # <<>> /\ sent'[b][1] = sent[b][1]
    <3>1. PICK log : log = sent[b]
      OBVIOUS
    <3>2. log \in Seq(Item) /\ log # <<>>
      BY <2>1, <3>1 DEF TypeInv, TypeOK
    <3>3. 1 \in DOMAIN sent[b]
      BY <3>1, <3>2
    <3>4. 1 \in DOMAIN sent'[b] /\ sent'[b][1] = sent[b][1]
      BY <3>3, SentGrows
    <3> QED BY <3>4
  <2>2. ASSUME NEW b \in Turns
        PROVE  /\ sent'[b] = <<>> =>
                    firstEvent'[b] /\ (Applying(b)' => event'[b].kind = "message")
               /\ sent'[b] # <<>> => Leads(sent'[b][1].event) \/ Abandoned(b)'
    <3>1. CASE sent[b] = <<>>
      BY <1>2, <3>1, FirstSent
    <3>2. CASE sent[b] # <<>>
      <4>1. Leads(sent[b][1].event) \/ Abandoned(b)
        BY <3>2 DEF LeadInv
      <4>2. Abandoned(b) => Abandoned(b)'
        BY <1>2, AbandonedStays
      <4> QED BY <2>1, <3>2, <4>1, <4>2
    <3> QED BY <3>1, <3>2
  <2>3. \A t \in DOMAIN buses' :
          /\ taskOf'[buses'[t]] = t
          /\ pc'[buses'[t]] \notin {"idle", "insertBus", "removeToken", "done", "rejected"}
    BY <1>2, BusesFollow
  <2>4. \A c \in Cancels : \A b \in attached'[c] : sent'[b] # <<>> \/ Abandoned(b)'
    BY <1>2, AttachedUsed
  <2> QED BY <2>2, <2>3, <2>4 DEF LeadInv
<1> QED BY <1>1, <1>2, StepsOrStutter

\* Without disconnects no call is abandoned.
LEMMA NoneAbandoned ==
    ASSUME ~Disconnects
    PROVE  /\ Init => \A b \in Turns : ~Abandoned(b)
           /\ TypeInv /\ (\A b \in Turns : ~Abandoned(b)) /\ [Next]_vars =>
                  \A b \in Turns : ~Abandoned(b)'
<1>1. Init => \A b \in Turns : ~Abandoned(b)
  BY DEF Init, Abandoned, Workers
<1>2. ASSUME TypeInv, \A b \in Turns : ~Abandoned(b), [Next]_vars, NEW b \in Turns
      PROVE  ~Abandoned(b)'
  <2>0. b \in Workers /\ b \notin Cancels
    BY EngineAssumption DEF Workers
  <2>1. CASE UNCHANGED vars
    BY <1>2, <2>1 DEF Abandoned
  <2>2. ASSUME NEW w \in Workers, StepOf(w) PROVE ~Abandoned(b)'
    <3>1. CASE b # w
      BY <1>2, <2>0, <2>2, <3>1, StepsAlone DEF StepOf, Alone, Abandoned
    <3>2. CASE b = w
      <4> USE DEF TypeInv, TypeOK, Abandoned
      <4>1. CASE ClientStep(b)
        BY <1>2, <2>0, <4>1 DEF ClientStep, RefuseCall, AbortCall, StartNewTask, ContinueTask
      <4>2. CASE ApplyStep(b)
        BY <1>2, <2>0, <4>2 DEF ApplyStep, ReceiveEvent, Apply, SkipEmptyArtifact, TakeSeq,
           AppendLog, GetTask, PutTask, SendEvent, AfterSend
      <4>3. CASE TurnStep(b)
        BY <1>2, <2>0, <4>3 DEF TurnStep, InsertBus, InsertToken, ExecutorReturns,
           ExecutorFails, Apply, TakeLeadSeq, SendLead, RemoveBus, RemoveToken
      <4> QED BY <2>0, <2>2, <3>2, <4>1, <4>2, <4>3 DEF StepOf, ServerStep
    <3> QED BY <3>1, <3>2
  <2> QED BY <1>2, <2>1, <2>2, StepsOrStutter
<1> QED BY <1>1, <1>2

\* While calls on a task do not overlap and clients stay for their answers,
\* every stream begins with the Task or is one bare message: the lead of the
\* pump comes before its first event, and a cancel that still finds the bus of
\* an answered turn comes after it.
THEOREM StreamAlwaysLedByTask ==
    ASSUME NoOverlap, ~Disconnects
    PROVE  Spec => []StreamLeadsWithTask
<1>1. LeadInv /\ (\A b \in Turns : ~Abandoned(b)) => StreamLeadsWithTask
  BY DEF LeadInv, Leads, StreamLeadsWithTask
<1> DEFINE Stay == \A b \in Turns : ~Abandoned(b)
<1>2. Init => Stay
  BY NoneAbandoned
<1>3. TypeInv /\ Stay /\ [Next]_vars => Stay'
  BY NoneAbandoned
<1>4. LeadInv /\ Stay => StreamLeadsWithTask
  BY <1>1
<1> HIDE DEF Stay
<1> QED BY <1>2, <1>3, <1>4, InitTypeInv, NextTypeInv, InitSeqInv, NextSeqInv,
           InitPlacesInv, NextPlacesInv, InitOneAtATime, NextOneAtATime, InitLeadInv,
           NextLeadInv, PTL DEF Spec
-----------------------------------------------------------------------------
(***************************************************************************)
(* A closed bus.  Every sender is gone, and none comes back.               *)
(***************************************************************************)
LEMMA ClosedStays ==
    ASSUME TypeInv, [Next]_vars, NEW w \in Turns, BusClosed(w)
    PROVE  BusClosed(w)' /\ sent'[w] = sent[w] /\ pc'[w] = pc[w] /\ taskOf'[w] = taskOf[w]
           /\ existing'[w] = existing[w]
<1>1. CASE UNCHANGED vars
  BY <1>1 DEF BusClosed
<1>2. ASSUME NEW v \in Workers, StepOf(v)
      PROVE  BusClosed(w)' /\ sent'[w] = sent[w] /\ pc'[w] = pc[w]
             /\ taskOf'[w] = taskOf[w] /\ existing'[w] = existing[w]
  <2>1. v # w /\ w \in Workers
    BY <1>2, EndedStops DEF BusClosed, Ended, Workers
  <2>2. pc'[w] = pc[w] /\ taskOf'[w] = taskOf[w] /\ existing'[w] = existing[w]
    BY <1>2, <2>1, StepsAlone DEF StepOf, Alone
  <2>3. ASSUME NEW t \in DOMAIN buses' PROVE buses'[t] # w
    <3>1. CASE InsertBus(v)
      BY <2>1, <3>1 DEF InsertBus, Insert, BusClosed
    <3>2. CASE RemoveBus(v)
      BY <3>2 DEF RemoveBus, Without, BusClosed
    <3> QED BY <1>2, <3>1, <3>2, BusesChange DEF BusClosed
  <2>4. ASSUME NEW c \in Cancels PROVE w \notin attached'[c]
    <3>1. w \notin attached[c]
      BY DEF BusClosed
    <3>2. ~(LookupBus(c) /\ w \in attached'[c])
      BY DEF LookupBus, BusClosed, TypeInv, TypeOK
    <3> QED BY <1>2, <3>1, <3>2, OnlyLookupAttaches
  <2>5. w \notin BusesOf(v)
    BY <2>1 DEF BusesOf, BusClosed, Workers
  <2>6. sent'[w] = sent[w]
    <3>1. ASSUME NEW e, Broadcast(v, e) PROVE sent'[w] = sent[w]
      BY <2>5, <3>1 DEF Broadcast
    <3> QED BY <1>2, <3>1, SentOnly
  <2> QED BY <2>2, <2>3, <2>4, <2>6 DEF BusClosed
<1> QED BY <1>1, <1>2, StepsOrStutter

-----------------------------------------------------------------------------
(***************************************************************************)
(* Logs and buses.  The event a worker is applying is the last of its      *)
(* task's log, and what a bus has carried is no later than it.             *)
(***************************************************************************)
IsUpdate(x) == x.event.kind # "task"

\* x is the last item of the log of t, or before it.
UpTo(x, t) ==
    LET log == eventLogs[t]
    IN  log # <<>> /\ (x = log[Len(log)] \/ x.seq < log[Len(log)].seq)

LogsOwn ==
    \A t \in Tasks : \A i \in DOMAIN eventLogs[t] :
        /\ IsUpdate(eventLogs[t][i])
        /\ eventLogs[t][i].by \in Workers /\ taskOf[eventLogs[t][i].by] = t

LastLogged ==
    \A w \in Workers : Logged(w) =>
        LET log == eventLogs[taskOf[w]] IN log # <<>> /\ log[Len(log)] = Held(w)

NotSentYet ==
    \A w \in Workers : Numbered(w) => \A x \in BusItems : x.seq # seq[w]

SentUpTo ==
    \A b \in Turns : \A i \in DOMAIN sent[b] :
        IsUpdate(sent[b][i]) => UpTo(sent[b][i], taskOf[b])

BusInOrder ==
    \A b \in Turns : \A i, j \in DOMAIN sent[b] :
        i < j /\ IsUpdate(sent[b][i]) /\ IsUpdate(sent[b][j]) =>
            sent[b][i].seq < sent[b][j].seq

TopInv == LogsOwn /\ LastLogged /\ NotSentYet /\ SentUpTo /\ BusInOrder

\* What a step has to do with logs, buses and numbers, if anything.
Still(w) ==
    /\ sent' = sent /\ eventLogs' = eventLogs
    /\ Numbered(w)' => Numbered(w) /\ seq'[w] = seq[w] /\ event'[w] = event[w]
    /\ Logged(w)' => Logged(w)
    /\ w \in Turns /\ Logged(w) => Logged(w)' /\ seq'[w] = seq[w] /\ event'[w] = event[w]

LEMMA StepKinds ==
    ASSUME TypeInv, PlacesInv, NEW w \in Workers, StepOf(w)
    PROVE  \/ AppendLog(w) \/ SendEvent(w) \/ TakeSeq(w)
           \/ w \in Turns /\ (SendLead(w) \/ TakeLeadSeq(w))
           \/ Still(w)
<1> USE DEF Still, TypeInv, TypeOK, Numbered, Unlogged, Logged
<1>0. Turns \cap Cancels = {}
  BY EngineAssumption
<1>1. CASE ClientStep(w)
  <2>1. CASE AbortCall(w)
    BY <2>1, <1>0 DEF AbortCall, InHandler
  <2>2. CASE RefuseCall(w)
    BY <2>2 DEF RefuseCall
  <2>3. CASE \E t \in Tasks : StartNewTask(w, t) \/ ContinueTask(w, t) \/ StartCancel(w, t)
    BY <2>3 DEF StartNewTask, ContinueTask, StartCancel
  <2> QED BY <1>1, <2>1, <2>2, <2>3 DEF ClientStep
<1>2. CASE ApplyStep(w)
  <2>1. CASE ReceiveEvent(w)
    BY <2>1 DEF ReceiveEvent, Apply
  <2>2. CASE SkipEmptyArtifact(w)
    BY <2>2 DEF SkipEmptyArtifact
  <2>3. CASE GetTask(w) \/ PutTask(w)
    BY <2>3 DEF GetTask, PutTask
  <2> QED BY <1>2, <2>1, <2>2, <2>3 DEF ApplyStep
<1>3. CASE w \in Turns /\ TurnStep(w)
  <2>1. CASE ExecutorFails(w)
    BY <2>1 DEF ExecutorFails, Apply
  <2>2. CASE InsertBus(w) \/ InsertToken(w) \/ ExecutorReturns(w) \/ RemoveBus(w) \/ RemoveToken(w)
    BY <2>2 DEF InsertBus, InsertToken, ExecutorReturns, RemoveBus, RemoveToken
  <2> QED BY <1>3, <2>1, <2>2 DEF TurnStep
<1>4. CASE w \in Cancels /\ CancelStep(w)
  <2>1. CASE Reread(w)
    BY <1>0, <1>4, <2>1 DEF Reread, Apply, Return
  <2>2. CASE FinalGet(w)
    BY <1>0, <1>4, <2>2 DEF FinalGet, Return
  <2>3. CASE SignalToken(w) \/ ExecutorCancelOk(w) \/ ExecutorCancelErr(w) \/ LookupBus(w)
    BY <1>0, <1>4, <2>3 DEF SignalToken, ExecutorCancelOk, ExecutorCancelErr, LookupBus
  <2> QED BY <1>4, <2>1, <2>2, <2>3 DEF CancelStep
<1> QED BY <1>1, <1>2, <1>3, <1>4 DEF StepOf, ServerStep

\* The log of the task a worker appends to.
LEMMA AppendTo ==
    ASSUME TypeInv, LogInv, OrderInv, NEW w \in Workers, AppendLog(w),
           NEW log, log = eventLogs[taskOf[w]]
    PROVE  /\ taskOf[w] \in Tasks /\ Held(w) \in Item /\ IsUpdate(Held(w)) /\ Held(w).by = w
           /\ \A t \in Tasks : eventLogs'[t] =
                  IF t = taskOf[w] THEN AppendBounded(log, Held(w)) ELSE eventLogs[t]
           /\ sent' = sent /\ seq' = seq /\ event' = event /\ taskOf' = taskOf
           /\ log \in Seq(Item) /\ Len(log) <= EventLogCapacity /\ Below(log, seq[w])
           /\ pc' = [pc EXCEPT ![w] = IF event[w].kind = "message" THEN "send" ELSE "getTask"]
<1>1. taskOf[w] \in Tasks /\ event[w] \in ExecutorEvents /\ pc[w] = "appendLog"
  BY DEF TypeInv, TypeOK, HoldsOf, AppendLog, Active, PCs
<1>2. Held(w) \in Item /\ Held(w).by = w
  BY <1>1 DEF TypeInv, TypeOK, Item, Events, Held
<1>3. IsUpdate(Held(w))
  BY <1>1 DEF IsUpdate, Held, ExecutorEvents, TaskUpdates, BareMessage
<1>4. log \in Seq(Item) /\ Len(log) <= EventLogCapacity /\ Below(log, seq[w])
  BY <1>1 DEF LogInv, OrderInv, TypeInv, TypeOK
<1>5. \A t \in Tasks : eventLogs'[t] =
         IF t = taskOf[w] THEN AppendBounded(log, Held(w)) ELSE eventLogs[t]
  BY <1>1 DEF AppendLog, Held, TypeInv, TypeOK
<1> QED BY <1>1, <1>2, <1>3, <1>4, <1>5 DEF AppendLog

\* Logs are appended to and keep what comes last for the rest.
LEMMA OnlyAppendLogs ==
    ASSUME TypeInv, PlacesInv, NEW w \in Workers, StepOf(w), ~AppendLog(w)
    PROVE  eventLogs' = eventLogs
BY StepKinds DEF Still, SendEvent, TakeSeq, SendLead, TakeLeadSeq

LEMMA UpToGrows ==
    ASSUME TypeInv, PlacesInv, LogInv, OrderInv, NEW w \in Workers, StepOf(w),
           NEW t \in Tasks, NEW x, x.seq \in Nat, UpTo(x, t)
    PROVE  UpTo(x, t)'
<1>1. CASE ~AppendLog(w)
  BY <1>1, OnlyAppendLogs DEF UpTo
<1>2. CASE AppendLog(w)
  <2>1. PICK log : log = eventLogs[taskOf[w]]
    OBVIOUS
  <2>2. PICK longer, item : longer = AppendBounded(log, item) /\ item = Held(w)
    OBVIOUS
  <2>3. /\ taskOf[w] \in Tasks /\ item \in Item /\ log \in Seq(Item) /\ Below(log, item.seq)
        /\ \A u \in Tasks : eventLogs'[u] = IF u = taskOf[w] THEN longer ELSE eventLogs[u]
        /\ Len(log) <= EventLogCapacity
    BY <1>2, <2>1, <2>2, AppendTo DEF Held
  <2>4. longer \in Seq(Item) /\ longer[Len(longer)] = item /\ Len(longer) > 0
    BY <2>2, <2>3, AppendBoundedIndexes
  <2>5. CASE t # taskOf[w]
    BY <2>3, <2>5 DEF UpTo
  <2>6. CASE t = taskOf[w]
    <3>1. Len(log) \in DOMAIN log /\ log[Len(log)] \in Item
      BY <2>1, <2>3, <2>6 DEF UpTo
    <3>2. log[Len(log)].seq < item.seq /\ log[Len(log)].seq \in Nat /\ item.seq \in Nat
      BY <2>3, <3>1 DEF Below, Item
    <3>3. x.seq < item.seq
      BY <2>1, <2>6, <3>2 DEF UpTo
    <3> QED BY <2>3, <2>4, <2>6, <3>3 DEF UpTo
  <2> QED BY <2>5, <2>6
<1> QED BY <1>1, <1>2

\* What is sent, on the buses of the worker's own task.
LEMMA SendTo ==
    ASSUME TypeInv, SentInv, NEW w \in Workers,
           SendEvent(w) \/ (w \in Turns /\ SendLead(w))
    PROVE  \E item \in Item :
              /\ item.by = w /\ item.seq = seq[w]
              /\ \A b \in Turns : sent'[b] = IF b \in BusesOf(w) THEN Append(sent[b], item)
                                             ELSE sent[b]
              /\ eventLogs' = eventLogs /\ taskOf' = taskOf
              /\ \A b \in BusesOf(w) : b \in Turns /\ taskOf[b] = taskOf[w]
              /\ taskOf[w] \in Tasks
              /\ Numbered(w) /\ ~Numbered(w)'
              /\ IsUpdate(item) => Logged(w) /\ item = Held(w) /\ SendEvent(w)
              /\ SendEvent(w) => IsUpdate(item)
<1>1. \A b \in BusesOf(w) : b \in Turns /\ taskOf[b] = taskOf[w]
  BY DEF BusesOf, SentInv, Of, Workers, TypeInv, TypeOK
<1>2. CASE SendEvent(w)
  <2>1. event[w] \in ExecutorEvents /\ pc[w] = "send" /\ taskOf[w] \in Tasks
    BY <1>2 DEF SendEvent, TypeInv, HoldsOf, Active, PCs
  <2>2. Held(w) \in Item /\ IsUpdate(Held(w))
    BY <2>1 DEF TypeInv, TypeOK, Item, Events, Held, IsUpdate, ExecutorEvents, TaskUpdates,
       BareMessage
  <2>3. \A b \in Turns : sent'[b] = IF b \in BusesOf(w) THEN Append(sent[b], Held(w))
                                    ELSE sent[b]
    BY <1>2 DEF SendEvent, Broadcast, Held
  <2>4. ~Numbered(w)'
    BY <1>2 DEF SendEvent, AfterSend, Numbered, Unlogged, TypeInv, TypeOK
  <2> QED BY <1>1, <1>2, <2>1, <2>2, <2>3, <2>4 DEF SendEvent, Numbered, Logged, Held
<1>3. CASE w \in Turns /\ SendLead(w)
  <2> DEFINE item == [seq |-> seq[w], by |-> w, event |-> TaskEvent(LeadTask(w))]
  <2>1. pc[w] = "sendLead" /\ taskOf[w] \in Tasks /\ LeadTask(w) \in Task
    BY <1>3, LeadTaskType DEF SendLead, TypeInv, HoldsOf, Active, PCs
  <2>2. item \in Item /\ ~IsUpdate(item)
    BY <2>1 DEF TypeInv, TypeOK, Item, Events, TaskEvent, IsUpdate
  <2>3. \A b \in Turns : sent'[b] = IF b \in BusesOf(w) THEN Append(sent[b], item)
                                    ELSE sent[b]
    BY <1>3 DEF SendLead, Broadcast
  <2>4. ~Numbered(w)' /\ ~SendEvent(w)
    BY <1>3 DEF SendLead, SendEvent, Numbered, Unlogged, TypeInv, TypeOK
  <2> QED BY <1>1, <1>3, <2>1, <2>2, <2>3, <2>4 DEF SendLead, Numbered, Unlogged
<1> QED BY <1>2, <1>3

LEMMA OnlySenders ==
    ASSUME TypeInv, PlacesInv, NEW w \in Workers, StepOf(w),
           ~SendEvent(w), ~(w \in Turns /\ SendLead(w))
    PROVE  sent' = sent
BY StepKinds DEF Still, AppendLog, TakeSeq, TakeLeadSeq

LEMMA InitTopInv == Init => TopInv
<1> SUFFICES ASSUME Init PROVE TopInv
  OBVIOUS
<1>1. \A t \in Tasks : eventLogs[t] = <<>>
  BY DEF Init
<1>2. \A b \in Turns : sent[b] = <<>>
  BY DEF Init
<1>3. \A w \in Workers : ~Numbered(w) /\ ~Logged(w)
  BY DEF Init, Numbered, Unlogged, Logged
<1> QED BY <1>1, <1>2, <1>3 DEF TopInv, LogsOwn, LastLogged, NotSentYet, SentUpTo, BusInOrder

\* A worker whose items there are has its task for good.
LEMMA TaskStays ==
    ASSUME TypeInv, PlacesInv, OneAtATime, NEW w \in Workers, StepOf(w),
           NEW v \in Workers, taskOf[v] \in Tasks \/ pc[v] # "idle"
    PROVE  taskOf'[v] = taskOf[v]
<1>1. pc[v] # "idle"
  BY EngineAssumption DEF OneAtATime
<1> QED BY <1>1, TasksKept DEF TypeInv, TypeOK

LEMMA NextLogsOwn ==
    ASSUME TypeInv, PlacesInv, LogInv, OneAtATime, OrderInv, LogsOwn,
           NEW w \in Workers, StepOf(w)
    PROVE  LogsOwn'
<1> SUFFICES ASSUME NEW t \in Tasks, NEW i \in DOMAIN eventLogs'[t]
             PROVE  /\ IsUpdate(eventLogs'[t][i])
                    /\ eventLogs'[t][i].by \in Workers /\ taskOf'[eventLogs'[t][i].by] = t
  BY DEF LogsOwn, IsUpdate
<1>1. CASE \E j \in DOMAIN eventLogs[t] : eventLogs'[t][i] = eventLogs[t][j]
  BY <1>1, TaskStays DEF LogsOwn
<1>2. CASE ~AppendLog(w)
  BY <1>1, <1>2, OnlyAppendLogs
<1>3. CASE AppendLog(w) /\ t # taskOf[w]
  BY <1>1, <1>3, AppendTo
<1>4. CASE AppendLog(w) /\ t = taskOf[w]
  <2>1. PICK log, item : log = eventLogs[t] /\ item = Held(w)
    OBVIOUS
  <2>2. /\ log \in Seq(Item) /\ item \in Item /\ eventLogs'[t] = AppendBounded(log, item)
        /\ IsUpdate(item) /\ item.by = w /\ taskOf' = taskOf
    BY <1>4, <2>1, AppendTo
  <2>3. eventLogs'[t][i] = item \/ \E j \in DOMAIN log : eventLogs'[t][i] = log[j]
    BY <2>2, AppendBoundedMembers
  <2> QED BY <1>1, <1>4, <2>1, <2>2, <2>3
<1> QED BY <1>2, <1>3, <1>4

LEMMA NextLastLogged ==
    ASSUME TypeInv, PlacesInv, LogInv, OneAtATime, OrderInv, LastLogged,
           NEW w \in Workers, StepOf(w)
    PROVE  LastLogged'
<1> SUFFICES ASSUME NEW v \in Workers, Logged(v)', NEW t, t = taskOf'[v]
             PROVE  eventLogs'[t] # <<>> /\ eventLogs'[t][Len(eventLogs'[t])] = Held(v)'
  BY DEF LastLogged
<1>1. CASE v # w
  <2>1. /\ pc'[v] = pc[v] /\ taskOf'[v] = taskOf[v] /\ seq'[v] = seq[v] /\ event'[v] = event[v]
    BY <1>1, StepsAlone DEF StepOf, Alone
  <2>2. Logged(v) /\ Held(v)' = Held(v) /\ ~Answered(v) /\ t \in Tasks /\ taskOf[v] = t
    BY <2>1 DEF Logged, Held, Answered, Ended, TypeInv, HoldsOf, Active, PCs
  <2>3. eventLogs'[t] = eventLogs[t]
    BY <1>1, <2>2, OthersUntouched
  <2> QED BY <2>2, <2>3 DEF LastLogged
<1>2. CASE v = w /\ AppendLog(w)
  <2>1. PICK log, item : log = eventLogs[t] /\ item = Held(w)
    OBVIOUS
  <2>2. taskOf' = taskOf /\ t \in Tasks /\ t = taskOf[w]
    BY <1>2, AppendTo
  <2>3. /\ log \in Seq(Item) /\ item \in Item /\ eventLogs'[t] = AppendBounded(log, item)
        /\ Len(log) <= EventLogCapacity
        /\ Held(w)' = item
    BY <1>2, <2>1, <2>2, AppendTo DEF Held
  <2>4. PICK longer : longer = AppendBounded(log, item)
    OBVIOUS
  <2>5. longer \in Seq(Item) /\ longer[Len(longer)] = item /\ Len(longer) > 0
    BY <2>3, <2>4, AppendBoundedIndexes
  <2> QED BY <1>2, <2>3, <2>4, <2>5
<1>3. CASE v = w /\ ~AppendLog(w)
  <2>1. ~SendEvent(w) /\ ~TakeSeq(w) /\ ~(w \in Turns /\ (SendLead(w) \/ TakeLeadSeq(w)))
    BY <1>3 DEF SendEvent, AfterSend, TakeSeq, SendLead, TakeLeadSeq, Logged, TypeInv, TypeOK
  <2>2. Still(w)
    BY <1>3, <2>1, StepKinds
  <2>3. Logged(w) /\ Held(w)' = Held(w) /\ eventLogs' = eventLogs
    BY <1>3, <2>2 DEF Still, Logged, Numbered, Held
  <2>4. taskOf'[w] = taskOf[w]
    BY <2>3, TaskStays DEF Logged
  <2> QED BY <1>3, <2>3, <2>4 DEF LastLogged
<1> QED BY <1>1, <1>2, <1>3

LEMMA NextNotSentYet ==
    ASSUME TypeInv, PlacesInv, SeqInv, SentInv, NotSentYet, NEW w \in Workers, StepOf(w)
    PROVE  NotSentYet'
<1> SUFFICES ASSUME NEW v \in Workers, Numbered(v)', NEW b \in Turns, NEW i \in DOMAIN sent'[b]
             PROVE  sent'[b][i].seq # seq'[v]
  BY DEF NotSentYet, BusItems
<1>1. CASE sent' = sent /\ Numbered(v) /\ seq'[v] = seq[v]
  BY <1>1, BusItem DEF NotSentYet
<1>2. CASE TakeSeq(w) \/ (w \in Turns /\ TakeLeadSeq(w))
  <2>1. /\ sent' = sent /\ seq' = [seq EXCEPT ![w] = nextSeq]
        /\ \A u \in Workers \ {w} : pc'[u] = pc[u]
    BY <1>2 DEF TakeSeq, TakeLeadSeq, FetchSeq, TypeInv, TypeOK
  <2>2. CASE v # w
    BY <1>1, <2>1, <2>2 DEF Numbered, Unlogged
  <2>3. CASE v = w
    <3>1. seq'[w] = nextSeq /\ sent[b][i] \in Items
      BY <2>1, BusItem DEF TypeInv, TypeOK, Items
    <3>2. sent[b][i].seq < nextSeq /\ sent[b][i].seq \in Nat /\ nextSeq \in Nat
      BY <3>1, ItemsTyped DEF SeqInv, TypeInv, TypeOK, Item
    <3> QED BY <2>1, <2>3, <3>1, <3>2
  <2> QED BY <2>2, <2>3
<1>3. CASE AppendLog(w) \/ Still(w)
  <2>1. CASE v # w
    BY <1>1, <1>3, <2>1, StepsAlone DEF AppendLog, Still, StepOf, Alone, Numbered, Unlogged
  <2>2. CASE v = w
    BY <1>1, <1>3, <2>2 DEF AppendLog, Still, Numbered, Unlogged
  <2> QED BY <2>1, <2>2
<1>4. CASE SendEvent(w) \/ (w \in Turns /\ SendLead(w))
  <2>1. PICK item \in Item :
          /\ item.seq = seq[w]
          /\ \A c \in Turns : sent'[c] = IF c \in BusesOf(w) THEN Append(sent[c], item)
                                         ELSE sent[c]
          /\ Numbered(w) /\ ~Numbered(w)'
    BY <1>4, SendTo
  <2>2. Numbered(v) /\ seq'[v] = seq[v] /\ v # w
    BY <2>1, StepsAlone DEF StepOf, Alone, Numbered, Unlogged
  <2>3. seq[v] # seq[w]
    BY <2>1, <2>2 DEF SeqInv
  <2>4. PICK log : log = sent[b]
    OBVIOUS
  <2>5. log \in Seq(Item)
    BY <2>4 DEF TypeInv, TypeOK
  <2>6. sent'[b][i] = item \/ \E j \in DOMAIN log : sent'[b][i] = log[j]
    <3>1. CASE b \in BusesOf(w)
      <4>1. sent'[b] = Append(log, item) /\ i \in DOMAIN Append(log, item)
        BY <2>1, <2>4, <3>1
      <4> QED BY <2>5, <4>1, AppendMembers
    <3>2. CASE b \notin BusesOf(w)
      BY <2>1, <2>4, <3>2
    <3> QED BY <3>1, <3>2
  <2> QED BY <2>1, <2>2, <2>3, <2>4, <2>6, BusItem DEF NotSentYet
<1> QED BY <1>2, <1>3, <1>4, StepKinds

\* What a bus has after a step: what it had, and one item at the end if the
\* worker sent one on it.
LEMMA BusAfter ==
    ASSUME TypeInv, PlacesInv, SentInv, NEW w \in Workers, StepOf(w),
           NEW b \in Turns, NEW i \in DOMAIN sent'[b]
    PROVE  \/ i \in DOMAIN sent[b] /\ sent'[b][i] = sent[b][i]
           \/ /\ i = Len(sent[b]) + 1 /\ Len(sent'[b]) = i
              /\ b \in BusesOf(w) /\ taskOf[b] = taskOf[w] /\ taskOf[w] \in Tasks
              /\ eventLogs' = eventLogs /\ taskOf' = taskOf
              /\ sent'[b][i].by = w /\ sent'[b][i].seq = seq[w]
              /\ IsUpdate(sent'[b][i]) => Logged(w) /\ sent'[b][i] = Held(w)
<1>1. CASE ~SendEvent(w) /\ ~(w \in Turns /\ SendLead(w))
  BY <1>1, OnlySenders
<1>2. CASE SendEvent(w) \/ (w \in Turns /\ SendLead(w))
  <2>1. PICK item \in Item :
          /\ item.by = w /\ item.seq = seq[w]
          /\ sent'[b] = IF b \in BusesOf(w) THEN Append(sent[b], item) ELSE sent[b]
          /\ eventLogs' = eventLogs /\ taskOf' = taskOf
          /\ \A c \in BusesOf(w) : taskOf[c] = taskOf[w]
          /\ taskOf[w] \in Tasks
          /\ IsUpdate(item) => Logged(w) /\ item = Held(w)
    BY <1>2, SendTo
  <2>2. PICK items : items = sent[b]
    OBVIOUS
  <2>3. items \in Seq(Item)
    BY <2>2 DEF TypeInv, TypeOK
  <2>4. CASE b \notin BusesOf(w)
    BY <2>1, <2>4
  <2>5. CASE b \in BusesOf(w) /\ i \in DOMAIN items
    <3>1. Append(items, item)[i] = items[i]
      BY <2>3, <2>5
    <3> QED BY <2>1, <2>2, <2>5, <3>1
  <2>6. CASE b \in BusesOf(w) /\ i \notin DOMAIN items
    <3>1. sent'[b] = Append(items, item)
      BY <2>1, <2>2, <2>6
    <3>2. i = Len(items) + 1 /\ Len(Append(items, item)) = i /\ Append(items, item)[i] = item
      BY <2>3, <2>6, <3>1
    <3>3. i = Len(sent[b]) + 1 /\ Len(sent'[b]) = i /\ sent'[b][i] = item
      BY <2>2, <3>1, <3>2
    <3> QED BY <2>1, <2>6, <3>3
  <2> QED BY <2>2, <2>4, <2>5, <2>6
<1> QED BY <1>1, <1>2

\* Somebody who has sent anything has a task.
LEMMA SendersTask ==
    ASSUME TypeInv, SentInv, NEW b \in Turns, NEW i \in DOMAIN sent[b]
    PROVE  /\ sent[b][i] \in Item /\ sent[b][i].seq \in Nat
           /\ pc[b] # "idle" /\ taskOf[b] \in Tasks
<1>1. sent[b] \in Seq(Item) /\ sent[b] # <<>>
  BY DEF TypeInv, TypeOK
<1>2. sent[b][i] \in Item
  BY <1>1
<1>3. sent[b][i].seq \in Nat
  BY <1>2 DEF Item
<1> QED BY <1>1, <1>2, <1>3 DEF SentInv

LEMMA NextSentUpTo ==
    ASSUME TypeInv, PlacesInv, LogInv, SentInv, OneAtATime, OrderInv, LastLogged, SentUpTo,
           NEW w \in Workers, StepOf(w)
    PROVE  SentUpTo'
<1> SUFFICES ASSUME NEW b \in Turns, NEW i \in DOMAIN sent'[b], IsUpdate(sent'[b][i]),
                    NEW x, x = sent'[b][i], NEW t, t = taskOf'[b]
             PROVE  UpTo(x, t)'
  BY DEF SentUpTo, UpTo, IsUpdate
<1>0. b \in Workers
  BY DEF Workers
<1>1. CASE i \in DOMAIN sent[b] /\ sent'[b][i] = sent[b][i]
  <2>1. x.seq \in Nat /\ taskOf[b] \in Tasks
    BY <1>1, SendersTask
  <2>2. t = taskOf[b]
    BY <1>0, <2>1, TaskStays
  <2>3. UpTo(x, t)
    BY <1>1, <2>2 DEF SentUpTo
  <2> QED BY <2>1, <2>2, <2>3, UpToGrows
<1>2. CASE ~(i \in DOMAIN sent[b] /\ sent'[b][i] = sent[b][i])
  <2>1. /\ Logged(w) /\ x = Held(w) /\ t = taskOf[w] /\ eventLogs' = eventLogs
    BY <1>2, BusAfter
  <2>2. eventLogs[t] # <<>> /\ eventLogs[t][Len(eventLogs[t])] = x
    BY <2>1 DEF LastLogged
  <2> QED BY <2>1, <2>2 DEF UpTo
<1> QED BY <1>1, <1>2

LEMMA NextBusInOrder ==
    ASSUME TypeInv, PlacesInv, SentInv, LastLogged, NotSentYet, SentUpTo, BusInOrder,
           NEW w \in Workers, StepOf(w)
    PROVE  BusInOrder'
<1> SUFFICES ASSUME NEW b \in Turns, NEW i \in DOMAIN sent'[b], NEW j \in DOMAIN sent'[b],
                    i < j, IsUpdate(sent'[b][i]), IsUpdate(sent'[b][j])
             PROVE  sent'[b][i].seq < sent'[b][j].seq
  BY DEF BusInOrder, IsUpdate
<1>0. sent[b] \in Seq(Item) /\ i \in Nat /\ j \in Nat
  <2>1. sent[b] \in Seq(Item) /\ Len(sent[b]) \in Nat
    BY DEF TypeInv, TypeOK
  <2>2. i \in DOMAIN sent[b] \/ i = Len(sent[b]) + 1
    BY BusAfter
  <2>3. j \in DOMAIN sent[b] \/ j = Len(sent[b]) + 1
    BY BusAfter
  <2> QED BY <2>1, <2>2, <2>3
<1>1. CASE j \in DOMAIN sent[b] /\ sent'[b][j] = sent[b][j]
  <2>1. i # Len(sent[b]) + 1
    BY <1>0, <1>1
  <2>2. i \in DOMAIN sent[b] /\ sent'[b][i] = sent[b][i]
    BY <2>1, BusAfter
  <2> QED BY <1>1, <2>2 DEF BusInOrder
<1>2. CASE ~(j \in DOMAIN sent[b] /\ sent'[b][j] = sent[b][j])
  <2>1. PICK x : x = sent'[b][j]
    OBVIOUS
  <2>2. /\ j = Len(sent[b]) + 1 /\ Logged(w) /\ x = Held(w) /\ taskOf[b] = taskOf[w]
        /\ x.seq = seq[w]
    BY <1>2, <2>1, BusAfter
  <2>3. i # Len(sent[b]) + 1
    BY <1>0, <2>2
  <2>4. i \in DOMAIN sent[b] /\ sent'[b][i] = sent[b][i]
    BY <2>3, BusAfter
  <2>5. UpTo(sent[b][i], taskOf[b]) /\ sent[b][i].seq # seq[w]
    BY <2>2, <2>4, BusItem DEF SentUpTo, NotSentYet, Numbered, Logged
  <2>6. eventLogs[taskOf[w]][Len(eventLogs[taskOf[w]])] = x
    BY <2>2 DEF LastLogged
  <2> QED BY <2>1, <2>2, <2>4, <2>5, <2>6 DEF UpTo
<1> QED BY <1>1, <1>2

LEMMA NextTopInv ==
    TypeInv /\ SeqInv /\ LogInv /\ SentInv /\ PlacesInv /\ OneAtATime /\ OrderInv /\ TopInv
        /\ [Next]_vars => TopInv'
<1> SUFFICES ASSUME TypeInv, SeqInv, LogInv, SentInv, PlacesInv, OneAtATime, OrderInv, TopInv,
                    [Next]_vars
             PROVE  TopInv'
  OBVIOUS
<1>1. CASE UNCHANGED vars
  BY <1>1 DEF TopInv, LogsOwn, LastLogged, NotSentYet, SentUpTo, BusInOrder, UpTo, IsUpdate,
     Logged, Numbered, Unlogged, Held, BusItems
<1>2. ASSUME NEW w \in Workers, StepOf(w) PROVE TopInv'
  BY <1>2, NextLogsOwn, NextLastLogged, NextNotSentYet, NextSentUpTo, NextBusInOrder DEF TopInv
<1> QED BY <1>1, <1>2, StepsOrStutter

-----------------------------------------------------------------------------
(***************************************************************************)
(* The record as a function of the log (TaskReplay).                       *)
(***************************************************************************)
\* A non-empty set of numbers has a least one.
LEMMA Least ==
    ASSUME NEW T \in SUBSET Nat, T # {}
    PROVE  \E n \in T : \A m \in T : n <= m
<1> DEFINE below == {p \in Nat \X Nat : p[1] < p[2]}
<1>1. IsWellFoundedOn(below, Nat)
  BY NatLessThanWellFounded DEF OpToRel
<1>2. PICK n \in T : \A m \in T : <<m, n>> \notin below
  <2> HIDE DEF below
  <2> QED BY <1>1, WFMin
<1>3. \A m \in T : ~(m < n)
  BY <1>2
<1> QED BY <1>3

-----------------------------------------------------------------------------
(***************************************************************************)
(* Places in order.  A place above all others goes to the end.             *)
(***************************************************************************)
LEMMA AscendingGrows ==
    ASSUME NEW S \in SUBSET Nat, IsFiniteSet(S), NEW m \in Nat, \A i \in S : i < m
    PROVE  /\ Cardinality(S) \in Nat /\ Cardinality(S \cup {m}) = Cardinality(S) + 1
           /\ IsFiniteSet(S \cup {m})
           /\ \A k \in 1 .. Cardinality(S) : Ascending(S \cup {m})[k] = Ascending(S)[k]
           /\ Ascending(S \cup {m})[Cardinality(S) + 1] = m
<1>1. PICK T : T = S \cup {m}
  OBVIOUS
<1>2. PICK c : c = Cardinality(S)
  OBVIOUS
<1>3. m \notin S
  OBVIOUS
<1>4. c \in Nat /\ IsFiniteSet(T) /\ Cardinality(T) = c + 1
  BY <1>1, <1>2, <1>3, FS_CardinalityType, FS_AddElement
<1>5. ASSUME NEW i \in S
      PROVE  /\ {j \in T : j <= i} = {j \in S : j <= i}
             /\ Cardinality({j \in S : j <= i}) <= c
  <2>1. {j \in T : j <= i} = {j \in S : j <= i}
    BY <1>1
  <2>2. {j \in S : j <= i} \in SUBSET S
    OBVIOUS
  <2> QED BY <1>2, <2>1, <2>2, FS_Subset
<1>6. {j \in T : j <= m} = T
  <2>1. \A j \in T : j <= m
    BY <1>1
  <2> QED BY <2>1
<1>7. Ranked(T, c + 1) = {m}
  <2>1. ASSUME NEW i \in S PROVE Cardinality({j \in T : j <= i}) # c + 1
    <3>1. PICK d : d = Cardinality({j \in S : j <= i})
      OBVIOUS
    <3>2. d \in Nat
      <4>1. IsFiniteSet({j \in S : j <= i})
        <5>1. {j \in S : j <= i} \in SUBSET S
          OBVIOUS
        <5> QED BY <5>1, FS_Subset
      <4> QED BY <3>1, <4>1, FS_CardinalityType
    <3> QED BY <1>4, <1>5, <3>1, <3>2
  <2> QED BY <1>1, <1>4, <1>6, <2>1 DEF Ranked
<1>8. ASSUME NEW k \in 1 .. c PROVE Ranked(T, k) = Ranked(S, k)
  <2>1. k # c + 1
    BY <1>4
  <2>2. \A i \in S : Cardinality({j \in T : j <= i}) = Cardinality({j \in S : j <= i})
    BY <1>5
  <2>3. \A i \in S : i \in Ranked(T, k) <=> i \in Ranked(S, k)
    BY <1>1, <2>2 DEF Ranked
  <2>4. m \notin Ranked(T, k)
    BY <1>4, <1>6, <2>1 DEF Ranked
  <2> QED BY <1>1, <2>3, <2>4 DEF Ranked
<1>9. \A k \in 1 .. c + 1 : Ascending(T)[k] = CHOOSE i \in Ranked(T, k) : TRUE
  BY <1>4 DEF Ascending
<1>10. \A k \in 1 .. c : Ascending(S)[k] = CHOOSE i \in Ranked(S, k) : TRUE
  BY <1>2 DEF Ascending
<1>11. \A k \in 1 .. c : k \in 1 .. c + 1
  BY <1>4
<1>12. Ascending(T)[c + 1] = m
  <2>1. c + 1 \in 1 .. c + 1
    BY <1>4
  <2>2. Ascending(T)[c + 1] = CHOOSE i \in {m} : TRUE
    BY <1>7, <1>9, <2>1
  <2> QED BY <2>2
<1>13. \A k \in 1 .. c : Ascending(T)[k] = Ascending(S)[k]
  BY <1>8, <1>9, <1>10, <1>11
<1> QED BY <1>1, <1>2, <1>4, <1>12, <1>13

\* Every set of places can be enumerated.
LEMMA AscendingPlaces ==
    ASSUME NEW n \in Nat, NEW S \in SUBSET (1 .. n)
    PROVE  /\ IsFiniteSet(S) /\ Cardinality(S) \in Nat
           /\ \A k \in 1 .. Cardinality(S) : Ascending(S)[k] \in S
<1> DEFINE Good(R) == \A k \in 1 .. Cardinality(R) : Ascending(R)[k] \in R
           Bad == {b \in Nat : \E R \in SUBSET (1 .. b) : ~Good(R)}
<1>1. ASSUME NEW b \in Nat, NEW R \in SUBSET (1 .. b)
      PROVE  IsFiniteSet(R) /\ Cardinality(R) \in Nat
  <2>1. IsFiniteSet(1 .. b)
    BY FS_Interval
  <2>2. IsFiniteSet(R)
    BY <2>1, FS_Subset
  <2> QED BY <2>2, FS_CardinalityType
<1>2. \A b \in Bad : b \in Nat /\ \E R \in SUBSET (1 .. b) : ~Good(R)
  OBVIOUS
<1>3. \A b \in Nat \ Bad : \A R \in SUBSET (1 .. b) : Good(R)
  OBVIOUS
<1>4. Good({})
  BY FS_EmptySet
<1>5. Bad \in SUBSET Nat
  OBVIOUS
<1> HIDE DEF Bad
<1>6. Bad = {}
  <2> SUFFICES ASSUME Bad # {} PROVE FALSE
    OBVIOUS
  <2>1. PICK b \in Bad : \A d \in Bad : b <= d
    BY <1>5, Least
  <2>2. PICK R \in SUBSET (1 .. b) : ~Good(R)
    BY <1>2
  <2>3. b \in Nat /\ R # {}
    BY <1>2, <1>4, <2>2
  <2>4. b # 0
    <3>1. PICK i \in R : i \in 1 .. b
      BY <2>2, <2>3
    <3> QED BY <2>3, <3>1
  <2>5. PICK a : a = b - 1
    OBVIOUS
  <2>6. a \in Nat /\ a \notin Bad
    BY <2>1, <2>3, <2>4, <2>5
  <2>7. \A Q \in SUBSET (1 .. a) : Good(Q)
    BY <1>3, <2>6
  <2>8. b \in R
    <3> SUFFICES ASSUME b \notin R PROVE FALSE
      OBVIOUS
    <3>1. \A i \in R : i \in 1 .. a
      BY <2>3, <2>5
    <3> QED BY <2>2, <2>7, <3>1
  <2>9. PICK Q : Q = R \ {b}
    OBVIOUS
  <2>10. \A i \in Q : i \in 1 .. a /\ i \in Nat /\ i < b
    BY <2>3, <2>5, <2>9
  <2>11. Good(Q)
    BY <2>7, <2>10
  <2>12. IsFiniteSet(Q) /\ Q \in SUBSET Nat /\ Q \cup {b} = R
    <3>1. Q \in SUBSET (1 .. a)
      BY <2>10
    <3> QED BY <1>1, <2>6, <2>8, <2>9, <2>10, <3>1
  <2>13. PICK c : c = Cardinality(Q)
    OBVIOUS
  <2>14. /\ c \in Nat /\ Cardinality(R) = c + 1 /\ Ascending(R)[c + 1] = b
         /\ \A k \in 1 .. c : Ascending(R)[k] = Ascending(Q)[k]
    BY <2>3, <2>10, <2>12, <2>13, AscendingGrows
  <2>15. \A k \in 1 .. c + 1 : k = c + 1 \/ k \in 1 .. c
    BY <2>14
  <2>16. \A k \in 1 .. c : Ascending(Q)[k] \in R
    BY <2>9, <2>11, <2>13
  <2>17. Good(R)
    BY <2>8, <2>14, <2>15, <2>16
  <2> QED BY <2>2, <2>17
<1>7. Good(S)
  BY <1>3, <1>6
<1> QED BY <1>1, <1>7

-----------------------------------------------------------------------------
(***************************************************************************)
(* What one more entry of the log makes of the record read off it.         *)
(***************************************************************************)
Entry(x) ==
    /\ x.event \in ExecutorEvents /\ x.seq \in Nat /\ x.by \in Workers

\* A log that has grown by an entry.
Longer(log, n, x, longer) ==
    /\ n \in Nat /\ DOMAIN log = 1 .. n /\ DOMAIN longer = 1 .. n + 1
    /\ \A i \in 1 .. n : longer[i] = log[i]
    /\ longer[n + 1] = x

LEMMA AppendLonger ==
    ASSUME NEW log \in Seq(Item), NEW x \in Item
    PROVE  Longer(log, Len(log), x, Append(log, x))
BY DEF Longer

LEMMA EventKinds ==
    ASSUME NEW e \in ExecutorEvents
    PROVE  /\ e.kind \in {"status", "artifact", "message"}
           /\ e.kind = "status" => e.state \in TaskStates /\ e.msg \in BOOLEAN
           /\ e.kind = "artifact" => e.id \in ArtifactIds /\ e.append \in BOOLEAN
BY DEF ExecutorEvents, TaskUpdates, BareMessage

LEMMA StateGrows ==
    ASSUME NEW log, NEW n, NEW x, NEW longer, Longer(log, n, x, longer)
    PROVE  StateFrom(longer) =
               IF x.event.kind = "status" THEN x.event.state ELSE StateFrom(log)
<1>1. n \in Nat /\ \A i \in 1 .. n : i \in 1 .. n + 1 /\ i < n + 1 /\ ~(n + 1 <= i)
  BY DEF Longer
<1>2. Statuses(longer) = Statuses(log) \cup
          (IF x.event.kind = "status" THEN {n + 1} ELSE {})
  <2>1. \A i \in 1 .. n + 1 : i = n + 1 \/ i \in 1 .. n
    BY <1>1
  <2>2. \A i \in 1 .. n : i \in Statuses(longer) <=> i \in Statuses(log)
    BY <1>1 DEF Longer, Statuses
  <2>3. n + 1 \in Statuses(longer) <=> x.event.kind = "status"
    BY <1>1 DEF Longer, Statuses
  <2>4. Statuses(longer) \subseteq 1 .. n + 1 /\ Statuses(log) \subseteq 1 .. n
    BY DEF Longer, Statuses
  <2> QED BY <2>1, <2>2, <2>3, <2>4
<1>3. Statuses(log) \subseteq 1 .. n
  BY DEF Longer, Statuses
<1>4. CASE x.event.kind = "status"
  <2>1. Latest(longer) = {n + 1}
    BY <1>1, <1>2, <1>3, <1>4 DEF Latest
  <2>2. (CHOOSE i \in Latest(longer) : TRUE) = n + 1
    BY <2>1
  <2> QED BY <1>4, <2>1, <2>2 DEF StateFrom, Longer
<1>5. CASE x.event.kind # "status"
  <2>1. Latest(longer) = Latest(log)
    BY <1>2, <1>5 DEF Latest
  <2>2. PICK c : c = CHOOSE i \in Latest(log) : TRUE
    OBVIOUS
  <2>3. Latest(log) # {} => c \in 1 .. n
    BY <1>3, <2>2 DEF Latest
  <2> QED BY <1>5, <2>1, <2>2, <2>3 DEF StateFrom, Longer
<1> QED BY <1>4, <1>5

\* A list that goes on by one.
LEMMA AppendOf ==
    ASSUME NEW c \in Nat, NEW f, f = [k \in 1 .. c |-> f[k]],
           NEW g, g = [k \in 1 .. c + 1 |-> g[k]], \A k \in 1 .. c : g[k] = f[k]
    PROVE  g = Append(f, g[c + 1])
<1>1. PICK V : V = {f[k] : k \in 1 .. c} \cup {g[c + 1]}
  OBVIOUS
<1>2. f \in [1 .. c -> V]
  BY <1>1
<1>3. f \in Seq(V) /\ Len(f) = c /\ g[c + 1] \in V
  BY <1>1, <1>2
<1>4. PICK h : h = Append(f, g[c + 1])
  OBVIOUS
<1>5. /\ h \in Seq(V) /\ Len(h) = c + 1 /\ h[c + 1] = g[c + 1]
      /\ \A k \in 1 .. c : h[k] = f[k]
  BY <1>3, <1>4
<1>6. DOMAIN h = 1 .. c + 1 /\ h = [k \in DOMAIN h |-> h[k]]
  BY <1>5
<1>7. \A k \in 1 .. c + 1 : k = c + 1 \/ k \in 1 .. c
  OBVIOUS
<1>8. \A k \in 1 .. c + 1 : h[k] = g[k]
  BY <1>5, <1>7
<1>9. h = [k \in 1 .. c + 1 |-> g[k]]
  BY <1>6, <1>8
<1> QED BY <1>4, <1>9

\* Places of entries, as the history counts them.
Places(S, n) == S \in SUBSET (1 .. 2 * n + 1) /\ \A p \in S : p \div 2 \in 1 .. n

LEMMA SameMessages ==
    ASSUME NEW log, NEW n, NEW x, NEW longer, Longer(log, n, x, longer),
           NEW S, Places(S, n)
    PROVE  MessagesAt(longer, S) = MessagesAt(log, S)
<1>1. 2 * n + 1 \in Nat
  BY DEF Longer
<1>2. \A k \in 1 .. Cardinality(S) : Ascending(S)[k] \in S
  BY <1>1, AscendingPlaces DEF Places
<1>3. \A p \in S : MessageAt(longer, p) = MessageAt(log, p)
  BY DEF MessageAt, Places, Longer
<1> QED BY <1>2, <1>3 DEF MessagesAt

LEMMA OneMoreMessage ==
    ASSUME NEW log, NEW S \in SUBSET Nat, IsFiniteSet(S), NEW m \in Nat, \A i \in S : i < m
    PROVE  MessagesAt(log, S \cup {m}) = Append(MessagesAt(log, S), MessageAt(log, m))
<1>1. PICK c, T : c = Cardinality(S) /\ T = S \cup {m}
  OBVIOUS
<1>2. /\ c \in Nat /\ Cardinality(T) = c + 1
      /\ \A k \in 1 .. c : Ascending(T)[k] = Ascending(S)[k]
      /\ Ascending(T)[c + 1] = m
  BY <1>1, AscendingGrows
<1>3. PICK f, g : f = MessagesAt(log, S) /\ g = MessagesAt(log, T)
  OBVIOUS
<1>4. f = [k \in 1 .. c |-> f[k]] /\ \A k \in 1 .. c : f[k] = MessageAt(log, Ascending(S)[k])
  BY <1>1, <1>3 DEF MessagesAt
<1>5. /\ g = [k \in 1 .. c + 1 |-> g[k]]
      /\ \A k \in 1 .. c + 1 : g[k] = MessageAt(log, Ascending(T)[k])
  BY <1>2, <1>3 DEF MessagesAt
<1>6. \A k \in 1 .. c : k \in 1 .. c + 1 /\ g[k] = f[k]
  BY <1>2, <1>4, <1>5
<1>7. g[c + 1] = MessageAt(log, m)
  BY <1>2, <1>5
<1>8. g = Append(f, g[c + 1])
  BY <1>2, <1>4, <1>5, <1>6, AppendOf
<1> QED BY <1>1, <1>3, <1>7, <1>8

\* The history goes on by what the new entry opens and says.
LEMMA HistoryGrows ==
    ASSUME NEW log, NEW n, NEW x, NEW longer, Longer(log, n, x, longer), Entry(x),
           NEW opens, opens <=> x.by \in Turns /\ \A i \in Applied(log) : log[i].by # x.by,
           NEW h, h = IF x.event.kind # "message" /\ opens
                      THEN Append(HistoryFrom(log), UserMessage(x.by))
                      ELSE HistoryFrom(log)
    PROVE  HistoryFrom(longer) =
               IF x.event.kind = "status" /\ x.event.msg
               THEN Append(h, AgentMessage(x.seq))
               ELSE h
<1>1. PICK m, p, q : m = n + 1 /\ p = 2 * m /\ q = 2 * m + 1
  OBVIOUS
<1>2. n \in Nat /\ m \in Nat /\ p \in Nat /\ q \in Nat /\ p < q
  BY <1>1 DEF Longer
<1>3. \A i \in 1 .. n : i \in Nat /\ i < m /\ i \in 1 .. m
  BY <1>1, <1>2
<1>4. \A i \in 1 .. m : i = m \/ i \in 1 .. n
  BY <1>1, <1>2
<1>5. DOMAIN longer = 1 .. m /\ longer[m] = x /\ m \in 1 .. m
  BY <1>1, <1>2 DEF Longer
<1>6. DOMAIN log = 1 .. n /\ \A i \in 1 .. n : longer[i] = log[i]
  BY DEF Longer
<1>7. \A i \in 1 .. n : i \in Applied(longer) <=> i \in Applied(log)
  BY <1>3, <1>5, <1>6 DEF Applied
<1>8. Applied(log) \subseteq 1 .. n
  BY <1>6 DEF Applied
<1>9. m \in Applied(longer) <=> x.event.kind # "message"
  BY <1>5 DEF Applied
<1>10. ASSUME NEW i \in 1 .. n
       PROVE  /\ Speaks(longer, i) <=> Speaks(log, i)
              /\ Opens(longer, i) <=> Opens(log, i)
  <2>1. ~(m < i)
    BY <1>2, <1>3
  <2>2. \A j \in Applied(longer) : j < i => j \in Applied(log)
    BY <1>4, <1>5, <1>7, <2>1 DEF Applied
  <2>3. \A j \in Applied(log) : j \in Applied(longer) /\ longer[j].by = log[j].by
    BY <1>6, <1>7, <1>8
  <2> QED BY <1>6, <2>2, <2>3 DEF Speaks, Opens
<1>11. Opens(longer, m) <=> opens
  <2>1. \A j \in Applied(longer) : j < m => j \in Applied(log)
    <3>1. \A j \in Applied(longer) : j = m \/ j \in 1 .. n
      BY <1>4, <1>5 DEF Applied
    <3> QED BY <1>2, <1>7, <3>1
  <2>2. \A j \in Applied(log) :
            j < m /\ j \in Applied(longer) /\ longer[j].by = log[j].by
    BY <1>3, <1>6, <1>7, <1>8
  <2> QED BY <1>5, <2>1, <2>2 DEF Opens
<1>12. Speaks(longer, m) <=> x.event.kind = "status" /\ x.event.msg
  BY <1>5 DEF Speaks
<1>13. PICK S, S1, S2 :
          /\ S = Said(log)
          /\ S1 = IF x.event.kind # "message" /\ opens THEN S \cup {p} ELSE S
          /\ S2 = IF x.event.kind = "status" /\ x.event.msg THEN S1 \cup {q} ELSE S1
  OBVIOUS
<1>14. Said(longer) = S2
  <2>1. \A j : j \in Applied(longer) <=>
                  j \in Applied(log) \/ (j = m /\ x.event.kind # "message")
    BY <1>4, <1>5, <1>7, <1>8, <1>9 DEF Applied
  <2>2. \A j \in Applied(log) : /\ Opens(longer, j) <=> Opens(log, j)
                                /\ Speaks(longer, j) <=> Speaks(log, j)
    BY <1>8, <1>10
  <2>3. \A y : y \in {2 * i : i \in {j \in Applied(longer) : Opens(longer, j)}} <=>
                  \/ y \in {2 * i : i \in {j \in Applied(log) : Opens(log, j)}}
                  \/ y = p /\ x.event.kind # "message" /\ opens
    BY <1>1, <1>11, <2>1, <2>2
  <2>4. \A y : y \in {2 * i + 1 : i \in {j \in Applied(longer) : Speaks(longer, j)}} <=>
                  \/ y \in {2 * i + 1 : i \in {j \in Applied(log) : Speaks(log, j)}}
                  \/ y = q /\ x.event.kind = "status" /\ x.event.msg
    BY <1>1, <1>12, <2>1, <2>2
  <2> QED BY <1>13, <2>3, <2>4 DEF Said
<1>15. Places(S, n) /\ S \in SUBSET Nat /\ \A i \in S : i < p
  <2>1. ASSUME NEW y \in S PROVE y \in 1 .. 2 * n + 1 /\ y \div 2 \in 1 .. n
    <3>1. PICK i \in 1 .. n : y = 2 * i \/ y = 2 * i + 1
      BY <1>8, <1>13, <2>1 DEF Said
    <3>2. y \div 2 = i
      BY <3>1
    <3> QED BY <1>2, <3>1, <3>2
  <2> QED BY <1>1, <1>2, <2>1 DEF Places
<1>16. IsFiniteSet(S)
  <2>1. 2 * n + 1 \in Nat
    BY <1>2
  <2> QED BY <1>15, <2>1, AscendingPlaces DEF Places
<1>17. MessagesAt(longer, S) = HistoryFrom(log)
  BY <1>13, <1>15, SameMessages DEF HistoryFrom
<1>18. MessageAt(longer, p) = UserMessage(x.by) /\ MessageAt(longer, q) = AgentMessage(x.seq)
  <2>1. p \div 2 = m /\ p % 2 = 0 /\ q \div 2 = m /\ q % 2 = 1
    BY <1>1, <1>2
  <2> QED BY <1>5, <2>1 DEF MessageAt
<1>19. /\ MessagesAt(longer, S1) = h
       /\ IsFiniteSet(S1) /\ S1 \in SUBSET Nat /\ \A i \in S1 : i < q
  <2>1. CASE S1 = S
    BY <1>2, <1>13, <1>15, <1>16, <1>17, <2>1
  <2>2. CASE S1 = S \cup {p} /\ x.event.kind # "message" /\ opens
    <3>1. MessagesAt(longer, S \cup {p}) = Append(MessagesAt(longer, S), MessageAt(longer, p))
      BY <1>2, <1>15, <1>16, OneMoreMessage
    <3>2. IsFiniteSet(S1)
      BY <1>16, <2>2, FS_AddElement
    <3>3. S1 \in SUBSET Nat /\ \A i \in S1 : i < q
      BY <1>2, <1>15, <2>2
    <3> QED BY <1>17, <1>18, <2>2, <3>1, <3>2, <3>3
  <2> QED BY <1>13, <2>1, <2>2
<1>20. MessagesAt(longer, S1 \cup {q}) = Append(MessagesAt(longer, S1), MessageAt(longer, q))
  BY <1>2, <1>19, OneMoreMessage
<1> QED BY <1>13, <1>14, <1>18, <1>19, <1>20 DEF HistoryFrom

LEMMA SameParts ==
    ASSUME NEW log, NEW n, NEW x, NEW longer, Longer(log, n, x, longer),
           NEW S \in SUBSET (1 .. n)
    PROVE  PartsAt(longer, S) = PartsAt(log, S)
<1>1. n \in Nat /\ \A i \in 1 .. n : longer[i] = log[i]
  BY DEF Longer
<1>2. \A k \in 1 .. Cardinality(S) : Ascending(S)[k] \in S
  BY <1>1, AscendingPlaces
<1> QED BY <1>1, <1>2 DEF PartsAt

LEMMA OneMorePart ==
    ASSUME NEW log, NEW S \in SUBSET Nat, IsFiniteSet(S), NEW m \in Nat, \A i \in S : i < m
    PROVE  PartsAt(log, S \cup {m}) = Append(PartsAt(log, S), log[m].seq)
<1>1. PICK c, T : c = Cardinality(S) /\ T = S \cup {m}
  OBVIOUS
<1>2. /\ c \in Nat /\ Cardinality(T) = c + 1
      /\ \A k \in 1 .. c : Ascending(T)[k] = Ascending(S)[k]
      /\ Ascending(T)[c + 1] = m
  BY <1>1, AscendingGrows
<1>3. PICK f, g : f = PartsAt(log, S) /\ g = PartsAt(log, T)
  OBVIOUS
<1>4. f = [k \in 1 .. c |-> f[k]] /\ \A k \in 1 .. c : f[k] = log[Ascending(S)[k]].seq
  BY <1>1, <1>3 DEF PartsAt
<1>5. /\ g = [k \in 1 .. c + 1 |-> g[k]]
      /\ \A k \in 1 .. c + 1 : g[k] = log[Ascending(T)[k]].seq
  BY <1>2, <1>3 DEF PartsAt
<1>6. \A k \in 1 .. c : k \in 1 .. c + 1 /\ g[k] = f[k]
  BY <1>2, <1>4, <1>5
<1>7. g[c + 1] = log[m].seq
  BY <1>2, <1>5
<1>8. g = Append(f, g[c + 1])
  BY <1>2, <1>4, <1>5, <1>6, AppendOf
<1> QED BY <1>1, <1>3, <1>7, <1>8

LEMMA NoParts == ASSUME NEW log PROVE PartsAt(log, {}) = <<>>
BY FS_EmptySet DEF PartsAt

LEMMA NoMessages == ASSUME NEW log PROVE MessagesAt(log, {}) = <<>>
BY FS_EmptySet DEF MessagesAt

\* An artifact goes on, or starts anew.
LEMMA ArtifactGrows ==
    ASSUME NEW log, NEW n, NEW x, NEW longer, Longer(log, n, x, longer), NEW id
    PROVE  ArtifactFrom(longer, id) =
               IF x.event.kind = "artifact" /\ x.event.id = id
               THEN IF x.event.append
                    THEN Append(ArtifactFrom(log, id), x.seq)
                    ELSE <<x.seq>>
               ELSE ArtifactFrom(log, id)
<1>1. PICK m : m = n + 1
  OBVIOUS
<1>2. n \in Nat /\ m \in Nat /\ m \in 1 .. m
  BY <1>1 DEF Longer
<1>3. \A i \in 1 .. n : i \in Nat /\ i < m /\ ~(m < i) /\ i \in 1 .. m
  BY <1>1, <1>2
<1>4. \A i \in 1 .. m : i = m \/ i \in 1 .. n
  BY <1>1, <1>2
<1>5. DOMAIN longer = 1 .. m /\ longer[m] = x
  BY <1>1, <1>2 DEF Longer
<1>6. DOMAIN log = 1 .. n /\ \A i \in 1 .. n : longer[i] = log[i]
  BY DEF Longer
<1>7. \A i \in 1 .. n : i \in Chunks(longer, id) <=> i \in Chunks(log, id)
  BY <1>3, <1>5, <1>6 DEF Chunks
<1>8. Chunks(log, id) \subseteq 1 .. n /\ Chunks(longer, id) \subseteq 1 .. m
  BY <1>5, <1>6 DEF Chunks
<1>9. m \in Chunks(longer, id) <=> x.event.kind = "artifact" /\ x.event.id = id
  BY <1>2, <1>5 DEF Chunks
<1>10. PICK S : S = Standing(log, id)
  OBVIOUS
<1>11. S \in SUBSET (1 .. n) /\ S \in SUBSET Nat /\ \A i \in S : i < m
  BY <1>3, <1>8, <1>10 DEF Standing
<1>12. IsFiniteSet(S) /\ IsFiniteSet({})
  BY <1>2, <1>11, AscendingPlaces, FS_EmptySet
<1>13. PartsAt(longer, S) = ArtifactFrom(log, id)
  BY <1>10, <1>11, SameParts DEF ArtifactFrom
<1>14. CASE ~(x.event.kind = "artifact" /\ x.event.id = id)
  <2>1. Chunks(longer, id) = Chunks(log, id)
    BY <1>3, <1>4, <1>7, <1>8, <1>9, <1>14
  <2>2. Standing(longer, id) = S
    BY <1>6, <1>8, <1>10, <2>1 DEF Standing
  <2> QED BY <1>13, <1>14, <2>2 DEF ArtifactFrom
<1>15. CASE x.event.kind = "artifact" /\ x.event.id = id
  <2>1. \A i : i \in Chunks(longer, id) <=> i \in Chunks(log, id) \/ i = m
    BY <1>3, <1>4, <1>7, <1>8, <1>9, <1>15
  <2>2. \A i \in Chunks(log, id) : i < m /\ ~(m < i) /\ longer[i] = log[i]
    BY <1>3, <1>6, <1>8
  <2>3. ~(m < m)
    BY <1>2
  <2>4. CASE x.event.append
    <3>1. \A i : i \in Standing(longer, id) <=> i \in S \/ i = m
      BY <1>5, <1>10, <2>1, <2>2, <2>3, <2>4 DEF Standing
    <3>2. Standing(longer, id) = S \cup {m}
      BY <3>1
    <3>3. PartsAt(longer, S \cup {m}) = Append(PartsAt(longer, S), longer[m].seq)
      BY <1>2, <1>11, <1>12, OneMorePart
    <3> QED BY <1>5, <1>13, <1>15, <2>4, <3>2, <3>3 DEF ArtifactFrom
  <2>5. CASE ~x.event.append
    <3>1. \A i : i \in Standing(longer, id) <=> i = m
      BY <1>5, <2>1, <2>2, <2>3, <2>5 DEF Standing
    <3>2. Standing(longer, id) = {} \cup {m}
      BY <3>1
    <3>3. PartsAt(longer, {} \cup {m}) = Append(PartsAt(longer, {}), longer[m].seq)
      <4>1. {} \in SUBSET Nat /\ \A i \in {} : i < m
        OBVIOUS
      <4> QED BY <1>2, <1>12, <4>1, OneMorePart
    <3>4. Append(<<>>, x.seq) = <<x.seq>>
      OBVIOUS
    <3> QED BY <1>5, <1>15, <2>5, <3>2, <3>3, <3>4, NoParts DEF ArtifactFrom
  <2> QED BY <2>4, <2>5
<1> QED BY <1>14, <1>15

LEMMA AppliedGrows ==
    ASSUME NEW log, NEW n, NEW x, NEW longer, Longer(log, n, x, longer)
    PROVE  /\ x.event.kind = "message" => Applied(longer) = Applied(log)
           /\ x.event.kind # "message" => Applied(longer) = Applied(log) \cup {n + 1}
<1>1. n \in Nat /\ DOMAIN longer = 1 .. n + 1 /\ DOMAIN log = 1 .. n
  BY DEF Longer
<1>2. \A i \in 1 .. n : i \in 1 .. n + 1 /\ i # n + 1
  BY <1>1
<1>3. \A i \in 1 .. n + 1 : i = n + 1 \/ i \in 1 .. n
  BY <1>1
<1>4. n + 1 \in 1 .. n + 1
  BY <1>1
<1> QED BY <1>1, <1>2, <1>3, <1>4 DEF Applied, Longer

\* Before the first update there is nothing.
LEMMA NothingApplied ==
    ASSUME NEW log, Applied(log) = {}
    PROVE  StateFrom(log) = "Working" /\ HistoryFrom(log) = <<>>
           /\ \A id : ArtifactFrom(log, id) = <<>>
<1>1. Statuses(log) = {} /\ \A id : Chunks(log, id) = {}
  BY DEF Applied, Statuses, Chunks
<1>2. StateFrom(log) = "Working"
  BY <1>1 DEF StateFrom, Latest
<1>3. Said(log) = {}
  BY DEF Said
<1>4. \A id : Standing(log, id) = {}
  BY <1>1 DEF Standing
<1> QED BY <1>2, <1>3, <1>4, NoParts, NoMessages DEF HistoryFrom, ArtifactFrom

\* A bare message changes no record.
LEMMA MessageChangesNothing ==
    ASSUME NEW log, NEW n, NEW x, NEW longer, Longer(log, n, x, longer), Entry(x),
           x.event.kind = "message"
    PROVE  RowFrom(longer) = RowFrom(log)
<1>1. Applied(longer) = Applied(log)
  BY AppliedGrows
<1>2. StateFrom(longer) = StateFrom(log)
  BY StateGrows
<1>3. PICK opens : opens <=> x.by \in Turns /\ \A i \in Applied(log) : log[i].by # x.by
  OBVIOUS
<1>4. HistoryFrom(longer) = HistoryFrom(log)
  BY <1>3, HistoryGrows
<1>5. \A id : ArtifactFrom(longer, id) = ArtifactFrom(log, id)
  BY ArtifactGrows
<1> QED BY <1>1, <1>2, <1>4, <1>5 DEF RowFrom, Replayed

\* What apply_event makes of the record read off a log is the record read off
\* the log with the event.
LEMMA UpdateIsReplay ==
    ASSUME NEW log, NEW n, NEW x, NEW longer, Longer(log, n, x, longer), Entry(x),
           NEW e, e = x.event, e \in TaskUpdates,
           NEW first \in BOOLEAN, NEW seed,
           x.by \in Turns => /\ seed = UserMessage(x.by)
                             /\ first <=> \A i \in Applied(log) : log[i].by # x.by,
           x.by \notin Turns => ~first /\ Applied(log) # {}
    PROVE  RowFrom(longer) = <<UpdateTask(SeededTask(RowFrom(log), first, seed, e), e, x.seq)>>
<1>1. PICK found : found = SeededTask(RowFrom(log), first, seed, e)
  OBVIOUS
<1>2. /\ e.kind \in {"status", "artifact"}
      /\ e.kind = "status" => e.msg \in BOOLEAN
      /\ e.kind = "artifact" => e.id \in ArtifactIds /\ e.append \in BOOLEAN
  BY DEF TaskUpdates
<1>3. PICK opens \in BOOLEAN :
          opens <=> x.by \in Turns /\ \A i \in Applied(log) : log[i].by # x.by
  OBVIOUS
<1>4. PICK h : h = IF opens THEN Append(HistoryFrom(log), UserMessage(x.by)) ELSE HistoryFrom(log)
  OBVIOUS
<1>5. opens <=> first
  BY <1>3
<1>6. found.history = h
      /\ (e.kind = "artifact" => found.state = StateFrom(log))
      /\ found.artifacts = [a \in ArtifactIds |-> ArtifactFrom(log, a)]
      /\ found = [state |-> found.state, history |-> found.history, artifacts |-> found.artifacts]
  <2>1. CASE Applied(log) = {}
    <3>1. RowFrom(log) = <<>>
      BY <2>1 DEF RowFrom
    <3>2. found = NewTask(IF e.kind = "status" THEN "Submitted" ELSE "Working", seed)
      BY <1>1, <3>1 DEF SeededTask
    <3>3. opens /\ seed = UserMessage(x.by)
      BY <1>3, <2>1
    <3>4. Append(<<>>, seed) = <<seed>>
      OBVIOUS
    <3>5. h = <<seed>>
      BY <1>4, <2>1, <3>3, <3>4, NothingApplied
    <3> QED BY <2>1, <3>2, <3>5, NothingApplied DEF NewTask
  <2>2. CASE Applied(log) # {}
    <3>1. RowFrom(log) = <<Replayed(log)>>
      BY <2>2 DEF RowFrom
    <3>2. found = IF first
                  THEN [Replayed(log) EXCEPT !.history = Append(@, seed)]
                  ELSE Replayed(log)
      BY <1>1, <3>1 DEF SeededTask
    <3>3. first => seed = UserMessage(x.by)
      OBVIOUS
    <3> QED BY <1>4, <1>5, <3>2, <3>3 DEF Replayed
  <2> QED BY <2>1, <2>2
<1>7. Applied(longer) # {}
  BY <1>2, AppliedGrows
<1>8. StateFrom(longer) = IF e.kind = "status" THEN e.state ELSE StateFrom(log)
  BY StateGrows
<1>9. HistoryFrom(longer) = IF e.kind = "status" /\ e.msg THEN Append(h, AgentMessage(x.seq)) ELSE h
  <2>1. h = IF x.event.kind # "message" /\ opens
            THEN Append(HistoryFrom(log), UserMessage(x.by)) ELSE HistoryFrom(log)
    BY <1>2, <1>4
  <2> QED BY <1>3, <2>1, HistoryGrows
<1>10. \A id : ArtifactFrom(longer, id) =
               IF e.kind = "artifact" /\ e.id = id
               THEN IF e.append THEN Append(ArtifactFrom(log, id), x.seq) ELSE <<x.seq>>
               ELSE ArtifactFrom(log, id)
  BY ArtifactGrows
<1>11. Replayed(longer) = UpdateTask(found, e, x.seq)
  <2>1. CASE e.kind = "status"
    <3>1. [a \in ArtifactIds |-> ArtifactFrom(longer, a)] = found.artifacts
      BY <1>6, <1>10, <2>1
    <3>2. UpdateTask(found, e, x.seq) =
            [state |-> e.state,
             history |-> IF e.msg THEN Append(h, AgentMessage(x.seq)) ELSE h,
             artifacts |-> found.artifacts]
      BY <1>6, <2>1 DEF UpdateTask
    <3> QED BY <1>8, <1>9, <2>1, <3>1, <3>2 DEF Replayed
  <2>2. CASE e.kind = "artifact"
    <3>1. [a \in ArtifactIds |-> ArtifactFrom(longer, a)] =
              MergeArtifact(found.artifacts, e, x.seq)
      BY <1>2, <1>6, <1>10, <2>2, ZenonT(40) DEF MergeArtifact
    <3>2. UpdateTask(found, e, x.seq) =
            [state |-> StateFrom(log), history |-> h,
             artifacts |-> MergeArtifact(found.artifacts, e, x.seq)]
      BY <1>6, <2>2 DEF UpdateTask
    <3> QED BY <1>8, <1>9, <2>2, <3>1, <3>2 DEF Replayed
  <2> QED BY <1>2, <2>1, <2>2
<1> QED BY <1>1, <1>7, <1>11 DEF RowFrom

-----------------------------------------------------------------------------
(***************************************************************************)
(* The store as the replay of the log.  A worker between its log entry and *)
(* its put is about to put the replay.                                     *)
(***************************************************************************)

\* No cancel is dropped between its log entry and its put.
NoneDropped == ~Disconnects \/ Cancels = {}

Behind(w) == pc[w] \in {"getTask", "putTask"}

ReplayInv ==
    \A t \in Tasks : Len(eventLogs[t]) # EventLogCapacity =>
        /\ (\A w \in CallsOn(t) : ~Behind(w)) => Get(t) = RowFrom(eventLogs[t])
        /\ \A w \in CallsOn(t) : Behind(w) => RowFrom(eventLogs[t]) = <<Updated(w)>>

\* Up to its next log entry, a turn takes its next update for its first exactly
\* if none is in the log.
BeforeLog == {"insertBus", "insertToken", "recv", "lead", "sendLead", "takeSeq", "appendLog"}

NoneBy(w, log) == \A i \in Applied(log) : log[i].by # w

FirstInv ==
    \A w \in Turns :
        /\ pc[w] = "idle" => firstEvent[w]
        /\ pc[w] \in BeforeLog =>
              /\ taskOf[w] \in Tasks
              /\ Len(eventLogs[taskOf[w]]) # EventLogCapacity =>
                    (firstEvent[w] <=> NoneBy(w, eventLogs[taskOf[w]]))

LEMMA InitReplayInv == Init => ReplayInv /\ FirstInv
<1> SUFFICES ASSUME Init PROVE ReplayInv /\ FirstInv
  OBVIOUS
<1>1. \A t \in Tasks : eventLogs[t] = <<>> /\ Get(t) = <<>>
  BY DEF Init, Get, EmptyMap
<1>2. Applied(<<>>) = {}
  BY DEF Applied
<1>3. RowFrom(<<>>) = <<>>
  BY <1>2 DEF RowFrom
<1>4. \A w \in Workers : pc[w] = "idle"
  BY DEF Init
<1>5. \A w \in Turns : w \in Workers /\ firstEvent[w]
  BY DEF Init, Workers
<1> QED BY <1>1, <1>3, <1>4, <1>5 DEF ReplayInv, FirstInv, Behind, CallsOn, BeforeLog

LEMMA LogNotFull ==
    ASSUME TypeInv, PlacesInv, NEW w \in Workers, StepOf(w), NEW t \in Tasks,
           Len(eventLogs'[t]) # EventLogCapacity
    PROVE  Len(eventLogs[t]) # EventLogCapacity
<1>1. CASE AppendLog(w)
  BY <1>1, FullStaysFull
<1>2. CASE ~AppendLog(w)
  BY <1>2, OnlyAppendLogs
<1> QED BY <1>1, <1>2

\* Nobody else is at work on a task whose worker has not been answered.
LEMMA OnlyOneBehind ==
    ASSUME OneAtATime, NEW w \in Workers, ~Answered(w), NEW v \in Workers, v # w,
           taskOf[v] = taskOf[w], taskOf[w] \in Tasks
    PROVE  ~Behind(v)
BY DEF OneAtATime, Answered, Ended, Behind

\* Who gets behind, and who catches up.
LEMMA GetsBehind ==
    ASSUME TypeInv, NEW w \in Workers, StepOf(w), Behind(w)'
    PROVE  AppendLog(w) \/ GetTask(w)
<1> USE DEF TypeInv, TypeOK, Behind
<1>1. ~ClientStep(w)
  BY DEF ClientStep, RefuseCall, AbortCall, StartNewTask, ContinueTask, StartCancel
<1>2. ApplyStep(w) => AppendLog(w) \/ GetTask(w)
  BY DEF ApplyStep, ReceiveEvent, Apply, SkipEmptyArtifact, TakeSeq, PutTask, SendEvent,
     AfterSend
<1>3. ~TurnStep(w)
  BY DEF TurnStep, InsertBus, InsertToken, ExecutorReturns, ExecutorFails, Apply,
     TakeLeadSeq, SendLead, RemoveBus, RemoveToken
<1>4. ~CancelStep(w)
  BY DEF CancelStep, SignalToken, ExecutorCancelOk, ExecutorCancelErr, LookupBus,
     Reread, Apply, FinalGet, Return
<1> QED BY <1>1, <1>2, <1>3, <1>4 DEF StepOf, ServerStep

LEMMA CatchesUp ==
    ASSUME NoneDropped, NEW w \in Workers, StepOf(w), Behind(w)
    PROVE  GetTask(w) \/ PutTask(w)
<1> USE DEF Behind
<1>1. ~ClientStep(w)
  <2>1. ~AbortCall(w)
    BY DEF AbortCall, InHandler, NoneDropped, Workers
  <2> QED BY <2>1 DEF ClientStep, RefuseCall, StartNewTask, ContinueTask, StartCancel
<1>2. ApplyStep(w) => GetTask(w) \/ PutTask(w)
  BY DEF ApplyStep, ReceiveEvent, SkipEmptyArtifact, TakeSeq, AppendLog, SendEvent
<1>3. ~TurnStep(w)
  BY DEF TurnStep, InsertBus, InsertToken, ExecutorReturns, ExecutorFails, TakeLeadSeq,
     SendLead, RemoveBus, RemoveToken
<1>4. ~CancelStep(w)
  BY DEF CancelStep, SignalToken, ExecutorCancelOk, ExecutorCancelErr, LookupBus, Reread,
     FinalGet
<1> QED BY <1>1, <1>2, <1>3, <1>4 DEF StepOf, ServerStep

\* What a worker would put does not change while it is behind.
LEMMA SameUpdated ==
    ASSUME NEW v \in Workers, NEW t, t = taskOf[v], taskOf'[v] = t,
           firstEvent'[v] = firstEvent[v], existing'[v] = existing[v],
           event'[v] = event[v], seq'[v] = seq[v], Get(t)' = Get(t)
    PROVE  Updated(v)' = Updated(v)
BY DEF Updated, Seed

\* A log entry: of an update, which its worker is about to put, or of a message.
LEMMA AppendLogReplay ==
    ASSUME TypeInv, LogInv, OrderInv, HistoryInv, OneAtATime, ReplayInv, FirstInv,
           NEW w \in Workers, AppendLog(w), NEW t \in Tasks, t = taskOf[w],
           Len(eventLogs[t]) # EventLogCapacity
    PROVE  /\ event[w].kind = "message" => RowFrom(eventLogs'[t]) = Get(t)
           /\ event[w].kind # "message" => RowFrom(eventLogs'[t]) = <<Updated(w)>>
<1>1. pc[w] = "appendLog" /\ event[w] \in ExecutorEvents /\ ~Answered(w) /\ ~Behind(w)
  BY DEF AppendLog, TypeInv, HoldsOf, Answered, Ended, Behind
<1>2. PICK log, item : log = eventLogs[t] /\ item = Held(w)
  OBVIOUS
<1>3. /\ log \in Seq(Item) /\ item \in Item /\ Len(log) <= EventLogCapacity
      /\ eventLogs'[t] = AppendBounded(log, item)
  BY <1>2, AppendTo
<1>4. PICK longer : longer = Append(log, item)
  OBVIOUS
<1>5. eventLogs'[t] = longer
  BY <1>2, <1>3, <1>4, EngineAssumption DEF AppendBounded
<1>6. PICK n : n = Len(log)
  OBVIOUS
<1>7. Longer(log, n, item, longer)
  BY <1>3, <1>4, <1>6, AppendLonger
<1>8. /\ item.by = w /\ item.seq = seq[w] /\ item.event = event[w]
      /\ Entry(item)
  BY <1>1, <1>2 DEF Held, Entry, TypeInv, TypeOK
<1>9. Get(t) = RowFrom(log)
  <2>1. \A v \in CallsOn(t) : ~Behind(v)
    BY <1>1, OnlyOneBehind DEF CallsOn
  <2> QED BY <1>2, <2>1 DEF ReplayInv
<1>10. CASE event[w].kind = "message"
  BY <1>5, <1>7, <1>8, <1>9, <1>10, MessageChangesNothing
<1>11. CASE event[w].kind # "message"
  <2>1. PICK e, first, seed : e = event[w] /\ first = firstEvent[w] /\ seed = Seed(w)
    OBVIOUS
  <2>2. e \in TaskUpdates /\ first \in BOOLEAN
    BY <1>1, <1>11, <2>1 DEF ExecutorEvents, BareMessage, TypeInv, TypeOK
  <2>3. w \in Turns => seed = UserMessage(w) /\ (first <=> NoneBy(w, log))
    BY <1>1, <1>2, <2>1 DEF Seed, FirstInv, BeforeLog
  <2>4. w \notin Turns => ~first /\ Applied(log) # {}
    <3> SUFFICES ASSUME w \notin Turns PROVE ~first /\ Applied(log) # {}
      OBVIOUS
    <3>1. w \in Cancels
      BY DEF Workers
    <3>2. t \in DOMAIN store
      BY <1>1, <3>1 DEF TypeInv, HoldsOf, Active, PCs
    <3>3. RowFrom(log) # <<>>
      BY <1>9, <3>2 DEF Get
    <3> QED BY <2>1, <3>1, <3>3 DEF HistoryInv, RowFrom
  <2>5. RowFrom(longer) = <<UpdateTask(SeededTask(RowFrom(log), first, seed, e), e, item.seq)>>
    <3>1. item.by \in Turns =>
              /\ seed = UserMessage(item.by)
              /\ first <=> \A i \in Applied(log) : log[i].by # item.by
      BY <1>8, <2>3 DEF NoneBy
    <3>2. item.by \notin Turns => ~first /\ Applied(log) # {}
      BY <1>8, <2>4
    <3>3. e = item.event
      BY <1>8, <2>1
    <3> QED BY <1>7, <1>8, <2>2, <3>1, <3>2, <3>3, UpdateIsReplay
  <2> QED BY <1>5, <1>8, <1>9, <1>11, <2>1, <2>5 DEF Updated
<1> QED BY <1>10, <1>11

LEMMA NextReplayInv ==
    ASSUME NoneDropped
    PROVE  TypeInv /\ LogInv /\ PlacesInv /\ HistoryInv /\ OneAtATime /\ OrderInv /\ RowInv
               /\ FirstInv /\ ReplayInv /\ [Next]_vars => ReplayInv'
<1> SUFFICES ASSUME TypeInv, LogInv, PlacesInv, HistoryInv, OneAtATime, OrderInv, RowInv,
                    FirstInv, ReplayInv, [Next]_vars
             PROVE  ReplayInv'
  OBVIOUS
<1>1. CASE UNCHANGED vars
  BY <1>1 DEF ReplayInv, CallsOn, Behind, Updated, Get, Seed
<1>2. ASSUME NEW w \in Workers, StepOf(w), NEW t \in Tasks,
             Len(eventLogs'[t]) # EventLogCapacity
      PROVE  /\ (\A v \in CallsOn(t)' : ~Behind(v)') => Get(t)' = RowFrom(eventLogs'[t])
             /\ \A v \in CallsOn(t)' : Behind(v)' => RowFrom(eventLogs'[t]) = <<Updated(v)'>>
  <2>1. Len(eventLogs[t]) # EventLogCapacity
    BY <1>2, LogNotFull
  <2>2. /\ (\A v \in CallsOn(t) : ~Behind(v)) => Get(t) = RowFrom(eventLogs[t])
        /\ \A v \in CallsOn(t) : Behind(v) => RowFrom(eventLogs[t]) = <<Updated(v)>>
    BY <2>1 DEF ReplayInv
  <2>3. ASSUME NEW v \in Workers, v # w
        PROVE  /\ taskOf'[v] = taskOf[v] /\ (Behind(v)' <=> Behind(v))
               /\ Get(taskOf[v])' = Get(taskOf[v]) => Updated(v)' = Updated(v)
    <3>1. /\ pc'[v] = pc[v] /\ taskOf'[v] = taskOf[v] /\ event'[v] = event[v]
          /\ seq'[v] = seq[v] /\ firstEvent'[v] = firstEvent[v] /\ existing'[v] = existing[v]
      BY <1>2, <2>3, StepsAlone DEF StepOf, Alone
    <3> QED BY <3>1, SameUpdated DEF Behind
  <2>4. CASE AppendLog(w) /\ taskOf[w] = t
    <3>1. /\ taskOf' = taskOf /\ pc[w] = "appendLog" /\ Get(t)' = Get(t)
          /\ Updated(w)' = Updated(w)
          /\ pc'[w] = IF event[w].kind = "message" THEN "send" ELSE "getTask"
      BY <2>4 DEF AppendLog, Get, Updated, Seed, TypeInv, TypeOK
    <3>2. \A v \in Workers : v # w /\ taskOf[v] = t => ~Behind(v)
      <4>1. ~Answered(w)
        BY <3>1 DEF Answered, Ended
      <4> QED BY <2>4, <4>1, OnlyOneBehind
    <3>3. \A v \in CallsOn(t)' : v \in Workers /\ taskOf[v] = t
      BY <3>1 DEF CallsOn
    <3>4. \A v \in CallsOn(t)' : v # w => ~Behind(v)'
      BY <2>3, <3>2, <3>3
    <3>5. w \in CallsOn(t)'
      BY <2>4, <3>1 DEF CallsOn
    <3>6. Behind(w)' <=> event[w].kind # "message"
      BY <3>1 DEF Behind
    <3>7. /\ event[w].kind = "message" => RowFrom(eventLogs'[t]) = Get(t)
          /\ event[w].kind # "message" => RowFrom(eventLogs'[t]) = <<Updated(w)>>
      BY <2>1, <2>4, AppendLogReplay
    <3> QED BY <3>1, <3>4, <3>5, <3>6, <3>7
  <2>5. CASE PutTask(w) /\ taskOf[w] = t
    <3>1. /\ taskOf' = taskOf /\ Behind(w) /\ ~Behind(w)' /\ eventLogs' = eventLogs
          /\ pc[w] = "putTask"
      BY <2>5 DEF PutTask, Behind, TypeInv, TypeOK
    <3>2. \A v \in Workers : v # w /\ taskOf[v] = t => ~Behind(v)
      <4>1. ~Answered(w)
        BY <3>1 DEF Answered, Ended
      <4> QED BY <2>5, <4>1, OnlyOneBehind
    <3>3. \A v \in CallsOn(t)' : ~Behind(v)'
      BY <2>3, <3>1, <3>2 DEF CallsOn
    <3>4. Get(t)' = <<pending[w][1]>>
      BY <2>5, RowOfPut
    <3>5. pending[w][1] = Updated(w)
      BY <3>1 DEF RowInv, Current
    <3>6. w \in CallsOn(t)
      BY <2>5 DEF CallsOn
    <3> QED BY <2>2, <3>1, <3>3, <3>4, <3>5, <3>6
  <2>6. CASE ~(AppendLog(w) /\ taskOf[w] = t) /\ ~(PutTask(w) /\ taskOf[w] = t)
    <3>1. Get(t)' = Get(t) /\ eventLogs'[t] = eventLogs[t]
      <4>1. CASE taskOf[w] # t
        BY <1>2, <4>1, Untouched
      <4>2. CASE taskOf[w] = t
        <5>1. ~AppendLog(w) /\ ~PutTask(w)
          BY <2>6, <4>2
        <5>2. eventLogs' = eventLogs
          BY <1>2, <5>1, OnlyAppendLogs
        <5>3. store' = store
          BY <1>2, <5>1, OnlyPutTaskWrites
        <5> QED BY <5>2, <5>3 DEF Get
      <4> QED BY <4>1, <4>2
    <3>2. ASSUME NEW v \in CallsOn(t)', Behind(v)'
          PROVE  v \in CallsOn(t) /\ Behind(v) /\ Updated(v)' = Updated(v)
      <4>1. v \in Workers /\ taskOf'[v] = t
        BY DEF CallsOn
      <4>2. CASE v # w
        BY <2>3, <3>1, <3>2, <4>1, <4>2 DEF CallsOn
      <4>3. CASE v = w
        <5>1. taskOf' = taskOf
          BY <1>2, <3>2, <4>3, GetsBehind DEF AppendLog, GetTask
        <5>2. GetTask(w)
          BY <1>2, <2>6, <3>2, <4>1, <4>3, <5>1, GetsBehind
        <5> QED BY <3>1, <4>1, <4>3, <5>1, <5>2 DEF GetTask, Behind, CallsOn, Updated, Seed
      <4> QED BY <4>2, <4>3
    <3>3. ASSUME NEW v \in CallsOn(t), Behind(v)
          PROVE  v \in CallsOn(t)' /\ Behind(v)'
      <4>1. v \in Workers /\ taskOf[v] = t
        BY DEF CallsOn
      <4>2. CASE v # w
        BY <2>3, <3>3, <4>1, <4>2 DEF CallsOn
      <4>3. CASE v = w
        <5>1. GetTask(w)
          BY <1>2, <2>6, <3>3, <4>1, <4>3, CatchesUp
        <5> QED BY <4>1, <4>3, <5>1 DEF GetTask, Behind, CallsOn, TypeInv, TypeOK
      <4> QED BY <4>2, <4>3
    <3> QED BY <2>2, <3>1, <3>2, <3>3
  <2> QED BY <2>4, <2>5, <2>6
<1> QED BY <1>1, <1>2, StepsOrStutter DEF ReplayInv

\* How a turn comes to where it will log next.
LEMMA ComesToLog ==
    ASSUME TypeInv, PlacesInv, NEW w \in Turns, StepOf(w), pc'[w] \in BeforeLog
    PROVE  /\ ~AppendLog(w)
           /\ \/ /\ pc[w] = "idle" /\ firstEvent'[w] = firstEvent[w]
              \/ /\ pc[w] \in BeforeLog /\ taskOf'[w] = taskOf[w]
                 /\ firstEvent'[w] = firstEvent[w]
              \/ SendEvent(w)
<1>0. w \in Workers /\ w \notin Cancels /\ pc[w] # "drain"
  BY EngineAssumption DEF Workers, PlacesInv, CancelPlaces
<1> USE <1>0 DEF TypeInv, TypeOK, BeforeLog
<1>1. CASE ClientStep(w)
  BY <1>1 DEF ClientStep, RefuseCall, AbortCall, StartNewTask, ContinueTask, AppendLog
<1>2. CASE ApplyStep(w)
  <2>1. CASE ReceiveEvent(w)
    BY <2>1 DEF ReceiveEvent, AppendLog
  <2>2. CASE SkipEmptyArtifact(w) \/ TakeSeq(w)
    BY <2>2 DEF SkipEmptyArtifact, TakeSeq, AppendLog
  <2>3. CASE AppendLog(w) \/ GetTask(w) \/ PutTask(w)
    BY <2>3 DEF AppendLog, GetTask, PutTask
  <2>4. CASE SendEvent(w)
    BY <2>4 DEF SendEvent, AppendLog
  <2> QED BY <1>2, <2>1, <2>2, <2>3, <2>4 DEF ApplyStep
<1>3. CASE TurnStep(w)
  <2>1. CASE InsertBus(w) \/ InsertToken(w) \/ TakeLeadSeq(w) \/ SendLead(w)
    BY <2>1 DEF InsertBus, InsertToken, TakeLeadSeq, SendLead, AppendLog
  <2>2. CASE ExecutorFails(w)
    BY <2>2 DEF ExecutorFails, AppendLog
  <2>3. CASE ExecutorReturns(w) \/ RemoveBus(w) \/ RemoveToken(w)
    BY <2>3 DEF ExecutorReturns, RemoveBus, RemoveToken
  <2> QED BY <1>3, <2>1, <2>2, <2>3 DEF TurnStep
<1> QED BY <1>1, <1>2, <1>3 DEF StepOf, ServerStep

LEMMA OwnFirst ==
    ASSUME TypeInv, PlacesInv, OneAtATime, LogsOwn, LastLogged, FirstInv,
           NEW w \in Turns, StepOf(w), pc'[w] \in BeforeLog,
           NEW t \in Tasks, t = taskOf'[w], Len(eventLogs[t]) # EventLogCapacity
    PROVE  /\ eventLogs' = eventLogs
           /\ firstEvent'[w] <=> NoneBy(w, eventLogs[t])
<1>0. w \in Workers
  BY DEF Workers
<1>1. eventLogs' = eventLogs
  BY <1>0, ComesToLog, OnlyAppendLogs
<1>2. CASE pc[w] = "idle" /\ firstEvent'[w] = firstEvent[w]
  <2>1. taskOf[w] = NoTask /\ firstEvent'[w]
    BY <1>0, <1>2 DEF OneAtATime, FirstInv
  <2>2. \A i \in DOMAIN eventLogs[t] : taskOf[eventLogs[t][i].by] = t
    BY DEF LogsOwn
  <2>3. NoneBy(w, eventLogs[t])
    BY <2>1, <2>2, EngineAssumption DEF NoneBy, Applied
  <2> QED BY <1>1, <2>1, <2>3
<1>3. CASE pc[w] \in BeforeLog /\ taskOf'[w] = taskOf[w] /\ firstEvent'[w] = firstEvent[w]
  BY <1>1, <1>3 DEF FirstInv
<1>4. CASE SendEvent(w)
  <2>1. /\ taskOf[w] = t /\ pc[w] = "send" /\ pc'[w] = AfterSend(w) /\ ~firstEvent'[w]
    BY <1>0, <1>4 DEF SendEvent, TypeInv, TypeOK
  <2>2. event[w].kind # "message"
    BY <2>1 DEF AfterSend, BeforeLog, ClosesStream
  <2>3. PICK log : log = eventLogs[t]
    OBVIOUS
  <2>4. log \in Seq(Item) /\ log # <<>> /\ log[Len(log)] = Held(w)
    BY <1>0, <2>1, <2>3 DEF LastLogged, Logged, TypeInv, TypeOK
  <2>5. Len(log) \in DOMAIN log
    BY <2>4
  <2>6. Len(log) \in Applied(log) /\ log[Len(log)].by = w
    BY <2>2, <2>4, <2>5 DEF Applied, Held
  <2> QED BY <1>1, <2>1, <2>3, <2>6 DEF NoneBy
<1> QED BY <1>2, <1>3, <1>4, ComesToLog

LEMMA NextFirstInv ==
    TypeInv /\ PlacesInv /\ OneAtATime /\ TopInv /\ FirstInv /\ [Next]_vars => FirstInv'
<1> SUFFICES ASSUME TypeInv, PlacesInv, OneAtATime, TopInv, FirstInv, [Next]_vars
             PROVE  FirstInv'
  OBVIOUS
<1>1. CASE UNCHANGED vars
  BY <1>1 DEF FirstInv, NoneBy
<1>2. ASSUME NEW w \in Workers, StepOf(w), NEW u \in Turns, pc'[u] = "idle"
      PROVE  firstEvent'[u]
  <2>1. u \in Workers
    BY DEF Workers
  <2>2. CASE u # w
    BY <1>2, <2>1, <2>2, StepsAlone DEF StepOf, Alone, FirstInv
  <2>3. CASE u = w
    <3>1. pc[u] = "idle" /\ taskOf' = taskOf
      BY <1>2, <2>3, TasksKept
    <3>2. ~ApplyStep(w) /\ ~TurnStep(w)
      BY <2>3, <3>1 DEF ApplyStep, ReceiveEvent, SkipEmptyArtifact, TakeSeq, AppendLog, GetTask,
         PutTask, SendEvent, TurnStep, InsertBus, InsertToken, ExecutorReturns, ExecutorFails,
         TakeLeadSeq, SendLead, RemoveBus, RemoveToken
    <3>3. ~CancelStep(w)
      BY <2>3, <3>1 DEF CancelStep, SignalToken, ExecutorCancelOk, ExecutorCancelErr, LookupBus,
         Reread, FinalGet
    <3>4. firstEvent' = firstEvent
      BY <1>2, <3>2, <3>3 DEF StepOf, ServerStep, ClientStep, RefuseCall, AbortCall,
         StartNewTask, ContinueTask, StartCancel
    <3> QED BY <3>1, <3>4 DEF FirstInv
  <2> QED BY <2>2, <2>3
<1>3. ASSUME NEW w \in Workers, StepOf(w), NEW u \in Turns, pc'[u] \in BeforeLog
      PROVE  /\ taskOf'[u] \in Tasks
             /\ Len(eventLogs'[taskOf'[u]]) # EventLogCapacity =>
                   (firstEvent'[u] <=> NoneBy(u, eventLogs[taskOf[u]])')
  <2>0. u \in Workers
    BY DEF Workers
  <2>1. PICK t : t = taskOf'[u]
    OBVIOUS
  <2>2. TypeInv'
    BY <1>3, StepNext, NextTypeInv
  <2>3. t \in Tasks
    BY <1>3, <2>0, <2>1, <2>2 DEF TypeInv, HoldsOf, Active, PCs, BeforeLog
  <2>4. ASSUME Len(eventLogs'[t]) # EventLogCapacity
        PROVE  firstEvent'[u] <=> NoneBy(u, eventLogs'[t])
    <3>1. Len(eventLogs[t]) # EventLogCapacity
      BY <1>3, <2>3, <2>4, LogNotFull
    <3>2. CASE u = w
      BY <1>3, <2>1, <2>3, <3>1, <3>2, OwnFirst DEF TopInv
    <3>3. CASE u # w
      <4>1. pc[u] = pc'[u] /\ taskOf[u] = t /\ firstEvent'[u] = firstEvent[u]
        BY <1>3, <2>0, <2>1, <3>3, StepsAlone DEF StepOf, Alone
      <4>2. ~Answered(u)
        BY <1>3, <4>1 DEF Answered, Ended, BeforeLog
      <4>3. eventLogs'[t] = eventLogs[t]
        BY <1>3, <2>0, <2>3, <3>3, <4>1, <4>2, OthersUntouched
      <4> QED BY <1>3, <3>1, <4>1, <4>3 DEF FirstInv
    <3> QED BY <3>2, <3>3
  <2> QED BY <2>1, <2>3, <2>4 DEF NoneBy
<1> QED BY <1>1, <1>2, <1>3, StepsOrStutter DEF FirstInv

\* While calls on a task do not overlap and no cancel is dropped in its middle,
\* the stored task is, between two updates and until the log is full, the replay
\* of the log: no update of it is lost, applied twice or out of place, and the
\* message of each turn is where that turn began.
THEOREM StoreAlwaysReplayOfLog ==
    ASSUME NoOverlap, NoneDropped
    PROVE  Spec => []StoreIsReplayOfLog
<1>1. ReplayInv => StoreIsReplayOfLog
  BY DEF ReplayInv, StoreIsReplayOfLog, Behind
<1> QED BY <1>1, InitTypeInv, NextTypeInv, InitSeqInv, NextSeqInv, InitLogInv, NextLogInv,
           InitSentInv, NextSentInv, InitHistoryInv, NextHistoryInv, InitPlacesInv,
           NextPlacesInv, InitOneAtATime, NextOneAtATime, InitOrderInv, NextOrderInv,
           InitTopInv, NextTopInv, InitRowInv, NextRowInv, InitReplayInv, NextReplayInv,
           NextFirstInv, PTL DEF Spec
=============================================================================
