------------------------- MODULE SendMessage_proofs -------------------------
(***************************************************************************)
(* What SendMessage guarantees to the callers of SendMessage and           *)
(* SendStreamingMessage, for every value of its constants: that a stream   *)
(* is in order, when it may lack the outcome of its turn, and what the     *)
(* answer of a blocking call says of the store.                            *)
(*                                                                         *)
(* The engine underneath takes the steps of TaskEngine only, so whatever   *)
(* is invariant there is invariant here.                                   *)
(***************************************************************************)
EXTENDS SendMessage, TaskOrder_proofs

USE DEF vars, shared, call, turnVars, applying, cancelVars, GoTo, clientVars, allVars

-----------------------------------------------------------------------------
(***************************************************************************)
(* Two kinds of steps: the engine's, and a reader's.                       *)
(***************************************************************************)
EngineStep ==
    /\ Next
    /\ Pacing # "free" => RepliesToAnswers
    /\ UNCHANGED clientVars

LEMMA ClientSteps ==
    [ClientNext]_allVars =>
        EngineStep \/ (\E w \in Turns : ReceiverStep(w)) \/ UNCHANGED allVars
BY DEF ClientNext, EngineStep

LEMMA ReceiverAside ==
    ASSUME NEW w \in Turns, ReceiverStep(w)
    PROVE  UNCHANGED <<vars, mode>>
BY DEF ReceiverStep, SkipLost, ReceiveItem, ReadSnapshot, ReceiveClosed, YieldItem, EndStream

LEMMA StepsAreEngineSteps == [ClientNext]_allVars => [Next]_vars
BY ClientSteps, ReceiverAside DEF EngineStep

LEMMA InitIsEngineInit == ClientInit => Init
BY DEF ClientInit

Results ==
    [kind : {"message", "failure"}] \cup
    [kind : {"task", "snapshot", "stored"}, state : TaskStates]

ReceiverType ==
    /\ mode \in [Turns -> {"blocking", "immediate", "stream"}]
    /\ answer \in [Turns -> {"waiting", "snapshot", "returned"}]
    /\ cursor \in [Turns -> Nat]
    /\ yielded \in [Turns -> Seq(Item)]
    /\ result \in [Turns -> Seq(Results)]
    /\ \A w \in Turns : cursor[w] <= Len(sent[w])

\* A bus only grows, at its end.
LEMMA BusGrows ==
    ASSUME TypeInv, [Next]_vars, NEW w \in Turns
    PROVE  /\ sent[w] \in Seq(Item) /\ sent'[w] \in Seq(Item)
           /\ Len(sent[w]) \in Nat /\ Len(sent'[w]) \in Nat
           /\ Len(sent[w]) <= Len(sent'[w])
           /\ \A i \in 1 .. Len(sent[w]) : sent'[w][i] = sent[w][i]
<1>1. TypeInv'
  BY NextTypeInv
<1>2. sent[w] \in Seq(Item) /\ sent'[w] \in Seq(Item)
  BY <1>1 DEF TypeInv, TypeOK
<1>3. PICK old, new : old = sent[w] /\ new = sent'[w]
  OBVIOUS
<1>4. /\ Len(old) \in Nat /\ DOMAIN old = 1 .. Len(old)
      /\ Len(new) \in Nat /\ DOMAIN new = 1 .. Len(new)
  BY <1>2, <1>3
<1>5. \A i \in DOMAIN old : i \in DOMAIN new /\ new[i] = old[i]
  BY <1>3, SentGrows
<1>6. Len(old) <= Len(new)
  <2>1. CASE Len(old) = 0
    BY <1>4, <2>1
  <2>2. CASE Len(old) # 0
    <3>1. Len(old) \in DOMAIN old
      BY <1>4, <2>2
    <3> QED BY <1>4, <1>5, <3>1
  <2> QED BY <2>1, <2>2
<1> QED BY <1>2, <1>3, <1>4, <1>5, <1>6

LEMMA InitReceiverType == ClientInit => ReceiverType
<1> SUFFICES ASSUME ClientInit PROVE ReceiverType
  OBVIOUS
<1>1. mode \in [Turns -> {"blocking", "immediate", "stream"}]
  BY ReceiverAssumption DEF ClientInit
<1>2. yielded \in [Turns -> Seq(Item)] /\ result \in [Turns -> Seq(Results)]
  BY DEF ClientInit
<1>3. \A w \in Turns : cursor[w] = 0 /\ sent[w] = <<>>
  BY DEF ClientInit, Init
<1>4. ASSUME NEW w \in Turns PROVE cursor[w] <= Len(sent[w])
  <2>1. PICK log, n : log = sent[w] /\ n = cursor[w]
    OBVIOUS
  <2>2. log = <<>> /\ n = 0
    BY <1>3, <2>1
  <2>3. n <= Len(log)
    BY <2>2
  <2> QED BY <2>1, <2>3
<1> QED BY <1>1, <1>2, <1>4 DEF ClientInit, ReceiverType

\* The item a reader is at.
LEMMA NextItem ==
    ASSUME TypeInv, ReceiverType, NEW w \in Turns, cursor[w] < Len(sent[w])
    PROVE  /\ cursor[w] + 1 \in DOMAIN sent[w] /\ cursor[w] + 1 <= Len(sent[w])
           /\ sent[w][cursor[w] + 1] \in Item
<1>1. PICK log, n : log = sent[w] /\ n = cursor[w]
  OBVIOUS
<1>2. log \in Seq(Item) /\ n \in Nat /\ n < Len(log)
  BY <1>1 DEF TypeInv, TypeOK, ReceiverType
<1>3. n + 1 \in DOMAIN log /\ n + 1 <= Len(log) /\ log[n + 1] \in Item
  BY <1>2
<1> QED BY <1>1, <1>3

LEMMA NextReceiverType ==
    TypeInv /\ ReceiverType /\ [ClientNext]_allVars => ReceiverType'
<1> SUFFICES ASSUME TypeInv, ReceiverType, [ClientNext]_allVars PROVE ReceiverType'
  OBVIOUS
<1>1. CASE EngineStep
  <2>1. UNCHANGED clientVars
    BY <1>1 DEF EngineStep
  <2>2. ASSUME NEW w \in Turns PROVE cursor[w] <= Len(sent'[w])
    <3>1. cursor[w] \in Nat /\ cursor[w] <= Len(sent[w])
      BY DEF ReceiverType
    <3>2. Len(sent[w]) \in Nat /\ Len(sent'[w]) \in Nat /\ Len(sent[w]) <= Len(sent'[w])
      BY <1>1, BusGrows DEF EngineStep
    <3> QED BY <3>1, <3>2
  <2> QED BY <2>1, <2>2 DEF ReceiverType
<1>2. ASSUME NEW w \in Turns, ReceiverStep(w) PROVE ReceiverType'
  <2> USE DEF ReceiverType
  <2>0. /\ UNCHANGED <<vars, mode>>
        /\ \A v \in Turns : Len(sent[v]) \in Nat
    BY <1>2, ReceiverAside, BusGrows DEF TypeInv, TypeOK
  <2>1. \A v \in Turns : sent'[v] = sent[v]
    BY <2>0
  <2>2. CASE SkipLost(w)
    <3>1. Len(sent[w]) - BusCapacity \in Nat /\ Len(sent[w]) - BusCapacity <= Len(sent[w])
      BY <2>0, <2>2, ReceiverAssumption DEF SkipLost, Lagging
    <3>2. cursor' = [cursor EXCEPT ![w] = Len(sent[w]) - BusCapacity]
          /\ UNCHANGED <<mode, answer, yielded, result>>
      BY <2>2 DEF SkipLost
    <3> QED BY <2>1, <3>1, <3>2
  <2>3. CASE ReceiveItem(w)
    <3>1. PICK e : e = sent[w][cursor[w] + 1].event
      OBVIOUS
    <3>2. e \in Events /\ cursor[w] + 1 <= Len(sent[w])
      BY <2>3, <3>1, NextItem DEF ReceiveItem, Item
    <3>3. /\ cursor' = [cursor EXCEPT ![w] = @ + 1] /\ UNCHANGED <<mode, yielded>>
          /\ HandleItem(w, e)
      BY <2>3, <3>1 DEF ReceiveItem
    <3>4. /\ answer' \in [Turns -> {"waiting", "snapshot", "returned"}]
          /\ result' \in [Turns -> Seq(Results)]
      <4>1. ASSUME NEW r \in Results, ReturnResult(w, r)
            PROVE  /\ answer' \in [Turns -> {"waiting", "snapshot", "returned"}]
                   /\ result' \in [Turns -> Seq(Results)]
        BY <4>1 DEF ReturnResult
      <4>2. [kind |-> "message"] \in Results
        BY DEF Results
      <4>3. e.kind = "task" => [kind |-> "task", state |-> e.task.state] \in Results
        BY <3>2 DEF Results, Events, ExecutorEvents, TaskUpdates, BareMessage, Task
      <4>4. e.kind = "status" => [kind |-> "task", state |-> e.state] \in Results
        BY <3>2 DEF Results, Events, ExecutorEvents, TaskUpdates, BareMessage
      <4>5. [kind |-> "task", state |-> "Working"] \in Results
        BY DEF Results, TaskStates
      <4> QED BY <3>3, <4>1, <4>2, <4>3, <4>4, <4>5 DEF HandleItem
    <3>5. \A v \in Turns : cursor'[v] = IF v = w THEN cursor[w] + 1 ELSE cursor[v]
      BY <3>3
    <3>6. \A v \in Turns : cursor'[v] <= Len(sent[v])
      BY <3>2, <3>5
    <3>7. cursor' \in [Turns -> Nat]
      BY <3>3
    <3> QED BY <2>0, <2>1, <3>3, <3>4, <3>6, <3>7
  <2>4. ASSUME NEW r \in Results, ReturnResult(w, r), UNCHANGED <<cursor, yielded>>
        PROVE  ReceiverType'
    BY <2>0, <2>1, <2>4 DEF ReturnResult
  <2>5. CASE ReadSnapshot(w)
    <3>1. PICK state : state = IF taskOf[w] \in DOMAIN store
                               THEN store[taskOf[w]].state ELSE "Submitted"
      OBVIOUS
    <3>2. state \in TaskStates
      BY <3>1 DEF TypeInv, Recorded, Task, TaskStates
    <3> QED BY <2>4, <2>5, <3>1, <3>2 DEF ReadSnapshot, Results
  <2>6. CASE ReceiveClosed(w)
    <3>1. CASE taskOf[w] \in DOMAIN store
      <4>1. store[taskOf[w]].state \in TaskStates
        BY <3>1 DEF TypeInv, Recorded, Task
      <4> QED BY <2>4, <2>6, <3>1, <4>1 DEF ReceiveClosed, Results
    <3>2. CASE taskOf[w] \notin DOMAIN store
      BY <2>4, <2>6, <3>2 DEF ReceiveClosed, Results
    <3> QED BY <3>1, <3>2
  <2>7. CASE YieldItem(w)
    <3>1. PICK item : item = sent[w][cursor[w] + 1]
      OBVIOUS
    <3>2. item \in Item /\ cursor[w] + 1 <= Len(sent[w])
      BY <2>7, <3>1, NextItem DEF YieldItem
    <3>3. /\ cursor' = [cursor EXCEPT ![w] = @ + 1]
          /\ yielded' = [yielded EXCEPT ![w] = Append(@, item)]
          /\ answer' = [answer EXCEPT ![w] = IF ClosesStream(item.event) THEN "returned" ELSE @]
          /\ result' = result
      BY <2>7, <3>1 DEF YieldItem
    <3>4. yielded' \in [Turns -> Seq(Item)]
      BY <3>2, <3>3
    <3> QED BY <2>0, <2>1, <3>2, <3>3, <3>4
  <2>8. CASE EndStream(w)
    BY <2>0, <2>1, <2>8 DEF EndStream
  <2> QED BY <1>2, <2>2, <2>3, <2>5, <2>6, <2>7, <2>8 DEF ReceiverStep
<1>3. CASE UNCHANGED allVars
  BY <1>3 DEF ReceiverType
<1> QED BY <1>1, <1>2, <1>3, ClientSteps

-----------------------------------------------------------------------------
(***************************************************************************)
(* The order of a stream: what it has delivered lies behind its cursor, in *)
(* the order of the bus.                                                   *)
(***************************************************************************)
\* What was delivered comes from the first `n' items of a bus, in order.
Drawn(items, log, n) ==
    /\ \A i \in DOMAIN items : \E k \in DOMAIN log : k <= n /\ items[i] = log[k]
    /\ \A i, j \in DOMAIN items : i < j =>
          \E k, l \in DOMAIN log : k < l /\ items[i] = log[k] /\ items[j] = log[l]

StreamInv ==
    \A w \in Turns :
        /\ Drawn(yielded[w], sent[w], cursor[w])
        /\ mode[w] # "stream" => yielded[w] = <<>>
        /\ Len(sent[w]) <= BusCapacity =>
              /\ mode[w] = "stream" /\ yielded[w] = <<>> => cursor[w] = 0
              /\ yielded[w] # <<>> => yielded[w][1] = sent[w][1]

LEMMA DrawnFromLonger ==
    ASSUME NEW items, NEW log \in Seq(Item), NEW longer \in Seq(Item), NEW n \in Nat,
           NEW m \in Nat, n <= m, n <= Len(log), Len(log) <= Len(longer),
           \A i \in 1 .. Len(log) : longer[i] = log[i], Drawn(items, log, n)
    PROVE  Drawn(items, longer, m)
<1>1. \A k \in DOMAIN log : k \in DOMAIN longer /\ longer[k] = log[k] /\ k \in Nat
  OBVIOUS
<1>2. ASSUME NEW i \in DOMAIN items
      PROVE  \E k \in DOMAIN longer : k <= m /\ items[i] = longer[k]
  <2>1. PICK k \in DOMAIN log : k <= n /\ items[i] = log[k]
    BY DEF Drawn
  <2>2. k <= m
    BY <1>1, <2>1
  <2> QED BY <1>1, <2>1, <2>2
<1>3. ASSUME NEW i \in DOMAIN items, NEW j \in DOMAIN items, i < j
      PROVE  \E k, l \in DOMAIN longer : k < l /\ items[i] = longer[k] /\ items[j] = longer[l]
  <2>1. PICK k \in DOMAIN log, l \in DOMAIN log :
             k < l /\ items[i] = log[k] /\ items[j] = log[l]
    BY <1>3 DEF Drawn
  <2> QED BY <1>1, <2>1
<1> QED BY <1>2, <1>3 DEF Drawn

LEMMA DrawnAppend ==
    ASSUME NEW items \in Seq(Item), NEW log \in Seq(Item), NEW n \in Nat,
           n < Len(log), Drawn(items, log, n)
    PROVE  Drawn(Append(items, log[n + 1]), log, n + 1)
<1>1. PICK item, longer, m : /\ item = log[n + 1] /\ longer = Append(items, item)
                             /\ m = Len(items)
  OBVIOUS
<1>2. n + 1 \in DOMAIN log /\ item \in Item /\ m \in Nat
  BY <1>1
<1>3. /\ DOMAIN longer = 1 .. m + 1 /\ DOMAIN items = 1 .. m /\ longer[m + 1] = item
      /\ \A i \in 1 .. m : longer[i] = items[i]
  BY <1>1, <1>2
<1>4. ASSUME NEW i \in DOMAIN longer
      PROVE  \E k \in DOMAIN log : k <= n + 1 /\ longer[i] = log[k]
  <2>1. CASE i = m + 1
    BY <1>1, <1>2, <1>3, <2>1
  <2>2. CASE i # m + 1
    <3>1. i \in DOMAIN items /\ longer[i] = items[i]
      BY <1>2, <1>3, <2>2
    <3>2. PICK k \in DOMAIN log : k <= n /\ items[i] = log[k]
      BY <3>1 DEF Drawn
    <3>3. k <= n + 1
      BY <3>2
    <3> QED BY <3>1, <3>2, <3>3
  <2> QED BY <2>1, <2>2
<1>5. ASSUME NEW i \in DOMAIN longer, NEW j \in DOMAIN longer, i < j
      PROVE  \E k, l \in DOMAIN log : k < l /\ longer[i] = log[k] /\ longer[j] = log[l]
  <2>1. i \in DOMAIN items /\ longer[i] = items[i]
    BY <1>2, <1>3, <1>5
  <2>2. CASE j = m + 1
    <3>1. PICK k \in DOMAIN log : k <= n /\ items[i] = log[k]
      BY <2>1 DEF Drawn
    <3>2. k < n + 1
      BY <3>1
    <3> QED BY <1>1, <1>2, <1>3, <2>1, <2>2, <3>1, <3>2
  <2>3. CASE j # m + 1
    <3>1. j \in DOMAIN items /\ longer[j] = items[j]
      BY <1>2, <1>3, <2>3
    <3> QED BY <1>5, <2>1, <3>1 DEF Drawn
  <2> QED BY <2>2, <2>3
<1> QED BY <1>1, <1>4, <1>5 DEF Drawn

LEMMA InitStreamInv == ClientInit => StreamInv
<1> SUFFICES ASSUME ClientInit, NEW w \in Turns
             PROVE  yielded[w] = <<>> /\ cursor[w] = 0
  <2>1. DOMAIN <<>> = {}
    OBVIOUS
  <2> QED BY <2>1 DEF StreamInv, Drawn
<1> QED BY DEF ClientInit

LEMMA EngineStreamInv ==
    ASSUME TypeInv, ReceiverType, StreamInv, EngineStep
    PROVE  StreamInv'
<1> SUFFICES ASSUME NEW w \in Turns
             PROVE  /\ Drawn(yielded[w], sent'[w], cursor[w])
                    /\ mode[w] # "stream" => yielded[w] = <<>>
                    /\ Len(sent'[w]) <= BusCapacity =>
                          /\ mode[w] = "stream" /\ yielded[w] = <<>> => cursor[w] = 0
                          /\ yielded[w] # <<>> => yielded[w][1] = sent'[w][1]
  BY DEF EngineStep, StreamInv
<1>1. PICK items, log, longer, n :
           items = yielded[w] /\ log = sent[w] /\ longer = sent'[w] /\ n = cursor[w]
  OBVIOUS
<1>2. /\ log \in Seq(Item) /\ longer \in Seq(Item) /\ Len(log) <= Len(longer)
      /\ \A i \in 1 .. Len(log) : longer[i] = log[i]
  BY <1>1, BusGrows DEF EngineStep
<1>3. items \in Seq(Item) /\ n \in Nat /\ n <= Len(log) /\ Drawn(items, log, n)
  BY <1>1 DEF ReceiverType, StreamInv
<1>4. Drawn(items, longer, n)
  BY <1>2, <1>3, DrawnFromLonger
<1>5. ASSUME Len(longer) <= BusCapacity PROVE Len(log) <= BusCapacity
  BY <1>2, <1>5, ReceiverAssumption
<1>6. ASSUME items # <<>> PROVE longer[1] = log[1]
  <2>1. 1 \in DOMAIN items
    BY <1>3, <1>6
  <2>2. PICK k \in DOMAIN log : k <= n
    BY <1>3, <2>1 DEF Drawn
  <2>3. 1 \in 1 .. Len(log)
    BY <1>2, <2>2
  <2> QED BY <1>2, <2>3
<1> QED BY <1>1, <1>4, <1>5, <1>6 DEF StreamInv

LEMMA ReceiverStreamInv ==
    ASSUME TypeInv, ReceiverType, StreamInv, NEW w \in Turns, ReceiverStep(w)
    PROVE  StreamInv'
<1>0. /\ sent' = sent /\ mode' = mode
      /\ \A v \in Turns : sent[v] \in Seq(Item) /\ Len(sent[v]) \in Nat
  BY ReceiverAside DEF TypeInv, TypeOK
<1> SUFFICES ASSUME NEW v \in Turns
             PROVE  /\ Drawn(yielded'[v], sent[v], cursor'[v])
                    /\ mode[v] # "stream" => yielded'[v] = <<>>
                    /\ Len(sent[v]) <= BusCapacity =>
                          /\ mode[v] = "stream" /\ yielded'[v] = <<>> => cursor'[v] = 0
                          /\ yielded'[v] # <<>> => yielded'[v][1] = sent[v][1]
  BY <1>0 DEF StreamInv
<1>1. ASSUME yielded'[v] = yielded[v], cursor'[v] = cursor[v]
      PROVE  /\ Drawn(yielded'[v], sent[v], cursor'[v])
             /\ mode[v] # "stream" => yielded'[v] = <<>>
             /\ Len(sent[v]) <= BusCapacity =>
                   /\ mode[v] = "stream" /\ yielded'[v] = <<>> => cursor'[v] = 0
                   /\ yielded'[v] # <<>> => yielded'[v][1] = sent[v][1]
  BY <1>1 DEF StreamInv
<1>2. CASE v # w
  <2>1. yielded'[v] = yielded[v] /\ cursor'[v] = cursor[v]
    BY <1>2 DEF ReceiverType, ReceiverStep, SkipLost, ReceiveItem, ReadSnapshot,
       ReceiveClosed, YieldItem, EndStream
  <2> QED BY <1>1, <2>1
<1>3. CASE v = w
  <2>1. PICK items, log, n : items = yielded[w] /\ log = sent[w] /\ n = cursor[w]
    OBVIOUS
  <2>2. /\ items \in Seq(Item) /\ log \in Seq(Item) /\ n \in Nat /\ n <= Len(log)
        /\ Len(log) \in Nat /\ BusCapacity \in Nat /\ Drawn(items, log, n)
    BY <1>0, <2>1, ReceiverAssumption DEF ReceiverType, StreamInv
  <2>3. ASSUME NEW m \in Nat, n <= m, Drawn(items, log, n) PROVE Drawn(items, log, m)
    BY <2>2, <2>3, DrawnFromLonger
  <2>4. CASE SkipLost(w)
    <3>1. PICK m : m = Len(log) - BusCapacity
      OBVIOUS
    <3>2. /\ m \in Nat /\ n <= m /\ cursor'[w] = m /\ yielded'[w] = items
          /\ ~(Len(log) <= BusCapacity)
      BY <2>1, <2>2, <2>4, <3>1, SMTT(30) DEF SkipLost, Lagging, ReceiverType
    <3> QED BY <1>3, <2>1, <2>2, <2>3, <3>2 DEF StreamInv
  <2>5. CASE ReceiveItem(w)
    <3>1. cursor'[w] = n + 1 /\ yielded'[w] = items /\ mode[w] # "stream"
      BY <2>1, <2>5 DEF ReceiveItem, ReceiverType
    <3>2. n + 1 \in Nat /\ n <= n + 1
      BY <2>2
    <3>3. items = <<>>
      BY <2>1, <3>1 DEF StreamInv
    <3> QED BY <1>3, <2>1, <2>2, <2>3, <3>1, <3>2, <3>3
  <2>6. CASE YieldItem(w)
    <3>1. /\ cursor'[w] = n + 1 /\ yielded'[w] = Append(items, log[n + 1])
          /\ mode[w] = "stream" /\ n < Len(log)
      BY <2>1, <2>6 DEF YieldItem, ReceiverType
    <3>2. Drawn(Append(items, log[n + 1]), log, n + 1)
      BY <2>2, <3>1, DrawnAppend
    <3>3. PICK item, longer : item = log[n + 1] /\ longer = Append(items, item)
      OBVIOUS
    <3>4. item \in Item
      BY <2>2, <3>1, <3>3
    <3>5. longer # <<>> /\ (items = <<>> => longer[1] = item) /\ (items # <<>> => longer[1] = items[1])
      BY <2>2, <3>3, <3>4
    <3>6. ASSUME Len(log) <= BusCapacity PROVE longer[1] = log[1]
      <4>1. CASE items = <<>>
        <5>1. n = 0
          BY <2>1, <3>1, <3>6, <4>1 DEF StreamInv
        <5> QED BY <3>3, <3>5, <4>1, <5>1
      <4>2. CASE items # <<>>
        BY <2>1, <3>5, <3>6, <4>2 DEF StreamInv
      <4> QED BY <4>1, <4>2
    <3> QED BY <1>3, <2>1, <3>1, <3>2, <3>3, <3>5, <3>6
  <2>7. CASE ReadSnapshot(w) \/ ReceiveClosed(w) \/ EndStream(w)
    BY <1>1, <1>3, <2>7 DEF ReadSnapshot, ReceiveClosed, EndStream
  <2> QED BY <2>4, <2>5, <2>6, <2>7 DEF ReceiverStep
<1> QED BY <1>2, <1>3

LEMMA NextStreamInv ==
    TypeInv /\ ReceiverType /\ StreamInv /\ [ClientNext]_allVars => StreamInv'
<1>1. UNCHANGED allVars /\ StreamInv => StreamInv'
  BY DEF StreamInv
<1> QED BY <1>1, ClientSteps, EngineStreamInv, ReceiverStreamInv

\* However turns, cancels and readers interleave and however often a reader
\* falls behind, SendStreamingMessage (stream_through_close) delivers what was
\* sent in that order, nothing twice, from the beginning unless more than the
\* channel's capacity was missed.
THEOREM StreamAlwaysInOrder == ClientSpec => []StreamIsInOrder
<1>1. StreamInv => StreamIsInOrder
  BY DEF StreamInv, StreamIsInOrder, Drawn
<1> QED BY <1>1, InitIsEngineInit, StepsAreEngineSteps, InitTypeInv, NextTypeInv,
           InitReceiverType, NextReceiverType, InitStreamInv, NextStreamInv, PTL
        DEF ClientSpec

-----------------------------------------------------------------------------
(***************************************************************************)
(* A lost outcome.  A closing event leaves a stream undelivered only when  *)
(* a full channel of later items pushes it out.                            *)
(***************************************************************************)
EndsWithClose(w) ==
    yielded[w] # <<>> /\ ClosesStream(yielded[w][Len(yielded[w])].event)

\* Behind the cursor of a stream that has not delivered a closing event, each
\* closing event has a full channel after it.
PassedByLag(w) ==
    \A i \in Closings(w) : i <= cursor[w] => i + BusCapacity <= Len(sent[w])

Exhausted(w) == BusClosed(w) /\ cursor[w] = Len(sent[w])

LossInv ==
    \A w \in Turns : mode[w] = "stream" =>
        /\ answer[w] # "snapshot"
        /\ EndsWithClose(w) => Returned(w)
        /\ EndsWithClose(w) \/ PassedByLag(w)
        /\ Returned(w) => EndsWithClose(w) \/ Exhausted(w)

\* A stream that ended without the outcome of its turn, although one was sent,
\* had fallen behind by the whole capacity of its channel.
LostOnlyToLag ==
    \A w \in Turns : mode[w] = "stream" /\ Returned(w) /\ ~EndsWithClose(w) =>
        \A i \in Closings(w) : i + BusCapacity <= Len(sent[w])

LEMMA InitLossInv == ClientInit => LossInv
BY DEF ClientInit, LossInv, Init, Closings, Returned, EndsWithClose, PassedByLag

LEMMA EngineLossInv ==
    ASSUME TypeInv, ReceiverType, LossInv, EngineStep
    PROVE  LossInv'
<1> SUFFICES ASSUME NEW w \in Turns, mode[w] = "stream", ~EndsWithClose(w)
             PROVE  /\ \A i \in Closings(w)' : i <= cursor[w] => i + BusCapacity <= Len(sent'[w])
                    /\ Returned(w) => BusClosed(w)' /\ cursor[w] = Len(sent'[w])
  BY DEF EngineStep, LossInv, EndsWithClose, Returned, PassedByLag, Exhausted
<1>1. PICK log, longer, n : log = sent[w] /\ longer = sent'[w] /\ n = cursor[w]
  OBVIOUS
<1>2. /\ log \in Seq(Item) /\ longer \in Seq(Item)
      /\ Len(log) \in Nat /\ Len(longer) \in Nat /\ Len(log) <= Len(longer)
      /\ \A i \in 1 .. Len(log) : longer[i] = log[i]
      /\ n \in Nat /\ n <= Len(log) /\ BusCapacity \in Nat
  BY <1>1, BusGrows, ReceiverAssumption DEF EngineStep, ReceiverType
<1>3. ASSUME NEW i \in DOMAIN longer, ClosesStream(longer[i].event), i <= n
      PROVE  i + BusCapacity <= Len(longer)
  <2>1. i \in DOMAIN log /\ longer[i] = log[i] /\ i \in Nat
    BY <1>2, <1>3
  <2>2. i + BusCapacity <= Len(log)
    BY <1>1, <1>3, <2>1 DEF LossInv, Closings, PassedByLag
  <2> QED BY <1>2, <2>1, <2>2
<1>4. ASSUME Returned(w) PROVE BusClosed(w)' /\ longer = log /\ n = Len(log)
  BY <1>1, <1>4, ClosedStays DEF LossInv, EngineStep, Exhausted
<1> QED BY <1>1, <1>3, <1>4 DEF Closings

LEMMA ReceiverLossInv ==
    ASSUME TypeInv, ReceiverType, LossInv, NEW w \in Turns, ReceiverStep(w)
    PROVE  LossInv'
<1>0. /\ UNCHANGED <<vars, mode>>
      /\ \A v \in Turns : sent[v] \in Seq(Item) /\ Len(sent[v]) \in Nat
  BY ReceiverAside DEF TypeInv, TypeOK
<1>1. ASSUME NEW v \in Turns, yielded'[v] = yielded[v], cursor'[v] = cursor[v],
             answer'[v] = answer[v], mode[v] = "stream"
      PROVE  /\ answer'[v] # "snapshot"
             /\ EndsWithClose(v)' => Returned(v)'
             /\ EndsWithClose(v)' \/ PassedByLag(v)'
             /\ Returned(v)' => EndsWithClose(v)' \/ Exhausted(v)'
  BY <1>0, <1>1 DEF LossInv, EndsWithClose, Closings, Returned, BusClosed, PassedByLag,
     Exhausted
<1>2. \A v \in Turns \ {w} :
          yielded'[v] = yielded[v] /\ cursor'[v] = cursor[v] /\ answer'[v] = answer[v]
  BY DEF ReceiverType, ReceiverStep, SkipLost, ReceiveItem, HandleItem, ReturnResult,
     ReadSnapshot, ReceiveClosed, YieldItem, EndStream
<1>3. ASSUME mode[w] = "stream"
      PROVE  /\ answer'[w] # "snapshot"
             /\ EndsWithClose(w)' => Returned(w)'
             /\ EndsWithClose(w)' \/ PassedByLag(w)'
             /\ Returned(w)' => EndsWithClose(w)' \/ Exhausted(w)'
  <2>1. PICK items, log, n : items = yielded[w] /\ log = sent[w] /\ n = cursor[w]
    OBVIOUS
  <2>2. /\ items \in Seq(Item) /\ log \in Seq(Item) /\ n \in Nat /\ n <= Len(log)
        /\ Len(log) \in Nat /\ BusCapacity \in Nat /\ sent'[w] = log /\ answer[w] # "snapshot"
    BY <1>0, <1>3, <2>1, ReceiverAssumption DEF ReceiverType, LossInv
  <2>3. CASE SkipLost(w)
    <3>1. PICK m : m = Len(log) - BusCapacity
      OBVIOUS
    <3>2. /\ m \in Nat /\ cursor'[w] = m /\ answer'[w] = "waiting" /\ yielded'[w] = items
      BY <2>1, <2>2, <2>3, <3>1 DEF SkipLost, Lagging, ReceiverType
    <3>3. \A i \in DOMAIN log : i <= m => i + BusCapacity <= Len(log)
      BY <2>2, <3>1
    <3>4. PassedByLag(w)' /\ ~Returned(w)'
      BY <2>2, <3>2, <3>3 DEF PassedByLag, Closings, Returned
    <3>5. ~EndsWithClose(w)'
      BY <1>3, <2>1, <2>3, <3>2 DEF LossInv, EndsWithClose, SkipLost, Returned
    <3> QED BY <3>2, <3>4, <3>5
  <2>4. CASE YieldItem(w)
    <3>1. PICK item, longer : item = log[n + 1] /\ longer = Append(items, item)
      OBVIOUS
    <3>2. /\ cursor'[w] = n + 1 /\ yielded'[w] = longer /\ n < Len(log)
          /\ answer'[w] = IF ClosesStream(item.event) THEN "returned" ELSE "waiting"
          /\ answer[w] = "waiting"
      BY <2>1, <2>4, <3>1 DEF YieldItem, ReceiverType
    <3>3. item \in Item
      BY <2>2, <3>1, <3>2
    <3>4. longer # <<>> /\ longer[Len(longer)] = item
      BY <2>2, <3>1, <3>3
    <3>5. CASE ClosesStream(item.event)
      BY <3>2, <3>4, <3>5 DEF EndsWithClose, Returned
    <3>6. CASE ~ClosesStream(item.event)
      <4>1. ~EndsWithClose(w)' /\ ~Returned(w)' /\ answer'[w] # "snapshot"
        BY <3>2, <3>4, <3>6 DEF EndsWithClose, Returned
      <4>2. PassedByLag(w)
        BY <1>3, <3>2 DEF LossInv, Returned
      <4>3. ASSUME NEW i \in DOMAIN log, ClosesStream(log[i].event), i <= n + 1
            PROVE  i + BusCapacity <= Len(log)
        <5>1. i # n + 1
          BY <3>1, <3>6, <4>3
        <5>2. i \in Nat /\ i <= n
          BY <2>2, <4>3, <5>1
        <5> QED BY <2>1, <4>2, <4>3, <5>2 DEF PassedByLag, Closings
      <4>4. PassedByLag(w)'
        BY <2>2, <3>2, <4>3 DEF PassedByLag, Closings
      <4> QED BY <4>1, <4>4
    <3> QED BY <3>5, <3>6
  <2>5. CASE EndStream(w)
    <3>1. /\ BusClosed(w) /\ n = Len(log) /\ cursor'[w] = n /\ yielded'[w] = items
          /\ answer'[w] = "returned"
      BY <2>1, <2>5 DEF EndStream, ReceiverType
    <3>2. EndsWithClose(w)' = EndsWithClose(w)
      BY <2>1, <3>1 DEF EndsWithClose
    <3>3. Exhausted(w)'
      BY <1>0, <2>1, <2>2, <3>1 DEF BusClosed, Exhausted
    <3>4. PassedByLag(w)' = PassedByLag(w)
      BY <2>1, <2>2, <3>1 DEF PassedByLag, Closings
    <3> QED BY <1>3, <3>1, <3>2, <3>3, <3>4 DEF LossInv, Returned
  <2>6. ~ReceiveItem(w) /\ ~ReceiveClosed(w) /\ ~ReadSnapshot(w)
    BY <1>3, <2>2 DEF ReceiveItem, ReceiveClosed, ReadSnapshot
  <2> QED BY <2>3, <2>4, <2>5, <2>6 DEF ReceiverStep
<1> QED BY <1>0, <1>1, <1>2, <1>3 DEF LossInv

LEMMA NextLossInv ==
    TypeInv /\ ReceiverType /\ LossInv /\ [ClientNext]_allVars => LossInv'
<1>1. UNCHANGED allVars /\ LossInv => LossInv'
  BY DEF LossInv, EndsWithClose, PassedByLag, Closings, Exhausted, BusClosed, Returned
<1> QED BY <1>1, ClientSteps, EngineLossInv, ReceiverLossInv

\* However far a stream falls behind (RecvError::Lagged), it misses the outcome
\* of its turn only if a full channel of items was sent after it, which a
\* cancel may do: every other stream through stream_through_close ends with a
\* closing event, or no such event was sent.
THEOREM OutcomeLostOnlyToLag == ClientSpec => []LostOnlyToLag
<1>1. ASSUME TypeInv, LossInv PROVE LostOnlyToLag
  <2>1. SUFFICES ASSUME NEW w \in Turns, mode[w] = "stream", Returned(w), ~EndsWithClose(w),
                        NEW i \in Closings(w)
                 PROVE  i + BusCapacity <= Len(sent[w])
    BY DEF LostOnlyToLag
  <2>2. PassedByLag(w) /\ cursor[w] = Len(sent[w])
    BY <1>1, <2>1 DEF LossInv, Exhausted
  <2>3. PICK log : log = sent[w]
    OBVIOUS
  <2>4. log \in Seq(Item) /\ i \in DOMAIN log
    BY <1>1, <2>3 DEF TypeInv, TypeOK, Closings
  <2>5. i <= Len(log)
    BY <2>4
  <2> QED BY <2>2, <2>3, <2>5 DEF PassedByLag
<1> QED BY <1>1, InitIsEngineInit, StepsAreEngineSteps, InitTypeInv, NextTypeInv,
           InitReceiverType, NextReceiverType, InitLossInv, NextLossInv, PTL
        DEF ClientSpec

-----------------------------------------------------------------------------
(***************************************************************************)
(* Who sends on a bus: the turn that made it, and cancels.                 *)
(***************************************************************************)
SenderInv ==
    \A b \in Turns : \A i \in DOMAIN sent[b] : sent[b][i].by \in {b} \cup Cancels

LEMMA InitSenderInv == Init => SenderInv
BY DEF Init, SenderInv

LEMMA NextSenderInv == TypeInv /\ SenderInv /\ [Next]_vars => SenderInv'
<1> SUFFICES ASSUME TypeInv, SenderInv, [Next]_vars PROVE SenderInv'
  OBVIOUS
<1>1. CASE sent' = sent
  BY <1>1 DEF SenderInv
<1>2. ASSUME NEW w \in Workers, NEW e \in Events, Broadcast(w, e) PROVE SenderInv'
  <2>1. SUFFICES ASSUME NEW b \in Turns, NEW i \in DOMAIN sent'[b]
                 PROVE  sent'[b][i].by \in {b} \cup Cancels
    BY DEF SenderInv
  <2>2. PICK item, log, longer :
             /\ item = [seq |-> seq[w], by |-> w, event |-> e]
             /\ log = sent[b] /\ longer = sent'[b]
    OBVIOUS
  <2>3. log \in Seq(Item) /\ item \in Item /\ item.by = w
    BY <2>2 DEF TypeInv, TypeOK, Item
  <2>4. CASE longer = log
    BY <2>1, <2>2, <2>4 DEF SenderInv
  <2>5. CASE b \in BusesOf(w) /\ longer = Append(log, item)
    <3>1. w \in {b} \cup Cancels
      BY <2>5 DEF BusesOf, Workers
    <3>2. CASE i = Len(log) + 1
      BY <2>2, <2>3, <2>5, <3>1, <3>2
    <3>3. CASE i # Len(log) + 1
      <4>1. i \in DOMAIN log /\ longer[i] = log[i]
        BY <2>1, <2>2, <2>3, <2>5, <3>3
      <4> QED BY <2>2, <4>1 DEF SenderInv
    <3> QED BY <3>2, <3>3
  <2> QED BY <1>2, <2>2, <2>4, <2>5 DEF Broadcast
<1> QED BY <1>1, <1>2, SentOnly, StepsOrStutter

\* Without cancels a closing event is the last of its bus, and its pump is on
\* the way out.
LEMMA ClosingIsLast ==
    ASSUME Cancels = {}, TypeInv, SenderInv, CloseInv, NEW w \in Turns, NEW i \in Closings(w)
    PROVE  /\ i = Len(sent[w])
           /\ pc[w] \in {"removeBus", "removeToken", "done"}
<1>1. PICK log : log = sent[w]
  OBVIOUS
<1>2. /\ log \in Seq(Item) /\ i \in DOMAIN log /\ ClosesStream(log[i].event)
      /\ \A j \in DOMAIN log : log[j].by = w
  BY <1>1 DEF TypeInv, TypeOK, SenderInv, Closings
<1>3. ASSUME NEW j \in DOMAIN log, i < j PROVE FALSE
  BY <1>1, <1>2, <1>3 DEF CloseInv, NothingAfterClose
<1>4. i = Len(log)
  <2>1. Len(log) \in Nat /\ i \in 1 .. Len(log)
    BY <1>2
  <2>2. i # Len(log) => Len(log) \in DOMAIN log /\ i < Len(log)
    BY <1>2, <2>1
  <2> QED BY <1>3, <2>2
<1>5. HasClosed(w)
  BY <1>1, <1>2 DEF HasClosed
<1> QED BY <1>1, <1>4, <1>5 DEF CloseInv

\* Where nobody cancels, a stream delivers the outcome of its turn: the closing
\* event is the last of the bus, and stream_through_close ends with it however
\* often it fell behind.
THEOREM StreamAlwaysDeliversOutcome ==
    ASSUME Cancels = {}
    PROVE  ClientSpec => []StreamDeliversOutcome
<1>1. ASSUME TypeInv, SenderInv, CloseInv, LostOnlyToLag PROVE StreamDeliversOutcome
  <2>1. ASSUME NEW w \in Turns, mode[w] = "stream", Returned(w), NEW i \in Closings(w),
               ~EndsWithClose(w)
        PROVE  FALSE
    <3>1. i + BusCapacity <= Len(sent[w])
      BY <1>1, <2>1 DEF LostOnlyToLag
    <3>2. i = Len(sent[w]) /\ Len(sent[w]) \in Nat /\ BusCapacity \in Nat /\ BusCapacity > 0
      BY <1>1, <2>1, ClosingIsLast, ReceiverAssumption DEF TypeInv, TypeOK
    <3> QED BY <3>1, <3>2
  <2> QED BY <2>1 DEF StreamDeliversOutcome, EndsWithClose
<1> QED BY <1>1, OutcomeLostOnlyToLag, InitIsEngineInit, StepsAreEngineSteps,
           InitTypeInv, NextTypeInv, InitSenderInv, NextSenderInv, InitCloseInv,
           NextCloseInv, PTL
        DEF ClientSpec

-----------------------------------------------------------------------------
(***************************************************************************)
(* Calls on one task.  All but the first find its row.                     *)
(***************************************************************************)
\* A call takes a task that has a row, or one nobody has.
LEMMA TaskTaken ==
    ASSUME TypeInv, NEW w \in Workers, StepOf(w)
    PROVE  \/ UNCHANGED <<taskOf, existing>> /\ (pc'[w] = "idle" => pc[w] = "idle")
           \/ /\ pc[w] = "idle" /\ pc'[w] # "idle"
              /\ \E t \in Tasks :
                    /\ taskOf' = [taskOf EXCEPT ![w] = t]
                    /\ \/ t \in DOMAIN store
                       \/ existing' = existing /\ \A v \in Workers : taskOf[v] # t
<1> USE DEF TypeInv, TypeOK
<1>1. CASE ClientStep(w)
  <2>1. CASE RefuseCall(w) \/ AbortCall(w)
    BY <2>1 DEF RefuseCall, AbortCall
  <2>2. ASSUME NEW t \in Tasks, StartNewTask(w, t) \/ ContinueTask(w, t) \/ StartCancel(w, t)
        PROVE  /\ pc[w] = "idle" /\ pc'[w] # "idle" /\ taskOf' = [taskOf EXCEPT ![w] = t]
               /\ \/ t \in DOMAIN store
                  \/ existing' = existing /\ \A v \in Workers : taskOf[v] # t
    BY <2>2 DEF StartNewTask, ContinueTask, StartCancel
  <2> QED BY <1>1, <2>1, <2>2 DEF ClientStep
<1>2. CASE ApplyStep(w)
  BY <1>2 DEF ApplyStep, ReceiveEvent, Apply, SkipEmptyArtifact, TakeSeq, AppendLog,
     GetTask, PutTask, SendEvent, AfterSend
<1>3. CASE TurnStep(w)
  BY <1>3 DEF TurnStep, InsertBus, InsertToken, ExecutorReturns, ExecutorFails, Apply,
     TakeLeadSeq, SendLead, RemoveBus, RemoveToken
<1>4. CASE CancelStep(w)
  BY <1>4 DEF CancelStep, SignalToken, ExecutorCancelOk, ExecutorCancelErr, LookupBus,
     Reread, Apply, FinalGet, Return
<1> QED BY <1>1, <1>2, <1>3, <1>4 DEF StepOf, ServerStep

\* No row is removed, and a row is made only by a call on its task.
LEMMA RowsKept ==
    ASSUME TypeInv, NEW w \in Workers, StepOf(w)
    PROVE  /\ DOMAIN store \subseteq DOMAIN store'
           /\ \A t \in DOMAIN store' \ DOMAIN store : taskOf[w] = t
<1>1. CASE PutTask(w)
  BY <1>1 DEF PutTask, Insert
<1>2. CASE ~PutTask(w)
  BY <1>2, OnlyPutTaskWrites
<1> QED BY <1>1, <1>2

SharedInv ==
    /\ \A w \in Workers : pc[w] = "idle" => taskOf[w] = NoTask
    /\ \A v, w \in Workers : v # w /\ taskOf[v] = taskOf[w] /\ taskOf[v] \in Tasks =>
          taskOf[v] \in DOMAIN store
    /\ \A w \in Workers : existing[w] # <<>> => taskOf[w] \in DOMAIN store

LEMMA InitSharedInv == Init => SharedInv
BY EngineAssumption DEF Init, SharedInv

LEMMA NextSharedInv == TypeInv /\ SharedInv /\ [Next]_vars => SharedInv'
<1> SUFFICES ASSUME TypeInv, SharedInv, [Next]_vars PROVE SharedInv'
  OBVIOUS
<1>1. CASE UNCHANGED vars
  BY <1>1 DEF SharedInv
<1>2. ASSUME NEW w \in Workers, StepOf(w) PROVE SharedInv'
  <2>1. \A v \in Workers \ {w} :
            pc'[v] = pc[v] /\ taskOf'[v] = taskOf[v] /\ existing'[v] = existing[v]
    BY <1>2, StepsAlone DEF StepOf, Alone
  <2>2. DOMAIN store \subseteq DOMAIN store'
    BY <1>2, RowsKept
  <2>3. CASE UNCHANGED <<taskOf, existing>> /\ (pc'[w] = "idle" => pc[w] = "idle")
    BY <2>1, <2>2, <2>3 DEF SharedInv
  <2>4. ASSUME pc[w] = "idle", pc'[w] # "idle", NEW t \in Tasks,
               taskOf' = [taskOf EXCEPT ![w] = t],
               \/ t \in DOMAIN store
               \/ existing' = existing /\ \A v \in Workers : taskOf[v] # t
        PROVE  SharedInv'
    <3>1. taskOf'[w] = t
      BY <2>4 DEF TypeInv, TypeOK
    <3>2. existing[w] = <<>>
      BY <2>4, EngineAssumption DEF SharedInv, TypeInv, TypeOK, IsMap
    <3>3. existing'[w] # <<>> => t \in DOMAIN store'
      BY <2>2, <2>4, <3>2
    <3>4. ASSUME NEW v \in Workers, v # w, taskOf'[v] = t PROVE t \in DOMAIN store'
      BY <2>1, <2>2, <2>4, <3>4
    <3> QED BY <2>1, <2>2, <2>4, <3>1, <3>3, <3>4 DEF SharedInv
  <2> QED BY <1>2, <2>3, <2>4, TaskTaken
<1> QED BY <1>1, <1>2, StepsOrStutter

-----------------------------------------------------------------------------
(***************************************************************************)
(* A failed call.  Its bus is closed, so its own turn writes no more, and  *)
(* any other call on the task would have found a row.                      *)
(***************************************************************************)
Failed(w) == result[w] = <<[kind |-> "failure"]>>

FailureInv ==
    \A w \in Turns : Failed(w) => BusClosed(w) /\ taskOf[w] \notin DOMAIN store

LEMMA InitFailureInv == ClientInit => FailureInv
BY DEF ClientInit, FailureInv, Failed

LEMMA EngineFailureInv ==
    ASSUME TypeInv, SharedInv, FailureInv, EngineStep
    PROVE  FailureInv'
<1> SUFFICES ASSUME NEW w \in Turns, Failed(w)
             PROVE  BusClosed(w)' /\ taskOf'[w] \notin DOMAIN store'
  BY DEF EngineStep, FailureInv, Failed
<1>1. BusClosed(w) /\ taskOf[w] \notin DOMAIN store /\ w \in Workers
  BY DEF FailureInv, Workers
<1>2. BusClosed(w)' /\ taskOf'[w] = taskOf[w]
  BY <1>1, ClosedStays DEF EngineStep
<1>3. ASSUME NEW v \in Workers, StepOf(v), taskOf[w] \in DOMAIN store' PROVE FALSE
  <2>1. taskOf[v] = taskOf[w]
    BY <1>1, <1>3, RowsKept
  <2>2. v # w
    BY <1>1, <1>3, EndedStops DEF BusClosed, Ended
  <2>3. taskOf[v] \in Tasks
    <3>1. PutTask(v)
      BY <1>1, <1>3, OnlyPutTaskWrites
    <3> QED BY <3>1 DEF PutTask, TypeInv, HoldsOf, Active, PCs
  <2> QED BY <1>1, <2>1, <2>2, <2>3 DEF SharedInv
<1>4. UNCHANGED vars => store' = store
  OBVIOUS
<1> QED BY <1>1, <1>2, <1>3, <1>4, StepsOrStutter DEF EngineStep

LEMMA ReceiverFailureInv ==
    ASSUME TypeInv, ReceiverType, FailureInv, NEW w \in Turns, ReceiverStep(w)
    PROVE  FailureInv'
<1>0. UNCHANGED vars
  BY ReceiverAside
<1>1. \A v \in Turns : BusClosed(v)' = BusClosed(v) /\ (taskOf[v] \in DOMAIN store)' = (taskOf[v] \in DOMAIN store)
  BY <1>0 DEF BusClosed
<1>2. \A v \in Turns \ {w} : result'[v] = result[v]
  BY DEF ReceiverType, ReceiverStep, SkipLost, ReceiveItem, HandleItem, ReturnResult,
     ReadSnapshot, ReceiveClosed, YieldItem, EndStream
<1>3. ASSUME NEW r, ReturnResult(w, r), r.kind # "failure" PROVE ~Failed(w)'
  BY <1>3 DEF ReturnResult, Failed, ReceiverType
<1>4. ASSUME result' = result PROVE Failed(w)' = Failed(w)
  BY <1>4 DEF Failed
<1>5. Failed(w)' => BusClosed(w) /\ taskOf[w] \notin DOMAIN store
  <2>1. CASE ReceiveItem(w)
    <3>1. PICK e : HandleItem(w, e)
      BY <2>1 DEF ReceiveItem
    <3>2. result' = result \/ ~Failed(w)'
      BY <1>3, <3>1 DEF HandleItem
    <3> QED BY <1>4, <3>2 DEF FailureInv
  <2>2. CASE ReadSnapshot(w)
    BY <1>3, <2>2 DEF ReadSnapshot
  <2>3. CASE ReceiveClosed(w)
    BY <1>3, <2>3 DEF ReceiveClosed
  <2>4. CASE SkipLost(w) \/ YieldItem(w) \/ EndStream(w)
    BY <1>4, <2>4 DEF FailureInv, SkipLost, YieldItem, EndStream
  <2> QED BY <2>1, <2>2, <2>3, <2>4 DEF ReceiverStep
<1> QED BY <1>1, <1>2, <1>5 DEF FailureInv, Failed

LEMMA NextFailureInv ==
    TypeInv /\ ReceiverType /\ SharedInv /\ FailureInv /\ [ClientNext]_allVars => FailureInv'
<1>1. UNCHANGED allVars /\ FailureInv => FailureInv'
  BY DEF FailureInv, Failed, BusClosed
<1> QED BY <1>1, ClientSteps, EngineFailureInv, ReceiverFailureInv

\* Whoever calls and cancels, an error instead of an answer (RecvError::Closed
\* in send_message, and no stored task) means that the task was new, that the
\* executor reported nothing that reached the store, and that nothing will:
\* the task of a failed call never comes to exist.
THEOREM FailureAlwaysMeansNoTask == ClientSpec => []FailureMeansNoTask
<1>1. ASSUME SharedInv, FailureInv PROVE FailureMeansNoTask
  BY <1>1 DEF SharedInv, FailureInv, FailureMeansNoTask, Failed, Workers
<1> QED BY <1>1, InitIsEngineInit, StepsAreEngineSteps, InitTypeInv, NextTypeInv,
           InitReceiverType, NextReceiverType, InitSharedInv, NextSharedInv,
           InitFailureInv, NextFailureInv, PTL
        DEF ClientSpec

-----------------------------------------------------------------------------
(***************************************************************************)
(* A conversation: clients reply to answers they have, nobody cancels, and *)
(* the executor asks for no authorization.  A turn that sent a final       *)
(* status then leaves it in the store until its call has read it there.    *)
(***************************************************************************)
Conversation ==
    /\ Pacing # "free"
    /\ Cancels = {}
    /\ \A e \in Reports : e.kind = "status" => e.state # "AuthRequired"

LEMMA ConversationsDoNotOverlap == Conversation => NoOverlap
BY EngineAssumption DEF Conversation, NoOverlap

AsksAuth(e) == e.kind = "status" /\ e.state = "AuthRequired"

NoAuthInv ==
    /\ \A w \in Workers : ~AsksAuth(event[w])
    /\ \A b \in Turns : \A i \in DOMAIN sent[b] : ~AsksAuth(sent[b][i].event)

LEMMA InitNoAuthInv == Init => NoAuthInv
BY DEF Init, NoAuthInv, AsksAuth, NoEvent

LEMMA OwnEventAsksNot ==
    ASSUME Conversation, TypeInv, NoAuthInv, NEW w \in Workers, StepOf(w)
    PROVE  /\ ~AsksAuth(event'[w])
           /\ sent' = sent \/ \E e \in Events : Broadcast(w, e) /\ ~AsksAuth(e)
<1> USE DEF TypeInv, TypeOK
<1>0. /\ \A v \in Workers : ~AsksAuth(event[v])
      /\ ~AsksAuth(NoEvent)
      /\ \A s : s # "AuthRequired" => \A m : ~AsksAuth(StatusUpdate(s, m))
  BY DEF NoAuthInv, AsksAuth, NoEvent, StatusUpdate
<1>1. CASE ClientStep(w)
  BY <1>0, <1>1 DEF ClientStep, RefuseCall, AbortCall, StartNewTask, ContinueTask, StartCancel
<1>2. CASE ReceiveEvent(w)
  <2>1. PICK e \in Reports : Apply(w, e)
    BY <1>2 DEF ReceiveEvent
  <2>2. ~AsksAuth(e)
    BY DEF Conversation, AsksAuth
  <2>3. event'[w] = e /\ sent' = sent
    BY <1>2, <2>1 DEF Apply, ReceiveEvent
  <2> QED BY <2>2, <2>3
<1>3. CASE SendEvent(w)
  <2>1. event[w] \in Events /\ Broadcast(w, event[w]) /\ event'[w] = NoEvent
    BY <1>3 DEF SendEvent, HoldsOf, Events
  <2> QED BY <1>0, <2>1
<1>4. CASE SkipEmptyArtifact(w) \/ TakeSeq(w) \/ AppendLog(w) \/ GetTask(w) \/ PutTask(w)
  BY <1>0, <1>4 DEF SkipEmptyArtifact, TakeSeq, AppendLog, GetTask, PutTask
<1>5. CASE w \in Turns /\ TurnStep(w)
  <2>1. CASE ExecutorFails(w)
    BY <1>0, <2>1 DEF ExecutorFails, Apply
  <2>2. CASE SendLead(w)
    <3>1. TaskEvent(LeadTask(w)) \in Events /\ ~AsksAuth(TaskEvent(LeadTask(w)))
      BY <1>5, LeadTaskType DEF TaskEvent, Events, AsksAuth
    <3> QED BY <1>0, <2>2, <3>1 DEF SendLead
  <2>3. CASE ~ExecutorFails(w) /\ ~SendLead(w)
    BY <1>0, <1>5, <2>3 DEF TurnStep, InsertBus, InsertToken, ExecutorReturns, TakeLeadSeq,
       RemoveBus, RemoveToken
  <2> QED BY <2>1, <2>2, <2>3
<1>6. w \notin Cancels
  BY DEF Conversation
<1> QED BY <1>1, <1>2, <1>3, <1>4, <1>5, <1>6 DEF StepOf, ServerStep, ApplyStep

LEMMA NextNoAuthInv ==
    ASSUME Conversation
    PROVE  TypeInv /\ NoAuthInv /\ [Next]_vars => NoAuthInv'
<1> SUFFICES ASSUME TypeInv, NoAuthInv, [Next]_vars PROVE NoAuthInv'
  OBVIOUS
<1>1. CASE UNCHANGED vars
  BY <1>1 DEF NoAuthInv
<1>2. ASSUME NEW w \in Workers, StepOf(w) PROVE NoAuthInv'
  <2>1. \A v \in Workers : ~AsksAuth(event'[v])
    BY <1>2, OwnEventAsksNot, StepsAlone DEF StepOf, Alone, NoAuthInv
  <2>2. ASSUME NEW e \in Events, Broadcast(w, e), ~AsksAuth(e),
               NEW b \in Turns, NEW i \in DOMAIN sent'[b]
        PROVE  ~AsksAuth(sent'[b][i].event)
    <3>1. PICK item, log, longer :
               /\ item = [seq |-> seq[w], by |-> w, event |-> e]
               /\ log = sent[b] /\ longer = sent'[b]
      OBVIOUS
    <3>2. log \in Seq(Item) /\ item \in Item /\ item.event = e
      BY <3>1 DEF TypeInv, TypeOK, Item
    <3>3. longer = log \/ longer = Append(log, item)
      BY <2>2, <3>1 DEF Broadcast
    <3>4. (i \in DOMAIN log /\ longer[i] = log[i]) \/ longer[i] = item
      BY <2>2, <3>1, <3>2, <3>3
    <3> QED BY <2>2, <3>1, <3>2, <3>4 DEF NoAuthInv
  <2>3. CASE sent' = sent
    BY <2>1, <2>3 DEF NoAuthInv
  <2> QED BY <1>2, <2>1, <2>2, <2>3, OwnEventAsksNot DEF NoAuthInv
<1> QED BY <1>1, <1>2, StepsOrStutter

\* The call is over for its client, or never got to a turn.
Settled(w) == Returned(w) \/ pc[w] \in {"rejected", "aborted"}

\* Of two turns on a task, one has been answered and its client has the answer.
RepliesInv ==
    \A v, w \in Turns : v # w /\ taskOf[v] = taskOf[w] /\ taskOf[v] \in Tasks =>
        (Answered(v) /\ Settled(v)) \/ (Answered(w) /\ Settled(w))

LEMMA InitRepliesInv == ClientInit => RepliesInv
BY EngineAssumption DEF ClientInit, Init, RepliesInv, Workers

LEMMA ReturnedStays ==
    ASSUME ReceiverType, [ClientNext]_allVars, NEW w \in Turns, Returned(w)
    PROVE  Returned(w)'
<1>1. ASSUME NEW v \in Turns, ReceiverStep(v) PROVE answer'[w] = answer[w]
  BY <1>1 DEF ReceiverType, Returned, ReceiverStep, SkipLost, ReceiveItem, HandleItem,
     ReturnResult, ReadSnapshot, ReceiveClosed, YieldItem, EndStream
<1> QED BY <1>1, ClientSteps DEF EngineStep, Returned

LEMMA SettledStays ==
    ASSUME TypeInv, ReceiverType, [ClientNext]_allVars, NEW w \in Turns, Settled(w)
    PROVE  Settled(w)'
<1>1. CASE Returned(w)
  BY <1>1, ReturnedStays DEF Settled
<1>2. CASE pc[w] \in {"rejected", "aborted"}
  <2>1. ASSUME NEW v \in Workers, StepOf(v) PROVE pc'[w] = pc[w]
    <3>1. v # w /\ w \in Workers
      BY <1>2, <2>1, EndedStops DEF Ended, Workers
    <3> QED BY <2>1, <3>1, StepsAlone DEF StepOf, Alone
  <2> QED BY <1>2, <2>1, StepsOrStutter, StepsAreEngineSteps DEF Settled
<1> QED BY <1>1, <1>2 DEF Settled

\* A turn takes its task when its call begins.
LEMMA TurnStarts ==
    ASSUME TypeInv, NEW w \in Turns, StepOf(w), taskOf' # taskOf
    PROVE  /\ pc[w] = "idle" /\ pc'[w] = "insertBus"
           /\ \E t \in Tasks :
                 /\ taskOf' = [taskOf EXCEPT ![w] = t]
                 /\ MaySendMessage(t) \/ \A v \in Workers : taskOf[v] # t
<1>0. w \in Workers /\ w \notin Cancels
  BY EngineAssumption DEF Workers
<1>1. ~ApplyStep(w) /\ ~TurnStep(w)
  BY DEF ApplyStep, ReceiveEvent, SkipEmptyArtifact, TakeSeq, AppendLog, GetTask, PutTask,
     SendEvent, TurnStep, InsertBus, InsertToken, ExecutorReturns, ExecutorFails,
     TakeLeadSeq, SendLead, RemoveBus, RemoveToken
<1>2. PICK t \in Tasks : StartNewTask(w, t) \/ ContinueTask(w, t)
  BY <1>0, <1>1 DEF StepOf, ServerStep, ClientStep, RefuseCall, AbortCall
<1> QED BY <1>0, <1>2 DEF StartNewTask, ContinueTask, TypeInv, TypeOK

LEMMA NextRepliesInv ==
    ASSUME Conversation
    PROVE  TypeInv /\ PlacesInv /\ ReceiverType /\ RepliesInv /\ [ClientNext]_allVars
             => RepliesInv'
<1> SUFFICES ASSUME TypeInv, PlacesInv, ReceiverType, RepliesInv, [ClientNext]_allVars
             PROVE  RepliesInv'
  OBVIOUS
<1>1. \A v \in Turns : Answered(v) /\ Settled(v) => Answered(v)' /\ Settled(v)'
  BY AnsweredStays, SettledStays, StepsAreEngineSteps DEF Workers
<1>2. CASE taskOf' = taskOf
  BY <1>1, <1>2 DEF RepliesInv
<1>3. CASE EngineStep /\ taskOf' # taskOf
  <2>1. PICK w \in Turns : StepOf(w)
    BY <1>3, StepsOrStutter DEF EngineStep, Conversation, Workers
  <2>2. PICK t \in Tasks :
             /\ taskOf' = [taskOf EXCEPT ![w] = t]
             /\ MaySendMessage(t) \/ \A v \in Workers : taskOf[v] # t
    BY <1>3, <2>1, TurnStarts
  <2>3. taskOf'[w] = t /\ \A v \in Turns \ {w} : taskOf'[v] = taskOf[v]
    BY <2>2 DEF TypeInv, TypeOK, Workers
  <2>4. ASSUME NEW v \in Turns, v # w, taskOf[v] = t PROVE Answered(v) /\ Settled(v)
    <3>1. Answered(v)
      BY <2>2, <2>4 DEF MaySendMessage, CallsOn, Conversation, Workers
    <3>2. RepliesToAnswers /\ pc[w] = "idle" /\ pc'[w] = "insertBus"
      BY <1>3, <2>1, TurnStarts DEF EngineStep, Conversation
    <3>3. Returned(v) \/ pc[v] \in {"rejected", "aborted"}
      BY <2>3, <2>4, <3>2 DEF RepliesToAnswers
    <3> QED BY <3>1, <3>3 DEF Settled
  <2>5. ASSUME NEW v \in Turns, v # w, taskOf'[v] = t PROVE Answered(v)' /\ Settled(v)'
    BY <1>1, <2>3, <2>4, <2>5
  <2>6. ASSUME NEW u \in Turns, NEW v \in Turns, u # v, taskOf'[u] = taskOf'[v],
               taskOf'[u] \in Tasks
        PROVE  (Answered(u)' /\ Settled(u)') \/ (Answered(v)' /\ Settled(v)')
    <3>1. CASE u = w
      BY <2>3, <2>5, <2>6, <3>1
    <3>2. CASE v = w
      BY <2>3, <2>5, <2>6, <3>2
    <3>3. CASE u # w /\ v # w
      BY <1>1, <2>3, <2>6, <3>3 DEF RepliesInv
    <3> QED BY <3>1, <3>2, <3>3
  <2> QED BY <2>6 DEF RepliesInv
<1> QED BY <1>2, <1>3, ClientSteps, ReceiverAside

-----------------------------------------------------------------------------
(***************************************************************************)
(* What a turn reports is what is stored.                                  *)
(***************************************************************************)
StateOf(t, state) == Get(t) # <<>> /\ Get(t)[1].state = state

\* A status on its way to the bus is the state of the row.
StatusInv ==
    \A w \in Turns : pc[w] = "send" /\ event[w].kind = "status" =>
        StateOf(taskOf[w], event[w].state)

LEMMA InitStatusInv == Init => StatusInv
BY DEF Init, StatusInv, Workers

\* Only a put brings a status to the bus.
LEMMA StatusComesFromPut ==
    ASSUME TypeInv, NEW w \in Workers, StepOf(w), pc'[w] = "send", event'[w].kind = "status"
    PROVE  PutTask(w)
<1> USE DEF TypeInv, TypeOK
<1>1. ~ClientStep(w)
  BY DEF ClientStep, RefuseCall, AbortCall, StartNewTask, ContinueTask, StartCancel
<1>2. ApplyStep(w) => PutTask(w)
  BY DEF ApplyStep, ReceiveEvent, Apply, SkipEmptyArtifact, TakeSeq, AppendLog, GetTask,
     SendEvent, AfterSend
<1>3. ~TurnStep(w)
  BY DEF TurnStep, InsertBus, InsertToken, ExecutorReturns, ExecutorFails, Apply,
     TakeLeadSeq, SendLead, RemoveBus, RemoveToken
<1>4. ~CancelStep(w)
  BY DEF CancelStep, SignalToken, ExecutorCancelOk, ExecutorCancelErr, LookupBus,
     Reread, Apply, FinalGet, Return
<1> QED BY <1>1, <1>2, <1>3, <1>4 DEF StepOf, ServerStep

LEMMA PutStoresStatus ==
    ASSUME TypeInv, RowInv, NEW w \in Workers, PutTask(w), event[w].kind = "status"
    PROVE  StateOf(taskOf[w], event[w].state)'
<1>1. PICK t, found : /\ t = taskOf[w]
                      /\ found = SeededTask(Get(t), firstEvent[w], Seed(w), event[w])
  OBVIOUS
<1>2. pc[w] = "putTask" /\ taskOf'[w] = t /\ event'[w] = event[w]
  BY <1>1 DEF PutTask
<1>3. Recorded(found)
  BY <1>1, <1>2, FoundRecorded
<1>4. pending[w][1] = UpdateTask(found, event[w], seq[w])
  BY <1>1, <1>2 DEF RowInv, Current, Updated
<1>5. pending[w][1].state = event[w].state
  BY <1>3, <1>4, StatusOfUpdate
<1>6. Get(t)' = <<pending[w][1]>>
  BY <1>1, RowOfPut
<1> QED BY <1>2, <1>5, <1>6 DEF StateOf

LEMMA NextStatusInv ==
    TypeInv /\ OneAtATime /\ RowInv /\ StatusInv /\ [Next]_vars => StatusInv'
<1> SUFFICES ASSUME TypeInv, OneAtATime, RowInv, StatusInv, [Next]_vars PROVE StatusInv'
  OBVIOUS
<1>1. CASE UNCHANGED vars
  BY <1>1 DEF StatusInv, StateOf, Get
<1>2. ASSUME NEW w \in Workers, StepOf(w), NEW v \in Turns,
             pc'[v] = "send", event'[v].kind = "status"
      PROVE  StateOf(taskOf[v], event[v].state)'
  <2>1. CASE v = w
    <3>1. PutTask(w)
      BY <1>2, <2>1, StatusComesFromPut
    <3>2. event[w].kind = "status"
      BY <1>2, <2>1, <3>1 DEF PutTask
    <3> QED BY <2>1, <3>1, <3>2, PutStoresStatus
  <2>2. CASE v # w
    <3>1. PICK t, e : t = taskOf[v] /\ e = event[v]
      OBVIOUS
    <3>2. /\ v \in Workers /\ pc[v] = "send" /\ taskOf'[v] = t /\ event'[v] = e
          /\ e.kind = "status"
      BY <1>2, <2>2, <3>1, StepsAlone DEF StepOf, Alone, Workers
    <3>3. t \in Tasks /\ ~Answered(v)
      BY <3>1, <3>2 DEF TypeInv, HoldsOf, Active, PCs, Answered, Ended
    <3>4. Get(t)' = Get(t)
      BY <1>2, <2>2, <3>1, <3>2, <3>3, OthersUntouched
    <3> QED BY <3>1, <3>2, <3>4 DEF StatusInv, StateOf
  <2> QED BY <2>1, <2>2
<1> QED BY <1>1, <1>2, StepsOrStutter DEF StatusInv

-----------------------------------------------------------------------------
(***************************************************************************)
(* A final status that was sent is in the store until its call is settled. *)
(***************************************************************************)
FinalStatus(e) == e.kind = "status" /\ IsFinalForBlockingSend(e.state)

SentFinal(w) == \E i \in DOMAIN sent[w] : FinalStatus(sent[w][i].event)

FinalStored(t) == Get(t) # <<>> /\ IsFinalForBlockingSend(Get(t)[1].state)

KeptFinalInv == \A w \in Turns : SentFinal(w) /\ ~Settled(w) => FinalStored(taskOf[w])

LEMMA InitKeptFinalInv == ClientInit => KeptFinalInv
BY DEF ClientInit, Init, KeptFinalInv, SentFinal

\* In a conversation a final status ends its turn.
LEMMA FinalStatusEnds ==
    ASSUME Conversation, TypeInv, SenderInv, CloseInv, NoAuthInv,
           NEW w \in Turns, SentFinal(w)
    PROVE  pc[w] \in {"removeBus", "removeToken", "done"}
<1>1. PICK i \in DOMAIN sent[w] : FinalStatus(sent[w][i].event)
  BY DEF SentFinal
<1>2. ClosesStream(sent[w][i].event)
  BY <1>1 DEF NoAuthInv, AsksAuth, FinalStatus, IsFinalForBlockingSend, IsInterrupted,
     InterruptedStates, ClosesStream
<1>3. sent[w][i].by = w
  BY <1>1 DEF SenderInv, Conversation
<1> QED BY <1>2, <1>3 DEF CloseInv, HasClosed

LEMMA WhoSends ==
    ASSUME TypeInv, NEW w \in Workers, StepOf(w), sent' # sent
    PROVE  SendEvent(w) \/ (w \in Turns /\ SendLead(w))
<1>1. ~ClientStep(w)
  BY DEF ClientStep, RefuseCall, AbortCall, StartNewTask, ContinueTask, StartCancel
<1>2. ApplyStep(w) => SendEvent(w)
  BY DEF ApplyStep, ReceiveEvent, SkipEmptyArtifact, TakeSeq, AppendLog, GetTask, PutTask
<1>3. TurnStep(w) => SendLead(w)
  BY DEF TurnStep, InsertBus, InsertToken, ExecutorReturns, ExecutorFails, TakeLeadSeq,
     RemoveBus, RemoveToken
<1>4. ~CancelStep(w)
  BY DEF CancelStep, SignalToken, ExecutorCancelOk, ExecutorCancelErr, LookupBus, Reread,
     FinalGet
<1> QED BY <1>1, <1>2, <1>3, <1>4 DEF StepOf, ServerStep

\* A final status appears on a bus when its turn sends it, from the store.
LEMMA FinalStatusSent ==
    ASSUME Conversation, TypeInv, StatusInv, NEW v \in Workers, StepOf(v),
           NEW w \in Turns, SentFinal(w)', ~SentFinal(w)
    PROVE  FinalStored(taskOf[w])'
<1>1. ASSUME NEW e \in Events, Broadcast(v, e) PROVE v = w /\ FinalStatus(e)
  <2>1. PICK item, log, longer : /\ item = [seq |-> seq[v], by |-> v, event |-> e]
                                 /\ log = sent[w] /\ longer = sent'[w]
    OBVIOUS
  <2>2. log \in Seq(Item) /\ item \in Item /\ item.event = e
    BY <2>1 DEF TypeInv, TypeOK, Item
  <2>3. longer = log \/ (v = w /\ longer = Append(log, item))
    BY <1>1, <2>1 DEF Broadcast, BusesOf, Conversation, Workers
  <2>4. PICK i \in DOMAIN longer : FinalStatus(longer[i].event)
    BY <2>1 DEF SentFinal
  <2>5. \A j \in DOMAIN log : ~FinalStatus(log[j].event)
    BY <2>1 DEF SentFinal
  <2>6. v = w /\ longer = Append(log, item)
    BY <2>3, <2>4, <2>5
  <2>7. longer[i] = item
    BY <2>2, <2>4, <2>5, <2>6
  <2> QED BY <2>2, <2>4, <2>6, <2>7
<1>2. sent' # sent
  BY DEF SentFinal
<1>3. CASE SendEvent(v)
  <2>1. /\ pc[v] = "send" /\ Broadcast(v, event[v]) /\ store' = store /\ taskOf' = taskOf
        /\ event[v] \in Events
    BY <1>3 DEF SendEvent, TypeInv, HoldsOf, Events
  <2>2. v = w /\ FinalStatus(event[w])
    BY <1>1, <2>1
  <2>3. StateOf(taskOf[w], event[w].state)
    BY <2>1, <2>2 DEF StatusInv, FinalStatus
  <2> QED BY <2>1, <2>2, <2>3 DEF StateOf, FinalStored, FinalStatus, Get
<1>4. CASE v \in Turns /\ SendLead(v)
  <2>1. Broadcast(v, TaskEvent(LeadTask(v)))
    BY <1>4 DEF SendLead
  <2>2. TaskEvent(LeadTask(v)) \in Events /\ ~FinalStatus(TaskEvent(LeadTask(v)))
    BY <1>4, LeadTaskType DEF TaskEvent, Events, FinalStatus
  <2> QED BY <1>1, <2>1, <2>2
<1> QED BY <1>2, <1>3, <1>4, WhoSends

LEMMA EngineKeptFinalInv ==
    ASSUME Conversation, TypeInv, ReceiverType, SenderInv, CloseInv, NoAuthInv, StatusInv,
           RepliesInv, KeptFinalInv, EngineStep
    PROVE  KeptFinalInv'
<1>1. CASE UNCHANGED vars
  BY <1>1 DEF EngineStep, KeptFinalInv, SentFinal, Settled, Returned, FinalStored, Get
<1>2. ASSUME NEW v \in Workers, StepOf(v), NEW w \in Turns, SentFinal(w)', ~Settled(w)'
      PROVE  FinalStored(taskOf[w])'
  <2>1. ~Settled(w) /\ w \in Workers /\ v \in Turns
    BY <1>2, SettledStays DEF EngineStep, ClientNext, Workers, Conversation
  <2>2. CASE ~SentFinal(w)
    BY <1>2, <2>2, FinalStatusSent
  <2>3. CASE SentFinal(w)
    <3>1. PICK t : t = taskOf[w]
      OBVIOUS
    <3>2. pc[w] \in {"removeBus", "removeToken", "done"}
      BY <2>3, FinalStatusEnds
    <3>3. t \in Tasks /\ FinalStored(t)
      BY <2>1, <2>3, <3>1, <3>2 DEF KeptFinalInv, TypeInv, HoldsOf, Active, PCs
    <3>4. taskOf'[w] = t
      <4>1. CASE v = w
        BY <1>2, <2>1, <3>1, <3>2, <4>1, TurnStarts
      <4>2. CASE v # w
        BY <1>2, <2>1, <3>1, <4>2, StepsAlone DEF StepOf, Alone
      <4> QED BY <4>1, <4>2
    <3>5. taskOf[v] # t \/ pc[v] \notin {"appendLog", "putTask"}
      <4>1. CASE v = w
        BY <3>2, <4>1
      <4>2. CASE v # w
        <5>1. taskOf[v] = t => Answered(v)
          BY <2>1, <3>1, <3>3, <4>2 DEF RepliesInv
        <5> QED BY <5>1 DEF Answered, Ended
      <4> QED BY <4>1, <4>2
    <3>6. Get(t)' = Get(t)
      BY <1>2, <3>3, <3>5, Untouched
    <3> QED BY <3>3, <3>4, <3>6 DEF FinalStored
  <2> QED BY <2>2, <2>3
<1> QED BY <1>1, <1>2, StepsOrStutter DEF EngineStep, KeptFinalInv

\* What a call has read, and what it has seen before it reads.
AnswerInv ==
    /\ KeptFinalInv
    /\ \A w \in Turns : answer[w] = "snapshot" => SentFinal(w)
    /\ BlockingReturnsFinal

LEMMA InitAnswerInv == ClientInit => AnswerInv
<1> SUFFICES ASSUME ClientInit PROVE AnswerInv
  OBVIOUS
<1>1. \A w \in Turns : answer[w] = "waiting" /\ result[w] = <<>>
  BY DEF ClientInit
<1> QED BY <1>1, InitKeptFinalInv DEF AnswerInv, BlockingReturnsFinal

LEMMA EngineAnswerInv ==
    ASSUME Conversation, TypeInv, ReceiverType, SenderInv, CloseInv, NoAuthInv, StatusInv,
           RepliesInv, AnswerInv, EngineStep
    PROVE  AnswerInv'
<1>1. KeptFinalInv'
  BY EngineKeptFinalInv DEF AnswerInv
<1>2. \A w \in Turns : SentFinal(w) => SentFinal(w)'
  BY SentGrows DEF EngineStep, SentFinal
<1> QED BY <1>1, <1>2 DEF AnswerInv, BlockingReturnsFinal, EngineStep

LEMMA ReceiverAnswerInv ==
    ASSUME Conversation, TypeInv, ReceiverType, SenderInv, CloseInv, NoAuthInv,
           AnswerInv, NEW w \in Turns, ReceiverStep(w)
    PROVE  AnswerInv'
<1>0. UNCHANGED vars
  BY ReceiverAside
<1>1. \A v \in Turns \ {w} : answer'[v] = answer[v] /\ result'[v] = result[v]
  BY DEF ReceiverType, ReceiverStep, SkipLost, ReceiveItem, HandleItem, ReturnResult,
     ReadSnapshot, ReceiveClosed, YieldItem, EndStream
<1>2. \A v \in Turns : SentFinal(v)' = SentFinal(v) /\ FinalStored(taskOf[v])' = FinalStored(taskOf[v])
  BY <1>0 DEF SentFinal, FinalStored, Get
<1>3. KeptFinalInv'
  <2>1. \A v \in Turns : Settled(v) => Settled(v)'
    BY SettledStays DEF ClientNext
  <2> QED BY <1>2, <2>1 DEF AnswerInv, KeptFinalInv
<1>4. ASSUME NEW r, ReturnResult(w, r),
             r.kind = "snapshot" => IsFinalForBlockingSend(r.state)
      PROVE  /\ answer'[w] # "snapshot"
             /\ result'[w] # <<>> /\ result'[w][1].kind = "snapshot" =>
                   IsFinalForBlockingSend(result'[w][1].state)
  BY <1>4 DEF ReturnResult, ReceiverType
<1>5. ASSUME result'[w] = result[w]
      PROVE  result'[w] # <<>> /\ result'[w][1].kind = "snapshot" =>
                IsFinalForBlockingSend(result'[w][1].state)
  BY <1>5 DEF AnswerInv, BlockingReturnsFinal
<1>6. /\ answer'[w] = "snapshot" => SentFinal(w)
      /\ result'[w] # <<>> /\ result'[w][1].kind = "snapshot" =>
            IsFinalForBlockingSend(result'[w][1].state)
  <2>1. CASE ReceiveItem(w)
    <3>1. PICK k, e : k = cursor[w] + 1 /\ e = sent[w][k].event
      OBVIOUS
    <3>2. k \in DOMAIN sent[w] /\ HandleItem(w, e)
      BY <2>1, <3>1, NextItem DEF ReceiveItem
    <3>3. CASE FinalStatus(e)
      <4>1. SentFinal(w) /\ result' = result
        BY <3>1, <3>2, <3>3 DEF SentFinal, HandleItem, FinalStatus
      <4> QED BY <1>5, <4>1
    <3>4. CASE ~FinalStatus(e)
      <4>1. (answer' = answer /\ result' = result)
              \/ \E r : ReturnResult(w, r) /\ r.kind # "snapshot"
        BY <3>2, <3>4 DEF HandleItem, FinalStatus
      <4>2. answer[w] # "snapshot"
        BY <2>1 DEF ReceiveItem
      <4> QED BY <1>4, <1>5, <4>1, <4>2
    <3> QED BY <3>3, <3>4
  <2>2. CASE ReadSnapshot(w)
    <3>1. SentFinal(w) /\ answer[w] = "snapshot"
      BY <2>2 DEF AnswerInv, ReadSnapshot
    <3>2. ~Settled(w)
      BY <3>1, FinalStatusEnds DEF Settled, Returned
    <3>3. FinalStored(taskOf[w])
      BY <3>1, <3>2 DEF AnswerInv, KeptFinalInv
    <3>4. PICK state : ReturnResult(w, [kind |-> "snapshot", state |-> state])
                       /\ state = IF taskOf[w] \in DOMAIN store
                                  THEN store[taskOf[w]].state ELSE "Submitted"
      BY <2>2 DEF ReadSnapshot
    <3>5. IsFinalForBlockingSend(state)
      BY <3>3, <3>4 DEF FinalStored, Get
    <3> QED BY <1>4, <3>4, <3>5
  <2>3. CASE ReceiveClosed(w)
    BY <1>4, <2>3 DEF ReceiveClosed
  <2>4. CASE SkipLost(w) \/ YieldItem(w) \/ EndStream(w)
    <3>1. result' = result /\ answer'[w] # "snapshot"
      BY <2>4 DEF SkipLost, YieldItem, EndStream, ReceiverType
    <3> QED BY <1>5, <3>1
  <2> QED BY <2>1, <2>2, <2>3, <2>4 DEF ReceiverStep
<1> QED BY <1>1, <1>2, <1>3, <1>6 DEF AnswerInv, BlockingReturnsFinal

LEMMA NextAnswerInv ==
    ASSUME Conversation
    PROVE  TypeInv /\ ReceiverType /\ SenderInv /\ CloseInv /\ NoAuthInv
             /\ StatusInv /\ RepliesInv /\ AnswerInv /\ [ClientNext]_allVars
             => AnswerInv'
<1>1. ASSUME UNCHANGED allVars, AnswerInv PROVE AnswerInv'
  BY <1>1 DEF AnswerInv, KeptFinalInv, BlockingReturnsFinal, SentFinal, Settled, Returned,
     FinalStored, Get
<1> QED BY <1>1, ClientSteps, EngineAnswerInv, ReceiverAnswerInv

\* In a conversation a blocking call that waited for an outcome reports one:
\* the row send_message reads back after a final status (snapshot_task) is in
\* a final state, for no turn on the task starts before the call has read it.
\* AUTH_REQUIRED is left out because it ends the wait and not the turn, whose
\* next event may reach the store first.
THEOREM BlockingAlwaysReturnsFinal ==
    ASSUME Conversation
    PROVE  ClientSpec => []BlockingReturnsFinal
<1>1. AnswerInv => BlockingReturnsFinal
  BY DEF AnswerInv
<1>2. TypeInv /\ PlacesInv /\ OneAtATime /\ [Next]_vars => OneAtATime'
  BY ConversationsDoNotOverlap, NextOneAtATime
<1>3. TypeInv /\ NoAuthInv /\ [Next]_vars => NoAuthInv'
  BY NextNoAuthInv
<1>4. TypeInv /\ PlacesInv /\ ReceiverType /\ RepliesInv /\ [ClientNext]_allVars
        => RepliesInv'
  BY NextRepliesInv
<1>5. TypeInv /\ ReceiverType /\ SenderInv /\ CloseInv /\ NoAuthInv /\ StatusInv
        /\ RepliesInv /\ AnswerInv /\ [ClientNext]_allVars => AnswerInv'
  BY NextAnswerInv
<1> QED BY <1>1, <1>2, <1>3, <1>4, <1>5, InitIsEngineInit, StepsAreEngineSteps, InitTypeInv, NextTypeInv,
           InitReceiverType, NextReceiverType, InitSeqInv, NextSeqInv, InitHistoryInv,
           NextHistoryInv, InitPlacesInv, NextPlacesInv, InitOneAtATime, InitRowInv,
           NextRowInv, InitSenderInv, NextSenderInv, InitCloseInv, NextCloseInv,
           InitNoAuthInv, InitStatusInv, NextStatusInv, InitRepliesInv, InitAnswerInv, PTL
        DEF ClientSpec
=============================================================================
