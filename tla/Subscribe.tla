----------------------------- MODULE Subscribe -----------------------------
(***************************************************************************)
(* Engine::subscribe_to_task and replay_then_live over TaskEngine, with    *)
(* clients whose connection drops and who come back with the id of the     *)
(* last event they were sent (SSE's Last-Event-ID).                        *)
(***************************************************************************)
EXTENDS TaskEngine, FiniteSets

CONSTANTS
    Subscribers,   \* clients that subscribe
    BusCapacity,   \* capacity of the broadcast channel (256 in the code)
    MaxConnects    \* bound: connections of one subscriber

ASSUME SubscribeAssumption ==
    /\ Subscribers \cap Workers = {}
    /\ BusCapacity \in Nat \ {0}
    /\ MaxConnects \in Nat

VARIABLES
    stage,       \* where each subscriber is: "idle", "findBus", "readLog",
                 \* "takeSeq", "streaming", "dropped", "ended" or "refused"
    connects,    \* connections made so far
    subject,     \* the task subscribed to
    found,       \* <<>> or <<the Task read when the call started>>
    bus,         \* the bus received from: none or one
    position,    \* items of that bus received or skipped
    queue,       \* lead, replay and final snapshot still to be sent
    replayed,    \* max_replayed, 0 for none: numbers start at 1
    delivered,   \* what the client was sent, over all its connections
    resumed      \* history: how many of those each connection began after

subVars == <<stage, connects, subject, found, bus, position, queue, replayed,
             delivered, resumed>>
allVars == <<vars, subVars>>

SubInit ==
    /\ Init
    /\ stage = [s \in Subscribers |-> "idle"]
    /\ connects = [s \in Subscribers |-> 0]
    /\ subject = [s \in Subscribers |-> NoTask]
    /\ found = [s \in Subscribers |-> <<>>]
    /\ bus = [s \in Subscribers |-> {}]
    /\ position = [s \in Subscribers |-> 0]
    /\ queue = [s \in Subscribers |-> <<>>]
    /\ replayed = [s \in Subscribers |-> 0]
    /\ delivered = [s \in Subscribers |-> <<>>]
    /\ resumed = [s \in Subscribers |-> {}]

Move(s, where) == stage' = [stage EXCEPT ![s] = where]

\* since_seq: absent on the first connection, then the last id received.
Fresh(s) == delivered[s] = <<>>
Since(s) == IF Fresh(s) THEN 0 ELSE delivered[s][Len(delivered[s])].seq

-----------------------------------------------------------------------------
Connect(s, t) ==
    /\ stage[s] \in {"idle", "dropped"} /\ connects[s] < MaxConnects
    /\ subject[s] \in {NoTask, t}
    /\ t \in DOMAIN store
    /\ ~IsTerminal(store[t].state)
    /\ connects' = [connects EXCEPT ![s] = @ + 1]
    /\ subject' = [subject EXCEPT ![s] = t]
    /\ found' = [found EXCEPT ![s] = Get(t)]
    /\ resumed' = [resumed EXCEPT ![s] = @ \cup {Len(delivered[s])}]
    /\ Move(s, "findBus")
    /\ UNCHANGED <<vars, bus, position, queue, replayed, delivered>>

\* A terminal task is refused (and so is an unknown or a forbidden one, at
\* once and with no effect).
RefuseSubscriber(s, t) ==
    /\ stage[s] \in {"idle", "dropped"} /\ connects[s] < MaxConnects
    /\ subject[s] \in {NoTask, t}
    /\ t \in DOMAIN store
    /\ IsTerminal(store[t].state)
    /\ Move(s, "refused")
    /\ UNCHANGED <<vars, connects, subject, found, resumed, bus, position, queue,
                   replayed, delivered>>

\* The bus comes before the log: its receiver gets all that is sent from now on.
FindBus(s) ==
    /\ stage[s] = "findBus"
    /\ LET there == {buses[t] : t \in DOMAIN buses \cap {subject[s]}}
       IN /\ bus' = [bus EXCEPT ![s] = there]
          /\ position' = [position EXCEPT ![s] =
                IF there = {} THEN 0 ELSE Len(sent[CHOOSE b \in there : TRUE])]
    /\ Move(s, "readLog")
    /\ UNCHANGED <<vars, connects, subject, found, resumed, queue, replayed, delivered>>

\* The items of a log with a higher number, in the order of the log.
Newer(log, number) ==
    LET kept == {i \in DOMAIN log : log[i].seq > number}
        order == CHOOSE q \in [1 .. Cardinality(kept) -> kept] :
                    \A i, j \in DOMAIN q : i < j => q[i] < q[j]
    IN  [i \in DOMAIN order |-> log[order[i]]]

ReadLog(s) ==
    /\ stage[s] = "readLog"
    /\ LET replay == Newer(eventLogs[subject[s]], Since(s))
       IN /\ queue' = [queue EXCEPT ![s] = replay]
          /\ replayed' = [replayed EXCEPT ![s] =
                IF replay = <<>> THEN 0 ELSE replay[Len(replay)].seq]
    /\ Move(s, "takeSeq")
    /\ UNCHANGED <<vars, connects, subject, found, resumed, bus, position, delivered>>

\* The Task read when the call started, under a number taken now.
Snapshot(s) ==
    [seq |-> nextSeq, by |-> s, event |-> TaskEvent(found[s][1])]

NumberSnapshot ==
    /\ nextSeq' = nextSeq + 1
    /\ UNCHANGED <<store, eventLogs, buses, cancelTokens, signalled, sent,
                   pc, call, turnVars, emitted, applying, cancelVars>>

\* Mutant: live events are deduplicated against the number of the lead.
BeginFresh_DedupByLead(s) ==
    /\ stage[s] = "takeSeq" /\ Fresh(s)
    /\ NumberSnapshot
    /\ queue' = [queue EXCEPT ![s] =
          IF bus[s] = {} THEN <<Snapshot(s)>> ELSE <<Snapshot(s)>> \o @]
    /\ replayed' = [replayed EXCEPT ![s] = nextSeq]
    /\ Move(s, "streaming")
    /\ UNCHANGED <<connects, subject, found, resumed, bus, position, delivered>>

(***************************************************************************)
(* The stream to send: a fresh subscriber is led by the Task, and without  *)
(* a bus that is all it gets; a returning one gets the replay, and without *)
(* a bus the Task after it.                                                *)
(***************************************************************************)
BeginFresh(s) ==
    /\ stage[s] = "takeSeq" /\ Fresh(s)
    /\ NumberSnapshot
    /\ queue' = [queue EXCEPT ![s] =
          IF bus[s] = {} THEN <<Snapshot(s)>> ELSE <<Snapshot(s)>> \o @]
    /\ Move(s, "streaming")
    /\ UNCHANGED <<connects, subject, found, resumed, bus, position, replayed, delivered>>

BeginAgainIdle(s) ==
    /\ stage[s] = "takeSeq" /\ ~Fresh(s) /\ bus[s] = {}
    /\ NumberSnapshot
    /\ queue' = [queue EXCEPT ![s] = Append(@, Snapshot(s))]
    /\ Move(s, "streaming")
    /\ UNCHANGED <<connects, subject, found, resumed, bus, position, replayed, delivered>>

BeginAgainLive(s) ==
    /\ stage[s] = "takeSeq" /\ ~Fresh(s) /\ bus[s] # {}
    /\ Move(s, "streaming")
    /\ UNCHANGED <<vars, connects, subject, found, resumed, bus, position, queue,
                   replayed, delivered>>

\* Mutant: the stream ends at AUTH_REQUIRED as well.
Deliver_ToOutcome(s, item) ==
    /\ delivered' = [delivered EXCEPT ![s] = Append(@, item)]
    /\ stage' = [stage EXCEPT ![s] =
          IF bus[s] # {} /\ IsTurnOutcome(item.event) THEN "ended" ELSE @]

\* One item goes to the client; a closing one is the last.  (Without a bus
\* the stream ends when the queue does, whatever the items.)
Deliver(s, item) ==
    /\ delivered' = [delivered EXCEPT ![s] = Append(@, item)]
    /\ stage' = [stage EXCEPT ![s] =
          IF bus[s] # {} /\ ClosesStream(item.event) THEN "ended" ELSE @]

SendQueued(s) ==
    /\ stage[s] = "streaming" /\ queue[s] # <<>>
    /\ Deliver(s, Head(queue[s]))
    /\ queue' = [queue EXCEPT ![s] = Tail(@)]
    /\ UNCHANGED <<vars, connects, subject, found, resumed, bus, position, replayed>>

Live(s, b) == stage[s] = "streaming" /\ queue[s] = <<>> /\ b \in bus[s]
Lagging(s, b) == Len(sent[b]) - position[s] > BusCapacity

\* Mutant: replayed events are not filtered out.
SendLive_NoDedup(s) ==
    \E b \in Turns :
        /\ Live(s, b) /\ ~Lagging(s, b) /\ position[s] < Len(sent[b])
        /\ Deliver(s, sent[b][position[s] + 1])
        /\ position' = [position EXCEPT ![s] = @ + 1]
        /\ UNCHANGED <<vars, connects, subject, found, resumed, bus, queue, replayed>>

SendLive(s) ==
    \E b \in Turns :
        /\ Live(s, b) /\ ~Lagging(s, b) /\ position[s] < Len(sent[b])
        /\ LET item == sent[b][position[s] + 1]
           IN IF item.seq <= replayed[s]
              THEN UNCHANGED <<stage, delivered>>
              ELSE Deliver(s, item)
        /\ position' = [position EXCEPT ![s] = @ + 1]
        /\ UNCHANGED <<vars, connects, subject, found, resumed, bus, queue, replayed>>

SkipLost(s) ==
    \E b \in Turns :
        /\ Live(s, b) /\ Lagging(s, b)
        /\ position' = [position EXCEPT ![s] = Len(sent[b]) - BusCapacity]
        /\ UNCHANGED <<vars, stage, connects, subject, found, resumed, bus, queue,
                       replayed, delivered>>

\* Mutant: a closed bus is answered with `continue`, as a lagging one is.
EndOfStream_IdleOnly(s) ==
    /\ stage[s] = "streaming" /\ queue[s] = <<>>
    /\ bus[s] = {}
    /\ Move(s, "ended")
    /\ UNCHANGED <<vars, connects, subject, found, resumed, bus, position, queue,
                   replayed, delivered>>

EndOfStream(s) ==
    /\ stage[s] = "streaming" /\ queue[s] = <<>>
    /\ \A b \in bus[s] : BusClosed(b) /\ position[s] = Len(sent[b])
    /\ Move(s, "ended")
    /\ UNCHANGED <<vars, connects, subject, found, resumed, bus, position, queue,
                   replayed, delivered>>

\* The connection is lost; what was still to be sent goes with it.
Drop(s) ==
    /\ stage[s] = "streaming" /\ connects[s] < MaxConnects
    /\ bus' = [bus EXCEPT ![s] = {}]
    /\ queue' = [queue EXCEPT ![s] = <<>>]
    /\ position' = [position EXCEPT ![s] = 0]
    /\ replayed' = [replayed EXCEPT ![s] = 0]
    /\ Move(s, "dropped")
    /\ UNCHANGED <<vars, connects, subject, found, resumed, delivered>>

StreamStep(s) ==
    \/ FindBus(s)
    \/ ReadLog(s)
    \/ BeginFresh(s)
    \/ BeginAgainIdle(s)
    \/ BeginAgainLive(s)
    \/ SendQueued(s)
    \/ SendLive(s)
    \/ SkipLost(s)
    \/ EndOfStream(s)

SubscriberStep(s) ==
    \/ StreamStep(s)
    \/ Drop(s)
    \/ \E t \in Tasks : Connect(s, t) \/ RefuseSubscriber(s, t)

SubNext ==
    \/ Next /\ UNCHANGED subVars
    \/ \E s \in Subscribers : SubscriberStep(s)

SubSpec == SubInit /\ [][SubNext]_allVars

\* The server runs pumps and streams; clients owe it nothing.
FairSubSpec ==
    /\ SubSpec
    /\ \A w \in Workers : WF_vars(ServerStep(w))
    /\ \A s \in Subscribers : WF_allVars(StreamStep(s))

-----------------------------------------------------------------------------
Updates(s) == {i \in DOMAIN delivered[s] : delivered[s][i].event.kind # "task"}

\* Each connection of the subscriber began afresh or after an event.
FromEvents(s) == resumed[s] \subseteq Updates(s) \cup {0}

\* No event reaches a subscriber twice, from the replay and from the bus or
\* from two connections, but one it returned with: that one it had from the
\* log, and its turn may yet have to send it on the bus.  (One that returned
\* with the number of a Task, which is later than those of the events that the
\* bus has yet to carry, may have had any of these.)
NoEventTwice ==
    \A s \in Subscribers : FromEvents(s) => \A i, j \in Updates(s) :
        (i < j /\ delivered[s][i].seq = delivered[s][j].seq) =>
            i \in resumed[s]

\* The log and the bus are never missed both: between two events that a
\* subscriber was sent, neither of them closing, there is none in the task's
\* log that it was not sent, unless the bus has lost some to a slow receiver.
NoGap ==
    \A s \in Subscribers : queue[s] = <<>> => \A i, j \in Updates(s) :
        \A k \in DOMAIN eventLogs[subject[s]] :
            LET x == eventLogs[subject[s]][k]
            IN (/\ delivered[s][i].seq < x.seq /\ x.seq < delivered[s][j].seq
                /\ ~ClosesStream(delivered[s][j].event)
                /\ \A w \in CallsOn(subject[s]) : pc[w] # "send"
                /\ \A b \in bus[s] : position[s] = Len(sent[b])
                /\ \A b \in Turns : Len(sent[b]) <= BusCapacity) =>
                   \E l \in Updates(s) : delivered[s][l].seq = x.seq

\* What a subscriber attached to a bus has been sent, once all that the log and
\* the bus had for it is through: every event of its task, unless the log has
\* dropped some, the bus has lost some, or the stream has closed.
CaughtUp(s) ==
    LET log == eventLogs[subject[s]]
    IN  (/\ stage[s] = "streaming" /\ queue[s] = <<>> /\ bus[s] # {}
         /\ Len(log) < EventLogCapacity
         /\ \A b \in bus[s] : position[s] = Len(sent[b])
         /\ \A b \in Turns : Len(sent[b]) <= BusCapacity
         /\ \A w \in CallsOn(subject[s]) : pc[w] \notin {"getTask", "putTask", "send"}) =>
            \A k \in DOMAIN log : \E i \in Updates(s) : delivered[s][i].seq = log[k].seq

\* A subscriber that loses its connection after any event, once or often, and
\* returns with its number is sent all it has missed.
ResumedCatchesUp == \A s \in Subscribers : FromEvents(s) => CaughtUp(s)

\* One that returns with any number it was sent "can resume the replay from
\* exactly where it left off" (router.rs:277, rest.rs:273).
ResumeIsPrecise == \A s \in Subscribers : CaughtUp(s)

\* A subscriber attached to a bus, at first or again after an event, is sent the
\* closing event of its turn: the stream ends with it, or the turn ended
\* without one.
AttachedSeesClose ==
    \A s \in Subscribers : (stage[s] = "ended" /\ FromEvents(s)) => \A b \in bus[s] :
        \/ \E i \in Updates(s) : /\ delivered[s][i].by = b
                                 /\ ClosesStream(delivered[s][i].event)
        \/ /\ BusClosed(b)
           /\ \A i \in DOMAIN sent[b] : ~ClosesStream(sent[b][i].event)

\* Every subscription the server accepted ends, unless its client drops it.
StreamsEnd ==
    \A s \in Subscribers :
        stage[s] = "findBus" ~> stage[s] \in {"ended", "dropped"}
=============================================================================
