----------------------------- MODULE TaskReplay -----------------------------
(***************************************************************************)
(* A second definition of the Task record: read off the event log alone,   *)
(* with no reference to how apply_event updates the row it finds.  A       *)
(* client that has the log can tell the record GetTask returns.            *)
(*                                                                         *)
(* A log is described by the places of its entries.                        *)
(***************************************************************************)
EXTENDS TaskEngine, FiniteSets

Applied(log) == {i \in DOMAIN log : log[i].event.kind # "message"}

Statuses(log) == {i \in DOMAIN log : log[i].event.kind = "status"}

Chunks(log, id) ==
    {i \in DOMAIN log : log[i].event.kind = "artifact" /\ log[i].event.id = id}

\* The members of a finite set of numbers, the least first.
Ranked(S, k) == {i \in S : Cardinality({j \in S : j <= i}) = k}
Ascending(S) == [k \in 1 .. Cardinality(S) |-> CHOOSE i \in Ranked(S, k) : TRUE]

\* The state is that of the latest status.
Latest(log) == {i \in Statuses(log) : \A j \in Statuses(log) : j <= i}
StateFrom(log) ==
    IF Latest(log) = {}
    THEN "Working"
    ELSE log[CHOOSE i \in Latest(log) : TRUE].event.state

\* Each turn's message goes in front of its first update, each status message
\* in place: the history is what was said at the places 2i and 2i + 1.
Opens(log, i) ==
    /\ log[i].by \in Turns
    /\ \A j \in Applied(log) : j < i => log[j].by # log[i].by
Speaks(log, i) == log[i].event.kind = "status" /\ log[i].event.msg

Said(log) ==
    {2 * i : i \in {j \in Applied(log) : Opens(log, j)}}
        \cup {2 * i + 1 : i \in {j \in Applied(log) : Speaks(log, j)}}
MessageAt(log, place) ==
    LET x == log[place \div 2]
    IN IF place % 2 = 0 THEN UserMessage(x.by) ELSE AgentMessage(x.seq)
MessagesAt(log, places) ==
    [k \in 1 .. Cardinality(places) |-> MessageAt(log, Ascending(places)[k])]
HistoryFrom(log) == MessagesAt(log, Said(log))

\* An artifact is what was sent since it was last sent anew.
Standing(log, id) ==
    {i \in Chunks(log, id) : \A j \in Chunks(log, id) : j > i => log[j].event.append}
PartsAt(log, places) ==
    [k \in 1 .. Cardinality(places) |-> log[Ascending(places)[k]].seq]
ArtifactFrom(log, id) == PartsAt(log, Standing(log, id))

Replayed(log) ==
    [state |-> StateFrom(log),
     history |-> HistoryFrom(log),
     artifacts |-> [a \in ArtifactIds |-> ArtifactFrom(log, a)]]

\* The row of a task, as Get returns it.
RowFrom(log) == IF Applied(log) = {} THEN <<>> ELSE <<Replayed(log)>>

\* Between two updates, and while nothing has been evicted from the log, the
\* stored task is the replay of its log: every turn's message and every status
\* message is in its history once and in order, every artifact has exactly the
\* chunks that were sent, and a task exists exactly if it was ever updated.
StoreIsReplayOfLog ==
    \A t \in Tasks :
        \/ \E w \in CallsOn(t) : pc[w] \in {"getTask", "putTask"}
        \/ Len(eventLogs[t]) = EventLogCapacity
        \/ Get(t) = RowFrom(eventLogs[t])
=============================================================================
