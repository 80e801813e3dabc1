----------------------------- MODULE TaskRecord -----------------------------
(***************************************************************************)
(* What the engine promises about a task, with no pump, no store and no    *)
(* concurrency: a task is created by the first update of a turn, changes   *)
(* by one whole update at a time, takes in the message of a turn once, and *)
(* does not change any more once it is terminal.                           *)
(***************************************************************************)
EXTENDS TaskTypes

CONSTANT Tasks

VARIABLES
    task,    \* task id -> Task
    clock    \* the next sequence number

vars == <<task, clock>>

Messages(t) == {task[t].history[i] : i \in DOMAIN task[t].history}

Init ==
    /\ task = EmptyMap
    /\ clock = 1

\* A sequence number is taken.
Tick ==
    /\ clock' = clock + 1
    /\ UNCHANGED task

Write(t, found, first, turn, n, update) ==
    LET seeded == SeededTask(found, first, UserMessage(turn), update)
    IN task' = Insert(task, t, UpdateTask(seeded, update, n))

Create(t, turn, n, update) ==
    /\ t \notin DOMAIN task
    /\ Write(t, <<>>, TRUE, turn, n, update)
    /\ UNCHANGED clock

\* The first update of a turn that continues a task.
Continue(t, turn, n, update) ==
    /\ t \in DOMAIN task
    /\ ~IsTerminal(task[t].state)
    /\ UserMessage(turn) \notin Messages(t)
    /\ Write(t, <<task[t]>>, TRUE, turn, n, update)
    /\ UNCHANGED clock

\* A later update, or one of a cancel.
Update(t, n, update) ==
    /\ t \in DOMAIN task
    /\ ~IsTerminal(task[t].state)
    /\ AgentMessage(n) \notin Messages(t)
    /\ task' = Insert(task, t, UpdateTask(task[t], update, n))
    /\ UNCHANGED clock

Next ==
    \/ Tick
    \/ \E t \in Tasks, n \in 1 .. clock - 1, update \in TaskUpdates :
          \/ \E turn \in Turns :
                Create(t, turn, n, update) \/ Continue(t, turn, n, update)
          \/ Update(t, n, update)

Spec == Init /\ [][Next]_vars
=============================================================================
