---------------------------- MODULE SendMessage ----------------------------
(***************************************************************************)
(* The clients' side of a turn, over TaskEngine: Engine::send_message,     *)
(* blocking or with returnImmediately, and Engine::send_streaming_message  *)
(* with stream_through_close.  Each call reads the broadcast channel its   *)
(* start_execution made.  The channel keeps BusCapacity items: a receiver  *)
(* that falls behind is told so once and goes on with the oldest item      *)
(* kept.                                                                   *)
(***************************************************************************)
EXTENDS TaskEngine

CONSTANTS
    BusCapacity,   \* capacity of the broadcast channel (256 in the code)
    Modes          \* how clients call: subset of {"blocking", "immediate", "stream"}

ASSUME ReceiverAssumption ==
    /\ BusCapacity \in Nat \ {0}
    /\ Modes \subseteq {"blocking", "immediate", "stream"}

VARIABLES
    mode,      \* how each turn was called
    answer,    \* "waiting", "snapshot" (a final status is seen), "returned"
    cursor,    \* items of the bus received or skipped so far
    yielded,   \* what a stream has delivered
    result     \* <<>> or <<what the call returned>>

clientVars == <<mode, answer, cursor, yielded, result>>
allVars == <<vars, clientVars>>

ClientInit ==
    /\ Init
    /\ mode \in [Turns -> Modes]
    /\ answer = [w \in Turns |-> "waiting"]
    /\ cursor = [w \in Turns |-> 0]
    /\ yielded = [w \in Turns |-> <<>>]
    /\ result = [w \in Turns |-> <<>>]

Started(w) ==
    pc[w] \notin {"idle", "insertBus", "insertToken", "rejected", "aborted"}

Lagging(w) == Len(sent[w]) - cursor[w] > BusCapacity

\* Mutant: a lagging reader drops what is still kept, too.
SkipLost_ToEnd(w) ==
    /\ Started(w) /\ answer[w] = "waiting"
    /\ Lagging(w)
    /\ cursor' = [cursor EXCEPT ![w] = Len(sent[w])]
    /\ UNCHANGED <<vars, mode, answer, yielded, result>>

\* RecvError::Lagged, which every reader answers with `continue`.
SkipLost(w) ==
    /\ Started(w) /\ answer[w] = "waiting"
    /\ Lagging(w)
    /\ cursor' = [cursor EXCEPT ![w] = Len(sent[w]) - BusCapacity]
    /\ UNCHANGED <<vars, mode, answer, yielded, result>>

ReturnResult(w, r) ==
    /\ result' = [result EXCEPT ![w] = <<r>>]
    /\ answer' = [answer EXCEPT ![w] = "returned"]

\* Mutant: any status ends the wait of a blocking call.
HandleItem_AnyStatus(w, e) ==
    CASE e.kind = "message" -> ReturnResult(w, [kind |-> "message"])
      [] e.kind = "status" ->
            /\ answer' = [answer EXCEPT ![w] = "snapshot"]
            /\ UNCHANGED result
      [] OTHER -> UNCHANGED <<answer, result>>

(***************************************************************************)
(* send_message: what it does with the item received.                      *)
(***************************************************************************)
HandleItem(w, e) ==
    CASE e.kind = "message" -> ReturnResult(w, [kind |-> "message"])
      [] e.kind = "status" /\ IsFinalForBlockingSend(e.state) ->
            /\ answer' = [answer EXCEPT ![w] = "snapshot"]
            /\ UNCHANGED result
      [] mode[w] = "immediate" /\ e.kind = "task" ->
            ReturnResult(w, [kind |-> "task", state |-> e.task.state])
      [] /\ mode[w] = "immediate"
         /\ e.kind = "status" /\ ~IsFinalForBlockingSend(e.state) ->
            ReturnResult(w, [kind |-> "task", state |-> e.state])
      [] mode[w] = "immediate" /\ e.kind = "artifact" ->
            ReturnResult(w, [kind |-> "task", state |-> "Working"])
      [] OTHER -> UNCHANGED <<answer, result>>

ReceiveItem(w) ==
    /\ Started(w) /\ answer[w] = "waiting" /\ mode[w] # "stream"
    /\ ~Lagging(w) /\ cursor[w] < Len(sent[w])
    /\ cursor' = [cursor EXCEPT ![w] = @ + 1]
    /\ HandleItem(w, sent[w][cursor[w] + 1].event)
    /\ UNCHANGED <<vars, mode, yielded>>

\* snapshot_task, or a fresh SUBMITTED task when there is no row.
ReadSnapshot(w) ==
    /\ answer[w] = "snapshot"
    /\ ReturnResult(w, [kind |-> "snapshot",
                        state |-> IF taskOf[w] \in DOMAIN store
                                  THEN store[taskOf[w]].state
                                  ELSE "Submitted"])
    /\ UNCHANGED <<vars, mode, cursor, yielded>>

\* Mutant: a closed bus is an error, whatever the store holds.
ReceiveClosed_NoRead(w) ==
    /\ Started(w) /\ answer[w] = "waiting" /\ mode[w] # "stream"
    /\ cursor[w] = Len(sent[w]) /\ BusClosed(w)
    /\ ReturnResult(w, [kind |-> "failure"])
    /\ UNCHANGED <<vars, mode, cursor, yielded>>

\* Mutant: a closed bus is answered with `continue`, as a lagging one is.
ReceiveClosed_Continues(w) ==
    /\ Started(w) /\ answer[w] = "waiting" /\ mode[w] # "stream"
    /\ cursor[w] = Len(sent[w]) /\ BusClosed(w)
    /\ UNCHANGED allVars

\* RecvError::Closed: the stored task, or an error if there is none.
ReceiveClosed(w) ==
    /\ Started(w) /\ answer[w] = "waiting" /\ mode[w] # "stream"
    /\ cursor[w] = Len(sent[w]) /\ BusClosed(w)
    /\ ReturnResult(w, IF taskOf[w] \in DOMAIN store
                       THEN [kind |-> "stored", state |-> store[taskOf[w]].state]
                       ELSE [kind |-> "failure"])
    /\ UNCHANGED <<vars, mode, cursor, yielded>>

\* Mutant: the item is left on the channel.
YieldItem_Peeks(w) ==
    /\ Started(w) /\ answer[w] = "waiting" /\ mode[w] = "stream"
    /\ ~Lagging(w) /\ cursor[w] < Len(sent[w])
    /\ LET item == sent[w][cursor[w] + 1]
       IN /\ yielded' = [yielded EXCEPT ![w] = Append(@, item)]
          /\ answer' = [answer EXCEPT ![w] =
                IF ClosesStream(item.event) THEN "returned" ELSE @]
    /\ UNCHANGED <<vars, mode, cursor, result>>

(***************************************************************************)
(* stream_through_close.                                                   *)
(***************************************************************************)
YieldItem(w) ==
    /\ Started(w) /\ answer[w] = "waiting" /\ mode[w] = "stream"
    /\ ~Lagging(w) /\ cursor[w] < Len(sent[w])
    /\ LET item == sent[w][cursor[w] + 1]
       IN /\ cursor' = [cursor EXCEPT ![w] = @ + 1]
          /\ yielded' = [yielded EXCEPT ![w] = Append(@, item)]
          /\ answer' = [answer EXCEPT ![w] =
                IF ClosesStream(item.event) THEN "returned" ELSE @]
    /\ UNCHANGED <<vars, mode, result>>

EndStream(w) ==
    /\ Started(w) /\ answer[w] = "waiting" /\ mode[w] = "stream"
    /\ cursor[w] = Len(sent[w]) /\ BusClosed(w)
    /\ answer' = [answer EXCEPT ![w] = "returned"]
    /\ UNCHANGED <<vars, mode, cursor, yielded, result>>

ReceiverStep(w) ==
    \/ SkipLost(w)
    \/ ReceiveItem(w)
    \/ ReadSnapshot(w)
    \/ ReceiveClosed(w)
    \/ YieldItem(w)
    \/ EndStream(w)

Returned(w) == answer[w] = "returned"

\* Unless Pacing is "free", a client replies to an answer it has: no turn
\* starts on a task while an earlier call on it has not returned.
RepliesToAnswers ==
    \A w, v \in Turns :
        (/\ pc[w] = "idle" /\ pc'[w] = "insertBus"
         /\ v # w /\ taskOf[v] = taskOf'[w]) => Returned(v) \/ pc[v] \in {"rejected", "aborted"}

ClientNext ==
    \/ /\ Next
       /\ Pacing # "free" => RepliesToAnswers
       /\ UNCHANGED clientVars
    \/ \E w \in Turns : ReceiverStep(w)

ClientSpec == ClientInit /\ [][ClientNext]_allVars

\* The readers are tasks of the same runtime as the pumps.
FairClientSpec ==
    /\ ClientSpec
    /\ \A w \in Workers : WF_vars(ServerStep(w))
    /\ \A w \in Turns : WF_allVars(ReceiverStep(w))

-----------------------------------------------------------------------------
Closings(w) == {i \in DOMAIN sent[w] : ClosesStream(sent[w][i].event)}

\* However far a stream falls behind, it delivers the turn's outcome: if a
\* closing event was sent, the stream ends with one, else it ends because the
\* executor returned without one.
StreamDeliversOutcome ==
    \A w \in Turns : mode[w] = "stream" /\ Returned(w) /\ Closings(w) # {} =>
        yielded[w] # <<>> /\ ClosesStream(yielded[w][Len(yielded[w])].event)

\* A stream delivers what was sent in the order it was sent, nothing twice,
\* and starts at the beginning unless more than the capacity was missed.
StreamIsInOrder ==
    \A w \in Turns :
        /\ \A i, j \in DOMAIN yielded[w] : i < j =>
              \E k, l \in DOMAIN sent[w] :
                  k < l /\ yielded[w][i] = sent[w][k] /\ yielded[w][j] = sent[w][l]
        /\ yielded[w] # <<>> /\ Len(sent[w]) <= BusCapacity =>
              yielded[w][1] = sent[w][1]

\* A blocking call that waited for an outcome reports one: the task it
\* returns is in a final state.
BlockingReturnsFinal ==
    \A w \in Turns : result[w] # <<>> /\ result[w][1].kind = "snapshot" =>
        IsFinalForBlockingSend(result[w][1].state)

\* An error instead of an answer means that the executor reported nothing
\* that reached the store, and that nothing will.
FailureMeansNoTask ==
    \A w \in Turns : result[w] = <<[kind |-> "failure"]>> =>
        taskOf[w] \notin DOMAIN store /\ existing[w] = <<>>

\* Every call that was accepted returns.
CallsReturn == \A w \in Turns : Started(w) ~> Returned(w)
=============================================================================
