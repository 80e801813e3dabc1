-------------------------- MODULE Subscribe_proofs --------------------------
(***************************************************************************)
(* What Subscribe guarantees to a client that loses its connection and     *)
(* comes back, for every number of clients, connections, tasks and events  *)
(* and every capacity of the log and of the bus.                           *)
(***************************************************************************)
EXTENDS Subscribe, TaskOrder_proofs, FunctionTheorems

USE DEF vars, shared, call, turnVars, applying, cancelVars, GoTo

-----------------------------------------------------------------------------
(***************************************************************************)
(* The filter of a log.  The indexes that are kept have an increasing      *)
(* enumeration, whose length is their number, so that Newer has every item *)
(* with a higher number, and no other, in the order of the log.            *)
(***************************************************************************)
Increasing(q) == \A i, j \in DOMAIN q : i < j => q[i] < q[j]

\* One more number, above all those enumerated, goes to the end.
LEMMA OneMore ==
    ASSUME NEW S \in SUBSET Nat, NEW n \in Nat, NEW q \in [1 .. n -> S], Increasing(q),
           NEW top \in Nat, \A i \in S : i < top
    PROVE  \E r \in [1 .. n + 1 -> S \cup {top}] : Increasing(r)
<1> DEFINE r == [i \in 1 .. n + 1 |-> IF i = n + 1 THEN top ELSE q[i]]
<1>1. \A i \in 1 .. n + 1 : i # n + 1 => i \in 1 .. n
  OBVIOUS
<1>2. r \in [1 .. n + 1 -> S \cup {top}]
  BY <1>1
<1>3. ASSUME NEW i \in 1 .. n + 1, NEW j \in 1 .. n + 1, i < j PROVE r[i] < r[j]
  <2>1. i \in 1 .. n /\ q[i] \in S /\ r[i] = q[i]
    BY <1>3
  <2>2. CASE j = n + 1
    BY <2>1, <2>2
  <2>3. CASE j # n + 1
    BY <1>1, <1>3, <2>1, <2>3 DEF Increasing
  <2> QED BY <2>2, <2>3
<1> QED BY <1>2, <1>3 DEF Increasing

LEMMA Enumerable ==
    ASSUME NEW n \in Nat, NEW S \in SUBSET (1 .. n)
    PROVE  IsFiniteSet(S) /\ \E q \in [1 .. Cardinality(S) -> S] : Increasing(q)
<1> DEFINE upTo(m) == {i \in S : i <= m}
           listed(m) == \E q \in [1 .. Cardinality(upTo(m)) -> upTo(m)] : Increasing(q)
           bad == {m \in 0 .. n : ~listed(m)}
<1>0. \A i \in S : i \in Nat /\ 1 <= i /\ i <= n
  OBVIOUS
<1>1. IsFiniteSet(1 .. n)
  BY FS_Interval
<1>2. \A m \in Nat : IsFiniteSet(upTo(m)) /\ Cardinality(upTo(m)) \in Nat
  <2> TAKE m \in Nat
  <2>1. upTo(m) \in SUBSET (1 .. n)
    OBVIOUS
  <2> HIDE DEF upTo
  <2>2. IsFiniteSet(upTo(m))
    BY <1>1, <2>1, FS_Subset
  <2> QED BY <2>2, FS_CardinalityType
<1>3. bad = {}
  <2>1. SUFFICES ASSUME bad # {} PROVE FALSE
    OBVIOUS
  <2>2. bad \in SUBSET Nat
    OBVIOUS
  <2>3. PICK m \in bad : \A k \in bad : m <= k
    <3> HIDE DEF bad
    <3> QED BY <2>1, <2>2, Least
  <2>4. m \in 0 .. n /\ ~listed(m)
    OBVIOUS
  <2>5. CASE m = 0
    <3>1. upTo(m) = {}
      <4>1. \A i \in S : ~(i <= m)
        BY <1>0, <2>5
      <4> QED BY <4>1
    <3> HIDE DEF upTo
    <3>2. Cardinality(upTo(m)) = 0
      BY <3>1, FS_EmptySet
    <3>3. <<>> \in [1 .. 0 -> upTo(m)] /\ Increasing(<<>>)
      BY DEF Increasing
    <3> QED BY <3>2, <3>3, <2>4
  <2>6. CASE m # 0
    <3>1. m - 1 \in 0 .. n /\ m - 1 \in Nat /\ m \in Nat
      BY <2>4, <2>6
    <3>2. listed(m - 1)
      <4>1. m - 1 \notin bad
        <5> HIDE DEF bad
        <5>1. ASSUME m - 1 \in bad PROVE FALSE
          <6>1. m <= m - 1
            BY <2>3, <5>1
          <6> QED BY <3>1, <6>1
        <5> QED BY <5>1
      <4> QED BY <3>1, <4>1
    <3>3. \A i \in upTo(m - 1) : i \in Nat /\ i < m
      BY <3>1
    <3>4. upTo(m) = upTo(m - 1) \/ upTo(m) = upTo(m - 1) \cup {m}
      <4>1. \A i \in S : i <= m <=> i <= m - 1 \/ i = m
        BY <1>0, <3>1
      <4>2. CASE m \in S
        <5>1. upTo(m) = upTo(m - 1) \cup {m}
          BY <3>1, <4>1, <4>2
        <5> QED BY <5>1
      <4>3. CASE m \notin S
        <5>1. upTo(m) = upTo(m - 1)
          BY <4>1, <4>3
        <5> QED BY <5>1
      <4> QED BY <4>2, <4>3
    <3>5. IsFiniteSet(upTo(m - 1)) /\ Cardinality(upTo(m - 1)) \in Nat
      BY <1>2, <3>1
    <3> HIDE DEF upTo
    <3>6. PICK S1 : S1 = upTo(m - 1)
      OBVIOUS
    <3>7. PICK q \in [1 .. Cardinality(S1) -> S1] : Increasing(q)
      BY <3>2, <3>6
    <3>8. CASE upTo(m) = S1
      BY <2>4, <3>7, <3>8
    <3>9. CASE upTo(m) = S1 \cup {m}
      <4>1. Cardinality(S1 \cup {m}) = Cardinality(S1) + 1
        <5>1. m \notin S1
          BY <3>1, <3>3, <3>6
        <5> QED BY <3>5, <3>6, <5>1, FS_AddElement
      <4>2. \E r \in [1 .. Cardinality(S1) + 1 -> S1 \cup {m}] : Increasing(r)
        <5>1. S1 \in SUBSET Nat /\ \A i \in S1 : i < m
          BY <3>3, <3>6
        <5>2. Cardinality(S1) \in Nat
          BY <3>5, <3>6
        <5> HIDE DEF listed, bad
        <5> QED BY <5>1, <5>2, <3>1, <3>7, OneMore
      <4> QED BY <2>4, <3>9, <4>1, <4>2
    <3> QED BY <3>4, <3>6, <3>8, <3>9
  <2> QED BY <2>5, <2>6
<1>4. listed(n) /\ upTo(n) = S
  <2>1. listed(n)
    <3>1. n \in 0 .. n
      OBVIOUS
    <3> QED BY <1>3, <3>1
  <2>2. upTo(n) = S
    BY <1>0
  <2> QED BY <2>1, <2>2
<1>5. IsFiniteSet(S)
  BY <1>1, FS_Subset
<1> QED BY <1>4, <1>5

\* What a replay has: of the log, and all that has a higher number.
Replays(newer, log, number) ==
    /\ newer \in Seq(Item)
    /\ \A i \in DOMAIN newer : newer[i].seq > number
    /\ \A i \in DOMAIN newer : \E k \in DOMAIN log : newer[i] = log[k]
    /\ \A k \in DOMAIN log : log[k].seq > number => \E i \in DOMAIN newer : newer[i] = log[k]
    /\ Ordered(log) => Ordered(newer)

LEMMA NewerItems ==
    ASSUME NEW log \in Seq(Item), NEW number \in Nat
    PROVE  Replays(Newer(log, number), log, number)
<1> SUFFICES ASSUME NEW newer, newer = Newer(log, number) PROVE Replays(newer, log, number)
  OBVIOUS
<1>1. PICK kept : kept = {i \in DOMAIN log : log[i].seq > number}
  OBVIOUS
<1>2. PICK order : order = CHOOSE q \in [1 .. Cardinality(kept) -> kept] :
                              \A i, j \in DOMAIN q : i < j => q[i] < q[j]
  OBVIOUS
<1>3. newer = [i \in DOMAIN order |-> log[order[i]]]
  BY <1>1, <1>2 DEF Newer
<1>4. Len(log) \in Nat /\ DOMAIN log = 1 .. Len(log) /\ kept \in SUBSET (1 .. Len(log))
  BY <1>1
<1>5. IsFiniteSet(kept) /\ \E q \in [1 .. Cardinality(kept) -> kept] : Increasing(q)
  BY <1>4, Enumerable
<1>6. order \in [1 .. Cardinality(kept) -> kept] /\ Increasing(order)
  BY <1>2, <1>5 DEF Increasing
<1>7. PICK n : n = Cardinality(kept)
  OBVIOUS
<1>8. n \in Nat
  BY <1>5, <1>7, FS_CardinalityType
<1>9. order \in [1 .. n -> kept] /\ DOMAIN order = 1 .. n
  BY <1>6, <1>7
<1>10. \A k \in kept : \E i \in 1 .. n : order[i] = k
  <2>1. \A i, j \in 1 .. n : order[i] = order[j] => i = j
    <3> SUFFICES ASSUME NEW i \in 1 .. n, NEW j \in 1 .. n, order[i] = order[j], i < j
                 PROVE  FALSE
      BY <1>8
    <3>1. order[i] < order[j]
      BY <1>6, <1>9 DEF Increasing
    <3>2. order[i] \in Nat
      <4>1. order[i] \in kept
        BY <1>9
      <4>2. \A k \in kept : k \in Nat
        BY <1>4
      <4> QED BY <4>1, <4>2
    <3> QED BY <3>1, <3>2
  <2>2. order \in Injection(1 .. n, kept)
    BY <1>9, <2>1, Fun_IsInj
  <2>3. Cardinality(1 .. n) = n
    BY <1>8, FS_Interval
  <2>4. order \in Surjection(1 .. n, kept)
    BY <1>5, <1>7, <2>2, <2>3, FS_Injection
  <2> QED BY <2>4, <1>9 DEF Surjection
<1>11. DOMAIN newer = 1 .. n /\ \A i \in 1 .. n : newer[i] = log[order[i]] /\ order[i] \in kept
  BY <1>3, <1>9
<1>12. \A i \in 1 .. n : order[i] \in DOMAIN log /\ newer[i] \in Item
  BY <1>1, <1>11
<1>13. newer \in Seq(Item)
  <2>1. newer \in [1 .. n -> Item]
    BY <1>3, <1>9, <1>12
  <2> QED BY <1>8, <2>1
<1>14. \A i \in DOMAIN newer : newer[i].seq > number
  BY <1>1, <1>11
<1>15. \A i \in DOMAIN newer : \E k \in DOMAIN log : newer[i] = log[k]
  BY <1>11, <1>12
<1>16. \A k \in DOMAIN log : log[k].seq > number => \E i \in DOMAIN newer : newer[i] = log[k]
  BY <1>1, <1>10, <1>11
<1>17. Ordered(log) => Ordered(newer)
  <2> SUFFICES ASSUME Ordered(log), NEW i \in 1 .. n, NEW j \in 1 .. n, i < j
               PROVE  newer[i].seq < newer[j].seq
    BY <1>11 DEF Ordered
  <2>1. order[i] < order[j]
    BY <1>6, <1>9 DEF Increasing
  <2> QED BY <2>1, <1>11, <1>12 DEF Ordered
<1> QED BY <1>13, <1>14, <1>15, <1>16, <1>17 DEF Replays

-----------------------------------------------------------------------------
(***************************************************************************)
(* The invariants of the engine, with subscribers.  A subscriber's only    *)
(* step that the engine sees is to take a number.                          *)
(***************************************************************************)
Engine ==
    /\ TypeInv /\ SeqInv /\ LogInv /\ CloseInv /\ SentInv /\ PlacesInv
    /\ OneAtATime /\ OrderInv /\ TopInv

LEMMA InitEngine == Init => Engine
BY InitTypeInv, InitSeqInv, InitLogInv, InitCloseInv, InitSentInv, InitPlacesInv,
   InitOneAtATime, InitOrderInv, InitTopInv DEF Engine

LEMMA NextEngine == Engine /\ [Next]_vars /\ OneAtATime' => Engine'
BY NextTypeInv, NextSeqInv, NextLogInv, NextCloseInv, NextSentInv, NextPlacesInv,
   NextOrderInv, NextTopInv DEF Engine

LEMMA NumberEngine == Engine /\ NumberSnapshot => Engine'
<1> SUFFICES ASSUME Engine, NumberSnapshot PROVE Engine'
  OBVIOUS
<1> USE DEF NumberSnapshot
<1>1. TypeInv'
  BY DEF Engine, TypeInv, TypeOK, HoldsOf
<1>2. SeqInv'
  <2>1. nextSeq \in Nat /\ nextSeq' = nextSeq + 1 /\ Items' = Items
    BY DEF Engine, TypeInv, TypeOK, Items, BusItems, LoggedItems
  <2>2. \A x \in Items : x.seq \in Nat
    BY ItemsTyped DEF Engine, Item
  <2>3. \A w \in Workers : seq[w] \in Nat
    BY DEF Engine, TypeInv, TypeOK
  <2>4. SeqInv
    BY DEF Engine
  <2>5. \A w \in Workers : /\ Numbered(w)' <=> Numbered(w)
                           /\ Unlogged(w)' <=> Unlogged(w)
                           /\ Held(w)' = Held(w) /\ seq'[w] = seq[w]
    BY DEF Numbered, Unlogged, Held
  <2>6. \A x \in Items : x.seq < nextSeq'
    BY <2>1, <2>2, <2>4 DEF SeqInv
  <2>7. \A w \in Workers : Numbered(w) => seq[w] < nextSeq'
    BY <2>1, <2>3, <2>4 DEF SeqInv
  <2>8. \A v, w \in Workers : Numbered(v)' /\ Numbered(w)' /\ seq'[v] = seq'[w] => v = w
    BY <2>4, <2>5 DEF SeqInv
  <2>9. ASSUME NEW w \in Workers, Numbered(w)', NEW x \in Items, x.seq = seq'[w]
        PROVE  ~Unlogged(w)' /\ x = Held(w)'
    BY <2>4, <2>5, <2>9 DEF SeqInv
  <2>10. SeqNamesOneEvent'
    BY <2>4 DEF SeqInv, SeqNamesOneEvent, BusItems, LoggedItems
  <2> QED BY <2>1, <2>5, <2>6, <2>7, <2>8, <2>9, <2>10 DEF SeqInv
<1>3. LogInv' /\ CloseInv'
  BY DEF Engine, LogInv, InOrder, Before, CloseInv, NothingAfterClose, HasClosed
<1>4. SentInv'
  BY DEF Engine, SentInv, LoggedBeforeSent, Logged, Kept, Held, Of
<1>5. PlacesInv' /\ OneAtATime' /\ OrderInv'
  BY DEF Engine, PlacesInv, OneAtATime, Answered, Ended, OrderInv, Ordered, Below
<1>6. TopInv'
  BY DEF Engine, TopInv, LogsOwn, LastLogged, NotSentYet, SentUpTo, BusInOrder, UpTo,
     IsUpdate, Logged, Numbered, Unlogged, Held, BusItems
<1> QED BY <1>1, <1>2, <1>3, <1>4, <1>5, <1>6 DEF Engine

-----------------------------------------------------------------------------
(***************************************************************************)
(* The subscribers: what their variables hold, and what each step does to  *)
(* the stream of the subscriber that takes it.                             *)
(***************************************************************************)
Stages == {"idle", "findBus", "readLog", "takeSeq", "streaming", "dropped",
           "ended", "refused"}
SubItem == [seq : Nat, by : Workers \cup Subscribers, event : Events]

SubTypeOK ==
    /\ stage \in [Subscribers -> Stages]
    /\ connects \in [Subscribers -> Nat]
    /\ subject \in [Subscribers -> Tasks \cup {NoTask}]
    /\ found \in [Subscribers -> Option(Task)]
    /\ bus \in [Subscribers -> SUBSET Turns]
    /\ position \in [Subscribers -> Nat]
    /\ queue \in [Subscribers -> Seq(SubItem)]
    /\ replayed \in [Subscribers -> Nat]
    /\ delivered \in [Subscribers -> Seq(SubItem)]
    /\ resumed \in [Subscribers -> SUBSET Nat]

\* A connection: what it has, and what is set up step by step.
Connected(s) == stage[s] \in {"findBus", "readLog", "takeSeq", "streaming"}

Connection(s) ==
    /\ stage[s] \notin {"idle", "refused"} => subject[s] \in Tasks
    /\ Connected(s) => found[s] # <<>>
    /\ stage[s] = "idle" => delivered[s] = <<>>
    /\ delivered[s] # <<>> => subject[s] \in Tasks
    /\ resumed[s] \subseteq 0 .. Len(delivered[s])
    /\ stage[s] \in {"findBus", "readLog", "takeSeq"} => Len(delivered[s]) \in resumed[s]
    /\ stage[s] \in {"idle", "dropped", "findBus", "readLog"} =>
          queue[s] = <<>> /\ replayed[s] = 0
    /\ stage[s] \in {"idle", "dropped", "findBus", "refused"} => bus[s] = {}
    /\ \A b \in bus[s] : bus[s] = {b} /\ Of(b, subject[s]) /\ position[s] <= Len(sent[b])

Connections == SubTypeOK /\ \A s \in Subscribers : Connection(s)

\* The stream of another subscriber, and all of the engine but its counter.
SameStream(u) ==
    /\ stage'[u] = stage[u] /\ subject'[u] = subject[u] /\ found'[u] = found[u]
    /\ bus'[u] = bus[u] /\ position'[u] = position[u] /\ queue'[u] = queue[u]
    /\ replayed'[u] = replayed[u] /\ delivered'[u] = delivered[u]
    /\ resumed'[u] = resumed[u]

SameEngine ==
    UNCHANGED <<store, eventLogs, buses, cancelTokens, signalled, sent, pc, call,
                turnVars, emitted, applying, cancelVars>>

LEMMA OneStream ==
    ASSUME SubTypeOK, NEW s \in Subscribers, SubscriberStep(s)
    PROVE  /\ UNCHANGED vars \/ NumberSnapshot
           /\ SameEngine
           /\ \A u \in Subscribers \ {s} : SameStream(u)
<1> USE DEF SubTypeOK, SameStream, SameEngine, NumberSnapshot, Move
<1>1. CASE \E t \in Tasks : Connect(s, t) \/ RefuseSubscriber(s, t)
  BY <1>1 DEF Connect, RefuseSubscriber
<1>2. CASE FindBus(s) \/ ReadLog(s)
  BY <1>2 DEF FindBus, ReadLog
<1>3. CASE BeginFresh(s) \/ BeginAgainIdle(s) \/ BeginAgainLive(s)
  BY <1>3 DEF BeginFresh, BeginAgainIdle, BeginAgainLive
<1>4. CASE SendQueued(s)
  BY <1>4 DEF SendQueued, Deliver
<1>5. CASE SendLive(s)
  BY <1>5 DEF SendLive, Deliver
<1>6. CASE SkipLost(s) \/ EndOfStream(s) \/ Drop(s)
  BY <1>6 DEF SkipLost, EndOfStream, Drop
<1> QED BY <1>1, <1>2, <1>3, <1>4, <1>5, <1>6 DEF SubscriberStep, StreamStep

LEMMA ConnectAt ==
    ASSUME SubTypeOK, NEW s \in Subscribers, NEW t \in Tasks, Connect(s, t)
    PROVE  /\ stage[s] \in {"idle", "dropped"} /\ stage'[s] = "findBus"
           /\ subject[s] \in {NoTask, t} /\ subject'[s] = t
           /\ found'[s] = <<store[t]>> /\ t \in DOMAIN store
           /\ resumed'[s] = resumed[s] \cup {Len(delivered[s])}
           /\ bus'[s] = bus[s] /\ position'[s] = position[s] /\ queue'[s] = queue[s]
           /\ replayed'[s] = replayed[s] /\ delivered'[s] = delivered[s]
           /\ UNCHANGED vars
BY DEF Connect, SubTypeOK, Move, Get

LEMMA RefuseAt ==
    ASSUME SubTypeOK, NEW s \in Subscribers, NEW t \in Tasks, RefuseSubscriber(s, t)
    PROVE  /\ stage'[s] = "refused"
           /\ subject'[s] = subject[s] /\ found'[s] = found[s] /\ resumed'[s] = resumed[s]
           /\ bus'[s] = bus[s] /\ position'[s] = position[s] /\ queue'[s] = queue[s]
           /\ replayed'[s] = replayed[s] /\ delivered'[s] = delivered[s]
           /\ UNCHANGED vars
BY DEF RefuseSubscriber, SubTypeOK, Move

LEMMA FindBusAt ==
    ASSUME SubTypeOK, NEW s \in Subscribers, FindBus(s)
    PROVE  /\ stage[s] = "findBus" /\ stage'[s] = "readLog"
           /\ bus'[s] = {buses[t] : t \in DOMAIN buses \cap {subject[s]}}
           /\ \A b : bus'[s] = {b} => position'[s] = Len(sent[b])
           /\ bus'[s] = {} => position'[s] = 0
           /\ subject'[s] = subject[s] /\ found'[s] = found[s] /\ resumed'[s] = resumed[s]
           /\ queue'[s] = queue[s] /\ replayed'[s] = replayed[s]
           /\ delivered'[s] = delivered[s]
           /\ UNCHANGED vars
<1>1. PICK there : there = {buses[t] : t \in DOMAIN buses \cap {subject[s]}}
  OBVIOUS
<1>2. /\ stage[s] = "findBus" /\ stage'[s] = "readLog" /\ bus'[s] = there
      /\ position'[s] = IF there = {} THEN 0 ELSE Len(sent[CHOOSE b \in there : TRUE])
      /\ subject'[s] = subject[s] /\ found'[s] = found[s] /\ resumed'[s] = resumed[s]
      /\ queue'[s] = queue[s] /\ replayed'[s] = replayed[s]
      /\ delivered'[s] = delivered[s]
      /\ UNCHANGED vars
  BY <1>1 DEF FindBus, SubTypeOK, Move
<1>3. ASSUME NEW b, there = {b} PROVE position'[s] = Len(sent[b])
  <2>1. (CHOOSE c \in there : TRUE) \in there
    BY <1>3
  <2>2. (CHOOSE c \in there : TRUE) = b
    BY <2>1, <1>3
  <2> QED BY <1>2, <1>3, <2>2
<1> QED BY <1>1, <1>2, <1>3

LEMMA ReadLogAt ==
    ASSUME SubTypeOK, NEW s \in Subscribers, ReadLog(s),
           NEW newer, newer = Newer(eventLogs[subject[s]], Since(s))
    PROVE  /\ stage[s] = "readLog" /\ stage'[s] = "takeSeq" /\ queue'[s] = newer
           /\ replayed'[s] = IF newer = <<>> THEN 0 ELSE newer[Len(newer)].seq
           /\ subject'[s] = subject[s] /\ found'[s] = found[s] /\ resumed'[s] = resumed[s]
           /\ bus'[s] = bus[s] /\ position'[s] = position[s]
           /\ delivered'[s] = delivered[s]
           /\ UNCHANGED vars
BY DEF ReadLog, SubTypeOK, Move

LEMMA BeginAt ==
    ASSUME SubTypeOK, NEW s \in Subscribers,
           BeginFresh(s) \/ BeginAgainIdle(s) \/ BeginAgainLive(s)
    PROVE  /\ stage[s] = "takeSeq" /\ stage'[s] = "streaming"
           /\ \/ /\ delivered[s] = <<>> /\ bus[s] = {}
                 /\ queue'[s] = <<Snapshot(s)>>
              \/ /\ delivered[s] = <<>> /\ bus[s] # {}
                 /\ queue'[s] = <<Snapshot(s)>> \o queue[s]
              \/ /\ delivered[s] # <<>> /\ bus[s] = {}
                 /\ queue'[s] = Append(queue[s], Snapshot(s))
              \/ /\ delivered[s] # <<>> /\ bus[s] # {}
                 /\ queue'[s] = queue[s]
           /\ subject'[s] = subject[s] /\ found'[s] = found[s] /\ resumed'[s] = resumed[s]
           /\ bus'[s] = bus[s] /\ position'[s] = position[s]
           /\ replayed'[s] = replayed[s] /\ delivered'[s] = delivered[s]
<1> USE DEF SubTypeOK, Move, Fresh
<1>1. CASE BeginFresh(s)
  BY <1>1 DEF BeginFresh
<1>2. CASE BeginAgainIdle(s)
  BY <1>2 DEF BeginAgainIdle
<1>3. CASE BeginAgainLive(s)
  BY <1>3 DEF BeginAgainLive
<1> QED BY <1>1, <1>2, <1>3

LEMMA SendQueuedAt ==
    ASSUME SubTypeOK, NEW s \in Subscribers, SendQueued(s)
    PROVE  /\ stage[s] = "streaming" /\ queue[s] # <<>>
           /\ delivered'[s] = Append(delivered[s], Head(queue[s]))
           /\ queue'[s] = Tail(queue[s])
           /\ stage'[s] = IF bus[s] # {} /\ ClosesStream(Head(queue[s]).event)
                          THEN "ended" ELSE "streaming"
           /\ subject'[s] = subject[s] /\ found'[s] = found[s] /\ resumed'[s] = resumed[s]
           /\ bus'[s] = bus[s] /\ position'[s] = position[s]
           /\ replayed'[s] = replayed[s]
           /\ UNCHANGED vars
BY DEF SendQueued, Deliver, SubTypeOK

LEMMA SendLiveAt ==
    ASSUME SubTypeOK, NEW s \in Subscribers, SendLive(s)
    PROVE  \E b \in bus[s] : \E x :
           /\ position[s] + 1 \in 1 .. Len(sent[b]) /\ x = sent[b][position[s] + 1]
           /\ stage[s] = "streaming" /\ queue[s] = <<>> /\ queue'[s] = <<>>
           /\ position'[s] = position[s] + 1
           /\ ~Lagging(s, b)
           /\ \/ /\ x.seq <= replayed[s]
                 /\ delivered'[s] = delivered[s] /\ stage'[s] = "streaming"
              \/ /\ ~(x.seq <= replayed[s])
                 /\ delivered'[s] = Append(delivered[s], x)
                 /\ stage'[s] = IF ClosesStream(x.event) THEN "ended" ELSE "streaming"
           /\ subject'[s] = subject[s] /\ found'[s] = found[s] /\ resumed'[s] = resumed[s]
           /\ bus'[s] = bus[s] /\ replayed'[s] = replayed[s]
           /\ UNCHANGED vars
<1>1. PICK b \in Turns :
        /\ Live(s, b) /\ ~Lagging(s, b) /\ position[s] < Len(sent[b])
        /\ LET item == sent[b][position[s] + 1]
           IN IF item.seq <= replayed[s]
              THEN UNCHANGED <<stage, delivered>>
              ELSE Deliver(s, item)
        /\ position' = [position EXCEPT ![s] = @ + 1]
        /\ UNCHANGED <<vars, connects, subject, found, resumed, bus, queue, replayed>>
  BY DEF SendLive
<1>2. PICK x : x = sent[b][position[s] + 1]
  OBVIOUS
<1>3. b \in bus[s] /\ stage[s] = "streaming" /\ queue[s] = <<>> /\ bus[s] # {}
  BY <1>1 DEF Live
<1>4. position[s] \in Nat /\ position'[s] = position[s] + 1
  BY <1>1 DEF SubTypeOK
<1>5. position[s] + 1 \in 1 .. Len(sent[b])
  BY <1>1, <1>4
<1>6. CASE x.seq <= replayed[s]
  <2>1. stage' = stage /\ delivered' = delivered
    BY <1>1, <1>2, <1>6
  <2> QED BY <2>1, <1>1, <1>2, <1>3, <1>4, <1>5, <1>6
<1>7. CASE ~(x.seq <= replayed[s])
  <2>1. Deliver(s, x)
    BY <1>1, <1>2, <1>7
  <2>2. /\ delivered'[s] = Append(delivered[s], x)
        /\ stage'[s] = IF ClosesStream(x.event) THEN "ended" ELSE "streaming"
    BY <2>1, <1>3 DEF Deliver, SubTypeOK
  <2> QED BY <2>2, <1>1, <1>2, <1>3, <1>4, <1>5, <1>7
<1> QED BY <1>6, <1>7

LEMMA SkipLostAt ==
    ASSUME SubTypeOK, NEW s \in Subscribers, SkipLost(s)
    PROVE  \E b \in bus[s] :
           /\ stage[s] = "streaming" /\ queue[s] = <<>>
           /\ Lagging(s, b) /\ position'[s] = Len(sent[b]) - BusCapacity
           /\ stage'[s] = stage[s] /\ subject'[s] = subject[s] /\ found'[s] = found[s]
           /\ resumed'[s] = resumed[s] /\ bus'[s] = bus[s] /\ queue'[s] = queue[s]
           /\ replayed'[s] = replayed[s] /\ delivered'[s] = delivered[s]
           /\ UNCHANGED vars
BY DEF SkipLost, Live, SubTypeOK

LEMMA EndAt ==
    ASSUME SubTypeOK, NEW s \in Subscribers, EndOfStream(s)
    PROVE  /\ stage[s] = "streaming" /\ stage'[s] = "ended" /\ queue[s] = <<>>
           /\ \A b \in bus[s] : BusClosed(b) /\ position[s] = Len(sent[b])
           /\ subject'[s] = subject[s] /\ found'[s] = found[s] /\ resumed'[s] = resumed[s]
           /\ bus'[s] = bus[s] /\ position'[s] = position[s] /\ queue'[s] = queue[s]
           /\ replayed'[s] = replayed[s] /\ delivered'[s] = delivered[s]
           /\ UNCHANGED vars
BY DEF EndOfStream, SubTypeOK, Move

LEMMA DropAt ==
    ASSUME SubTypeOK, NEW s \in Subscribers, Drop(s)
    PROVE  /\ stage[s] = "streaming" /\ stage'[s] = "dropped"
           /\ bus'[s] = {} /\ queue'[s] = <<>> /\ position'[s] = 0 /\ replayed'[s] = 0
           /\ subject'[s] = subject[s] /\ found'[s] = found[s] /\ resumed'[s] = resumed[s]
           /\ delivered'[s] = delivered[s]
           /\ UNCHANGED vars
BY DEF Drop, SubTypeOK, Move

-----------------------------------------------------------------------------
LEMMA InitConnections == SubInit => Connections
<1> SUFFICES ASSUME SubInit PROVE Connections
  OBVIOUS
<1>1. SubTypeOK
  BY OptionType DEF SubInit, SubTypeOK, Stages
<1>2. \A s \in Subscribers : Connection(s)
  BY DEF SubInit, Connection, Connected
<1> QED BY <1>1, <1>2 DEF Connections

LEMMA ItemsServe ==
    /\ \A x \in Item : x \in SubItem
    /\ \A log \in Seq(Item) : log \in Seq(SubItem)
<1>1. \A x \in Item : x \in SubItem
  BY DEF Item, SubItem
<1>2. ASSUME NEW log \in Seq(Item) PROVE log \in Seq(SubItem)
  <2>1. Len(log) \in Nat /\ log \in [1 .. Len(log) -> SubItem]
    BY <1>1
  <2> QED BY <2>1
<1> QED BY <1>1, <1>2

LEMMA SnapshotType ==
    ASSUME TypeInv, Connections, NEW s \in Subscribers, Connected(s)
    PROVE  Snapshot(s) \in SubItem /\ ~IsUpdate(Snapshot(s)) /\ ~ClosesStream(Snapshot(s).event)
<1>1. found[s][1] \in Task
  BY OptionType DEF Connections, SubTypeOK, Connection
<1>2. TaskEvent(found[s][1]) \in Events
  BY <1>1 DEF Events, TaskEvent
<1> QED BY <1>2 DEF Snapshot, SubItem, IsUpdate, TaskEvent, TypeInv, TypeOK, ClosesStream

\* The number a connection asks from.
LEMMA SinceType ==
    ASSUME Connections, NEW s \in Subscribers
    PROVE  /\ Since(s) \in Nat
           /\ delivered[s] # <<>> => /\ Len(delivered[s]) \in DOMAIN delivered[s]
                                     /\ Since(s) = delivered[s][Len(delivered[s])].seq
           /\ delivered[s] = <<>> => Since(s) = 0 /\ Len(delivered[s]) = 0
<1>1. delivered[s] \in Seq(SubItem)
  BY DEF Connections, SubTypeOK
<1>2. CASE delivered[s] = <<>>
  BY <1>2 DEF Since, Fresh
<1>3. CASE delivered[s] # <<>>
  <2>1. Len(delivered[s]) \in DOMAIN delivered[s]
    BY <1>1, <1>3
  <2>2. delivered[s][Len(delivered[s])] \in SubItem
    BY <1>1, <2>1
  <2> QED BY <1>3, <2>1, <2>2 DEF Since, Fresh, SubItem
<1> QED BY <1>2, <1>3

\* What a connection replays.
LEMMA ReplayItems ==
    ASSUME TypeInv, Connections, NEW s \in Subscribers, subject[s] \in Tasks
    PROVE  Replays(Newer(eventLogs[subject[s]], Since(s)), eventLogs[subject[s]], Since(s))
<1>1. eventLogs[subject[s]] \in Seq(Item) /\ Since(s) \in Nat
  BY SinceType DEF TypeInv, TypeOK
<1> QED BY <1>1, NewerItems

LEMMA StepSubTypeOK ==
    ASSUME TypeInv, Connections, NEW s \in Subscribers, SubscriberStep(s)
    PROVE  SubTypeOK'
<1> USE DEF SubTypeOK, Connections, Move, Stages
<1>1. ASSUME NEW t \in Tasks, Connect(s, t) PROVE SubTypeOK'
  <2>1. Get(t) \in Option(Task)
    BY <1>1, OptionType DEF Get, TypeInv, TypeOK, IsMap
  <2>2. Len(delivered[s]) \in Nat
    OBVIOUS
  <2> QED BY <1>1, <2>1, <2>2 DEF Connect
<1>2. ASSUME NEW t \in Tasks, RefuseSubscriber(s, t) PROVE SubTypeOK'
  BY <1>2 DEF RefuseSubscriber
<1>3. CASE FindBus(s)
  <2>1. {buses[t] : t \in DOMAIN buses \cap {subject[s]}} \in SUBSET Turns
    BY DEF TypeInv, TypeOK, IsMap
  <2>2. position' \in [Subscribers -> Nat]
    <3>1. PICK there : there = {buses[t] : t \in DOMAIN buses \cap {subject[s]}}
      OBVIOUS
    <3>2. position' = [position EXCEPT ![s] =
                IF there = {} THEN 0 ELSE Len(sent[CHOOSE b \in there : TRUE])]
      BY <1>3, <3>1 DEF FindBus
    <3>3. there # {} => (CHOOSE b \in there : TRUE) \in Turns
      BY <2>1, <3>1
    <3>4. there # {} => Len(sent[CHOOSE b \in there : TRUE]) \in Nat
      BY <3>3 DEF TypeInv, TypeOK
    <3> QED BY <3>2, <3>4
  <2> QED BY <1>3, <2>1, <2>2 DEF FindBus
<1>4. CASE ReadLog(s)
  <2>1. PICK newer : newer = Newer(eventLogs[subject[s]], Since(s))
    OBVIOUS
  <2>2. subject[s] \in Tasks
    BY <1>4 DEF Connection, ReadLog
  <2>3. newer \in Seq(Item) /\ newer \in Seq(SubItem)
    BY <2>1, <2>2, ReplayItems, ItemsServe DEF Replays
  <2>4. (IF newer = <<>> THEN 0 ELSE newer[Len(newer)].seq) \in Nat
    <3>1. newer # <<>> => newer[Len(newer)] \in Item
      BY <2>3
    <3> QED BY <3>1 DEF Item
  <2>5. /\ queue' = [queue EXCEPT ![s] = newer]
        /\ replayed' = [replayed EXCEPT ![s] = IF newer = <<>> THEN 0 ELSE newer[Len(newer)].seq]
    BY <1>4, <2>1 DEF ReadLog
  <2> QED BY <1>4, <2>3, <2>4, <2>5 DEF ReadLog
<1>5. CASE BeginFresh(s) \/ BeginAgainIdle(s) \/ BeginAgainLive(s)
  <2>1. Connected(s)
    BY <1>5 DEF BeginFresh, BeginAgainIdle, BeginAgainLive, Connected
  <2>2. Snapshot(s) \in SubItem
    BY <2>1, SnapshotType
  <2>3. queue[s] \in Seq(SubItem)
    OBVIOUS
  <2>4. <<Snapshot(s)>> \in Seq(SubItem) /\ <<Snapshot(s)>> \o queue[s] \in Seq(SubItem)
        /\ Append(queue[s], Snapshot(s)) \in Seq(SubItem)
    BY <2>2, <2>3
  <2>5. \/ queue' = [queue EXCEPT ![s] = <<Snapshot(s)>>]
        \/ queue' = [queue EXCEPT ![s] = <<Snapshot(s)>> \o queue[s]]
        \/ queue' = [queue EXCEPT ![s] = Append(queue[s], Snapshot(s))]
        \/ queue' = queue
    BY <1>5 DEF BeginFresh, BeginAgainIdle, BeginAgainLive
  <2>6. queue' \in [Subscribers -> Seq(SubItem)]
    <3> HIDE DEF Connections
    <3>1. queue \in [Subscribers -> Seq(SubItem)]
      BY DEF SubTypeOK, Connections
    <3> QED BY <2>4, <2>5, <3>1
  <2> QED BY <1>5, <2>6 DEF BeginFresh, BeginAgainIdle, BeginAgainLive
<1>6. CASE SendQueued(s)
  <2>1. queue[s] \in Seq(SubItem) /\ queue[s] # <<>> /\ delivered[s] \in Seq(SubItem)
    BY <1>6 DEF SendQueued
  <2>2. Tail(queue[s]) \in Seq(SubItem) /\ Append(delivered[s], Head(queue[s])) \in Seq(SubItem)
    BY <2>1
  <2> QED BY <1>6, <2>2 DEF SendQueued, Deliver
<1>7. CASE SendLive(s)
  <2>1. PICK b \in Turns :
          /\ Live(s, b) /\ position[s] < Len(sent[b])
          /\ LET item == sent[b][position[s] + 1]
             IN IF item.seq <= replayed[s]
                THEN UNCHANGED <<stage, delivered>>
                ELSE Deliver(s, item)
          /\ position' = [position EXCEPT ![s] = @ + 1]
          /\ UNCHANGED <<vars, connects, subject, found, resumed, bus, queue, replayed>>
    BY <1>7 DEF SendLive
  <2>2. PICK x : x = sent[b][position[s] + 1]
    OBVIOUS
  <2>3. x \in SubItem
    <3>1. sent[b] \in Seq(Item) /\ position[s] \in Nat
      BY DEF TypeInv, TypeOK
    <3>2. x \in Item
      BY <2>1, <2>2, <3>1
    <3> QED BY <3>2, ItemsServe
  <2>4. Append(delivered[s], x) \in Seq(SubItem)
    BY <2>3
  <2>5. /\ delivered' = delivered \/ delivered' = [delivered EXCEPT ![s] = Append(@, x)]
        /\ stage' \in [Subscribers -> Stages]
    BY <2>1, <2>2 DEF Deliver
  <2>6. delivered' \in [Subscribers -> Seq(SubItem)]
    BY <2>4, <2>5
  <2>7. position' \in [Subscribers -> Nat]
    BY <2>1
  <2> QED BY <2>1, <2>5, <2>6, <2>7
<1>8. CASE SkipLost(s)
  <2>1. PICK b \in Turns :
          /\ Lagging(s, b)
          /\ position' = [position EXCEPT ![s] = Len(sent[b]) - BusCapacity]
          /\ UNCHANGED <<vars, stage, connects, subject, found, resumed, bus, queue,
                         replayed, delivered>>
    BY <1>8 DEF SkipLost
  <2>2. Len(sent[b]) - BusCapacity \in Nat
    BY <2>1, SubscribeAssumption DEF Lagging, TypeInv, TypeOK
  <2> QED BY <2>1, <2>2
<1>9. CASE EndOfStream(s)
  BY <1>9 DEF EndOfStream
<1>10. CASE Drop(s)
  <2>1. {} \in SUBSET Turns /\ <<>> \in Seq(SubItem) /\ 0 \in Nat
    OBVIOUS
  <2> QED BY <1>10, <2>1 DEF Drop
<1> HIDE DEF SubTypeOK, Connections, Move
<1> QED BY <1>1, <1>2, <1>3, <1>4, <1>5, <1>6, <1>7, <1>8, <1>9, <1>10 DEF SubscriberStep, StreamStep

\* A bus found stays that of its task, and carries no less.
LEMMA BusStays ==
    ASSUME TypeInv, PlacesInv, OneAtATime, NEW w \in Workers, StepOf(w), OneAtATime',
           NEW t \in Tasks, NEW b, Of(b, t)
    PROVE  Of(b, t)' /\ Len(sent[b]) \in Nat /\ Len(sent'[b]) \in Nat /\ Len(sent[b]) <= Len(sent'[b])
<1>1. b \in Turns /\ b \in Workers /\ taskOf[b] = t
  BY DEF Of, Workers
<1>2. taskOf'[b] = t
  BY <1>1, TaskStays
<1>3. pc'[b] # "idle"
  BY <1>1, <1>2, EngineAssumption DEF OneAtATime
<1>4. TypeInv'
  BY StepNext, NextTypeInv
<1>5. sent[b] \in Seq(Item) /\ sent'[b] \in Seq(Item)
  BY <1>1, <1>4 DEF TypeInv, TypeOK
<1>6. Len(sent[b]) <= Len(sent'[b])
  <2>1. CASE Len(sent[b]) = 0
    BY <1>5, <2>1
  <2>2. CASE Len(sent[b]) # 0
    <3>1. Len(sent[b]) \in DOMAIN sent[b]
      BY <1>5, <2>2
    <3>2. Len(sent[b]) \in DOMAIN sent'[b]
      BY <1>1, <3>1, SentGrows, StepNext
    <3> QED BY <1>5, <3>2
  <2> QED BY <2>1, <2>2
<1> QED BY <1>1, <1>2, <1>3, <1>5, <1>6 DEF Of

LEMMA EngineConnections ==
    ASSUME Engine, Engine', Connections, NEW w \in Workers, StepOf(w), UNCHANGED subVars
    PROVE  Connections'
<1>1. SubTypeOK'
  BY DEF Connections, SubTypeOK, subVars
<1>2. ASSUME NEW s \in Subscribers PROVE Connection(s)'
  <2>1. SameStream(s)
    BY DEF SameStream, subVars
  <2>2. Connection(s)
    BY DEF Connections
  <2>3. ASSUME NEW b \in bus[s]
        PROVE  bus[s] = {b} /\ Of(b, subject[s])' /\ position[s] <= Len(sent'[b])
    <3>1. Of(b, subject[s]) /\ position[s] <= Len(sent[b]) /\ bus[s] = {b}
      BY <2>2, <2>3 DEF Connection
    <3>2. subject[s] \in Tasks
      BY <2>2, <2>3 DEF Connection
    <3>3. Of(b, subject[s])' /\ Len(sent[b]) \in Nat /\ Len(sent'[b]) \in Nat /\ Len(sent[b]) <= Len(sent'[b])
      <4>1. PICK t : t = subject[s]
        OBVIOUS
      <4>2. Of(b, t)' /\ Len(sent[b]) \in Nat /\ Len(sent'[b]) \in Nat /\ Len(sent[b]) <= Len(sent'[b])
        BY <3>1, <3>2, <4>1, BusStays DEF Engine
      <4> QED BY <2>1, <4>1, <4>2 DEF SameStream, Of
    <3>4. position[s] \in Nat
      BY DEF Connections, SubTypeOK
    <3> QED BY <3>1, <3>3, <3>4
  <2> QED BY <2>1, <2>2, <2>3 DEF Connection, SameStream, Connected, Of
<1> QED BY <1>1, <1>2 DEF Connections

LEMMA OtherConnection ==
    ASSUME NEW u \in Subscribers, Connection(u), SameStream(u), SameEngine
    PROVE  Connection(u)'
BY DEF Connection, SameStream, SameEngine, Connected, Of

LEMMA StepConnections ==
    ASSUME Engine, Connections, NEW s \in Subscribers, SubscriberStep(s)
    PROVE  Connections'
<1>1. TypeInv /\ SubTypeOK /\ Connection(s)
  BY DEF Engine, Connections
<1>2. SubTypeOK'
  BY <1>1, StepSubTypeOK
<1>3. SameEngine /\ \A u \in Subscribers \ {s} : SameStream(u)
  BY <1>1, OneStream
<1>4. \A u \in Subscribers \ {s} : Connection(u)'
  BY <1>3, OtherConnection DEF Connections
<1>5. delivered[s] \in Seq(SubItem) /\ Len(delivered[s]) \in Nat /\ position[s] \in Nat
  BY <1>1 DEF SubTypeOK
<1>6. Connection(s)'
  <2> USE DEF Connection, Connected
  <2>0. /\ \A b : Of(b, subject[s])' <=> b \in Turns /\ pc[b] # "idle" /\ taskOf[b] = subject'[s]
        /\ \A b : Of(b, subject[s]) <=> b \in Turns /\ pc[b] # "idle" /\ taskOf[b] = subject[s]
        /\ sent' = sent
    BY <1>3 DEF Of, SameEngine
  <2>1. ASSUME NEW t \in Tasks, Connect(s, t) PROVE Connection(s)'
    <3>1. stage[s] \in {"idle", "dropped"}
      BY <1>1, <2>1, ConnectAt
    <3>2. bus[s] = {} /\ queue[s] = <<>> /\ replayed[s] = 0
      BY <1>1, <3>1
    <3>3. /\ stage'[s] = "findBus" /\ subject'[s] = t /\ found'[s] = <<store[t]>>
          /\ resumed'[s] = resumed[s] \cup {Len(delivered[s])}
          /\ bus'[s] = {} /\ queue'[s] = <<>> /\ replayed'[s] = 0 /\ delivered'[s] = delivered[s]
      BY <1>1, <2>1, <3>2, ConnectAt
    <3>4. resumed'[s] \subseteq 0 .. Len(delivered'[s]) /\ Len(delivered'[s]) \in resumed'[s]
      BY <1>1, <1>5, <3>3
    <3>5. found'[s] # <<>>
      BY <3>3
    <3> QED BY <2>1, <3>3, <3>4, <3>5
  <2>2. ASSUME NEW t \in Tasks, RefuseSubscriber(s, t) PROVE Connection(s)'
    <3>1. stage[s] \in {"idle", "dropped"}
      BY <2>2 DEF RefuseSubscriber
    <3>2. bus[s] = {}
      BY <1>1, <3>1
    <3> QED BY <1>1, <2>2, <3>2, RefuseAt
  <2>3. CASE FindBus(s)
    <3>1. /\ stage[s] = "findBus" /\ stage'[s] = "readLog"
          /\ bus'[s] = {buses[t] : t \in DOMAIN buses \cap {subject[s]}}
          /\ \A b : bus'[s] = {b} => position'[s] = Len(sent[b])
          /\ subject'[s] = subject[s] /\ found'[s] = found[s] /\ resumed'[s] = resumed[s]
          /\ queue'[s] = queue[s] /\ replayed'[s] = replayed[s]
          /\ delivered'[s] = delivered[s]
      BY <1>1, <2>3, FindBusAt
    <3>2. ASSUME NEW b \in bus'[s]
          PROVE  bus'[s] = {b} /\ Of(b, subject[s])' /\ position'[s] <= Len(sent'[b])
      <4>1. subject[s] \in DOMAIN buses /\ b = buses[subject[s]] /\ bus'[s] = {b}
        BY <3>1, <3>2
      <4>2. Of(b, subject[s])
        BY <4>1 DEF Engine, SentInv
      <4>3. position'[s] = Len(sent[b]) /\ Len(sent[b]) \in Nat
        <5>1. b \in Turns
          BY <4>2 DEF Of
        <5>2. sent[b] \in Seq(Item)
          BY <1>1, <5>1 DEF TypeInv, TypeOK
        <5> QED BY <3>1, <4>1, <5>2
      <4> QED BY <2>0, <3>1, <4>1, <4>2, <4>3
    <3> QED BY <1>1, <3>1, <3>2
  <2>4. CASE ReadLog(s)
    BY <1>1, <2>0, <2>4, ReadLogAt
  <2>5. CASE BeginFresh(s) \/ BeginAgainIdle(s) \/ BeginAgainLive(s)
    <3>1. /\ stage[s] = "takeSeq" /\ stage'[s] = "streaming"
          /\ subject'[s] = subject[s] /\ found'[s] = found[s] /\ resumed'[s] = resumed[s]
          /\ bus'[s] = bus[s] /\ position'[s] = position[s]
          /\ replayed'[s] = replayed[s] /\ delivered'[s] = delivered[s]
      BY <1>1, <2>5, BeginAt
    <3> QED BY <1>1, <2>0, <3>1
  <2>6. CASE SendQueued(s)
    <3>1. /\ stage[s] = "streaming" /\ stage'[s] \in {"streaming", "ended"}
          /\ subject'[s] = subject[s] /\ found'[s] = found[s] /\ resumed'[s] = resumed[s]
          /\ bus'[s] = bus[s] /\ position'[s] = position[s]
          /\ delivered'[s] = Append(delivered[s], Head(queue[s]))
      BY <1>1, <2>6, SendQueuedAt
    <3>2. Len(delivered'[s]) = Len(delivered[s]) + 1
      BY <1>5, <3>1
    <3>3. resumed'[s] \subseteq 0 .. Len(delivered'[s])
      BY <1>1, <1>5, <3>1, <3>2
    <3> QED BY <1>1, <2>0, <3>1, <3>3
  <2>7. CASE SendLive(s)
    <3>1. PICK b \in bus[s] : \E x :
           /\ position[s] + 1 \in 1 .. Len(sent[b]) /\ x = sent[b][position[s] + 1]
           /\ stage[s] = "streaming"
           /\ position'[s] = position[s] + 1
           /\ \/ delivered'[s] = delivered[s] /\ stage'[s] = "streaming"
              \/ /\ delivered'[s] = Append(delivered[s], x)
                 /\ stage'[s] \in {"streaming", "ended"}
           /\ subject'[s] = subject[s] /\ found'[s] = found[s] /\ resumed'[s] = resumed[s]
           /\ bus'[s] = bus[s]
      BY <1>1, <2>7, SendLiveAt
    <3>2. Len(delivered'[s]) = Len(delivered[s]) + 1 \/ Len(delivered'[s]) = Len(delivered[s])
      BY <1>5, <3>1
    <3>3. resumed'[s] \subseteq 0 .. Len(delivered'[s])
      BY <1>1, <1>5, <3>1, <3>2
    <3>4. position'[s] <= Len(sent[b]) /\ bus[s] = {b}
      BY <1>1, <1>5, <3>1
    <3> QED BY <1>1, <2>0, <3>1, <3>3, <3>4
  <2>8. CASE SkipLost(s)
    <3>1. PICK b \in bus[s] :
           /\ stage[s] = "streaming" /\ position'[s] = Len(sent[b]) - BusCapacity
           /\ stage'[s] = stage[s] /\ subject'[s] = subject[s] /\ found'[s] = found[s]
           /\ resumed'[s] = resumed[s] /\ bus'[s] = bus[s]
           /\ delivered'[s] = delivered[s]
      BY <1>1, <2>8, SkipLostAt
    <3>2. bus[s] = {b} /\ Len(sent[b]) \in Nat
      BY <1>1, <3>1 DEF TypeInv, TypeOK, SubTypeOK
    <3>3. position'[s] <= Len(sent[b])
      BY <3>1, <3>2, SubscribeAssumption
    <3> QED BY <1>1, <2>0, <3>1, <3>2, <3>3
  <2>9. CASE EndOfStream(s)
    BY <1>1, <2>0, <2>9, EndAt
  <2>10. CASE Drop(s)
    BY <1>1, <2>0, <2>10, DropAt
  <2> HIDE DEF Connection, Connected
  <2> QED BY <2>1, <2>2, <2>3, <2>4, <2>5, <2>6, <2>7, <2>8, <2>9, <2>10
          DEF SubscriberStep, StreamStep
<1> QED BY <1>2, <1>4, <1>6 DEF Connections

-----------------------------------------------------------------------------
(***************************************************************************)
(* What a client has been sent, and what it will be, is in the order of    *)
(* the numbers, but for an item it returned with.  A queue is a part of    *)
(* the log above what the client has; and what comes on the bus, now or    *)
(* once it is sent, is above `replayed' or is not in the queue.            *)
(***************************************************************************)
InOrderTo(s) ==
    /\ \A i, j \in Updates(s) : i < j =>
          \/ delivered[s][i].seq < delivered[s][j].seq
          \/ delivered[s][i].seq = delivered[s][j].seq /\ i \in resumed[s]
    /\ \A i \in Updates(s) : UpTo(delivered[s][i], subject[s])

QueueInOrder(s) ==
    /\ \A i, j \in DOMAIN queue[s] :
          i < j /\ IsUpdate(queue[s][i]) /\ IsUpdate(queue[s][j]) =>
              queue[s][i].seq < queue[s][j].seq
    /\ \A i \in DOMAIN queue[s] : IsUpdate(queue[s][i]) =>
          /\ queue[s][i].seq <= replayed[s]
          /\ UpTo(queue[s][i], subject[s])
          /\ \A m \in Updates(s) : delivered[s][m].seq < queue[s][i].seq
    /\ replayed[s] # 0 => /\ eventLogs[subject[s]] # <<>>
                          /\ replayed[s] <= eventLogs[subject[s]][Len(eventLogs[subject[s]])].seq

\* x comes after what the client has, or is what it returned with.
After(s, x) ==
    \A m \in Updates(s) :
        \/ delivered[s][m].seq < x.seq
        \/ delivered[s][m].seq = x.seq /\ m \in resumed[s]

LiveInOrder(s) ==
    /\ \A b \in bus[s] : \A i \in DOMAIN sent[b] :
          i > position[s] /\ IsUpdate(sent[b][i]) /\ sent[b][i].seq > replayed[s] =>
              After(s, sent[b][i])
    /\ \A w \in Workers :
          Logged(w) /\ taskOf[w] = subject[s] /\ seq[w] > replayed[s] => After(s, Held(w))

InStream(s) == InOrderTo(s) /\ (Connected(s) => QueueInOrder(s) /\ LiveInOrder(s))

StreamInv == \A s \in Subscribers : FromEvents(s) => InStream(s)

-----------------------------------------------------------------------------
LEMMA DeliveredType ==
    ASSUME Connections, NEW s \in Subscribers
    PROVE  /\ delivered[s] \in Seq(SubItem) /\ Len(delivered[s]) \in Nat
           /\ DOMAIN delivered[s] = 1 .. Len(delivered[s])
           /\ \A m \in Updates(s) : /\ m \in 1 .. Len(delivered[s])
                                    /\ delivered[s][m] \in SubItem
                                    /\ delivered[s][m].seq \in Nat
                                    /\ IsUpdate(delivered[s][m])
           /\ Updates(s) # {} => subject[s] \in Tasks
<1>1. delivered[s] \in Seq(SubItem) /\ Connection(s)
  BY DEF Connections, SubTypeOK
<1>2. Updates(s) # {} => delivered[s] # <<>>
  BY DEF Updates
<1>3. Len(delivered[s]) \in Nat /\ DOMAIN delivered[s] = 1 .. Len(delivered[s])
  BY <1>1
<1>4. ASSUME NEW m \in Updates(s)
      PROVE  /\ m \in 1 .. Len(delivered[s])
             /\ delivered[s][m] \in SubItem /\ delivered[s][m].seq \in Nat
             /\ IsUpdate(delivered[s][m])
  <2>1. m \in DOMAIN delivered[s] /\ IsUpdate(delivered[s][m])
    BY <1>4 DEF Updates, IsUpdate
  <2>2. delivered[s][m] \in SubItem
    BY <1>1, <2>1
  <2> QED BY <1>3, <2>1, <2>2 DEF SubItem
<1>5. Updates(s) # {} => subject[s] \in Tasks
  BY <1>1, <1>2 DEF Connection
<1> QED BY <1>1, <1>3, <1>4, <1>5

LEMMA SameUpdates ==
    ASSUME NEW s, delivered'[s] = delivered[s]
    PROVE  Updates(s)' = Updates(s)
BY DEF Updates

LEMMA MoreUpdates ==
    ASSUME Connections, NEW s \in Subscribers, NEW x, delivered'[s] = Append(delivered[s], x)
    PROVE  /\ \A m \in Updates(s)' :
                 \/ m \in Updates(s) /\ delivered'[s][m] = delivered[s][m]
                 \/ m = Len(delivered[s]) + 1 /\ IsUpdate(x) /\ delivered'[s][m] = x
           /\ \A m \in Updates(s) : m \in Updates(s)' /\ delivered'[s][m] = delivered[s][m]
           /\ IsUpdate(x) => Len(delivered[s]) + 1 \in Updates(s)'
<1>1. PICK had, has, n : had = delivered[s] /\ has = delivered'[s] /\ n = Len(delivered[s])
  OBVIOUS
<1>2. had \in Seq(SubItem) /\ n \in Nat /\ n = Len(had) /\ has = Append(had, x)
  BY <1>1, DeliveredType
<1>3. /\ DOMAIN had = 1 .. n /\ DOMAIN has = 1 .. n + 1 /\ has[n + 1] = x
      /\ \A m \in 1 .. n : has[m] = had[m]
  BY <1>2
<1>4. \A m \in 1 .. n + 1 : m \in 1 .. n \/ m = n + 1
  BY <1>2
<1>5. n + 1 \in 1 .. n + 1 /\ \A m \in 1 .. n : m \in 1 .. n + 1
  BY <1>2
<1>6. Updates(s) = {m \in DOMAIN had : IsUpdate(had[m])}
  BY <1>1 DEF Updates, IsUpdate
<1>7. Updates(s)' = {m \in DOMAIN has : IsUpdate(has[m])}
  BY <1>1 DEF Updates, IsUpdate
<1>8. \A m \in Updates(s)' : (m \in Updates(s) /\ has[m] = had[m])
                              \/ (m = n + 1 /\ IsUpdate(x) /\ has[m] = x)
  BY <1>3, <1>4, <1>6, <1>7
<1>9. \A m \in Updates(s) : m \in Updates(s)' /\ has[m] = had[m]
  BY <1>3, <1>5, <1>6, <1>7
<1>10. IsUpdate(x) => n + 1 \in Updates(s)'
  BY <1>3, <1>5, <1>7
<1> QED BY <1>1, <1>8, <1>9, <1>10

\* A step of a subscriber sends its client one item or none.
LEMMA DeliversOne ==
    ASSUME SubTypeOK, NEW s \in Subscribers, SubscriberStep(s)
    PROVE  /\ delivered'[s] = delivered[s] \/ \E x : delivered'[s] = Append(delivered[s], x)
           /\ resumed[s] \subseteq resumed'[s]
<1>1. ASSUME NEW t \in Tasks, Connect(s, t) \/ RefuseSubscriber(s, t)
      PROVE  delivered'[s] = delivered[s] /\ resumed[s] \subseteq resumed'[s]
  BY <1>1, ConnectAt, RefuseAt
<1>2. CASE FindBus(s)
  BY <1>2, FindBusAt
<1>3. CASE ReadLog(s)
  BY <1>3, ReadLogAt
<1>4. CASE BeginFresh(s) \/ BeginAgainIdle(s) \/ BeginAgainLive(s)
  BY <1>4, BeginAt
<1>5. CASE SendQueued(s)
  BY <1>5, SendQueuedAt
<1>6. CASE SendLive(s)
  BY <1>6, SendLiveAt
<1>7. CASE SkipLost(s)
  BY <1>7, SkipLostAt
<1>8. CASE EndOfStream(s)
  BY <1>8, EndAt
<1>9. CASE Drop(s)
  BY <1>9, DropAt
<1> QED BY <1>1, <1>2, <1>3, <1>4, <1>5, <1>6, <1>7, <1>8, <1>9 DEF SubscriberStep, StreamStep

\* Where a connection began does not change.
LEMMA BeganSo ==
    ASSUME Connections, NEW s \in Subscribers, SubscriberStep(s), FromEvents(s)'
    PROVE  FromEvents(s)
<1>1. Connection(s) /\ SubTypeOK
  BY DEF Connections
<1>2. resumed[s] \subseteq resumed'[s]
  BY <1>1, DeliversOne
<1> SUFFICES ASSUME NEW m \in resumed[s], m # 0 PROVE m \in Updates(s)
  BY DEF FromEvents
<1>3. m \in Updates(s)' /\ m \in 0 .. Len(delivered[s])
  BY <1>1, <1>2 DEF FromEvents, Connection
<1>4. CASE delivered'[s] = delivered[s]
  BY <1>3, <1>4, SameUpdates
<1>5. ASSUME NEW x, delivered'[s] = Append(delivered[s], x) PROVE m \in Updates(s)
  <2>1. m # Len(delivered[s]) + 1
    BY <1>3, DeliveredType
  <2> QED BY <1>3, <1>5, <2>1, MoreUpdates
<1> QED BY <1>1, <1>4, <1>5, DeliversOne

\* One that returns with an event has had none that is later.
LEMMA SinceIsLast ==
    ASSUME Connections, NEW s \in Subscribers, InOrderTo(s), Len(delivered[s]) \in Updates(s) \cup {0}
    PROVE  \A m \in Updates(s) : /\ delivered[s][m].seq <= Since(s)
                                 /\ m = Len(delivered[s]) \/ delivered[s][m].seq < Since(s)
                                       \/ m \in resumed[s]
<1> SUFFICES ASSUME NEW m \in Updates(s)
             PROVE  /\ delivered[s][m].seq <= Since(s)
                    /\ m = Len(delivered[s]) \/ delivered[s][m].seq < Since(s) \/ m \in resumed[s]
  OBVIOUS
<1>1. m \in 1 .. Len(delivered[s]) /\ Len(delivered[s]) \in Nat /\ delivered[s][m].seq \in Nat
  BY DeliveredType
<1>2. delivered[s] # <<>> /\ Len(delivered[s]) # 0
  BY <1>1, DeliveredType
<1>3. Since(s) = delivered[s][Len(delivered[s])].seq /\ Since(s) \in Nat
  BY <1>2, SinceType
<1>4. CASE m = Len(delivered[s])
  BY <1>1, <1>3, <1>4
<1>5. CASE m < Len(delivered[s])
  <2>1. Len(delivered[s]) \in Updates(s)
    BY <1>2
  <2>2. \/ delivered[s][m].seq < delivered[s][Len(delivered[s])].seq
        \/ delivered[s][m].seq = delivered[s][Len(delivered[s])].seq /\ m \in resumed[s]
    BY <1>5, <2>1 DEF InOrderTo
  <2> QED BY <1>1, <1>3, <2>2
<1> QED BY <1>1, <1>4, <1>5

LEMMA SameInOrderTo ==
    ASSUME NEW s, InOrderTo(s), delivered'[s] = delivered[s], resumed[s] \subseteq resumed'[s],
           Updates(s) # {} => subject'[s] = subject[s], eventLogs' = eventLogs
    PROVE  InOrderTo(s)'
BY SameUpdates DEF InOrderTo, UpTo

LEMMA MoreInOrderTo ==
    ASSUME Connections, NEW s \in Subscribers, InOrderTo(s), NEW x,
           delivered'[s] = Append(delivered[s], x), resumed'[s] = resumed[s],
           subject'[s] = subject[s], eventLogs' = eventLogs,
           IsUpdate(x) => After(s, x) /\ UpTo(x, subject[s])
    PROVE  InOrderTo(s)'
<1>1. /\ \A m \in Updates(s)' :
            \/ m \in Updates(s) /\ delivered'[s][m] = delivered[s][m]
            \/ m = Len(delivered[s]) + 1 /\ IsUpdate(x) /\ delivered'[s][m] = x
  BY MoreUpdates
<1>2. \A m \in Updates(s) : m \in 1 .. Len(delivered[s]) /\ Len(delivered[s]) \in Nat
  BY DeliveredType
<1>3. ASSUME NEW i \in Updates(s)', NEW j \in Updates(s)', i < j
      PROVE  \/ delivered'[s][i].seq < delivered'[s][j].seq
             \/ delivered'[s][i].seq = delivered'[s][j].seq /\ i \in resumed'[s]
  <2>1. i \in Updates(s) /\ delivered'[s][i] = delivered[s][i]
    <3>1. CASE i = Len(delivered[s]) + 1
      <4>1. Len(delivered[s]) \in Nat
        BY DeliveredType
      <4> QED BY <1>1, <1>2, <1>3, <3>1, <4>1
    <3> QED BY <1>1, <3>1
  <2>2. CASE j \in Updates(s) /\ delivered'[s][j] = delivered[s][j]
    BY <1>3, <2>1, <2>2 DEF InOrderTo
  <2>3. CASE IsUpdate(x) /\ delivered'[s][j] = x
    BY <2>1, <2>3 DEF After
  <2> QED BY <1>1, <2>2, <2>3
<1>4. ASSUME NEW i \in Updates(s)' PROVE UpTo(delivered'[s][i], subject[s])
  BY <1>1 DEF InOrderTo
<1>5. \A i \in Updates(s)' : UpTo(delivered[s][i], subject[s])'
  BY <1>4 DEF UpTo
<1> QED BY <1>3, <1>5 DEF InOrderTo

\* What a worker holds and has logged, it held and had logged, or logs now.
LEMMA LoggedFrom ==
    ASSUME TypeInv, PlacesInv, NEW w \in Workers, StepOf(w), NEW v \in Workers, Logged(v)'
    PROVE  \/ Logged(v) /\ seq'[v] = seq[v] /\ event'[v] = event[v]
           \/ AppendLog(w) /\ v = w
<1>1. CASE v # w
  BY <1>1, StepsAlone DEF StepOf, Alone, Logged
<1>2. CASE v = w /\ ~AppendLog(w)
  <2>1. ~SendEvent(w) /\ ~TakeSeq(w) /\ ~(w \in Turns /\ (SendLead(w) \/ TakeLeadSeq(w)))
    BY <1>2 DEF SendEvent, AfterSend, TakeSeq, SendLead, TakeLeadSeq, Logged, TypeInv, TypeOK
  <2>2. Still(w)
    BY <1>2, <2>1, StepKinds
  <2> QED BY <1>2, <2>2 DEF Still, Logged, Numbered
<1> QED BY <1>1, <1>2

LEMMA LastType ==
    ASSUME NEW log \in Seq(Item), log # <<>>
    PROVE  /\ Len(log) \in DOMAIN log /\ log[Len(log)] \in Item
           /\ log[Len(log)].seq \in Nat
<1>1. Len(log) \in DOMAIN log
  OBVIOUS
<1>2. log[Len(log)] \in Item
  BY <1>1
<1> QED BY <1>1, <1>2 DEF Item

\* A step of the engine: what comes on the bus is what was held, and what is
\* held now is the last of the log.
LEMMA EngineStream ==
    ASSUME Engine, Engine', Connections, NEW w \in Workers, StepOf(w), UNCHANGED subVars,
           NEW s \in Subscribers, InStream(s)
    PROVE  InStream(s)'
<1> USE DEF Engine
<1>1. SameStream(s) /\ Updates(s)' = Updates(s) /\ (Connected(s)' <=> Connected(s))
  BY SameUpdates DEF SameStream, subVars, Connected
<1>2. PICK t : t = subject[s]
  OBVIOUS
<1>3. Connection(s) /\ subject'[s] = t
  BY <1>1, <1>2 DEF Connections, SameStream
<1>4. InOrderTo(s)'
  <2>1. ASSUME NEW i \in Updates(s) PROVE UpTo(delivered[s][i], subject[s])'
    <3>1. PICK x : x = delivered[s][i]
      OBVIOUS
    <3>2. x.seq \in Nat /\ t \in Tasks
      BY <1>2, <3>1, DeliveredType
    <3>3. UpTo(x, t)
      BY <1>2, <3>1 DEF InStream, InOrderTo
    <3>4. UpTo(x, t)'
      BY <3>2, <3>3, UpToGrows
    <3> QED BY <1>1, <1>3, <3>1, <3>4 DEF SameStream, UpTo
  <2> QED BY <1>1, <2>1 DEF InStream, InOrderTo, SameStream
<1>5. ASSUME Connected(s) PROVE QueueInOrder(s)' /\ LiveInOrder(s)'
  <2>1. t \in Tasks
    BY <1>2, <1>3, <1>5 DEF Connection, Connected
  <2>2. QueueInOrder(s) /\ LiveInOrder(s) /\ InOrderTo(s)
    BY <1>5 DEF InStream
  <2>3. ASSUME NEW i \in DOMAIN queue[s], IsUpdate(queue[s][i]) PROVE UpTo(queue[s][i], subject[s])'
    <3>1. PICK x : x = queue[s][i]
      OBVIOUS
    <3>2. x \in SubItem /\ x.seq \in Nat
      <4>1. queue[s] \in Seq(SubItem)
        BY DEF Connections, SubTypeOK
      <4>2. x \in SubItem
        BY <2>3, <3>1, <4>1
      <4> QED BY <4>2 DEF SubItem
    <3>3. UpTo(x, t)
      BY <1>2, <2>2, <2>3, <3>1 DEF QueueInOrder
    <3>4. UpTo(x, t)'
      BY <2>1, <3>2, <3>3, UpToGrows
    <3> QED BY <1>1, <1>3, <3>1, <3>4 DEF SameStream, UpTo
  <2>4. ASSUME replayed[s] # 0
        PROVE  /\ eventLogs'[t] # <<>>
               /\ replayed[s] <= eventLogs'[t][Len(eventLogs'[t])].seq
    <3>1. eventLogs[t] # <<>> /\ replayed[s] <= eventLogs[t][Len(eventLogs[t])].seq
      BY <1>2, <2>2, <2>4 DEF QueueInOrder
    <3>2. PICK x : x = eventLogs[t][Len(eventLogs[t])]
      OBVIOUS
    <3>3. eventLogs[t] \in Seq(Item) /\ eventLogs'[t] \in Seq(Item)
      BY <2>1 DEF TypeInv, TypeOK
    <3>4. x \in Item /\ x.seq \in Nat
      BY <3>1, <3>2, <3>3, LastType
    <3>5. UpTo(x, t)
      BY <3>1, <3>2 DEF UpTo
    <3>6. UpTo(x, t)'
      BY <2>1, <3>4, <3>5, UpToGrows
    <3>7. PICK y : y = eventLogs'[t][Len(eventLogs'[t])]
      OBVIOUS
    <3>8. eventLogs'[t] # <<>> /\ (x = y \/ x.seq < y.seq)
      BY <3>6, <3>7 DEF UpTo
    <3>9. y \in Item /\ y.seq \in Nat
      BY <3>3, <3>7, <3>8, LastType
    <3>10. replayed[s] \in Nat
      BY DEF Connections, SubTypeOK
    <3> QED BY <3>1, <3>2, <3>4, <3>7, <3>8, <3>9, <3>10
  <2>5. QueueInOrder(s)'
    BY <1>1, <1>3, <2>2, <2>3, <2>4 DEF QueueInOrder, SameStream
  <2>6. \A x : After(s, x) => After(s, x)'
    BY <1>1 DEF After, SameStream
  <2>7. ASSUME NEW b \in bus[s], NEW i \in DOMAIN sent'[b],
               i > position[s], IsUpdate(sent'[b][i]), sent'[b][i].seq > replayed[s]
        PROVE  After(s, sent'[b][i])
    <3>1. b \in Turns /\ taskOf[b] = t /\ position[s] \in Nat
      BY <1>2, <1>3 DEF Connection, Of, Connections, SubTypeOK
    <3>2. CASE i \in DOMAIN sent[b] /\ sent'[b][i] = sent[b][i]
      BY <2>2, <2>7, <3>2 DEF LiveInOrder
    <3>3. CASE Logged(w) /\ sent'[b][i] = Held(w) /\ taskOf[b] = taskOf[w] /\ sent'[b][i].seq = seq[w]
      BY <1>2, <2>2, <2>7, <3>1, <3>3 DEF LiveInOrder
    <3> QED BY <2>7, <3>1, <3>2, <3>3, BusAfter
  <2>8. ASSUME NEW v \in Workers, Logged(v)', taskOf'[v] = t, seq'[v] > replayed[s]
        PROVE  After(s, Held(v)')
    <3>1. CASE Logged(v) /\ seq'[v] = seq[v] /\ event'[v] = event[v]
      <4>1. taskOf[v] = t
        BY <2>8, <3>1, TaskStays DEF Logged
      <4>2. Held(v)' = Held(v)
        BY <3>1 DEF Held
      <4>3. seq[v] > replayed[s]
        BY <2>8, <3>1
      <4>4. After(s, Held(v))
        BY <1>2, <2>2, <3>1, <4>1, <4>3 DEF LiveInOrder
      <4> QED BY <4>2, <4>4
    <3>2. CASE AppendLog(w) /\ v = w
      <4>1. PICK log, n : log = eventLogs[t] /\ n = seq[w]
        OBVIOUS
      <4>2. taskOf[w] = t /\ Below(log, n) /\ log \in Seq(Item) /\ seq' = seq /\ event' = event
        <5>1. taskOf' = taskOf
          BY <3>2 DEF AppendLog
        <5>2. taskOf[w] = t
          BY <2>8, <3>2, <5>1
        <5> QED BY <3>2, <4>1, <5>2, AppendTo
      <4>3. ASSUME NEW m \in Updates(s) PROVE delivered[s][m].seq < n
        <5>1. PICK x : x = delivered[s][m]
          OBVIOUS
        <5>2. x.seq \in Nat /\ n \in Nat
          BY <4>1, <5>1, DeliveredType DEF TypeInv, TypeOK
        <5>3. UpTo(x, t)
          BY <1>2, <2>2, <5>1 DEF InOrderTo
        <5>4. PICK y : y = log[Len(log)]
          OBVIOUS
        <5>5. log # <<>> /\ (x = y \/ x.seq < y.seq)
          BY <4>1, <5>3, <5>4 DEF UpTo
        <5>6. Len(log) \in DOMAIN log
          BY <4>2, <5>5
        <5>7. y.seq < n /\ y.seq \in Nat
          BY <4>2, <5>4, <5>5, <5>6, LastType DEF Below
        <5> QED BY <5>1, <5>2, <5>5, <5>7
      <4>4. Held(v)'.seq = n
        BY <3>2, <4>1, <4>2 DEF Held
      <4> QED BY <4>3, <4>4 DEF After
    <3> QED BY <2>8, <3>1, <3>2, LoggedFrom
  <2>9. LiveInOrder(s)'
    BY <1>1, <1>3, <2>6, <2>7, <2>8 DEF LiveInOrder, SameStream
  <2> QED BY <2>5, <2>9
<1> QED BY <1>1, <1>4, <1>5 DEF InStream

LEMMA OtherStream ==
    ASSUME NEW u \in Subscribers, InStream(u), SameStream(u), SameEngine
    PROVE  InStream(u)'
<1>1. Updates(u)' = Updates(u) /\ (Connected(u)' <=> Connected(u))
  BY SameUpdates DEF SameStream, Connected
<1>2. /\ \A x, t : UpTo(x, t)' <=> UpTo(x, t)
      /\ \A x : After(u, x)' <=> After(u, x)
      /\ \A w \in Workers : (Logged(w)' <=> Logged(w)) /\ Held(w)' = Held(w)
  BY <1>1 DEF UpTo, After, Logged, Held, SameStream, SameEngine
<1>3. InOrderTo(u) => InOrderTo(u)'
  BY <1>1 DEF InOrderTo, UpTo, SameStream, SameEngine
<1>4. QueueInOrder(u) => QueueInOrder(u)'
  BY <1>1 DEF QueueInOrder, UpTo, SameStream, SameEngine
<1>5. LiveInOrder(u) => LiveInOrder(u)'
  <2> SUFFICES ASSUME LiveInOrder(u) PROVE LiveInOrder(u)'
    OBVIOUS
  <2>1. /\ bus'[u] = bus[u] /\ position'[u] = position[u] /\ replayed'[u] = replayed[u]
        /\ subject'[u] = subject[u] /\ sent' = sent /\ seq' = seq /\ taskOf' = taskOf
    BY DEF SameStream, SameEngine
  <2>2. ASSUME NEW b \in bus[u], NEW i \in DOMAIN sent[b],
               i > position[u], IsUpdate(sent[b][i]), sent[b][i].seq > replayed[u]
        PROVE  After(u, sent[b][i])'
    <3>1. After(u, sent[b][i])
      BY <2>2 DEF LiveInOrder
    <3> QED BY <1>1, <2>1, <3>1 DEF After, SameStream
  <2>3. ASSUME NEW w \in Workers, Logged(w), taskOf[w] = subject[u], seq[w] > replayed[u]
        PROVE  After(u, Held(w))'
    <3>1. After(u, Held(w))
      BY <2>3 DEF LiveInOrder
    <3> QED BY <1>1, <1>2, <3>1 DEF After, SameStream
  <2> QED BY <1>2, <2>1, <2>2, <2>3 DEF LiveInOrder
<1> QED BY <1>1, <1>3, <1>4, <1>5 DEF InStream

\* A step that sends nothing, and moves ahead on the bus if at all.
LEMMA StageStream ==
    ASSUME TypeInv, Connections, NEW s \in Subscribers, InStream(s), Connected(s), SameEngine,
           delivered'[s] = delivered[s], resumed'[s] = resumed[s],
           subject'[s] = subject[s], replayed'[s] = replayed[s], bus'[s] = bus[s],
           position'[s] \in Nat, position'[s] >= position[s]
    PROVE  /\ InOrderTo(s)' /\ LiveInOrder(s)'
           /\ queue'[s] = queue[s] => InStream(s)'
<1>1. Updates(s)' = Updates(s)
  BY SameUpdates
<1>2. InOrderTo(s)' /\ (queue'[s] = queue[s] => QueueInOrder(s)')
  BY <1>1 DEF InStream, InOrderTo, QueueInOrder, UpTo, SameEngine
<1>3. LiveInOrder(s)'
  <2>1. /\ sent' = sent /\ seq' = seq /\ taskOf' = taskOf
        /\ \A w \in Workers : (Logged(w)' <=> Logged(w)) /\ Held(w)' = Held(w)
    BY DEF SameEngine, Logged, Held
  <2>2. \A x : After(s, x) => After(s, x)'
    BY <1>1 DEF After
  <2>3. position[s] \in Nat
    BY DEF Connections, SubTypeOK
  <2>4. ASSUME NEW b \in bus[s], NEW i \in DOMAIN sent[b], i \in Nat,
               i > position'[s], IsUpdate(sent[b][i]), sent[b][i].seq > replayed[s]
        PROVE  After(s, sent[b][i])'
    <3>1. i > position[s]
      BY <2>3, <2>4
    <3>2. After(s, sent[b][i])
      BY <2>4, <3>1 DEF InStream, LiveInOrder
    <3> QED BY <1>1, <2>1, <3>2 DEF After
  <2>5. ASSUME NEW w \in Workers, Logged(w), taskOf[w] = subject[s], seq[w] > replayed[s]
        PROVE  After(s, Held(w))'
    <3>1. After(s, Held(w))
      BY <2>5 DEF InStream, LiveInOrder
    <3> QED BY <1>1, <2>1, <3>1 DEF After
  <2>6. ASSUME NEW b \in bus[s], NEW i \in DOMAIN sent[b] PROVE i \in Nat
    <3>1. sent[b] \in Seq(Item)
      BY DEF Connections, SubTypeOK, TypeInv, TypeOK
    <3> QED BY <3>1
  <2>7. ASSUME NEW b \in bus'[s], NEW i \in DOMAIN sent'[b],
               i > position'[s], IsUpdate(sent'[b][i]), sent'[b][i].seq > replayed'[s]
        PROVE  After(s, sent[b][i])'
    <3>1. b \in bus[s] /\ i \in DOMAIN sent[b] /\ replayed'[s] = replayed[s]
      BY <2>1
    <3> QED BY <2>1, <2>4, <2>6, <2>7, <3>1
  <2>8. ASSUME NEW w \in Workers, Logged(w)', taskOf'[w] = subject'[s], seq'[w] > replayed'[s]
        PROVE  After(s, Held(w))'
    BY <2>1, <2>5, <2>8
  <2> QED BY <2>7, <2>8 DEF LiveInOrder
<1> QED BY <1>2, <1>3 DEF InStream

LEMMA ConnectStream ==
    ASSUME Engine, Connections, NEW s \in Subscribers, NEW t \in Tasks, Connect(s, t),
           FromEvents(s)', InStream(s)
    PROVE  InStream(s)'
<1> USE DEF Engine
<1>1. SubTypeOK /\ Connection(s)
  BY DEF Connections
<1>2. /\ stage[s] \in {"idle", "dropped"} /\ subject[s] \in {NoTask, t} /\ subject'[s] = t
      /\ delivered'[s] = delivered[s] /\ resumed'[s] = resumed[s] \cup {Len(delivered[s])}
      /\ bus'[s] = bus[s] /\ queue'[s] = queue[s] /\ replayed'[s] = replayed[s]
      /\ UNCHANGED vars
  BY <1>1, ConnectAt
<1>3. bus'[s] = {} /\ queue'[s] = <<>> /\ replayed'[s] = 0
  BY <1>1, <1>2 DEF Connection
<1>4. Updates(s)' = Updates(s) /\ InOrderTo(s)
  BY <1>2, SameUpdates DEF InStream
<1>5. Updates(s) # {} => subject[s] = t
  BY <1>2, EngineAssumption, DeliveredType
<1>6. InOrderTo(s)'
  BY <1>2, <1>4, <1>5, SameInOrderTo
<1>7. QueueInOrder(s)'
  BY <1>3 DEF QueueInOrder
<1>8. ASSUME NEW w \in Workers, Logged(w), taskOf[w] = t, NEW m \in Updates(s)
      PROVE  \/ delivered[s][m].seq < seq[w]
             \/ delivered[s][m].seq = seq[w] /\ m \in resumed'[s]
  <2>1. PICK x : x = delivered[s][m]
    OBVIOUS
  <2>2. PICK log : log = eventLogs[t]
    OBVIOUS
  <2>3. x.seq \in Nat /\ seq[w] \in Nat
    BY <2>1, DeliveredType DEF TypeInv, TypeOK
  <2>4. UpTo(x, t)
    BY <1>4, <1>5, <2>1 DEF InOrderTo
  <2>5. log[Len(log)] = Held(w)
    BY <1>8, <2>2 DEF TopInv, LastLogged
  <2>6. x.seq <= seq[w]
    BY <2>2, <2>3, <2>4, <2>5 DEF UpTo, Held
  <2>7. Len(delivered[s]) \in Updates(s) \cup {0}
    BY <1>2, <1>4 DEF FromEvents
  <2>8. /\ x.seq <= Since(s)
        /\ m = Len(delivered[s]) \/ x.seq < Since(s) \/ m \in resumed[s]
    BY <1>4, <2>1, <2>7, SinceIsLast
  <2>9. CASE m = Len(delivered[s]) \/ m \in resumed[s]
    BY <1>2, <2>1, <2>3, <2>6, <2>9
  <2>10. CASE x.seq < Since(s)
    <3>1. PICK y : y = delivered[s][Len(delivered[s])]
      OBVIOUS
    <3>2. Len(delivered[s]) # 0 /\ delivered[s] # <<>>
      BY DeliveredType
    <3>3. Len(delivered[s]) \in Updates(s) /\ Since(s) = y.seq
      BY <2>7, <3>1, <3>2, SinceType
    <3>4. UpTo(y, t) /\ y.seq \in Nat
      BY <1>4, <1>5, <3>1, <3>3, DeliveredType DEF InOrderTo
    <3>5. y.seq <= seq[w]
      BY <2>2, <2>3, <2>5, <3>4 DEF UpTo, Held
    <3> QED BY <2>1, <2>3, <2>10, <3>3, <3>4, <3>5
  <2> QED BY <2>8, <2>9, <2>10
<1>9. \A w \in Workers : Logged(w)' /\ taskOf'[w] = t => After(s, Held(w))'
  BY <1>2, <1>4, <1>8 DEF After, Held, Logged
<1>10. LiveInOrder(s)'
  BY <1>2, <1>3, <1>9 DEF LiveInOrder
<1> QED BY <1>6, <1>7, <1>10 DEF InStream

LEMMA ReadLogStream ==
    ASSUME Engine, Connections, NEW s \in Subscribers, ReadLog(s), FromEvents(s), InStream(s)
    PROVE  InStream(s)'
<1> USE DEF Engine
<1>1. SubTypeOK /\ Connection(s)
  BY DEF Connections
<1>2. PICK newer, log, t : /\ newer = Newer(eventLogs[subject[s]], Since(s))
                           /\ log = eventLogs[subject[s]] /\ t = subject[s]
  OBVIOUS
<1>3. /\ stage[s] = "readLog" /\ stage'[s] = "takeSeq" /\ queue'[s] = newer
      /\ replayed'[s] = IF newer = <<>> THEN 0 ELSE newer[Len(newer)].seq
      /\ subject'[s] = subject[s] /\ resumed'[s] = resumed[s]
      /\ bus'[s] = bus[s] /\ position'[s] = position[s] /\ delivered'[s] = delivered[s]
      /\ UNCHANGED vars
  BY <1>1, <1>2, ReadLogAt
<1>4. t \in Tasks /\ replayed[s] = 0 /\ Len(delivered[s]) \in resumed[s]
  BY <1>1, <1>2, <1>3 DEF Connection
<1>5. Replays(newer, log, Since(s)) /\ log \in Seq(Item) /\ Ordered(log)
  BY <1>2, <1>4, ReplayItems DEF TypeInv, TypeOK, OrderInv
<1>6. newer \in Seq(Item) /\ Ordered(newer) /\ Len(newer) \in Nat /\ DOMAIN newer = 1 .. Len(newer)
  BY <1>5 DEF Replays
<1>7. Updates(s)' = Updates(s) /\ InOrderTo(s) /\ LiveInOrder(s) /\ InOrderTo(s)'
  BY <1>3, SameUpdates, SameInOrderTo DEF InStream, Connected
<1>8. ASSUME NEW i \in DOMAIN log PROVE UpTo(log[i], t) /\ log[i].seq \in Nat
  <2>1. i \in 1 .. Len(log) /\ Len(log) \in Nat /\ log[i] \in Item
    BY <1>5
  <2>2. CASE i = Len(log)
    BY <1>2, <2>1, <2>2 DEF UpTo, Item
  <2>3. CASE i < Len(log)
    BY <1>2, <1>5, <2>1, <2>3 DEF UpTo, Item, Ordered
  <2> QED BY <2>1, <2>2, <2>3
<1>9. ASSUME NEW i \in DOMAIN newer
      PROVE  /\ UpTo(newer[i], t) /\ newer[i].seq \in Nat /\ newer[i].seq > Since(s)
             /\ newer[i].seq <= replayed'[s]
  <2>1. UpTo(newer[i], t) /\ newer[i].seq \in Nat /\ newer[i].seq > Since(s)
    BY <1>5, <1>8 DEF Replays
  <2>2. newer # <<>> /\ Len(newer) \in DOMAIN newer
    BY <1>6
  <2>3. replayed'[s] = newer[Len(newer)].seq
    BY <1>3, <2>2
  <2>4. CASE i = Len(newer)
    BY <2>1, <2>3, <2>4
  <2>5. CASE i < Len(newer)
    <3>1. newer[i].seq < newer[Len(newer)].seq /\ newer[Len(newer)].seq \in Nat
      BY <1>5, <1>6, <1>8, <2>2, <2>5 DEF Ordered, Replays
    <3> QED BY <2>1, <2>3, <3>1
  <2> QED BY <1>6, <2>1, <2>4, <2>5
<1>10. \A m \in Updates(s) : delivered[s][m].seq <= Since(s) /\ delivered[s][m].seq \in Nat
  <2>1. Len(delivered[s]) \in Updates(s) \cup {0}
    BY <1>4 DEF FromEvents
  <2> QED BY <1>7, <2>1, SinceIsLast, DeliveredType
<1>11. Since(s) \in Nat /\ replayed'[s] \in Nat
  <2>1. CASE newer = <<>>
    BY <1>3, <2>1, SinceType
  <2>2. CASE newer # <<>>
    BY <1>3, <1>6, <2>2, SinceType, LastType
  <2> QED BY <2>1, <2>2
<1>12. QueueInOrder(s)'
  <2>1. \A i, j \in DOMAIN newer : i < j => newer[i].seq < newer[j].seq
    BY <1>6 DEF Ordered
  <2>2. ASSUME NEW i \in DOMAIN newer, NEW m \in Updates(s)
        PROVE  delivered[s][m].seq < newer[i].seq
    BY <1>9, <1>10, <1>11
  <2>3. ASSUME replayed'[s] # 0 PROVE log # <<>> /\ replayed'[s] <= log[Len(log)].seq
    <3>1. newer # <<>> /\ replayed'[s] = newer[Len(newer)].seq
      BY <1>3, <2>3
    <3>2. Len(newer) \in DOMAIN newer
      BY <1>6, <3>1
    <3>3. PICK x : x = newer[Len(newer)]
      OBVIOUS
    <3>4. UpTo(x, t) /\ x.seq \in Nat
      BY <1>9, <3>2, <3>3
    <3>5. log # <<>> /\ (x = log[Len(log)] \/ x.seq < log[Len(log)].seq)
      BY <1>2, <3>4 DEF UpTo
    <3>6. log[Len(log)].seq \in Nat
      BY <1>5, <3>5, LastType
    <3> QED BY <3>1, <3>3, <3>4, <3>5, <3>6
  <2>4. \A i \in DOMAIN newer : UpTo(newer[i], t)'
    BY <1>3, <1>9 DEF UpTo
  <2>5. eventLogs'[subject'[s]] = log /\ subject'[s] = t
    BY <1>2, <1>3
  <2> QED BY <1>3, <1>7, <1>9, <2>1, <2>2, <2>3, <2>4, <2>5 DEF QueueInOrder
<1>13. LiveInOrder(s)'
  <2>1. /\ sent' = sent /\ seq' = seq /\ taskOf' = taskOf
        /\ \A w \in Workers : (Logged(w)' <=> Logged(w)) /\ Held(w)' = Held(w)
    BY <1>3 DEF Logged, Held
  <2>2. ASSUME NEW n \in Nat, n > replayed'[s] PROVE n > replayed[s]
    BY <1>4, <1>11, <2>2
  <2>3. ASSUME NEW b \in bus[s], NEW i \in DOMAIN sent[b],
               i > position[s], IsUpdate(sent[b][i]), sent[b][i].seq > replayed'[s]
        PROVE  After(s, sent[b][i])'
    <3>1. sent[b] \in Seq(Item)
      BY <1>1 DEF SubTypeOK, TypeInv, TypeOK
    <3>2. sent[b][i] \in Item
      BY <2>3, <3>1
    <3>3. sent[b][i].seq \in Nat
      BY <3>2 DEF Item
    <3>4. After(s, sent[b][i])
      BY <1>7, <2>2, <2>3, <3>3 DEF LiveInOrder
    <3> QED BY <1>3, <1>7, <3>4 DEF After
  <2>4. ASSUME NEW w \in Workers, Logged(w), taskOf[w] = subject[s], seq[w] > replayed'[s]
        PROVE  After(s, Held(w))'
    <3>1. seq[w] \in Nat
      BY DEF TypeInv, TypeOK
    <3>2. After(s, Held(w))
      BY <1>7, <2>2, <2>4, <3>1 DEF LiveInOrder
    <3> QED BY <1>3, <1>7, <2>1, <3>2 DEF After
  <2> QED BY <1>3, <2>1, <2>3, <2>4 DEF LiveInOrder
<1> QED BY <1>7, <1>12, <1>13 DEF InStream

LEMMA FindBusStream ==
    ASSUME TypeInv, Connections, NEW s \in Subscribers, FindBus(s), InStream(s)
    PROVE  InStream(s)'
<1>1. SubTypeOK /\ Connection(s)
  BY DEF Connections
<1>2. /\ stage[s] = "findBus"
      /\ bus'[s] = {buses[t] : t \in DOMAIN buses \cap {subject[s]}}
      /\ \A b : bus'[s] = {b} => position'[s] = Len(sent[b])
      /\ subject'[s] = subject[s] /\ resumed'[s] = resumed[s]
      /\ queue'[s] = queue[s] /\ replayed'[s] = replayed[s] /\ delivered'[s] = delivered[s]
      /\ UNCHANGED vars
  BY <1>1, FindBusAt
<1>3. Updates(s)' = Updates(s) /\ InOrderTo(s) /\ QueueInOrder(s) /\ LiveInOrder(s)
  BY <1>2, SameUpdates DEF InStream, Connected
<1>4. InOrderTo(s)' /\ QueueInOrder(s)'
  BY <1>2, <1>3 DEF InOrderTo, QueueInOrder, UpTo
<1>5. ASSUME NEW b \in bus'[s], NEW i \in DOMAIN sent[b] PROVE ~(i > position'[s])
  <2>1. bus'[s] = {b} /\ b \in Turns
    BY <1>2, <1>5 DEF TypeInv, TypeOK, IsMap
  <2>2. sent[b] \in Seq(Item)
    BY <2>1 DEF TypeInv, TypeOK
  <2>3. position'[s] = Len(sent[b])
    BY <1>2, <2>1
  <2> QED BY <2>2, <2>3
<1>6. ASSUME NEW w \in Workers, Logged(w), taskOf[w] = subject[s], seq[w] > replayed[s]
      PROVE  After(s, Held(w))'
  <2>1. After(s, Held(w))
    BY <1>3, <1>6 DEF LiveInOrder
  <2> QED BY <1>2, <1>3, <2>1 DEF After, Held
<1>7. LiveInOrder(s)'
  BY <1>2, <1>5, <1>6 DEF LiveInOrder, Logged
<1> QED BY <1>4, <1>7 DEF InStream

LEMMA BeginStream ==
    ASSUME TypeInv, Connections, NEW s \in Subscribers,
           BeginFresh(s) \/ BeginAgainIdle(s) \/ BeginAgainLive(s), InStream(s)
    PROVE  InStream(s)'
<1>1. SubTypeOK /\ SubscriberStep(s)
  BY DEF Connections, SubscriberStep, StreamStep
<1>2. SameEngine
  BY <1>1, OneStream
<1>3. /\ stage[s] = "takeSeq"
      /\ subject'[s] = subject[s] /\ resumed'[s] = resumed[s] /\ bus'[s] = bus[s]
      /\ position'[s] = position[s] /\ replayed'[s] = replayed[s]
      /\ delivered'[s] = delivered[s]
  BY <1>1, BeginAt
<1>4. Connected(s) /\ position[s] \in Nat
  BY <1>1, <1>3 DEF Connected, SubTypeOK
<1>5. InOrderTo(s)' /\ LiveInOrder(s)' /\ Updates(s)' = Updates(s) /\ QueueInOrder(s)
  BY <1>2, <1>3, <1>4, StageStream, SameUpdates DEF InStream
<1>6. ~IsUpdate(Snapshot(s)) /\ Snapshot(s) \in SubItem
  BY <1>4, SnapshotType
<1>7. PICK old, new, lead : old = queue[s] /\ new = queue'[s] /\ lead = Snapshot(s)
  OBVIOUS
<1>8. old \in Seq(SubItem) /\ Len(old) \in Nat /\ DOMAIN old = 1 .. Len(old)
  BY <1>1, <1>7 DEF SubTypeOK
<1>9. new = <<lead>> \/ new = <<lead>> \o old \/ new = Append(old, lead) \/ new = old
  BY <1>1, <1>7, BeginAt
<1>10. \E d \in {0, 1} : \A i \in DOMAIN new : IsUpdate(new[i]) =>
          i \in Nat /\ i - d \in DOMAIN old /\ new[i] = old[i - d]
  <2>1. CASE new = <<lead>>
    BY <1>6, <1>7, <2>1
  <2>2. CASE new = <<lead>> \o old
    <3>1. \A i \in DOMAIN new : \/ i = 1 /\ new[i] = lead
                                \/ i \in Nat /\ i - 1 \in DOMAIN old /\ new[i] = old[i - 1]
      BY <1>6, <1>7, <1>8, <2>2
    <3> QED BY <1>6, <1>7, <3>1
  <2>3. CASE new = Append(old, lead)
    <3>1. \A i \in DOMAIN new : \/ new[i] = lead
                                \/ i \in Nat /\ i - 0 \in DOMAIN old /\ new[i] = old[i - 0]
      BY <1>6, <1>7, <1>8, <2>3
    <3> QED BY <1>6, <1>7, <3>1
  <2>4. CASE new = old
    BY <1>8, <2>4
  <2> QED BY <1>9, <2>1, <2>2, <2>3, <2>4
<1>11. PICK d \in {0, 1} : \A i \in DOMAIN new : IsUpdate(new[i]) =>
          i \in Nat /\ i - d \in DOMAIN old /\ new[i] = old[i - d]
  BY <1>10
<1>12. QueueInOrder(s)'
  <2>1. ASSUME NEW i \in DOMAIN new, NEW j \in DOMAIN new, i < j,
               IsUpdate(new[i]), IsUpdate(new[j])
        PROVE  new[i].seq < new[j].seq
    <3>1. i - d \in DOMAIN old /\ j - d \in DOMAIN old /\ new[i] = old[i - d] /\ new[j] = old[j - d]
          /\ i - d < j - d
      BY <1>11, <2>1
    <3> QED BY <1>5, <1>7, <2>1, <3>1 DEF QueueInOrder
  <2>2. ASSUME NEW i \in DOMAIN new, IsUpdate(new[i])
        PROVE  /\ new[i].seq <= replayed[s] /\ UpTo(new[i], subject[s])'
               /\ \A m \in Updates(s) : delivered[s][m].seq < new[i].seq
    <3>1. i - d \in DOMAIN old /\ new[i] = old[i - d]
      BY <1>11, <2>2
    <3>2. /\ old[i - d].seq <= replayed[s] /\ UpTo(old[i - d], subject[s])
          /\ \A m \in Updates(s) : delivered[s][m].seq < old[i - d].seq
      BY <1>5, <1>7, <2>2, <3>1 DEF QueueInOrder
    <3> QED BY <1>2, <1>3, <3>1, <3>2 DEF UpTo, SameEngine
  <2>3. replayed[s] # 0 => /\ eventLogs[subject[s]] # <<>>
                           /\ replayed[s] <= eventLogs[subject[s]][Len(eventLogs[subject[s]])].seq
    BY <1>5 DEF QueueInOrder
  <2>4. eventLogs' = eventLogs
    BY <1>2 DEF SameEngine
  <2> QED BY <1>3, <1>5, <1>7, <2>1, <2>2, <2>3, <2>4 DEF QueueInOrder, UpTo
<1> QED BY <1>5, <1>12 DEF InStream

LEMMA SendQueuedStream ==
    ASSUME TypeInv, Connections, NEW s \in Subscribers, SendQueued(s), InStream(s)
    PROVE  InStream(s)'
<1>1. SubTypeOK
  BY DEF Connections
<1>2. PICK old, new, x : old = queue[s] /\ new = queue'[s] /\ x = Head(queue[s])
  OBVIOUS
<1>3. /\ stage[s] = "streaming" /\ old # <<>> /\ new = Tail(old)
      /\ delivered'[s] = Append(delivered[s], x)
      /\ subject'[s] = subject[s] /\ resumed'[s] = resumed[s]
      /\ bus'[s] = bus[s] /\ position'[s] = position[s] /\ replayed'[s] = replayed[s]
      /\ UNCHANGED vars
  BY <1>1, <1>2, SendQueuedAt
<1>4. old \in Seq(SubItem) /\ x = old[1] /\ 1 \in DOMAIN old /\ x \in SubItem
  BY <1>1, <1>2, <1>3 DEF SubTypeOK
<1>5. \A i \in DOMAIN new : i \in Nat /\ i > 0 /\ i + 1 \in DOMAIN old /\ new[i] = old[i + 1]
  BY <1>3, <1>4
<1>6. InOrderTo(s) /\ QueueInOrder(s) /\ LiveInOrder(s)
  BY <1>3 DEF InStream, Connected
<1>7. IsUpdate(x) => /\ x.seq <= replayed[s] /\ UpTo(x, subject[s])
                     /\ \A m \in Updates(s) : delivered[s][m].seq < x.seq
  BY <1>2, <1>4, <1>6 DEF QueueInOrder
<1>8. IsUpdate(x) => After(s, x) /\ UpTo(x, subject[s])
  BY <1>7 DEF After
<1>9. InOrderTo(s)'
  BY <1>3, <1>6, <1>8, MoreInOrderTo
<1>10. \A m \in Updates(s)' :
          \/ m \in Updates(s) /\ delivered'[s][m] = delivered[s][m]
          \/ IsUpdate(x) /\ delivered'[s][m] = x
  BY <1>3, MoreUpdates
<1>11. QueueInOrder(s)'
  <2>1. ASSUME NEW i \in DOMAIN new, NEW j \in DOMAIN new, i < j,
               IsUpdate(new[i]), IsUpdate(new[j])
        PROVE  new[i].seq < new[j].seq
    <3>1. /\ i + 1 \in DOMAIN old /\ j + 1 \in DOMAIN old /\ new[i] = old[i + 1]
          /\ new[j] = old[j + 1] /\ i + 1 < j + 1
      BY <1>5, <2>1
    <3> QED BY <1>2, <1>6, <2>1, <3>1 DEF QueueInOrder
  <2>2. ASSUME NEW i \in DOMAIN new, IsUpdate(new[i])
        PROVE  /\ new[i].seq <= replayed[s] /\ UpTo(new[i], subject[s])
               /\ \A m \in Updates(s)' : delivered'[s][m].seq < new[i].seq
    <3>1. i + 1 \in DOMAIN old /\ new[i] = old[i + 1] /\ 1 < i + 1
      BY <1>5, <2>2
    <3>2. /\ old[i + 1].seq <= replayed[s] /\ UpTo(old[i + 1], subject[s])
          /\ \A m \in Updates(s) : delivered[s][m].seq < old[i + 1].seq
      BY <1>2, <1>6, <2>2, <3>1 DEF QueueInOrder
    <3>3. IsUpdate(x) => x.seq < old[i + 1].seq
      BY <1>2, <1>4, <1>6, <2>2, <3>1 DEF QueueInOrder
    <3> QED BY <1>10, <3>1, <3>2, <3>3
  <2>3. replayed[s] # 0 => /\ eventLogs[subject[s]] # <<>>
                           /\ replayed[s] <= eventLogs[subject[s]][Len(eventLogs[subject[s]])].seq
    BY <1>6 DEF QueueInOrder
  <2>4. \A i \in DOMAIN new : IsUpdate(new[i]) => UpTo(new[i], subject[s])'
    BY <1>3, <2>2 DEF UpTo
  <2> QED BY <1>2, <1>3, <2>1, <2>2, <2>3, <2>4 DEF QueueInOrder
<1>12. ASSUME NEW y, y.seq \in Nat, After(s, y), y.seq > replayed[s] PROVE After(s, y)'
  <2>0. replayed[s] \in Nat /\ x.seq \in Nat
    BY <1>1, <1>4 DEF SubTypeOK, SubItem
  <2>1. IsUpdate(x) => x.seq < y.seq
    BY <1>7, <1>12, <2>0
  <2>2. ASSUME NEW m \in Updates(s)'
        PROVE  \/ delivered'[s][m].seq < y.seq
               \/ delivered'[s][m].seq = y.seq /\ m \in resumed'[s]
    <3>1. CASE m \in Updates(s) /\ delivered'[s][m] = delivered[s][m]
      BY <1>3, <1>12, <3>1 DEF After
    <3>2. CASE IsUpdate(x) /\ delivered'[s][m] = x
      BY <2>1, <3>2
    <3> QED BY <1>10, <3>1, <3>2
  <2> QED BY <2>2 DEF After
<1>13. LiveInOrder(s)'
  <2>1. ASSUME NEW b \in bus[s], NEW i \in DOMAIN sent[b],
               i > position[s], IsUpdate(sent[b][i]), sent[b][i].seq > replayed[s]
        PROVE  After(s, sent[b][i])'
    <3>1. PICK y : y = sent[b][i]
      OBVIOUS
    <3>2. y \in Item
      BY <1>1, <2>1, <3>1 DEF SubTypeOK, TypeInv, TypeOK
    <3>3. After(s, y) /\ y.seq \in Nat
      BY <1>6, <2>1, <3>1, <3>2 DEF LiveInOrder, Item
    <3>4. After(s, y)'
      BY <1>12, <2>1, <3>1, <3>3
    <3> QED BY <1>3, <3>1, <3>4
  <2>2. ASSUME NEW w \in Workers, Logged(w), taskOf[w] = subject[s], seq[w] > replayed[s]
        PROVE  After(s, Held(w))'
    <3>1. PICK y : y = Held(w)
      OBVIOUS
    <3>2. After(s, y) /\ y.seq = seq[w] /\ seq[w] \in Nat
      BY <1>6, <2>2, <3>1 DEF LiveInOrder, Held, TypeInv, TypeOK
    <3>3. After(s, y)'
      BY <1>12, <2>2, <3>2
    <3> QED BY <1>3, <3>1, <3>3 DEF Held
  <2> QED BY <1>3, <2>1, <2>2 DEF LiveInOrder, Logged
<1> QED BY <1>9, <1>11, <1>13 DEF InStream

LEMMA SendLiveStream ==
    ASSUME Engine, Connections, NEW s \in Subscribers, SendLive(s), InStream(s)
    PROVE  InStream(s)'
<1> USE DEF Engine
<1>1. SubTypeOK /\ Connection(s)
  BY DEF Connections
<1>2. PICK b \in bus[s] : \E x :
        /\ position[s] + 1 \in 1 .. Len(sent[b]) /\ x = sent[b][position[s] + 1]
        /\ stage[s] = "streaming" /\ queue[s] = <<>> /\ queue'[s] = <<>>
        /\ position'[s] = position[s] + 1
        /\ \/ delivered'[s] = delivered[s]
           \/ ~(x.seq <= replayed[s]) /\ delivered'[s] = Append(delivered[s], x)
        /\ subject'[s] = subject[s] /\ resumed'[s] = resumed[s]
        /\ bus'[s] = bus[s] /\ replayed'[s] = replayed[s]
        /\ UNCHANGED vars
  BY <1>1, SendLiveAt
<1>3. PICK p, x : p = position[s] + 1 /\ x = sent[b][p]
  OBVIOUS
<1>4. /\ p \in DOMAIN sent[b] /\ p \in Nat /\ sent[b] \in Seq(Item) /\ x \in Item
      /\ position[s] \in Nat /\ position'[s] = p /\ bus[s] = {b}
      /\ b \in Turns /\ taskOf[b] = subject[s] /\ replayed[s] \in Nat
  <2>1. b \in Turns /\ taskOf[b] = subject[s] /\ bus[s] = {b}
    BY <1>1, <1>2 DEF Connection, Of
  <2>2. sent[b] \in Seq(Item) /\ position[s] \in Nat /\ replayed[s] \in Nat
    BY <1>1, <2>1 DEF TypeInv, TypeOK, SubTypeOK
  <2>3. p \in DOMAIN sent[b] /\ p \in Nat /\ position'[s] = p
    BY <1>2, <1>3, <2>2
  <2> QED BY <1>3, <2>1, <2>2, <2>3
<1>5. SameEngine /\ Connected(s) /\ InOrderTo(s) /\ LiveInOrder(s) /\ QueueInOrder(s)
  BY <1>2 DEF SameEngine, InStream, Connected
<1>6. CASE delivered'[s] = delivered[s]
  <2>1. position'[s] \in Nat /\ position'[s] >= position[s]
    BY <1>3, <1>4
  <2> QED BY <1>2, <1>5, <1>6, <2>1, StageStream
<1>7. CASE ~(x.seq <= replayed[s]) /\ delivered'[s] = Append(delivered[s], x)
  <2>1. x.seq \in Nat /\ x.seq > replayed[s] /\ p > position[s]
    BY <1>3, <1>4, <1>7 DEF Item
  <2>2. IsUpdate(x) => After(s, x) /\ UpTo(x, subject[s])
    BY <1>3, <1>4, <1>5, <2>1 DEF LiveInOrder, TopInv, SentUpTo
  <2>3. InOrderTo(s)'
    BY <1>2, <1>5, <1>7, <2>2, MoreInOrderTo
  <2>4. \A m \in Updates(s)' :
          \/ m \in Updates(s) /\ delivered'[s][m] = delivered[s][m]
          \/ IsUpdate(x) /\ delivered'[s][m] = x
    BY <1>7, MoreUpdates
  <2>5. QueueInOrder(s)'
    <3>1. replayed[s] # 0 => /\ eventLogs[subject[s]] # <<>>
                             /\ replayed[s] <= eventLogs[subject[s]][Len(eventLogs[subject[s]])].seq
      BY <1>5 DEF QueueInOrder
    <3> QED BY <1>2, <3>1 DEF QueueInOrder
  <2>6. ASSUME NEW y, After(s, y), IsUpdate(x) => x.seq < y.seq PROVE After(s, y)'
    BY <1>2, <2>4, <2>6 DEF After
  <2>7. ASSUME NEW i \in DOMAIN sent[b], i > p, IsUpdate(sent[b][i]), sent[b][i].seq > replayed[s]
        PROVE  After(s, sent[b][i])'
    <3>1. PICK y : y = sent[b][i]
      OBVIOUS
    <3>2. i > position[s]
      BY <1>3, <1>4, <2>7
    <3>3. After(s, y)
      BY <1>4, <1>5, <2>7, <3>1, <3>2 DEF LiveInOrder
    <3>4. IsUpdate(x) => x.seq < y.seq
      BY <1>3, <1>4, <2>7, <3>1 DEF TopInv, BusInOrder
    <3>5. After(s, y)'
      BY <2>6, <3>3, <3>4
    <3> QED BY <1>2, <3>1, <3>5
  <2>8. ASSUME NEW w \in Workers, Logged(w), taskOf[w] = subject[s], seq[w] > replayed[s]
        PROVE  After(s, Held(w))'
    <3>1. PICK y : y = Held(w)
      OBVIOUS
    <3>2. After(s, y) /\ y.seq = seq[w] /\ seq[w] \in Nat
      BY <1>5, <2>8, <3>1 DEF LiveInOrder, Held, TypeInv, TypeOK
    <3>3. ASSUME IsUpdate(x) PROVE x.seq < y.seq
      <4>1. x.seq # seq[w]
        <5>1. x \in BusItems
          BY <1>3, <1>4, BusItem
        <5>2. Numbered(w)
          BY <2>8 DEF Logged, Numbered
        <5> QED BY <5>1, <5>2 DEF TopInv, NotSentYet
      <4>2. PICK log : log = eventLogs[taskOf[w]]
        OBVIOUS
      <4>3. log[Len(log)] = Held(w)
        BY <2>8, <4>2 DEF TopInv, LastLogged
      <4>4. x = Held(w) \/ x.seq < Held(w).seq
        BY <2>2, <2>8, <3>3, <4>2, <4>3 DEF UpTo
      <4> QED BY <3>1, <3>2, <4>1, <4>4 DEF Held
    <3>4. After(s, y)'
      BY <2>6, <3>2, <3>3
    <3> QED BY <1>2, <3>1, <3>4 DEF Held
  <2>9. LiveInOrder(s)'
    <3>1. /\ bus'[s] = {b} /\ position'[s] = p /\ replayed'[s] = replayed[s]
          /\ subject'[s] = subject[s] /\ sent' = sent /\ seq' = seq /\ taskOf' = taskOf
          /\ pc' = pc
      BY <1>2, <1>4
    <3> QED BY <2>7, <2>8, <3>1 DEF LiveInOrder, Logged
  <2> QED BY <2>3, <2>5, <2>9 DEF InStream
<1> QED BY <1>2, <1>3, <1>6, <1>7

LEMMA StepStream ==
    ASSUME Engine, Connections, StreamInv, NEW s \in Subscribers, SubscriberStep(s)
    PROVE  StreamInv'
<1> SUFFICES ASSUME NEW u \in Subscribers, FromEvents(u)' PROVE InStream(u)'
  BY DEF StreamInv
<1>1. SubTypeOK /\ Connection(s) /\ TypeInv
  BY DEF Connections, Engine
<1>2. CASE u # s
  <2>1. SameStream(u) /\ SameEngine
    BY <1>1, <1>2, OneStream
  <2>2. FromEvents(u)
    BY <2>1 DEF FromEvents, Updates, SameStream
  <2> QED BY <2>1, <2>2, OtherStream DEF StreamInv
<1>3. CASE u = s
  <2> SUFFICES InStream(s)'
    BY <1>3
  <2>1. FromEvents(s) /\ FromEvents(s)' /\ InStream(s)
    BY <1>3, BeganSo DEF StreamInv
  <2>2. ASSUME NEW t \in Tasks, Connect(s, t) PROVE InStream(s)'
    BY <2>1, <2>2, ConnectStream
  <2>3. ASSUME NEW t \in Tasks, RefuseSubscriber(s, t) PROVE InStream(s)'
    <3>1. /\ stage'[s] = "refused" /\ subject'[s] = subject[s] /\ resumed'[s] = resumed[s]
          /\ delivered'[s] = delivered[s] /\ UNCHANGED vars
      BY <1>1, <2>3, RefuseAt
    <3> QED BY <2>1, <3>1, SameInOrderTo DEF InStream, Connected
  <2>4. CASE FindBus(s)
    BY <1>1, <2>1, <2>4, FindBusStream
  <2>5. CASE ReadLog(s)
    BY <2>1, <2>5, ReadLogStream
  <2>6. CASE BeginFresh(s) \/ BeginAgainIdle(s) \/ BeginAgainLive(s)
    BY <1>1, <2>1, <2>6, BeginStream
  <2>7. CASE SendQueued(s)
    BY <1>1, <2>1, <2>7, SendQueuedStream
  <2>8. CASE SendLive(s)
    BY <2>1, <2>8, SendLiveStream
  <2>9. CASE SkipLost(s)
    <3>1. PICK b \in bus[s] :
            /\ stage[s] = "streaming" /\ Lagging(s, b) /\ position'[s] = Len(sent[b]) - BusCapacity
            /\ subject'[s] = subject[s] /\ resumed'[s] = resumed[s] /\ bus'[s] = bus[s]
            /\ queue'[s] = queue[s] /\ replayed'[s] = replayed[s] /\ delivered'[s] = delivered[s]
            /\ UNCHANGED vars
      BY <1>1, <2>9, SkipLostAt
    <3>2. position[s] \in Nat /\ sent[b] \in Seq(Item)
      BY <1>1, <3>1 DEF SubTypeOK, TypeInv, TypeOK
    <3>3. position'[s] \in Nat /\ position'[s] >= position[s]
      BY <3>1, <3>2, SubscribeAssumption DEF Lagging
    <3>4. Connected(s) /\ SameEngine
      BY <3>1 DEF Connected, SameEngine
    <3> QED BY <1>1, <2>1, <3>1, <3>3, <3>4, StageStream
  <2>10. CASE EndOfStream(s)
    <3>1. /\ stage'[s] = "ended" /\ subject'[s] = subject[s] /\ resumed'[s] = resumed[s]
          /\ delivered'[s] = delivered[s] /\ UNCHANGED vars
      BY <1>1, <2>10, EndAt
    <3> QED BY <2>1, <3>1, SameInOrderTo DEF InStream, Connected
  <2>11. CASE Drop(s)
    <3>1. /\ stage'[s] = "dropped" /\ subject'[s] = subject[s] /\ resumed'[s] = resumed[s]
          /\ delivered'[s] = delivered[s] /\ UNCHANGED vars
      BY <1>1, <2>11, DropAt
    <3> QED BY <2>1, <3>1, SameInOrderTo DEF InStream, Connected
  <2> QED BY <2>2, <2>3, <2>4, <2>5, <2>6, <2>7, <2>8, <2>9, <2>10, <2>11
          DEF SubscriberStep, StreamStep
<1> QED BY <1>2, <1>3

-----------------------------------------------------------------------------
(***************************************************************************)
(* The invariants together, for every step of the server and its clients.  *)
(***************************************************************************)
Streams == Engine /\ Connections /\ StreamInv

LEMMA InitStreams == SubInit => Streams
<1> SUFFICES ASSUME SubInit PROVE Streams
  OBVIOUS
<1>1. Engine /\ Connections
  BY InitEngine, InitConnections DEF SubInit
<1>2. ASSUME NEW s \in Subscribers PROVE InStream(s)
  BY DEF SubInit, InStream, InOrderTo, Updates, Connected
<1> QED BY <1>1, <1>2 DEF Streams, StreamInv

LEMMA NextStreams == Streams /\ [SubNext]_allVars /\ OneAtATime' => Streams'
<1> SUFFICES ASSUME Streams, [SubNext]_allVars, OneAtATime' PROVE Streams'
  OBVIOUS
<1> USE DEF Streams
<1>1. CASE \E s \in Subscribers : SubscriberStep(s)
  <2>1. PICK s \in Subscribers : SubscriberStep(s)
    BY <1>1
  <2>2. SubTypeOK
    BY DEF Connections
  <2>3. UNCHANGED vars \/ NumberSnapshot
    BY <2>1, <2>2, OneStream
  <2>4. Engine'
    BY <2>3, NextEngine, NumberEngine
  <2> QED BY <2>1, <2>4, StepConnections, StepStream
<1>2. CASE Next /\ UNCHANGED subVars
  <2>1. Engine'
    BY <1>2, NextEngine
  <2>2. CASE UNCHANGED vars
    <3>1. SameEngine /\ \A s \in Subscribers : SameStream(s)
      BY <1>2, <2>2 DEF SameEngine, SameStream, subVars
    <3>2. Connections'
      BY <1>2, <3>1, OtherConnection DEF Connections, SubTypeOK, subVars
    <3>3. \A s \in Subscribers : FromEvents(s)' => FromEvents(s)
      BY <3>1 DEF FromEvents, Updates, SameStream
    <3> QED BY <2>1, <3>1, <3>2, <3>3, OtherStream DEF StreamInv
  <2>3. CASE \E w \in Workers : StepOf(w)
    <3>1. PICK w \in Workers : StepOf(w)
      BY <2>3
    <3>2. Connections'
      BY <1>2, <2>1, <3>1, EngineConnections
    <3>3. ASSUME NEW s \in Subscribers, FromEvents(s)' PROVE InStream(s)'
      <4>1. FromEvents(s)
        BY <1>2, <3>3 DEF FromEvents, Updates, subVars
      <4> QED BY <1>2, <2>1, <3>1, <4>1, EngineStream DEF StreamInv
    <3> QED BY <2>1, <3>2, <3>3 DEF StreamInv
  <2> QED BY <1>2, <2>2, <2>3, StepsOrStutter
<1>3. CASE UNCHANGED allVars
  <2>1. UNCHANGED vars /\ UNCHANGED subVars
    BY <1>3 DEF allVars
  <2>2. Engine'
    BY <2>1, NextEngine
  <2>3. SameEngine /\ \A s \in Subscribers : SameStream(s)
    BY <2>1 DEF SameEngine, SameStream, subVars
  <2>4. Connections'
    BY <2>1, <2>3, OtherConnection DEF Connections, SubTypeOK, subVars
  <2>5. \A s \in Subscribers : FromEvents(s)' => FromEvents(s)
    BY <2>3 DEF FromEvents, Updates, SameStream
  <2> QED BY <2>2, <2>3, <2>4, <2>5, OtherStream DEF StreamInv
<1> QED BY <1>1, <1>2, <1>3 DEF SubNext

\* What the engine sees of a step.
LEMMA EngineSees ==
    ASSUME SubTypeOK, [SubNext]_allVars
    PROVE  [Next]_vars \/ NumberSnapshot
BY OneStream DEF SubNext, allVars

\* With calls on a task that do not overlap, no event reaches a subscriber
\* twice, whatever connections it loses and whatever it returns with, but the
\* event that it returned with.
THEOREM NeverTwice ==
    ASSUME NoOverlap
    PROVE  SubSpec => []NoEventTwice
<1>1. SubInit => Streams
  BY InitStreams
<1>2. Streams /\ [SubNext]_allVars => Streams'
  <2> SUFFICES ASSUME Streams, [SubNext]_allVars PROVE Streams'
    OBVIOUS
  <2>1. [Next]_vars \/ NumberSnapshot
    BY EngineSees DEF Streams, Connections
  <2>2. OneAtATime'
    <3>1. CASE [Next]_vars
      BY <3>1, NextOneAtATime DEF Streams, Engine
    <3>2. CASE NumberSnapshot
      BY <3>2, NumberEngine DEF Streams, Engine
    <3> QED BY <2>1, <3>1, <3>2
  <2> QED BY <2>2, NextStreams
<1>3. Streams => NoEventTwice
  <2> SUFFICES ASSUME Streams, NEW s \in Subscribers, FromEvents(s),
                      NEW i \in Updates(s), NEW j \in Updates(s), i < j,
                      delivered[s][i].seq = delivered[s][j].seq
               PROVE  i \in resumed[s]
    BY DEF NoEventTwice
  <2>1. delivered[s][i].seq \in Nat
    BY DeliveredType DEF Streams
  <2>2. InOrderTo(s)
    BY DEF Streams, StreamInv, InStream
  <2> QED BY <2>1, <2>2 DEF InOrderTo
<1> QED BY <1>1, <1>2, <1>3, PTL DEF SubSpec

-----------------------------------------------------------------------------
(***************************************************************************)
(* One call on a task.  Then a log is one worker's, and a bus carries what *)
(* its own turn sends.                                                     *)
(***************************************************************************)
OneCallEach ==
    \A v, w \in Workers : taskOf[v] = taskOf[w] /\ taskOf[v] \in Tasks => v = w

\* The stream of a turn carries its own events, and its closing event stays the
\* last of the log.
OwnBus ==
    \A b \in Turns : \A i \in DOMAIN sent[b] :
        /\ sent[b][i].by = b
        /\ ClosesStream(sent[b][i].event) =>
              /\ eventLogs[taskOf[b]] # <<>>
              /\ eventLogs[taskOf[b]][Len(eventLogs[taskOf[b]])] = sent[b][i]

\* Numbers start at 1, so that 0 stands for none.
Positive ==
    /\ nextSeq > 0
    /\ \A w \in Workers : Numbered(w) => seq[w] > 0
    /\ \A t \in Tasks : \A i \in DOMAIN eventLogs[t] : eventLogs[t][i].seq > 0

CallInv == OwnBus /\ Positive

LEMMA OneCallAtATime ==
    ASSUME TypeInv, PlacesInv, OneAtATime, [Next]_vars, OneCallEach'
    PROVE  OneAtATime'
<1>1. \A w \in Workers : pc[w] = "idle" => taskOf[w] = NoTask
  BY DEF OneAtATime
<1>2. CASE UNCHANGED vars
  BY <1>1, <1>2 DEF OneAtATime, OneCallEach
<1>3. ASSUME NEW w \in Workers, StepOf(w) PROVE OneAtATime'
  <2>1. ASSUME NEW v \in Workers, pc'[v] = "idle" PROVE taskOf'[v] = NoTask
    <3>1. pc[v] = "idle"
      <4>1. CASE v # w
        BY <1>3, <2>1, <4>1, StepsAlone DEF Alone, StepOf
      <4>2. CASE v = w
        BY <1>3, <2>1, <4>2, TasksKept
      <4> QED BY <4>1, <4>2
    <3>2. taskOf'[v] = taskOf[v]
      <4>1. CASE v # w
        BY <1>3, <4>1, StepsAlone DEF Alone, StepOf
      <4>2. CASE v = w
        BY <1>3, <2>1, <4>2, TasksKept
      <4> QED BY <4>1, <4>2
    <3> QED BY <1>1, <3>1, <3>2
  <2> QED BY <2>1 DEF OneAtATime, OneCallEach
<1> QED BY <1>2, <1>3, StepsOrStutter

LEMMA InitCallInv == Init => CallInv
<1> SUFFICES ASSUME Init PROVE CallInv
  OBVIOUS
<1>1. \A t \in Tasks : eventLogs[t] = <<>>
  BY DEF Init
<1>2. \A b \in Turns : sent[b] = <<>>
  BY DEF Init
<1>3. nextSeq > 0 /\ \A w \in Workers : ~Numbered(w)
  BY DEF Init, Numbered, Unlogged
<1> QED BY <1>1, <1>2, <1>3 DEF CallInv, OwnBus, Positive

LEMMA NextOwnBus ==
    ASSUME Engine, Engine', OwnBus, OneCallEach, NEW w \in Workers, StepOf(w)
    PROVE  OwnBus'
<1> USE DEF Engine
<1> SUFFICES ASSUME NEW b \in Turns, NEW i \in DOMAIN sent'[b]
             PROVE  /\ sent'[b][i].by = b
                    /\ ClosesStream(sent'[b][i].event) =>
                          /\ eventLogs'[taskOf'[b]] # <<>>
                          /\ eventLogs'[taskOf'[b]][Len(eventLogs'[taskOf'[b]])] = sent'[b][i]
  BY DEF OwnBus
<1>1. PICK x : x = sent'[b][i]
  OBVIOUS
<1>2. CASE i \in DOMAIN sent[b] /\ x = sent[b][i]
  <2>1. b \in Workers /\ taskOf[b] \in Tasks /\ pc[b] # "idle"
    BY <1>2, SendersTask DEF Workers
  <2>2. taskOf'[b] = taskOf[b]
    BY <2>1, TaskStays
  <2>3. x.by = b
    BY <1>2 DEF OwnBus
  <2>4. ASSUME ClosesStream(x.event)
        PROVE  eventLogs'[taskOf[b]] = eventLogs[taskOf[b]]
    <3>1. HasClosed(b)
      BY <1>2, <2>3, <2>4 DEF HasClosed
    <3>2. pc[b] # "appendLog"
      BY <3>1 DEF CloseInv
    <3>3. CASE AppendLog(w)
      <4>1. w # b
        BY <3>2, <3>3 DEF AppendLog
      <4>2. taskOf[w] # taskOf[b]
        BY <2>1, <4>1 DEF OneCallEach
      <4>3. PICK log : log = eventLogs[taskOf[w]]
        OBVIOUS
      <4> QED BY <2>1, <3>3, <4>2, <4>3, AppendTo
    <3>4. CASE ~AppendLog(w)
      BY <3>4, OnlyAppendLogs
    <3> QED BY <3>3, <3>4
  <2> QED BY <1>1, <1>2, <2>2, <2>3, <2>4 DEF OwnBus
<1>3. CASE /\ taskOf[b] = taskOf[w] /\ taskOf[w] \in Tasks /\ eventLogs' = eventLogs
           /\ taskOf' = taskOf /\ x.by = w
           /\ IsUpdate(x) => Logged(w) /\ x = Held(w)
  <2>1. b = w
    BY <1>3 DEF OneCallEach, Workers
  <2>2. ClosesStream(x.event) => IsUpdate(x)
    BY DEF ClosesStream, IsUpdate
  <2>3. PICK log : log = eventLogs[taskOf[w]]
    OBVIOUS
  <2>4. Logged(w) => log # <<>> /\ log[Len(log)] = Held(w)
    BY <2>3 DEF TopInv, LastLogged
  <2> QED BY <1>1, <1>3, <2>1, <2>2, <2>3, <2>4
<1> QED BY <1>1, <1>2, <1>3, BusAfter

LEMMA NextPositive ==
    ASSUME Engine, Engine', Positive, NEW w \in Workers, StepOf(w)
    PROVE  Positive'
<1> USE DEF Engine
<1>1. nextSeq \in Nat /\ nextSeq > 0
  BY DEF TypeInv, TypeOK, Positive
<1>2. nextSeq' > 0
  BY <1>1, CounterGrows
<1>3. ASSUME NEW v \in Workers, Numbered(v)' PROVE seq'[v] > 0
  <2>1. CASE v # w
    BY <1>3, <2>1, StepsAlone DEF StepOf, Alone, Positive, Numbered, Unlogged
  <2>2. CASE v = w
    <3>1. CASE Still(w)
      BY <1>3, <2>2, <3>1 DEF Still, Positive
    <3>2. CASE AppendLog(w)
      BY <2>2, <3>2 DEF AppendLog, Numbered, Unlogged, Positive
    <3>3. CASE TakeSeq(w) \/ TakeLeadSeq(w)
      BY <1>1, <2>2, <3>3 DEF TakeSeq, TakeLeadSeq, FetchSeq, TypeInv, TypeOK
    <3>4. CASE SendEvent(w) \/ (w \in Turns /\ SendLead(w))
      BY <1>3, <2>2, <3>4, SendTo
    <3> QED BY <3>1, <3>2, <3>3, <3>4, StepKinds
  <2> QED BY <2>1, <2>2
<1>4. ASSUME NEW t \in Tasks, NEW i \in DOMAIN eventLogs'[t] PROVE eventLogs'[t][i].seq > 0
  <2>1. CASE ~AppendLog(w)
    BY <2>1, OnlyAppendLogs DEF Positive
  <2>2. CASE AppendLog(w)
    <3>1. PICK x : x = eventLogs'[t][i]
      OBVIOUS
    <3>2. x \in LoggedItems'
      BY <1>4, <3>1 DEF LoggedItems
    <3>3. x \in LoggedItems \/ x = Held(w)
      BY <2>2, <3>2, AppendLogItems
    <3>4. CASE x = Held(w)
      BY <2>2, <3>1, <3>4 DEF AppendLog, Held, Positive, Numbered, Unlogged
    <3>5. CASE x \in LoggedItems
      BY <3>1, <3>5, LoggedItem DEF Positive
    <3> QED BY <3>3, <3>4, <3>5
  <2> QED BY <2>1, <2>2
<1> QED BY <1>2, <1>3, <1>4 DEF Positive

-----------------------------------------------------------------------------
(***************************************************************************)
(* Where an event of the log is, for a subscriber that is to get it: with  *)
(* the client, in the replay, or still to come on the bus.                 *)
(***************************************************************************)
NothingLost(s) ==
    /\ Len(eventLogs[subject[s]]) < EventLogCapacity
    /\ \A b \in Turns : Len(sent[b]) <= BusCapacity

\* A closing event is never lost to lag.
Owed(s, x) == ClosesStream(x.event) \/ NothingLost(s)

InLog(s, x) == \E k \in DOMAIN eventLogs[subject[s]] : x = eventLogs[subject[s]][k]

Has(s, x) == \E i \in Updates(s) : delivered[s][i].seq = x.seq
Waits(s, x) == \E i \in DOMAIN queue[s] : queue[s][i] = x
OnItsWay(s, b, x) ==
    \/ Logged(b) /\ Held(b) = x
    \/ \E i \in DOMAIN sent[b] : i > position[s] /\ sent[b][i] = x
Comes(s, x) ==
    /\ x.seq > replayed[s]
    /\ \A m \in Updates(s) : delivered[s][m].seq <= x.seq
    /\ \A b \in bus[s] : OnItsWay(s, b, x)

Covered(s, x) == Has(s, x) \/ Waits(s, x) \/ Comes(s, x)

\* The first connection of a client, to a task without a bus, gets the Task and
\* nothing else.
OnlyLed(s) == bus[s] = {} /\ Updates(s) = {}

\* Before the log is read, and while there is no connection.
HadSoFar(s) ==
    stage[s] \in {"dropped", "findBus", "readLog"} /\ Len(delivered[s]) \in Updates(s) =>
        \A x : InLog(s, x) /\ Owed(s, x) /\ x.seq <= Since(s) => Has(s, x)

\* After that.
GoesOn(s) ==
    /\ stage[s] = "takeSeq" \/ (stage[s] = "streaming" /\ ~OnlyLed(s)) =>
          \A x : InLog(s, x) /\ Owed(s, x) => Covered(s, x)
    /\ stage[s] = "streaming" /\ OnlyLed(s) =>
          \A i \in DOMAIN queue[s] : ~IsUpdate(queue[s][i])

\* What is replayed is of the one call on the task.
FromCall(s) ==
    Connected(s) => \A i \in DOMAIN queue[s] : IsUpdate(queue[s][i]) =>
        queue[s][i].by \in Workers /\ taskOf[queue[s][i].by] = subject[s]

SeesClose(s, b) ==
    \/ \E i \in Updates(s) : delivered[s][i].by = b /\ ClosesStream(delivered[s][i].event)
    \/ BusClosed(b) /\ \A i \in DOMAIN sent[b] : ~ClosesStream(sent[b][i].event)
Closes(s) == stage[s] = "ended" => \A b \in bus[s] : SeesClose(s, b)

Reached(s) == HadSoFar(s) /\ GoesOn(s) /\ FromCall(s) /\ Closes(s)

ReachInv == \A s \in Subscribers : FromEvents(s) => Reached(s)

-----------------------------------------------------------------------------
\* What is on its way to a subscriber stays so in a step of the engine.
LEMMA StaysOnItsWay ==
    ASSUME TypeInv, PlacesInv, NEW w \in Workers, StepOf(w), NEW s \in Subscribers,
           position[s] \in Nat, position'[s] = position[s],
           NEW b \in Turns, position[s] <= Len(sent[b]), NEW x, OnItsWay(s, b, x)
    PROVE  OnItsWay(s, b, x)'
<1>0. b \in Workers
  BY DEF Workers
<1>1. ASSUME NEW i \in DOMAIN sent[b], i > position[s], sent[b][i] = x
      PROVE  OnItsWay(s, b, x)'
  BY <1>1, SentGrows, StepNext DEF OnItsWay
<1>2. CASE Logged(b) /\ Held(b) = x
  <2>1. CASE Logged(b)' /\ seq'[b] = seq[b] /\ event'[b] = event[b]
    BY <1>2, <2>1 DEF OnItsWay, Held
  <2>2. CASE b # w
    BY <1>0, <2>1, <2>2, <1>2, StepsAlone DEF StepOf, Alone, Logged
  <2>3. CASE b = w /\ SendEvent(w)
    <3>1. PICK items : items = sent[b]
      OBVIOUS
    <3>2. sent'[b] = Append(items, Held(b)) /\ items \in Seq(Item)
      BY <2>3, <3>1 DEF SendEvent, Broadcast, BusesOf, Held, TypeInv, TypeOK
    <3>3. PICK n : n = Len(items) + 1
      OBVIOUS
    <3>4. n \in DOMAIN Append(items, Held(b)) /\ Append(items, Held(b))[n] = Held(b)
          /\ n > position[s]
      BY <3>1, <3>2, <3>3
    <3> QED BY <1>2, <3>2, <3>4 DEF OnItsWay
  <2>4. CASE b = w /\ ~SendEvent(w)
    <3>1. Still(w)
      BY <1>2, <2>4, StepKinds DEF AppendLog, TakeSeq, SendLead, TakeLeadSeq, Logged
    <3> QED BY <1>2, <2>1, <2>4, <3>1 DEF Still
  <2> QED BY <2>2, <2>3, <2>4
<1> QED BY <1>1, <1>2 DEF OnItsWay

LEMMA AppendedItems ==
    ASSUME NEW log \in Seq(Item), NEW item \in Item, Len(log) <= EventLogCapacity,
           NEW longer, longer = AppendBounded(log, item), NEW k \in DOMAIN longer
    PROVE  longer[k] = item \/ \E j \in DOMAIN log : longer[k] = log[j]
<1>1. PICK n : n = Len(longer)
  OBVIOUS
<1>2. /\ longer \in Seq(Item)
      /\ longer[n] = item
      /\ \/ \A i \in 1 .. n - 1 : i + 1 \in DOMAIN log /\ longer[i] = log[i + 1]
         \/ \A i \in 1 .. n - 1 : i \in DOMAIN log /\ longer[i] = log[i]
  BY <1>1, AppendBoundedIndexes, ZenonT(40)
<1>3. n \in Nat /\ k \in Nat /\ (k \in 1 .. n - 1 \/ k = n)
  BY <1>1, <1>2
<1> QED BY <1>2, <1>3

\* What the log has after a step, it had, or a worker has just logged.
LEMMA LogAfter ==
    ASSUME TypeInv, PlacesInv, LogInv, OrderInv, NEW w \in Workers, StepOf(w),
           NEW t \in Tasks, NEW k \in DOMAIN eventLogs'[t]
    PROVE  \/ \E j \in DOMAIN eventLogs[t] : eventLogs'[t][k] = eventLogs[t][j]
           \/ AppendLog(w) /\ taskOf[w] = t /\ eventLogs'[t][k] = Held(w)
<1>1. CASE ~AppendLog(w)
  BY <1>1, OnlyAppendLogs
<1>2. CASE AppendLog(w)
  <2>1. PICK log : log = eventLogs[taskOf[w]]
    OBVIOUS
  <2>2. PICK longer, item : longer = AppendBounded(log, item) /\ item = Held(w)
    OBVIOUS
  <2>3. /\ taskOf[w] \in Tasks /\ item \in Item /\ log \in Seq(Item)
        /\ \A u \in Tasks : eventLogs'[u] = IF u = taskOf[w] THEN longer ELSE eventLogs[u]
        /\ Len(log) <= EventLogCapacity
    BY <1>2, <2>1, <2>2, AppendTo
  <2>4. CASE t # taskOf[w]
    BY <2>3, <2>4
  <2>5. CASE t = taskOf[w]
    <3>1. k \in DOMAIN longer
      BY <2>3, <2>5
    <3>2. longer[k] = item \/ \E j \in DOMAIN log : longer[k] = log[j]
      BY <2>2, <2>3, <3>1, AppendedItems
    <3> QED BY <1>2, <2>1, <2>2, <2>3, <2>5, <3>2
  <2> QED BY <2>4, <2>5
<1> QED BY <1>1, <1>2

\* Nothing that was lost comes back.
LEMMA LostForGood ==
    ASSUME TypeInv, TypeInv', PlacesInv, LogInv, OrderInv, NEW w \in Workers, StepOf(w),
           NEW s \in Subscribers, subject'[s] = subject[s], subject[s] \in Tasks,
           NEW x, Owed(s, x)'
    PROVE  Owed(s, x)
<1> SUFFICES ASSUME NothingLost(s)' PROVE NothingLost(s)
  BY DEF Owed
<1>1. PICK t : t = subject[s] /\ t \in Tasks
  OBVIOUS
<1>2. Len(eventLogs'[t]) < EventLogCapacity /\ \A b \in Turns : Len(sent'[b]) <= BusCapacity
  BY <1>1 DEF NothingLost
<1>3. ASSUME NEW b \in Turns PROVE Len(sent[b]) <= BusCapacity
  <2>1. sent[b] \in Seq(Item) /\ sent'[b] \in Seq(Item)
    BY DEF TypeInv, TypeOK
  <2>2. CASE Len(sent[b]) = 0
    BY <2>2, SubscribeAssumption
  <2>3. CASE Len(sent[b]) # 0
    <3>1. Len(sent[b]) \in DOMAIN sent[b]
      BY <2>1, <2>3
    <3>2. Len(sent[b]) \in DOMAIN sent'[b]
      BY <3>1, SentGrows, StepNext
    <3> QED BY <1>2, <2>1, <3>2, SubscribeAssumption
  <2> QED BY <2>2, <2>3
<1>4. Len(eventLogs[t]) < EventLogCapacity
  <2>1. CASE ~AppendLog(w)
    BY <1>2, <2>1, OnlyAppendLogs
  <2>2. CASE AppendLog(w)
    <3>1. PICK log : log = eventLogs[taskOf[w]]
      OBVIOUS
    <3>2. PICK longer, item : longer = AppendBounded(log, item) /\ item = Held(w)
      OBVIOUS
    <3>3. /\ taskOf[w] \in Tasks /\ item \in Item /\ log \in Seq(Item)
          /\ \A u \in Tasks : eventLogs'[u] = IF u = taskOf[w] THEN longer ELSE eventLogs[u]
          /\ Len(log) <= EventLogCapacity
      BY <2>2, <3>1, <3>2, AppendTo
    <3>4. CASE t = taskOf[w]
      <4>1. Len(longer) < EventLogCapacity
        BY <1>2, <3>3, <3>4
      <4>2. \/ Len(longer) = EventLogCapacity
            \/ Len(longer) = Len(log) + 1
        BY <3>2, <3>3, AppendBoundedIndexes
      <4>3. Len(log) \in Nat /\ EventLogCapacity \in Nat
        BY <3>3, EngineAssumption
      <4>4. Len(log) < EventLogCapacity
        BY <4>1, <4>2, <4>3
      <4> QED BY <3>1, <3>4, <4>4
    <3> QED BY <1>1, <1>2, <3>3, <3>4
  <2> QED BY <2>1, <2>2
<1> QED BY <1>1, <1>3, <1>4 DEF NothingLost

\* What is logged now is above all that was.
LEMMA LoggedAbove ==
    ASSUME TypeInv, LogInv, OrderInv, NEW w \in Workers, AppendLog(w),
           NEW y, y.seq \in Nat, UpTo(y, taskOf[w])
    PROVE  y.seq < seq[w]
<1>1. PICK log, n : log = eventLogs[taskOf[w]] /\ n = seq[w]
  OBVIOUS
<1>2. log \in Seq(Item) /\ Below(log, n) /\ n \in Nat
  BY <1>1, AppendTo DEF TypeInv, TypeOK
<1>3. PICK z : z = log[Len(log)]
  OBVIOUS
<1>4. log # <<>> /\ (y = z \/ y.seq < z.seq)
  BY <1>1, <1>3 DEF UpTo
<1>5. Len(log) \in DOMAIN log /\ z.seq \in Nat
  BY <1>2, <1>3, <1>4, LastType
<1>6. z.seq < n
  BY <1>2, <1>3, <1>5 DEF Below
<1> QED BY <1>1, <1>2, <1>4, <1>5, <1>6

LEMMA EngineReached ==
    ASSUME Engine, Engine', Connections, CallInv, OneCallEach, NEW w \in Workers, StepOf(w),
           UNCHANGED subVars, NEW s \in Subscribers, InStream(s), Reached(s)
    PROVE  Reached(s)'
<1> USE DEF Engine
<1>1. SameStream(s) /\ Updates(s)' = Updates(s) /\ (Connected(s)' <=> Connected(s))
      /\ Since(s)' = Since(s)
  BY SameUpdates DEF SameStream, subVars, Connected, Since, Fresh
<1>2. PICK t : t = subject[s]
  OBVIOUS
<1>3. Connection(s) /\ SubTypeOK /\ subject'[s] = t /\ InOrderTo(s)
  BY <1>1, <1>2 DEF Connections, SameStream, InStream
<1>4. ASSUME t \in Tasks, NEW x, InLog(s, x)', Owed(s, x)'
      PROVE  /\ Owed(s, x)
             /\ InLog(s, x) \/ (AppendLog(w) /\ taskOf[w] = t /\ x = Held(w))
  <2>1. Owed(s, x)
    BY <1>2, <1>3, <1>4, LostForGood
  <2>2. PICK k \in DOMAIN eventLogs'[t] : x = eventLogs'[t][k]
    BY <1>3, <1>4 DEF InLog
  <2> QED BY <1>2, <1>4, <2>1, <2>2, LogAfter DEF InLog
<1>5. \A x : (Has(s, x)' <=> Has(s, x)) /\ (Waits(s, x)' <=> Waits(s, x))
  BY <1>1 DEF Has, Waits, SameStream
<1>6. HadSoFar(s)'
  <2> SUFFICES ASSUME stage[s] \in {"dropped", "findBus", "readLog"},
                      Len(delivered[s]) \in Updates(s),
                      NEW x, InLog(s, x)', Owed(s, x)', x.seq <= Since(s)
               PROVE  Has(s, x)
    BY <1>1, <1>5 DEF HadSoFar, SameStream
  <2>1. t \in Tasks
    BY <1>2, <1>3 DEF Connection
  <2>2. CASE InLog(s, x)
    BY <1>4, <2>1, <2>2 DEF Reached, HadSoFar
  <2>3. CASE AppendLog(w) /\ taskOf[w] = t /\ x = Held(w)
    <3>1. PICK y : y = delivered[s][Len(delivered[s])]
      OBVIOUS
    <3>2. y.seq \in Nat /\ delivered[s] # <<>>
      BY <3>1, DeliveredType
    <3>3. UpTo(y, t)
      BY <1>2, <1>3, <3>1 DEF InOrderTo
    <3>4. y.seq < seq[w] /\ seq[w] \in Nat
      BY <2>3, <3>2, <3>3, LoggedAbove DEF TypeInv, TypeOK
    <3>5. Since(s) = y.seq
      BY <3>1, <3>2, SinceType
    <3> QED BY <2>3, <3>2, <3>4, <3>5 DEF Held
  <2> QED BY <1>4, <2>1, <2>2, <2>3
<1>7. GoesOn(s)'
  <2>1. ASSUME Connected(s), NEW x, Covered(s, x) PROVE Covered(s, x)'
    <3>1. ASSUME Comes(s, x) PROVE Comes(s, x)'
      <4>1. \A b \in bus[s] : b \in Turns /\ position[s] <= Len(sent[b]) /\ position[s] \in Nat
        BY <1>3 DEF Connection, Of, SubTypeOK
      <4>2. \A b \in bus[s] : OnItsWay(s, b, x)'
        BY <1>1, <3>1, <4>1, StaysOnItsWay DEF Comes, SameStream
      <4> QED BY <1>1, <3>1, <4>2 DEF Comes, SameStream
    <3> QED BY <1>5, <2>1, <3>1 DEF Covered
  <2>2. ASSUME Connected(s), AppendLog(w), taskOf[w] = t, NEW x, x = Held(w)
        PROVE  Covered(s, x)'
    <3>1. t \in Tasks /\ replayed[s] \in Nat /\ seq[w] \in Nat /\ seq[w] > 0
      BY <1>2, <1>3, <2>2 DEF Connection, Connected, SubTypeOK, CallInv, Positive, AppendLog,
         Numbered, Unlogged, TypeInv, TypeOK
    <3>2. replayed[s] < seq[w]
      <4>1. CASE replayed[s] = 0
        BY <3>1, <4>1
      <4>2. CASE replayed[s] # 0
        <5>1. PICK log, y : log = eventLogs[t] /\ y = log[Len(log)]
          OBVIOUS
        <5>2. log # <<>> /\ replayed[s] <= y.seq
          BY <1>2, <2>2, <4>2, <5>1 DEF InStream, QueueInOrder
        <5>3. y.seq \in Nat
          BY <3>1, <5>1, <5>2, LastType DEF TypeInv, TypeOK
        <5>4. UpTo(y, t)
          BY <5>1, <5>2 DEF UpTo
        <5>5. y.seq < seq[w]
          BY <2>2, <5>3, <5>4, LoggedAbove
        <5> QED BY <3>1, <5>2, <5>3, <5>5
      <4> QED BY <4>1, <4>2
    <3>3. ASSUME NEW m \in Updates(s) PROVE delivered[s][m].seq <= seq[w]
      <4>1. PICK y : y = delivered[s][m]
        OBVIOUS
      <4>2. y.seq \in Nat /\ UpTo(y, t)
        BY <1>2, <1>3, <4>1, DeliveredType DEF InOrderTo
      <4>3. y.seq < seq[w]
        BY <2>2, <4>2, LoggedAbove
      <4> QED BY <3>1, <4>1, <4>2, <4>3
    <3>4. ASSUME NEW b \in bus[s] PROVE OnItsWay(s, b, x)'
      <4>1. b \in Workers /\ taskOf[b] = t
        BY <1>2, <1>3 DEF Connection, Of, Workers
      <4>2. b = w
        BY <2>2, <3>1, <4>1 DEF OneCallEach
      <4>3. PICK log : log = eventLogs[taskOf[w]]
        OBVIOUS
      <4>4. pc' = [pc EXCEPT ![w] = IF event[w].kind = "message" THEN "send" ELSE "getTask"]
            /\ seq' = seq /\ event' = event
        BY <2>2, <4>3, AppendTo
      <4>5. Logged(w)' /\ Held(w)' = Held(w)
        BY <4>4 DEF Logged, Held, TypeInv, TypeOK
      <4> QED BY <2>2, <4>2, <4>5 DEF OnItsWay
    <3> QED BY <1>1, <2>2, <3>2, <3>3, <3>4 DEF Covered, Comes, SameStream, Held
  <2>3. OnlyLed(s)' <=> OnlyLed(s)
    BY <1>1 DEF OnlyLed, SameStream
  <2>4. ASSUME stage[s] = "takeSeq" \/ (stage[s] = "streaming" /\ ~OnlyLed(s)),
               NEW x, InLog(s, x)', Owed(s, x)'
        PROVE  Covered(s, x)'
    <3>1. Connected(s) /\ t \in Tasks
      BY <1>2, <1>3, <2>4 DEF Connected, Connection
    <3>2. CASE InLog(s, x)
      BY <1>4, <2>1, <2>4, <3>1, <3>2 DEF Reached, GoesOn
    <3> QED BY <1>4, <2>2, <2>4, <3>1, <3>2
  <2> QED BY <1>1, <2>3, <2>4 DEF GoesOn, Reached, SameStream
<1>8. FromCall(s)'
  <2> SUFFICES ASSUME Connected(s), NEW i \in DOMAIN queue[s], IsUpdate(queue[s][i])
               PROVE  queue[s][i].by \in Workers /\ taskOf'[queue[s][i].by] = t
    BY <1>1, <1>3 DEF FromCall, SameStream
  <2>1. PICK v : v = queue[s][i].by
    OBVIOUS
  <2>2. v \in Workers /\ taskOf[v] = t /\ t \in Tasks
    BY <1>2, <1>3, <2>1 DEF Reached, FromCall, Connection, Connected
  <2> QED BY <2>1, <2>2, TaskStays
<1>9. Closes(s)'
  <2> SUFFICES ASSUME stage[s] = "ended", NEW b \in bus[s] PROVE SeesClose(s, b)'
    BY <1>1 DEF Closes, SameStream
  <2>1. SeesClose(s, b) /\ b \in Turns
    BY <1>3 DEF Reached, Closes, Connection, Of
  <2>2. CASE BusClosed(b) /\ \A i \in DOMAIN sent[b] : ~ClosesStream(sent[b][i].event)
    <3>1. BusClosed(b)' /\ sent'[b] = sent[b]
      BY <2>1, <2>2, ClosedStays, StepNext
    <3> QED BY <2>2, <3>1 DEF SeesClose
  <2> QED BY <1>1, <2>1, <2>2 DEF SeesClose, SameStream
<1> QED BY <1>6, <1>7, <1>8, <1>9 DEF Reached

LEMMA OtherReached ==
    ASSUME NEW u \in Subscribers, Reached(u), SameStream(u), SameEngine
    PROVE  Reached(u)'
<1>1. Updates(u)' = Updates(u)
  BY SameUpdates DEF SameStream
<1>2. HadSoFar(u)' /\ FromCall(u)' /\ Closes(u)'
  BY <1>1 DEF Reached, HadSoFar, FromCall, Closes, SeesClose, SameStream, SameEngine, InLog,
     Owed, NothingLost, Has, Since, Fresh, BusClosed, Connected, turnVars, cancelVars
<1>3. GoesOn(u)'
  <2>1. \A x : Covered(u, x)' <=> Covered(u, x)
    BY <1>1 DEF Covered, Has, Waits, Comes, OnItsWay, Logged, Held, SameStream, SameEngine
  <2>2. \A x : (InLog(u, x)' <=> InLog(u, x)) /\ (Owed(u, x)' <=> Owed(u, x))
    BY DEF InLog, Owed, NothingLost, SameStream, SameEngine
  <2>3. (OnlyLed(u)' <=> OnlyLed(u)) /\ stage'[u] = stage[u] /\ queue'[u] = queue[u]
    BY <1>1 DEF OnlyLed, SameStream
  <2> QED BY <2>1, <2>2, <2>3 DEF Reached, GoesOn
<1> QED BY <1>2, <1>3 DEF Reached

-----------------------------------------------------------------------------
LEMMA SameLog ==
    ASSUME NEW s \in Subscribers, SameEngine, subject'[s] = subject[s]
    PROVE  \A x : (InLog(s, x)' <=> InLog(s, x)) /\ (Owed(s, x)' <=> Owed(s, x))
BY DEF InLog, Owed, NothingLost, SameEngine

LEMMA ConnectReached ==
    ASSUME Connections, NEW s \in Subscribers, NEW t \in Tasks, Connect(s, t), Reached(s)
    PROVE  Reached(s)'
<1>1. SubTypeOK /\ Connection(s)
  BY DEF Connections
<1>2. /\ stage[s] \in {"idle", "dropped"} /\ stage'[s] = "findBus"
      /\ subject[s] \in {NoTask, t} /\ subject'[s] = t
      /\ delivered'[s] = delivered[s] /\ queue'[s] = queue[s] /\ UNCHANGED vars
  BY <1>1, ConnectAt
<1>3. Updates(s)' = Updates(s) /\ queue'[s] = <<>> /\ SameEngine /\ Since(s)' = Since(s)
  BY <1>1, <1>2, SameUpdates DEF Connection, SameEngine, Since, Fresh
<1>4. ASSUME Len(delivered[s]) \in Updates(s), NEW x, InLog(s, x)', Owed(s, x)', x.seq <= Since(s)
      PROVE  Has(s, x)
  <2>1. delivered[s] # <<>>
    BY <1>4, DeliveredType
  <2>2. stage[s] = "dropped" /\ subject[s] = t
    BY <1>1, <1>2, <2>1, EngineAssumption DEF Connection
  <2>3. InLog(s, x) /\ Owed(s, x)
    BY <1>2, <1>3, <1>4, <2>2, SameLog
  <2> QED BY <1>4, <2>2, <2>3 DEF Reached, HadSoFar
<1>5. HadSoFar(s)'
  BY <1>2, <1>3, <1>4 DEF HadSoFar, Has
<1> QED BY <1>2, <1>3, <1>5 DEF Reached, GoesOn, FromCall, Closes

LEMMA FindBusReached ==
    ASSUME Connections, NEW s \in Subscribers, FindBus(s), Reached(s)
    PROVE  Reached(s)'
<1>1. SubTypeOK /\ Connection(s)
  BY DEF Connections
<1>2. /\ stage[s] = "findBus" /\ stage'[s] = "readLog" /\ subject'[s] = subject[s]
      /\ delivered'[s] = delivered[s] /\ queue'[s] = queue[s] /\ UNCHANGED vars
  BY <1>1, FindBusAt
<1>3. Updates(s)' = Updates(s) /\ queue'[s] = <<>> /\ SameEngine /\ Since(s)' = Since(s)
  BY <1>1, <1>2, SameUpdates DEF Connection, SameEngine, Since, Fresh
<1>4. HadSoFar(s)'
  BY <1>2, <1>3, SameLog DEF Reached, HadSoFar, Has
<1> QED BY <1>2, <1>3, <1>4 DEF Reached, GoesOn, FromCall, Closes

\* The log is read: what it has is replayed, or the client had it.
LEMMA ReadLogReached ==
    ASSUME Engine, Connections, CallInv, NEW s \in Subscribers, ReadLog(s), FromEvents(s),
           Reached(s)
    PROVE  Reached(s)'
<1>1. SubTypeOK /\ Connection(s) /\ TypeInv
  BY DEF Connections, Engine
<1>2. PICK newer, log, t : /\ newer = Newer(eventLogs[subject[s]], Since(s))
                           /\ log = eventLogs[subject[s]] /\ t = subject[s]
  OBVIOUS
<1>3. /\ stage[s] = "readLog" /\ stage'[s] = "takeSeq" /\ queue'[s] = newer
      /\ subject'[s] = t /\ delivered'[s] = delivered[s] /\ UNCHANGED vars
  BY <1>1, <1>2, ReadLogAt
<1>4. t \in Tasks /\ Updates(s)' = Updates(s) /\ SameEngine
  BY <1>1, <1>2, <1>3, SameUpdates DEF Connection, SameEngine
<1>5. Replays(newer, log, Since(s)) /\ log \in Seq(Item)
  BY <1>1, <1>2, <1>4, ReplayItems DEF TypeInv, TypeOK
<1>6. ASSUME NEW x, InLog(s, x), Owed(s, x) PROVE Has(s, x) \/ \E i \in DOMAIN newer : newer[i] = x
  <2>1. PICK k \in DOMAIN log : x = log[k]
    BY <1>2, <1>6 DEF InLog
  <2>2. x \in Item /\ x.seq \in Nat /\ x.seq > 0 /\ Since(s) \in Nat
    <3>1. x \in Item
      BY <1>5, <2>1
    <3>2. x.seq > 0
      BY <1>2, <1>4, <2>1 DEF CallInv, Positive
    <3> QED BY <3>1, <3>2, SinceType DEF Item
  <2>3. CASE x.seq > Since(s)
    BY <1>5, <2>1, <2>3 DEF Replays
  <2>4. CASE x.seq <= Since(s)
    <3>1. Len(delivered[s]) \in resumed[s]
      BY <1>1, <1>3 DEF Connection
    <3>2. delivered[s] # <<>>
      BY <2>2, <2>4, SinceType
    <3>3. Len(delivered[s]) # 0
      BY <3>2, SinceType, DeliveredType
    <3>4. Len(delivered[s]) \in Updates(s)
      BY <3>1, <3>3 DEF FromEvents
    <3> QED BY <1>3, <1>6, <2>4, <3>4 DEF Reached, HadSoFar
  <2> QED BY <2>2, <2>3, <2>4
<1>7. GoesOn(s)'
  <2>1. \A x : (InLog(s, x)' <=> InLog(s, x)) /\ (Owed(s, x)' <=> Owed(s, x))
    BY <1>2, <1>3, <1>4, SameLog
  <2>2. \A x : InLog(s, x) /\ Owed(s, x) => Covered(s, x)'
    BY <1>3, <1>4, <1>6 DEF Covered, Has, Waits
  <2> QED BY <1>3, <2>1, <2>2 DEF GoesOn
<1>8. FromCall(s)'
  <2>1. ASSUME NEW i \in DOMAIN newer PROVE newer[i].by \in Workers /\ taskOf[newer[i].by] = t
    <3>1. PICK k \in DOMAIN log : newer[i] = log[k]
      BY <1>5, <2>1 DEF Replays
    <3> QED BY <1>2, <1>4, <3>1 DEF Engine, TopInv, LogsOwn
  <2> QED BY <1>3, <1>4, <2>1 DEF FromCall, SameEngine
<1>9. HadSoFar(s)' /\ Closes(s)'
  BY <1>3 DEF HadSoFar, Closes
<1> QED BY <1>7, <1>8, <1>9 DEF Reached

\* The stream begins: the Task it is led or ended by takes nothing away.
LEMMA BeginReached ==
    ASSUME TypeInv, Connections, NEW s \in Subscribers, FromEvents(s), Reached(s),
           BeginFresh(s) \/ BeginAgainIdle(s) \/ BeginAgainLive(s)
    PROVE  Reached(s)'
<1>1. SubTypeOK /\ Connection(s)
  BY DEF Connections
<1>2. PICK old, new, led : old = queue[s] /\ new = queue'[s] /\ led = Snapshot(s)
  OBVIOUS
<1>3. /\ stage[s] = "takeSeq" /\ stage'[s] = "streaming"
      /\ \/ delivered[s] = <<>> /\ bus[s] = {} /\ new = <<led>>
         \/ delivered[s] = <<>> /\ bus[s] # {} /\ new = <<led>> \o old
         \/ delivered[s] # <<>> /\ bus[s] = {} /\ new = Append(old, led)
         \/ delivered[s] # <<>> /\ bus[s] # {} /\ new = old
      /\ subject'[s] = subject[s] /\ bus'[s] = bus[s] /\ position'[s] = position[s]
      /\ replayed'[s] = replayed[s] /\ delivered'[s] = delivered[s]
  BY <1>1, <1>2, BeginAt
<1>4. SameEngine /\ Updates(s)' = Updates(s)
  BY <1>1, <1>3, SameUpdates, OneStream DEF SubscriberStep, StreamStep
<1>5. Connected(s) /\ ~IsUpdate(led) /\ led \in SubItem /\ old \in Seq(SubItem)
  BY <1>1, <1>2, <1>3, SnapshotType DEF Connected, SubTypeOK
<1>6. \A i \in DOMAIN new : IsUpdate(new[i]) => \E j \in DOMAIN old : new[i] = old[j]
  <2>1. CASE new = <<led>> \o old
    <3>1. \A i \in DOMAIN new : new[i] = led \/ (i - 1 \in DOMAIN old /\ new[i] = old[i - 1])
      BY <1>5, <2>1
    <3> QED BY <1>5, <3>1
  <2>2. CASE new = Append(old, led)
    <3>1. \A i \in DOMAIN new : new[i] = led \/ (i \in DOMAIN old /\ new[i] = old[i])
      BY <1>5, <2>2
    <3> QED BY <1>5, <3>1
  <2>3. CASE new = <<led>>
    BY <1>5, <2>3
  <2> QED BY <1>3, <2>1, <2>2, <2>3
<1>8. GoesOn(s)'
  <2>1. CASE OnlyLed(s)
    <3>1. delivered[s] = <<>>
      <4>1. Len(delivered[s]) \in Updates(s) \cup {0}
        BY <1>1, <1>3 DEF Connection, FromEvents
      <4>2. Len(delivered[s]) = 0 /\ delivered[s] \in Seq(SubItem)
        BY <2>1, <4>1, DeliveredType DEF OnlyLed
      <4> QED BY <4>2
    <3>3. new = <<led>>
      BY <1>3, <2>1, <3>1 DEF OnlyLed
    <3>4. \A i \in DOMAIN new : ~IsUpdate(new[i])
      BY <1>5, <3>3
    <3>5. OnlyLed(s)'
      BY <1>3, <1>4, <2>1 DEF OnlyLed
    <3> QED BY <1>2, <1>3, <3>4, <3>5 DEF GoesOn
  <2>2. CASE ~OnlyLed(s)
    <3>1. ~OnlyLed(s)'
      BY <1>3, <1>4, <2>2 DEF OnlyLed
    <3>2. \A j \in DOMAIN old : \E i \in DOMAIN new : new[i] = old[j]
      <4>2. CASE delivered[s] = <<>> /\ bus[s] = {}
        <5>1. Updates(s) = {}
          BY <4>2, DeliveredType
        <5> QED BY <2>2, <4>2, <5>1 DEF OnlyLed
      <4>3. CASE new = old
        BY <4>3
      <4>4. CASE bus[s] # {} /\ new = <<led>> \o old
        <5>1. \A j \in DOMAIN old : j + 1 \in DOMAIN new /\ new[j + 1] = old[j]
          BY <1>5, <4>4
        <5> QED BY <5>1
      <4>5. CASE new = Append(old, led)
        <5>1. \A j \in DOMAIN old : j \in DOMAIN new /\ new[j] = old[j]
          BY <1>5, <4>5
        <5> QED BY <5>1
      <4> QED BY <1>3, <4>2, <4>3, <4>4, <4>5
    <3>3. \A x : Covered(s, x) => Covered(s, x)'
      BY <1>2, <1>3, <1>4, <3>2 DEF Covered, Has, Waits, Comes, OnItsWay, SameEngine, Logged, Held
    <3>4. \A x : (InLog(s, x)' <=> InLog(s, x)) /\ (Owed(s, x)' <=> Owed(s, x))
      BY <1>3, <1>4, SameLog
    <3> QED BY <1>3, <3>1, <3>3, <3>4 DEF Reached, GoesOn
  <2> QED BY <2>1, <2>2
<1>9. FromCall(s)'
  BY <1>2, <1>3, <1>4, <1>5, <1>6 DEF Reached, FromCall, SameEngine
<1> QED BY <1>3, <1>8, <1>9 DEF Reached, HadSoFar, Closes

LEMMA SendQueuedReached ==
    ASSUME Engine, Connections, OneCallEach, NEW s \in Subscribers, SendQueued(s), InStream(s),
           Reached(s)
    PROVE  Reached(s)'
<1>1. SubTypeOK /\ Connection(s) /\ TypeInv
  BY DEF Connections, Engine
<1>2. PICK old, new, x : old = queue[s] /\ new = queue'[s] /\ x = Head(queue[s])
  OBVIOUS
<1>3. /\ stage[s] = "streaming" /\ old # <<>> /\ new = Tail(old)
      /\ delivered'[s] = Append(delivered[s], x)
      /\ stage'[s] = IF bus[s] # {} /\ ClosesStream(x.event) THEN "ended" ELSE "streaming"
      /\ subject'[s] = subject[s] /\ bus'[s] = bus[s] /\ position'[s] = position[s]
      /\ replayed'[s] = replayed[s] /\ UNCHANGED vars
  BY <1>1, <1>2, SendQueuedAt
<1>4. old \in Seq(SubItem) /\ x = old[1] /\ 1 \in DOMAIN old /\ x \in SubItem
  BY <1>1, <1>2, <1>3 DEF SubTypeOK
<1>5. /\ \A i \in DOMAIN new : i + 1 \in DOMAIN old /\ new[i] = old[i + 1]
      /\ \A i \in DOMAIN old : i = 1 \/ (i - 1 \in DOMAIN new /\ new[i - 1] = old[i])
  BY <1>3, <1>4
<1>6. SameEngine /\ Connected(s) /\ QueueInOrder(s) /\ subject[s] \in Tasks
  BY <1>1, <1>3 DEF SameEngine, Connected, InStream, Connection
<1>7. /\ \A m \in Updates(s)' :
            \/ m \in Updates(s) /\ delivered'[s][m] = delivered[s][m]
            \/ m = Len(delivered[s]) + 1 /\ IsUpdate(x) /\ delivered'[s][m] = x
      /\ \A m \in Updates(s) : m \in Updates(s)' /\ delivered'[s][m] = delivered[s][m]
      /\ IsUpdate(x) => Len(delivered[s]) + 1 \in Updates(s)'
  BY <1>3, MoreUpdates
<1>8. IsUpdate(x) => \E m \in Updates(s)' : delivered'[s][m] = x
  <2>1. IsUpdate(x) => delivered'[s][Len(delivered[s]) + 1] = x
    BY <1>3, DeliveredType
  <2> QED BY <1>7, <2>1
<1>9. GoesOn(s)'
  <2>1. ASSUME NEW y, InLog(s, y), Covered(s, y) PROVE Covered(s, y)'
    <3>1. CASE Has(s, y)
      BY <1>7, <3>1 DEF Has, Covered
    <3>2. CASE Waits(s, y)
      <4>1. PICK i \in DOMAIN old : old[i] = y
        BY <1>2, <3>2 DEF Waits
      <4>2. CASE i = 1
        <5>1. IsUpdate(y)
          BY <1>6, <2>1 DEF InLog, Engine, TopInv, LogsOwn
        <5> QED BY <1>4, <1>8, <4>1, <4>2, <5>1 DEF Has, Covered
      <4>3. CASE i # 1
        BY <1>2, <1>5, <4>1, <4>3 DEF Waits, Covered
      <4> QED BY <4>2, <4>3
    <3>3. CASE Comes(s, y)
      <4>1. IsUpdate(x) => x.seq <= replayed[s]
        BY <1>2, <1>4, <1>6 DEF QueueInOrder
      <4>2. y.seq \in Nat /\ x.seq \in Nat /\ replayed[s] \in Nat /\ y.seq > replayed[s]
        <5>1. y \in Item
          BY <1>1, <1>6, <2>1 DEF InLog, TypeInv, TypeOK
        <5>2. x.seq \in Nat /\ replayed[s] \in Nat
          BY <1>1, <1>4 DEF SubItem, SubTypeOK
        <5> QED BY <3>3, <5>1, <5>2 DEF Item, Comes
      <4>3. \A m \in Updates(s)' : delivered'[s][m].seq <= y.seq
        BY <1>7, <3>3, <4>1, <4>2 DEF Comes
      <4>4. \A b \in bus[s] : OnItsWay(s, b, y)'
        BY <1>3, <3>3 DEF Comes, OnItsWay, Logged, Held
      <4> QED BY <1>3, <4>2, <4>3, <4>4 DEF Comes, Covered
    <3> QED BY <2>1, <3>1, <3>2, <3>3 DEF Covered
  <2>2. \A y : (InLog(s, y)' <=> InLog(s, y)) /\ (Owed(s, y)' <=> Owed(s, y))
    BY <1>3, <1>6, SameLog
  <2>3. CASE OnlyLed(s)
    <3>1. \A i \in DOMAIN old : ~IsUpdate(old[i])
      BY <1>2, <1>3, <2>3 DEF Reached, GoesOn
    <3>2. \A i \in DOMAIN new : ~IsUpdate(new[i])
      BY <1>5, <3>1
    <3>3. OnlyLed(s)'
      BY <1>3, <1>4, <1>7, <2>3, <3>1 DEF OnlyLed
    <3> QED BY <1>2, <1>3, <3>2, <3>3 DEF GoesOn
  <2>4. CASE ~OnlyLed(s)
    <3>1. ~OnlyLed(s)'
      BY <1>3, <1>7, <2>4 DEF OnlyLed
    <3>2. \A y : InLog(s, y) /\ Owed(s, y) => Covered(s, y)
      BY <1>3, <2>4 DEF Reached, GoesOn
    <3> QED BY <1>3, <2>1, <2>2, <3>1, <3>2 DEF GoesOn
  <2> QED BY <2>3, <2>4
<1>10. FromCall(s)'
  BY <1>2, <1>3, <1>5, <1>6 DEF Reached, FromCall
<1>11. Closes(s)'
  <2> SUFFICES ASSUME stage'[s] = "ended", NEW b \in bus[s] PROVE SeesClose(s, b)'
    BY <1>3 DEF Closes
  <2>1. ClosesStream(x.event)
    BY <1>3
  <2>2. IsUpdate(x)
    BY <2>1 DEF ClosesStream, IsUpdate
  <2>3. x.by \in Workers /\ taskOf[x.by] = subject[s]
    BY <1>2, <1>4, <1>6, <2>2 DEF Reached, FromCall
  <2>4. b \in Workers /\ taskOf[b] = subject[s]
    BY <1>1 DEF Connection, Of, Workers
  <2>5. x.by = b
    BY <1>6, <2>3, <2>4 DEF OneCallEach
  <2> QED BY <1>8, <2>1, <2>2, <2>5 DEF SeesClose
<1>12. HadSoFar(s)'
  BY <1>3 DEF HadSoFar
<1> QED BY <1>9, <1>10, <1>11, <1>12 DEF Reached

LEMMA SendLiveReached ==
    ASSUME Engine, Connections, OwnBus, NEW s \in Subscribers, SendLive(s), Reached(s)
    PROVE  Reached(s)'
<1> USE DEF Engine
<1>1. SubTypeOK /\ Connection(s) /\ TypeInv
  BY DEF Connections
<1>0. PICK b \in bus[s] : \E x :
        /\ position[s] + 1 \in 1 .. Len(sent[b]) /\ x = sent[b][position[s] + 1]
        /\ stage[s] = "streaming" /\ queue[s] = <<>> /\ queue'[s] = <<>>
        /\ position'[s] = position[s] + 1
        /\ \/ /\ x.seq <= replayed[s]
              /\ delivered'[s] = delivered[s] /\ stage'[s] = "streaming"
           \/ /\ ~(x.seq <= replayed[s])
              /\ delivered'[s] = Append(delivered[s], x)
              /\ stage'[s] = IF ClosesStream(x.event) THEN "ended" ELSE "streaming"
        /\ subject'[s] = subject[s] /\ bus'[s] = bus[s] /\ replayed'[s] = replayed[s]
        /\ UNCHANGED vars
  BY <1>1, SendLiveAt
<1>2. PICK x :
        /\ position[s] + 1 \in 1 .. Len(sent[b]) /\ x = sent[b][position[s] + 1]
        /\ stage[s] = "streaming" /\ queue[s] = <<>> /\ queue'[s] = <<>>
        /\ position'[s] = position[s] + 1
        /\ \/ /\ x.seq <= replayed[s]
              /\ delivered'[s] = delivered[s] /\ stage'[s] = "streaming"
           \/ /\ ~(x.seq <= replayed[s])
              /\ delivered'[s] = Append(delivered[s], x)
              /\ stage'[s] = IF ClosesStream(x.event) THEN "ended" ELSE "streaming"
        /\ subject'[s] = subject[s] /\ bus'[s] = bus[s] /\ replayed'[s] = replayed[s]
        /\ UNCHANGED vars
  BY <1>0
<1>3. PICK p : p = position[s] + 1
  OBVIOUS
<1>4. /\ b \in Turns /\ taskOf[b] = subject[s] /\ bus[s] = {b} /\ subject[s] \in Tasks
      /\ sent[b] \in Seq(Item) /\ position[s] \in Nat /\ replayed[s] \in Nat
  BY <1>1, <1>2 DEF Connection, Of, TypeInv, TypeOK, SubTypeOK
<1>5. p \in DOMAIN sent[b] /\ p \in Nat /\ x = sent[b][p] /\ x \in Item /\ x.seq \in Nat
  <2>1. p \in DOMAIN sent[b] /\ p \in Nat /\ x = sent[b][p]
    BY <1>2, <1>3, <1>4
  <2>2. x \in Item
    BY <1>4, <2>1
  <2> QED BY <2>1, <2>2 DEF Item
<1>6. SameEngine /\ ~OnlyLed(s) /\ ~OnlyLed(s)'
  BY <1>2 DEF SameEngine, OnlyLed
<1>7. \A y : (InLog(s, y)' <=> InLog(s, y)) /\ (Owed(s, y)' <=> Owed(s, y))
  BY <1>2, <1>6, SameLog
<1>8. \A y : InLog(s, y) /\ Owed(s, y) => Has(s, y) \/ Comes(s, y)
  BY <1>2, <1>6 DEF Reached, GoesOn, Covered, Waits
\* What is not the item received stays on its way.
<1>9. ASSUME NEW y, OnItsWay(s, b, y), y # x \/ (Logged(b) /\ Held(b) = y)
      PROVE  OnItsWay(s, b, y)'
  <2>1. CASE Logged(b) /\ Held(b) = y
    BY <1>2, <2>1 DEF OnItsWay, Logged, Held
  <2>2. ASSUME NEW i \in DOMAIN sent[b], i > position[s], sent[b][i] = y, y # x
        PROVE  OnItsWay(s, b, y)'
    <3>1. i \in Nat /\ i # p
      BY <1>4, <1>5, <2>2
    <3>2. i > position'[s]
      BY <1>2, <1>3, <1>4, <2>2, <3>1
    <3> QED BY <1>2, <2>2, <3>2 DEF OnItsWay
  <2> QED BY <1>9, <2>1, <2>2 DEF OnItsWay
<1>10. FromCall(s)' /\ HadSoFar(s)'
  BY <1>2 DEF FromCall, HadSoFar
<1>11. CASE x.seq <= replayed[s] /\ delivered'[s] = delivered[s] /\ stage'[s] = "streaming"
  <2>1. Updates(s)' = Updates(s)
    BY <1>11, SameUpdates
  <2>2. ASSUME NEW y, InLog(s, y), Owed(s, y) PROVE Covered(s, y)'
    <3>1. CASE Has(s, y)
      BY <1>11, <2>1, <3>1 DEF Has, Covered
    <3>2. CASE Comes(s, y)
      <4>1. y # x
        BY <1>4, <1>5, <1>11, <3>2 DEF Comes
      <4>2. OnItsWay(s, b, y)'
        <5>1. OnItsWay(s, b, y)
          BY <1>4, <3>2 DEF Comes
        <5> QED BY <1>9, <4>1, <5>1
      <4> QED BY <1>2, <1>4, <1>11, <2>1, <3>2, <4>2 DEF Comes, Covered
    <3> QED BY <1>8, <2>2, <3>1, <3>2
  <2>3. GoesOn(s)'
    BY <1>6, <1>7, <1>11, <2>2 DEF GoesOn
  <2> QED BY <1>10, <1>11, <2>3 DEF Reached, Closes
<1>12. CASE /\ delivered'[s] = Append(delivered[s], x)
            /\ stage'[s] = IF ClosesStream(x.event) THEN "ended" ELSE "streaming"
  <2>1. /\ \A m \in Updates(s)' :
            \/ m \in Updates(s) /\ delivered'[s][m] = delivered[s][m]
            \/ IsUpdate(x) /\ delivered'[s][m] = x
        /\ \A m \in Updates(s) : m \in Updates(s)' /\ delivered'[s][m] = delivered[s][m]
        /\ IsUpdate(x) => \E m \in Updates(s)' : delivered'[s][m] = x
    <3>1. /\ \A m \in Updates(s)' :
              \/ m \in Updates(s) /\ delivered'[s][m] = delivered[s][m]
              \/ m = Len(delivered[s]) + 1 /\ IsUpdate(x) /\ delivered'[s][m] = x
          /\ \A m \in Updates(s) : m \in Updates(s)' /\ delivered'[s][m] = delivered[s][m]
          /\ IsUpdate(x) => Len(delivered[s]) + 1 \in Updates(s)'
      BY <1>12, MoreUpdates
    <3>2. IsUpdate(x) => delivered'[s][Len(delivered[s]) + 1] = x
      BY <1>12, DeliveredType
    <3> QED BY <3>1, <3>2
  <2>2. ASSUME NEW y, InLog(s, y), Owed(s, y) PROVE Covered(s, y)'
    <3>1. CASE Has(s, y)
      BY <2>1, <3>1 DEF Has, Covered
    <3>2. y \in Item /\ y.seq \in Nat /\ IsUpdate(y)
      <4>1. y \in Item
        BY <1>4, <2>2 DEF InLog, TypeInv, TypeOK
      <4>2. IsUpdate(y)
        BY <1>4, <2>2 DEF InLog, TopInv, LogsOwn
      <4> QED BY <4>1, <4>2 DEF Item
    <3>3. CASE y = x
      BY <2>1, <3>2, <3>3 DEF Has, Covered
    <3>4. CASE Comes(s, y) /\ y # x
      <4>1. OnItsWay(s, b, y)'
        <5>1. OnItsWay(s, b, y)
          BY <1>4, <3>4 DEF Comes
        <5> QED BY <1>9, <3>4, <5>1
      <4>2. ASSUME IsUpdate(x) PROVE x.seq <= y.seq
        <5>1. CASE Logged(b) /\ Held(b) = y
          <6>1. PICK log : log = eventLogs[taskOf[b]]
            OBVIOUS
          <6>2. log[Len(log)] = Held(b)
            BY <1>4, <5>1, <6>1 DEF TopInv, LastLogged, Workers
          <6>3. x = log[Len(log)] \/ x.seq < log[Len(log)].seq
            BY <1>4, <1>5, <4>2, <6>1 DEF TopInv, SentUpTo, UpTo
          <6> QED BY <1>5, <3>2, <5>1, <6>2, <6>3
        <5>2. ASSUME NEW i \in DOMAIN sent[b], i > position[s], sent[b][i] = y
              PROVE  x.seq <= y.seq
          <6>1. p < i
            BY <1>3, <1>4, <1>5, <3>4, <5>2
          <6>2. x.seq < y.seq
            BY <1>4, <1>5, <3>2, <4>2, <5>2, <6>1 DEF TopInv, BusInOrder
          <6> QED BY <1>5, <3>2, <6>2
        <5> QED BY <3>4, <5>1, <5>2 DEF Comes, OnItsWay
      <4>3. \A m \in Updates(s)' : delivered'[s][m].seq <= y.seq
        BY <2>1, <3>4, <4>2 DEF Comes
      <4> QED BY <1>2, <1>4, <3>4, <4>1, <4>3 DEF Comes, Covered
    <3> QED BY <1>8, <2>2, <3>1, <3>3, <3>4
  <2>3. GoesOn(s)'
    BY <1>6, <1>7, <1>12, <2>2 DEF GoesOn
  <2>4. Closes(s)'
    <3> SUFFICES ASSUME stage'[s] = "ended" PROVE SeesClose(s, b)'
      BY <1>2, <1>4 DEF Closes
    <3>1. ClosesStream(x.event) /\ IsUpdate(x)
      BY <1>12 DEF ClosesStream, IsUpdate
    <3>2. x.by = b
      BY <1>4, <1>5 DEF OwnBus
    <3> QED BY <2>1, <3>1, <3>2 DEF SeesClose
  <2> QED BY <1>10, <2>3, <2>4 DEF Reached
<1> QED BY <1>2, <1>11, <1>12

\* A subscriber that falls behind may lose events, but not the closing one,
\* which is the last on the bus.
LEMMA SkipLostReached ==
    ASSUME Engine, Connections, OwnBus, NEW s \in Subscribers, SkipLost(s), Reached(s)
    PROVE  Reached(s)'
<1> USE DEF Engine
<1>1. SubTypeOK /\ Connection(s) /\ TypeInv
  BY DEF Connections
<1>2. PICK b \in bus[s] :
        /\ stage[s] = "streaming" /\ queue[s] = <<>>
        /\ Lagging(s, b) /\ position'[s] = Len(sent[b]) - BusCapacity
        /\ stage'[s] = stage[s] /\ subject'[s] = subject[s]
        /\ bus'[s] = bus[s] /\ queue'[s] = queue[s]
        /\ replayed'[s] = replayed[s] /\ delivered'[s] = delivered[s]
        /\ UNCHANGED vars
  BY <1>1, SkipLostAt
<1>3. /\ b \in Turns /\ bus[s] = {b} /\ sent[b] \in Seq(Item) /\ Len(sent[b]) \in Nat
      /\ position[s] \in Nat /\ BusCapacity \in Nat /\ BusCapacity > 0
  <2>1. b \in Turns /\ bus[s] = {b}
    BY <1>1, <1>2 DEF Connection, Of
  <2>2. sent[b] \in Seq(Item)
    BY <1>1, <2>1 DEF TypeInv, TypeOK
  <2>3. Len(sent[b]) \in Nat
    BY <2>2
  <2>4. position[s] \in Nat /\ BusCapacity \in Nat /\ BusCapacity > 0
    BY <1>1, SubscribeAssumption DEF SubTypeOK
  <2> QED BY <2>1, <2>2, <2>3, <2>4
<1>4. SameEngine /\ Updates(s)' = Updates(s)
  BY <1>2, SameUpdates DEF SameEngine
<1>5. ~OnlyLed(s) /\ ~OnlyLed(s)'
  BY <1>2 DEF OnlyLed
<1>6. ~NothingLost(s)
  <2>1. ~(Len(sent[b]) <= BusCapacity)
    BY <1>2, <1>3 DEF Lagging
  <2> QED BY <1>3, <2>1 DEF NothingLost
<1>7. ASSUME NEW y, ClosesStream(y.event), OnItsWay(s, b, y) PROVE OnItsWay(s, b, y)'
  <2>1. CASE Logged(b) /\ Held(b) = y
    BY <1>2, <2>1 DEF OnItsWay, Logged, Held
  <2>2. ASSUME NEW i \in DOMAIN sent[b], sent[b][i] = y PROVE OnItsWay(s, b, y)'
    <3>1. i = Len(sent[b])
      <4>1. i \in 1 .. Len(sent[b]) /\ Len(sent[b]) \in DOMAIN sent[b]
        BY <1>3, <2>2
      <4>2. sent[b][i].by = b /\ sent[b][Len(sent[b])].by = b
        BY <1>3, <4>1 DEF OwnBus
      <4>3. ~(i < Len(sent[b]))
        BY <1>3, <1>7, <2>2, <4>1, <4>2 DEF CloseInv, NothingAfterClose
      <4> QED BY <1>3, <4>1, <4>3
    <3>2. i > position'[s]
      BY <1>2, <1>3, <3>1
    <3> QED BY <1>2, <2>2, <3>2 DEF OnItsWay
  <2> QED BY <1>7, <2>1, <2>2 DEF OnItsWay
<1>8. GoesOn(s)'
  <2>1. ASSUME NEW y, InLog(s, y), Owed(s, y) PROVE Covered(s, y)'
    <3>1. ClosesStream(y.event)
      BY <1>6, <2>1 DEF Owed
    <3>2. Has(s, y) \/ Comes(s, y)
      BY <1>2, <1>5, <2>1 DEF Reached, GoesOn, Covered, Waits
    <3>3. CASE Has(s, y)
      BY <1>2, <1>4, <3>3 DEF Has, Covered
    <3>4. CASE Comes(s, y)
      <4>1. OnItsWay(s, b, y)'
        BY <1>3, <1>7, <3>1, <3>4 DEF Comes
      <4> QED BY <1>2, <1>3, <1>4, <3>4, <4>1 DEF Comes, Covered
    <3> QED BY <3>2, <3>3, <3>4
  <2>2. \A y : (InLog(s, y)' <=> InLog(s, y)) /\ (Owed(s, y)' <=> Owed(s, y))
    BY <1>2, <1>4, SameLog
  <2> QED BY <1>5, <2>1, <2>2 DEF GoesOn
<1> QED BY <1>2, <1>8 DEF Reached, FromCall, HadSoFar, Closes

\* A stream without a bus ends with its queue; one whose bus has closed has had
\* the closing event, if there was one.
LEMMA EndReached ==
    ASSUME Engine, Connections, OwnBus, NEW s \in Subscribers, EndOfStream(s), InStream(s),
           Reached(s)
    PROVE  Reached(s)'
<1> USE DEF Engine
<1>1. SubTypeOK /\ Connection(s) /\ TypeInv
  BY DEF Connections
<1>2. /\ stage[s] = "streaming" /\ stage'[s] = "ended" /\ queue[s] = <<>>
      /\ \A b \in bus[s] : BusClosed(b) /\ position[s] = Len(sent[b])
      /\ bus'[s] = bus[s] /\ queue'[s] = queue[s] /\ delivered'[s] = delivered[s]
      /\ UNCHANGED vars
  BY <1>1, EndAt
<1>3. Updates(s)' = Updates(s)
  BY <1>2, SameUpdates
<1>4. ASSUME NEW b \in bus[s] PROVE SeesClose(s, b)
  <2>1. /\ b \in Turns /\ taskOf[b] = subject[s] /\ subject[s] \in Tasks
        /\ sent[b] \in Seq(Item) /\ ~OnlyLed(s)
    BY <1>1, <1>2 DEF Connection, Of, TypeInv, TypeOK, OnlyLed
  <2>2. ASSUME NEW i \in DOMAIN sent[b], ClosesStream(sent[b][i].event)
        PROVE  \E m \in Updates(s) : delivered[s][m].by = b
                                     /\ ClosesStream(delivered[s][m].event)
    <3>1. PICK x, log : x = sent[b][i] /\ log = eventLogs[subject[s]]
      OBVIOUS
    <3>2. x.by = b /\ log # <<>> /\ log[Len(log)] = x /\ ClosesStream(x.event)
      BY <2>1, <2>2, <3>1 DEF OwnBus
    <3>3. log \in Seq(Item)
      BY <2>1, <3>1 DEF TypeInv, TypeOK
    <3>4. Len(log) \in DOMAIN log /\ x.seq \in Nat
      BY <3>2, <3>3, LastType
    <3>5. InLog(s, x) /\ Owed(s, x)
      BY <3>1, <3>2, <3>4 DEF InLog, Owed
    <3>6. Has(s, x) \/ Comes(s, x)
      BY <1>2, <2>1, <3>5 DEF Reached, GoesOn, Covered, Waits
    <3>7. ~Comes(s, x)
      <4>1. ~Logged(b)
        BY <1>2 DEF BusClosed, Logged
      <4>2. \A j \in DOMAIN sent[b] : ~(j > position[s])
        <5>1. position[s] = Len(sent[b]) /\ position[s] \in Nat
          BY <1>1, <1>2 DEF SubTypeOK
        <5> QED BY <2>1, <5>1
      <4> QED BY <4>1, <4>2 DEF Comes, OnItsWay
    <3>8. PICK m \in Updates(s) : delivered[s][m].seq = x.seq
      BY <3>6, <3>7 DEF Has
    <3>9. UpTo(delivered[s][m], subject[s])
      BY DEF InStream, InOrderTo
    <3>10. delivered[s][m] = x
      BY <3>1, <3>2, <3>4, <3>8, <3>9 DEF UpTo
    <3> QED BY <3>2, <3>10
  <2> QED BY <1>2, <2>2 DEF SeesClose
<1>5. Closes(s)'
  BY <1>2, <1>3, <1>4 DEF Closes, SeesClose, BusClosed
<1> QED BY <1>2, <1>5 DEF Reached, HadSoFar, GoesOn, FromCall, Connected

\* The connection is lost: whatever is up to the last event the client had, it
\* had.
LEMMA DropReached ==
    ASSUME Engine, Connections, NEW s \in Subscribers, Drop(s), InStream(s), Reached(s)
    PROVE  Reached(s)'
<1> USE DEF Engine
<1>1. SubTypeOK /\ Connection(s) /\ TypeInv
  BY DEF Connections
<1>2. /\ stage[s] = "streaming" /\ stage'[s] = "dropped" /\ queue'[s] = <<>>
      /\ subject'[s] = subject[s] /\ delivered'[s] = delivered[s] /\ UNCHANGED vars
  BY <1>1, DropAt
<1>3. Updates(s)' = Updates(s) /\ SameEngine /\ Since(s)' = Since(s)
  BY <1>2, SameUpdates DEF SameEngine, Since, Fresh
<1>4. subject[s] \in Tasks /\ InOrderTo(s) /\ QueueInOrder(s)
  BY <1>1, <1>2 DEF Connection, InStream, Connected
<1>5. ASSUME Len(delivered[s]) \in Updates(s), NEW x, InLog(s, x), Owed(s, x), x.seq <= Since(s)
      PROVE  Has(s, x)
  <2>1. PICK n, y : n = Len(delivered[s]) /\ y = delivered[s][n]
    OBVIOUS
  <2>2. n \in Updates(s) /\ y.seq \in Nat /\ delivered[s] # <<>>
    BY <1>5, <2>1, DeliveredType
  <2>3. Since(s) = y.seq
    BY <2>1, <2>2, SinceType
  <2>4. x \in Item /\ x.seq \in Nat /\ IsUpdate(x)
    <3>1. x \in Item
      BY <1>1, <1>4, <1>5 DEF InLog, TypeInv, TypeOK
    <3>2. IsUpdate(x)
      BY <1>4, <1>5 DEF InLog, TopInv, LogsOwn
    <3> QED BY <3>1, <3>2 DEF Item
  <2>5. Covered(s, x)
    BY <1>2, <1>5 DEF Reached, GoesOn, OnlyLed
  <2>6. ~Waits(s, x)
    <3> SUFFICES ASSUME NEW i \in DOMAIN queue[s], queue[s][i] = x PROVE FALSE
      BY DEF Waits
    <3>1. y.seq < x.seq
      BY <1>4, <2>1, <2>2, <2>4 DEF QueueInOrder
    <3> QED BY <1>5, <2>2, <2>3, <2>4, <3>1
  <2>7. ASSUME Comes(s, x) PROVE Has(s, x)
    <3>1. y.seq <= x.seq
      BY <2>1, <2>2, <2>7 DEF Comes
    <3>2. y.seq = x.seq
      BY <1>5, <2>2, <2>3, <2>4, <3>1
    <3> QED BY <2>1, <2>2, <3>2 DEF Has
  <2> QED BY <2>5, <2>6, <2>7 DEF Covered
<1>6. HadSoFar(s)'
  BY <1>2, <1>3, <1>5, SameLog DEF HadSoFar, Has
<1> QED BY <1>2, <1>6 DEF Reached, GoesOn, FromCall, Closes

LEMMA StepReached ==
    ASSUME Engine, Connections, StreamInv, CallInv, OneCallEach, ReachInv,
           NEW s \in Subscribers, SubscriberStep(s)
    PROVE  ReachInv'
<1> SUFFICES ASSUME NEW u \in Subscribers, FromEvents(u)' PROVE Reached(u)'
  BY DEF ReachInv
<1>1. SubTypeOK /\ Connection(s) /\ TypeInv /\ OwnBus
  BY DEF Connections, Engine, CallInv
<1>2. CASE u # s
  <2>1. SameStream(u) /\ SameEngine
    BY <1>1, <1>2, OneStream
  <2>2. FromEvents(u)
    BY <2>1 DEF FromEvents, Updates, SameStream
  <2> QED BY <2>1, <2>2, OtherReached DEF ReachInv
<1>3. CASE u = s
  <2> SUFFICES Reached(s)'
    BY <1>3
  <2>1. FromEvents(s) /\ InStream(s) /\ Reached(s)
    BY <1>3, BeganSo DEF StreamInv, ReachInv
  <2>2. ASSUME NEW t \in Tasks, Connect(s, t) PROVE Reached(s)'
    BY <2>1, <2>2, ConnectReached
  <2>3. ASSUME NEW t \in Tasks, RefuseSubscriber(s, t) PROVE Reached(s)'
    <3>1. stage'[s] = "refused"
      BY <1>1, <2>3, RefuseAt
    <3> QED BY <3>1 DEF Reached, HadSoFar, GoesOn, FromCall, Closes, Connected
  <2>4. CASE FindBus(s)
    BY <2>1, <2>4, FindBusReached
  <2>5. CASE ReadLog(s)
    BY <2>1, <2>5, ReadLogReached
  <2>6. CASE BeginFresh(s) \/ BeginAgainIdle(s) \/ BeginAgainLive(s)
    BY <1>1, <2>1, <2>6, BeginReached
  <2>7. CASE SendQueued(s)
    BY <2>1, <2>7, SendQueuedReached
  <2>8. CASE SendLive(s)
    BY <1>1, <2>1, <2>8, SendLiveReached
  <2>9. CASE SkipLost(s)
    BY <1>1, <2>1, <2>9, SkipLostReached
  <2>10. CASE EndOfStream(s)
    BY <1>1, <2>1, <2>10, EndReached
  <2>11. CASE Drop(s)
    BY <2>1, <2>11, DropReached
  <2> QED BY <2>2, <2>3, <2>4, <2>5, <2>6, <2>7, <2>8, <2>9, <2>10, <2>11
          DEF SubscriberStep, StreamStep
<1> QED BY <1>2, <1>3

-----------------------------------------------------------------------------
Caught == Streams /\ CallInv /\ ReachInv

LEMMA InitCaught == SubInit => Caught
<1> SUFFICES ASSUME SubInit PROVE Caught
  OBVIOUS
<1>1. Streams /\ CallInv
  BY InitStreams, InitCallInv DEF SubInit
<1>2. ASSUME NEW s \in Subscribers PROVE Reached(s)
  BY DEF SubInit, Reached, HadSoFar, GoesOn, FromCall, Closes, Connected
<1> QED BY <1>1, <1>2 DEF Caught, ReachInv

\* A step that the engine does not see, but for its counter.
LEMMA SameCallInv ==
    ASSUME CallInv, TypeInv, SameEngine, nextSeq' = nextSeq \/ nextSeq' = nextSeq + 1
    PROVE  CallInv'
<1>1. OwnBus'
  BY DEF CallInv, OwnBus, SameEngine
<1>2. Positive'
  BY DEF CallInv, Positive, SameEngine, Numbered, Unlogged, TypeInv, TypeOK
<1> QED BY <1>1, <1>2 DEF CallInv

LEMMA NextCaught == Caught /\ [SubNext]_allVars /\ OneCallEach /\ OneCallEach' => Caught'
<1> SUFFICES ASSUME Caught, [SubNext]_allVars, OneCallEach, OneCallEach' PROVE Caught'
  OBVIOUS
<1> USE DEF Caught, Streams
<1>1. SubTypeOK /\ TypeInv
  BY DEF Connections, Engine
<1>2. Streams'
  <2>1. [Next]_vars \/ NumberSnapshot
    BY <1>1, EngineSees
  <2>2. OneAtATime'
    <3>1. CASE [Next]_vars
      BY <3>1, OneCallAtATime DEF Engine
    <3>2. CASE NumberSnapshot
      BY <3>2, NumberEngine DEF Engine
    <3> QED BY <2>1, <3>1, <3>2
  <2> QED BY <2>2, NextStreams
<1>3. CASE \E s \in Subscribers : SubscriberStep(s)
  <2>1. PICK s \in Subscribers : SubscriberStep(s)
    BY <1>3
  <2>2. SameEngine /\ (nextSeq' = nextSeq \/ nextSeq' = nextSeq + 1)
    BY <1>1, <2>1, OneStream DEF NumberSnapshot
  <2>3. CallInv'
    BY <1>1, <2>2, SameCallInv
  <2> QED BY <1>2, <2>1, <2>3, StepReached
<1>4. CASE UNCHANGED vars /\ UNCHANGED subVars
  <2>1. SameEngine /\ nextSeq' = nextSeq /\ \A s \in Subscribers : SameStream(s)
    BY <1>4 DEF SameEngine, SameStream, subVars
  <2>2. CallInv'
    BY <1>1, <2>1, SameCallInv
  <2>3. ASSUME NEW s \in Subscribers, FromEvents(s)' PROVE Reached(s)'
    <3>1. FromEvents(s)
      BY <2>1, <2>3 DEF FromEvents, Updates, SameStream
    <3> QED BY <2>1, <3>1, OtherReached DEF ReachInv
  <2> QED BY <1>2, <2>2, <2>3 DEF ReachInv
<1>5. ASSUME NEW w \in Workers, StepOf(w), UNCHANGED subVars PROVE Caught'
  <2>1. Engine'
    BY <1>2
  <2>2. CallInv'
    BY <1>5, <2>1, NextOwnBus, NextPositive DEF CallInv
  <2>3. ASSUME NEW s \in Subscribers, FromEvents(s)' PROVE Reached(s)'
    <3>1. FromEvents(s)
      BY <1>5, <2>3 DEF FromEvents, Updates, subVars
    <3> QED BY <1>5, <2>1, <3>1, EngineReached DEF StreamInv, ReachInv
  <2> QED BY <1>2, <2>2, <2>3 DEF ReachInv
<1>6. CASE Next /\ UNCHANGED subVars
  BY <1>4, <1>5, <1>6, StepsOrStutter
<1>7. CASE UNCHANGED allVars
  BY <1>4, <1>7 DEF allVars
<1> QED BY <1>3, <1>6, <1>7 DEF SubNext

\* As long as there is one call on a task: a subscriber attached to a bus, that
\* has been sent all the log and the bus had for it, and came back with events
\* only, has been sent every event of its task, however often it lost its
\* connection, unless the log or the bus was outrun.
THEOREM AlwaysCatchesUp == SubSpec /\ []OneCallEach => []ResumedCatchesUp
<1>1. Caught => ResumedCatchesUp
  <2> SUFFICES ASSUME Caught, NEW s \in Subscribers, FromEvents(s),
                      NEW log, log = eventLogs[subject[s]],
                      stage[s] = "streaming", queue[s] = <<>>, bus[s] # {},
                      Len(log) < EventLogCapacity,
                      \A b \in bus[s] : position[s] = Len(sent[b]),
                      \A b \in Turns : Len(sent[b]) <= BusCapacity,
                      \A w \in CallsOn(subject[s]) : pc[w] \notin {"getTask", "putTask", "send"},
                      NEW k \in DOMAIN log
               PROVE  \E i \in Updates(s) : delivered[s][i].seq = log[k].seq
    BY DEF ResumedCatchesUp, CaughtUp
  <2>1. Engine /\ Connections /\ Reached(s)
    BY DEF Caught, Streams, ReachInv
  <2>2. PICK x : x = log[k]
    OBVIOUS
  <2>3. InLog(s, x) /\ Owed(s, x)
    BY <2>2 DEF InLog, Owed, NothingLost
  <2>4. Has(s, x) \/ Comes(s, x)
    BY <2>1, <2>3 DEF Reached, GoesOn, OnlyLed, Covered, Waits
  <2>5. PICK b \in bus[s] : TRUE
    OBVIOUS
  <2>6. b \in Turns /\ b \in Workers /\ taskOf[b] = subject[s] /\ position[s] \in Nat
        /\ sent[b] \in Seq(Item)
    BY <2>1 DEF Connections, Connection, Of, Workers, SubTypeOK, Engine, TypeInv, TypeOK
  <2>7. ~Logged(b)
    BY <2>6 DEF CallsOn, Logged
  <2>8. \A i \in DOMAIN sent[b] : ~(i > position[s])
    BY <2>6
  <2>9. ~Comes(s, x)
    BY <2>7, <2>8 DEF Comes, OnItsWay
  <2> QED BY <2>2, <2>4, <2>9 DEF Has
<1> QED BY <1>1, InitCaught, NextCaught, PTL DEF SubSpec

\* As long as there is one call on a task: a stream that ended, of a subscriber
\* that came back with events only, has delivered the closing event of the turn
\* it was attached to, however far behind it fell, unless there was none.
THEOREM AlwaysSeesClose == SubSpec /\ []OneCallEach => []AttachedSeesClose
<1>1. Caught => AttachedSeesClose
  BY DEF Caught, ReachInv, Reached, Closes, SeesClose, AttachedSeesClose
<1> QED BY <1>1, InitCaught, NextCaught, PTL DEF SubSpec
=============================================================================
