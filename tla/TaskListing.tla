---------------------------- MODULE TaskListing ----------------------------
(***************************************************************************)
(* ListTasks: InMemoryTaskStore::list, the page loop of Engine::list_tasks *)
(* around it, and a client that walks all pages with the token of the      *)
(* response before, while tasks are created and updated.                   *)
(*                                                                         *)
(* Each TaskStore::list holds the lock of the store for itself only, so    *)
(* anything may happen between two of them, within one call as well.  Of a *)
(* task the model keeps what listing looks at: its status timestamp, and   *)
(* whether it matches the filters of the request.                          *)
(***************************************************************************)
EXTENDS Naturals, Sequences, FiniteSets

CONSTANTS
    Ids,             \* task ids: numbers, for their order
    Hidden,          \* the tasks AuthVerifier::authorize_task rejects
    MaxStorePages,   \* MAX_LIST_TASKS_STORE_PAGES
    PageSizes,       \* the pageSizes clients ask for
    MaxTime,         \* bound: timestamps are 1 .. MaxTime
    MaxWrites        \* bound: writes to the store

ASSUME ListingAssumption ==
    /\ Ids \subseteq Nat \ {0} /\ IsFiniteSet(Ids)
    /\ Hidden \subseteq Ids
    /\ MaxStorePages \in Nat \ {0}
    /\ PageSizes \subseteq 1 .. 100
    /\ MaxTime \in Nat \ {0}
    /\ MaxWrites \in Nat

VARIABLES
    store,        \* task id -> [time, matches]
    writes,       \* writes made
    pageSize,     \* the pageSize of the client
    walk,         \* "idle", "reading" store pages, "holding" a token, "ended"
    cursor,       \* the page token to go on with; 0 for none
    storePages,   \* store pages read for the response being filled
    authorized,   \* the tasks of the response being filled
    listed,       \* the tasks of all responses, in order
    undisturbed   \* history: the tasks there when the walk began, not written since
                  \* nor moved past by the task the token names

call == <<pageSize, walk, cursor, storePages, authorized, listed>>
vars == <<store, writes, call, undisturbed>>

NoToken == 0
Row == [time : 1 .. MaxTime, matches : BOOLEAN]

TypeOK ==
    /\ DOMAIN store \subseteq Ids /\ store \in [DOMAIN store -> Row]
    /\ writes \in 0 .. MaxWrites
    /\ pageSize \in PageSizes
    /\ walk \in {"idle", "reading", "holding", "ended"}
    /\ cursor \in Ids \cup {NoToken}
    /\ storePages \in 0 .. MaxStorePages - 1
    /\ authorized \in Seq(Ids \ Hidden) /\ Len(authorized) < pageSize
    /\ listed \in Seq(Ids \ Hidden)
    /\ undisturbed \subseteq DOMAIN store

\* (A task that does not match yet is like one that is not there yet.)
Init ==
    /\ \E S \in SUBSET Ids : store \in [S -> {r \in Row : r.matches}]
    /\ writes = 0
    /\ pageSize \in PageSizes
    /\ walk = "idle"
    /\ cursor = NoToken
    /\ storePages = 0
    /\ authorized = <<>>
    /\ listed = <<>>
    /\ undisturbed = {}

-----------------------------------------------------------------------------
(***************************************************************************)
(* The order of a listing: most recent first, the id breaks ties.          *)
(***************************************************************************)
\* Mutant: least recent first.
Before_Oldest(s, t) ==
    \/ store[s].time < store[t].time
    \/ store[s].time = store[t].time /\ s < t

Before(s, t) ==
    \/ store[s].time > store[t].time
    \/ store[s].time = store[t].time /\ s < t

\* History: the tasks that were behind t, which the token names, and that a
\* write of t leaves before it.
MovedPast(t) ==
    {s \in DOMAIN store \ {t} : t = cursor /\ Before(t, s) /\ ~Before(t, s)'}

(***************************************************************************)
(* apply_event puts a task, for a pump or for CancelTask.  A status        *)
(* carries the time it was reported at, which may be earlier than the      *)
(* stored one: that of a task made by an artifact is the time of the put,  *)
(* and a pump may put what was reported before the CANCELED it replaces.   *)
(***************************************************************************)
PutTask(t) ==
    /\ writes < MaxWrites
    /\ \E row \in Row :
          store' = [i \in DOMAIN store \cup {t} |->
                       IF i = t THEN row ELSE store[i]]
    /\ writes' = writes + 1
    /\ undisturbed' = undisturbed \ ({t} \cup MovedPast(t))
    /\ UNCHANGED call

(***************************************************************************)
(* InMemoryTaskStore::list: a page begins at the token's task, or at the   *)
(* beginning if that is not there.                                         *)
(***************************************************************************)
InOrder(S) ==
    CHOOSE q \in [1 .. Cardinality(S) -> S] :
        \A i, j \in DOMAIN q : i < j => Before(q[i], q[j])

Matching == InOrder({t \in DOMAIN store : store[t].matches})

\* Mutant: off by one, the listing begins at the task before the token's.
Start_OneBefore(all) ==
    IF \E i \in DOMAIN all : i > 1 /\ all[i] = cursor
    THEN (CHOOSE i \in DOMAIN all : all[i] = cursor) - 1
    ELSE 1

Start(all) ==
    IF \E i \in DOMAIN all : all[i] = cursor
    THEN CHOOSE i \in DOMAIN all : all[i] = cursor
    ELSE 1

StorePage ==
    LET all == Matching
        end == Start(all) + pageSize
    IN IF end <= Len(all)
       THEN [tasks |-> SubSeq(all, Start(all), end - 1), next |-> all[end]]
       ELSE [tasks |-> SubSeq(all, Start(all), Len(all)), next |-> NoToken]

\* Dropping tasks leaves the others in order.
Authorized(tasks) == InOrder({tasks[i] : i \in DOMAIN tasks} \ Hidden)

\* Mutant: the next page begins with the next store page.
Resume_StorePage(page, filler) == page.next

\* Where a page that fills up midway is continued: after its last task.
Resume(page, filler) ==
    LET i == CHOOSE j \in DOMAIN page.tasks : page.tasks[j] = filler
    IN IF i < Len(page.tasks) THEN page.tasks[i + 1] ELSE page.next

-----------------------------------------------------------------------------
(***************************************************************************)
(* The client's walk, and list_tasks, one store page at a time.            *)
(***************************************************************************)
BeginWalk ==
    /\ walk = "idle"
    /\ walk' = "reading"
    /\ undisturbed' = DOMAIN store
    /\ UNCHANGED <<store, writes, pageSize, cursor, storePages, authorized, listed>>

NextPage ==
    /\ walk = "holding"
    /\ walk' = "reading"
    /\ UNCHANGED <<store, writes, pageSize, cursor, storePages, authorized, listed,
                   undisturbed>>

Respond(tasks, next) ==
    /\ listed' = listed \o tasks
    /\ cursor' = next
    /\ walk' = IF next = NoToken THEN "ended" ELSE "holding"
    /\ storePages' = 0
    /\ authorized' = <<>>

\* Mutant: one task too many is taken before a page counts as full.
FillsUp_Over(some, more) == Len(some) + Len(more) > pageSize

FillsUp(some, more) == Len(some) + Len(more) >= pageSize

\* (\E over the one page there is: TLC computes it once.)
ReadStorePage ==
    /\ walk = "reading"
    /\ \E page \in {StorePage} :
       LET more == Authorized(page.tasks)
           missing == pageSize - Len(authorized)
       IN CASE FillsUp(authorized, more) ->
                  Respond(authorized \o SubSeq(more, 1, missing),
                          Resume(page, more[missing]))
            [] ~FillsUp(authorized, more)
                  /\ (page.next = NoToken \/ storePages + 1 = MaxStorePages) ->
                  Respond(authorized \o more, page.next)
            [] OTHER ->
                  /\ authorized' = authorized \o more
                  /\ cursor' = page.next
                  /\ storePages' = storePages + 1
                  /\ UNCHANGED <<walk, listed>>
    /\ UNCHANGED <<store, writes, pageSize, undisturbed>>

Finished == walk = "ended" /\ UNCHANGED vars

Next ==
    \/ \E t \in Ids : PutTask(t)
    \/ BeginWalk
    \/ NextPage
    \/ ReadStorePage
    \/ Finished

Spec == Init /\ [][Next]_vars

\* The server answers, and a client that has begun to walk goes on.
FairSpec == Spec /\ WF_vars(ReadStorePage) /\ WF_vars(NextPage)

-----------------------------------------------------------------------------
\* A walk over the pages misses a task that matches and that the caller may see
\* only if the task was written after the walk began, or if the task the token
\* named was put back behind it, with a timestamp older than it had.  Whatever
\* else is written, the token's task included, hides nothing.
NothingUndisturbedMissed ==
    walk = "ended" =>
        \A t \in undisturbed : store[t].matches /\ t \notin Hidden =>
            \E i \in DOMAIN listed : listed[i] = t

\* While nothing is written a walk lists every task at most once, the most
\* recent first.
ListedOnceInOrder ==
    writes = 0 => \A i, j \in DOMAIN listed : i < j =>
        /\ listed[i] # listed[j]
        /\ store[listed[i]].time >= store[listed[j]].time

\* A walk ends once the store is no longer written (MaxWrites bounds that): no
\* token leads back to itself, and a page without visible tasks still advances.
WalkEnds == walk = "reading" ~> walk = "ended"
=============================================================================
