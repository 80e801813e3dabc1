---------------------------- MODULE PushDelivery ----------------------------
(***************************************************************************)
(* Push notifications of one task: the registered configurations           *)
(* (InMemoryTaskStore and the engine's operations on them), the fan-out of *)
(* notify_push_configs after every stored update, and the delivery with    *)
(* retries of PushNotifier::notify, one background task per configuration  *)
(* and update.                                                             *)
(*                                                                         *)
(* A registration is one successful put_push_config: its number stands for *)
(* the URL and the credentials given then.  An update is one TaskStore::put*)
(* by apply_event; its number stands for the Task that is posted.  The     *)
(* store keeps configurations in a Vec; its order is only the order in     *)
(* which delivery tasks are spawned, so they are a set here.               *)
(*                                                                         *)
(* Delivery tasks share nothing with one another, so one of them, any one, *)
(* is followed from attempt to attempt (`watched'); of the others it is    *)
(* enough to know that they were spawned.  A request that its sender gives *)
(* up may have been handled by the webhook or not.                         *)
(***************************************************************************)
EXTENDS Naturals, Sequences

CONSTANTS
    ConfigIds,            \* ids of configurations
    Writers,              \* the pumps and CancelTask handlers that update the task
    Handlers,             \* those of them that are request handlers
    MaxDeliveryAttempts,  \* MAX_DELIVERY_ATTEMPTS
    SsrfProtection,       \* may a URL be disallowed?
    MaxRegistrations,     \* bound: registrations made
    MaxUpdates            \* bound: updates put

ASSUME PushAssumption ==
    /\ Handlers \subseteq Writers
    /\ MaxDeliveryAttempts \in Nat \ {0}
    /\ SsrfProtection \in BOOLEAN
    /\ MaxRegistrations \in Nat
    /\ MaxUpdates \in Nat

VARIABLES
    configs,        \* push_configs of the task: a set of [id, reg]
    registrations,  \* number of the last registration
    updates,        \* number of the last update put; 0: the task has no row
    notifying,      \* writer -> 0 or the update it is to notify of
    deliveries,     \* the delivery tasks spawned: a set of [update, reg]
    watched,        \* the delivery that is followed
    attempt,        \* its current attempt
    stage,          \* where it is
    answers,        \* attempt -> the webhook's answer, for requests posted
    before,         \* history: registration -> the last update put before it
    notified,       \* history: the updates whose configurations were listed
    retired         \* history: registration -> updates put and notified then

registry == <<configs, registrations, updates, notifying, deliveries>>
delivery == <<attempt, stage, answers>>
history == <<before, notified, retired>>
vars == <<registry, watched, delivery, history>>

Registrations == 1 .. registrations
Keys == [update : 1 .. MaxUpdates, reg : 1 .. MaxRegistrations]
Outcomes == {"delivered", "refused", "gaveUp", "disallowed"}
Answers == {"none", "success", "later", "never"}
EmptyMap == [k \in {} |-> k]

Init ==
    /\ configs = {}
    /\ registrations = 0
    /\ updates = 0
    /\ notifying = [w \in Writers |-> 0]
    /\ deliveries = {}
    /\ watched \in Keys
    /\ attempt = 1
    /\ stage = "backoff"
    /\ answers = <<>>
    /\ before = <<>>
    /\ notified = {}
    /\ retired = EmptyMap

-----------------------------------------------------------------------------
(***************************************************************************)
(* Configurations.  Calls that are refused (no push support, disallowed    *)
(* URL, no task, not authorized) and calls that only read change nothing.  *)
(***************************************************************************)
WithId(id) == {c.reg : c \in {d \in configs : d.id = id}}

Retire(regs) ==
    retired' = [r \in DOMAIN retired \cup regs |->
                  IF r \in regs THEN [put |-> updates, notified |-> notified]
                                ELSE retired[r]]

\* Mutant: what was registered under the id stays.
Others_All(id) == configs

Others(id) == {c \in configs : c.id # id}

PutPushConfig(id) ==
    /\ registrations < MaxRegistrations
    /\ registrations' = registrations + 1
    /\ configs' = Others(id) \cup {[id |-> id, reg |-> registrations']}
    /\ before' = Append(before, updates)
    /\ Retire(WithId(id))
    /\ UNCHANGED <<updates, notifying, deliveries, watched, delivery, notified>>

\* CreateTaskPushNotificationConfig: the task must exist.
CreatePushConfig(id) == updates > 0 /\ PutPushConfig(id)

\* The configuration of the SendMessage that creates the task, registered
\* before the executor runs.
InlinePushConfig(id) == registrations = 0 /\ updates = 0 /\ PutPushConfig(id)

\* DeleteTaskPushNotificationConfig of one that exists.
DeletePushConfig(id) ==
    /\ WithId(id) # {}
    /\ configs' = Others(id)
    /\ Retire(WithId(id))
    /\ UNCHANGED <<registrations, updates, notifying, deliveries, watched,
                   delivery, before, notified>>

-----------------------------------------------------------------------------
(***************************************************************************)
(* apply_event: the put, then notify_push_configs.                         *)
(***************************************************************************)
PutUpdate(w) ==
    /\ notifying[w] = 0
    /\ updates < MaxUpdates
    /\ updates' = updates + 1
    /\ notifying' = [notifying EXCEPT ![w] = updates']
    /\ UNCHANGED <<configs, registrations, deliveries, watched, delivery, history>>

\* Mutant: only the configuration registered last is notified.
Targets_Newest ==
    {c.reg : c \in {d \in configs : \A e \in configs : e.reg <= d.reg}}

Targets == {c.reg : c \in configs}

\* One task is spawned for each configuration listed.
NotifyPushConfigs(w) ==
    /\ notifying[w] # 0
    /\ deliveries' = deliveries \cup [update : {notifying[w]}, reg : Targets]
    /\ notified' = notified \cup {notifying[w]}
    /\ notifying' = [notifying EXCEPT ![w] = 0]
    /\ UNCHANGED <<configs, registrations, updates, watched, delivery, before, retired>>

\* The client of a CancelTask goes away between the put and the listing.
AbortHandler(w) ==
    /\ w \in Handlers /\ notifying[w] # 0
    /\ notifying' = [notifying EXCEPT ![w] = 0]
    /\ UNCHANGED <<configs, registrations, updates, deliveries, watched, delivery,
                   history>>

-----------------------------------------------------------------------------
(***************************************************************************)
(* PushNotifier::notify.  "backoff" is where an attempt is about to start: *)
(* at once for the first one, after a sleep for the others.                *)
(***************************************************************************)
At(where) == watched \in deliveries /\ stage = where

SkipDisallowed ==
    /\ SsrfProtection
    /\ At("backoff") /\ attempt = 1
    /\ stage' = "disallowed"
    /\ UNCHANGED <<registry, watched, attempt, answers, history>>

Post ==
    /\ At("backoff")
    /\ stage' = "posting"
    /\ answers' = Append(answers, "none")
    /\ UNCHANGED <<registry, watched, attempt, history>>

\* The webhook handles the request, and keeps what it has answered.
WebhookAnswers(answer) ==
    /\ At("posting") /\ answers[attempt] = "none"
    /\ answers' = [answers EXCEPT ![attempt] = answer]
    /\ UNCHANGED <<registry, watched, attempt, stage, history>>

\* Mutant: the last failure is not taken for the end.
TryAgain_Endless ==
    IF attempt = MaxDeliveryAttempts
    THEN UNCHANGED <<stage, attempt>>
    ELSE stage' = "backoff" /\ attempt' = attempt + 1

\* Mutant: gives up one attempt early.
TryAgain_Early ==
    IF attempt + 1 >= MaxDeliveryAttempts
    THEN stage' = "gaveUp" /\ UNCHANGED attempt
    ELSE stage' = "backoff" /\ attempt' = attempt + 1

\* A retryable failure: sleep and try again, or give up.
TryAgain ==
    IF attempt = MaxDeliveryAttempts
    THEN stage' = "gaveUp" /\ UNCHANGED attempt
    ELSE stage' = "backoff" /\ attempt' = attempt + 1

\* The answer arrives: 2xx, 5xx or 429, any other status.
ReceiveAnswer ==
    /\ At("posting") /\ answers[attempt] # "none"
    /\ CASE answers[attempt] = "success" -> stage' = "delivered" /\ UNCHANGED attempt
         [] answers[attempt] = "later" -> TryAgain
         [] answers[attempt] = "never" -> stage' = "refused" /\ UNCHANGED attempt
    /\ UNCHANGED <<registry, watched, answers, history>>

\* No connection, connection lost, or REQUEST_TIMEOUT: before the webhook has
\* the request, or after.
SendFails ==
    /\ At("posting")
    /\ TryAgain
    /\ UNCHANGED <<registry, watched, answers, history>>

-----------------------------------------------------------------------------
DeliveryStep == SkipDisallowed \/ Post \/ ReceiveAnswer \/ SendFails

Next ==
    \/ \E id \in ConfigIds :
          CreatePushConfig(id) \/ InlinePushConfig(id) \/ DeletePushConfig(id)
    \/ \E w \in Writers : PutUpdate(w) \/ NotifyPushConfigs(w) \/ AbortHandler(w)
    \/ DeliveryStep
    \/ \E answer \in Answers \ {"none"} : WebhookAnswers(answer)

Spec == Init /\ [][Next]_vars

(***************************************************************************)
(* tokio runs the writers and the delivery tasks; the client's timeout     *)
(* ends every request that is not answered.  The webhook owes nothing, and *)
(* a handler may be dropped.                                               *)
(***************************************************************************)
FairSpec ==
    /\ Spec
    /\ \A w \in Writers : WF_vars(NotifyPushConfigs(w))
    /\ WF_vars(DeliveryStep)

-----------------------------------------------------------------------------
Dropped(u) == u \notin notified /\ \A w \in Writers : notifying[w] # u

Registered(r) == r \in Registrations \ DOMAIN retired

\* No update is missed: a registration made before an update was put, and
\* neither deleted nor replaced until that update was notified, gets a
\* delivery of it, whatever other registrations come and go in between.
NoUpdateMissed ==
    \A u \in notified, r \in Registrations :
        before[r] < u /\ (Registered(r) \/ u \in retired[r].notified) =>
            [update |-> u, reg |-> r] \in deliveries

\* A registration that was deleted or replaced is told of no update put
\* after that.
RetiredStaysSilent ==
    \A k \in deliveries :
        k.reg \in DOMAIN retired => k.update <= retired[k.reg].put

\* A delivery counts as made only if the webhook has accepted the update, as
\* refused only if it has refused it, and it is given up only when every one
\* of MAX_DELIVERY_ATTEMPTS requests was posted; an answer that arrived and
\* asks for no retry is the last one.
OutcomeIsEarned ==
    /\ Len(answers) <= MaxDeliveryAttempts
    /\ stage = "delivered" => answers[Len(answers)] = "success"
    /\ stage = "refused" => answers[Len(answers)] = "never"
    /\ stage = "gaveUp" => Len(answers) = MaxDeliveryAttempts

\* A registration that stays is told of the last update: its delivery ends
\* accepted, refused, disallowed or after the last attempt, however long the
\* webhook takes to answer.  Only an update whose handler was dropped is not
\* posted.
LastUpdateIsPosted ==
    /\ watched.reg \in Registrations
    /\ before[watched.reg] < watched.update
    /\ updates = watched.update
    ~> \/ watched.reg \in DOMAIN retired
       \/ Dropped(watched.update)
       \/ watched \in deliveries /\ stage \in Outcomes
=============================================================================
