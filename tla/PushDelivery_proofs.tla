------------------------ MODULE PushDelivery_proofs ------------------------
(***************************************************************************)
(* What PushDelivery guarantees for any ids, writers and attempts, and any *)
(* number of registrations and updates.  A registration is in one of two   *)
(* places: among the configurations of the task, where every listing finds *)
(* it, or retired, with what had been put and notified by then.            *)
(***************************************************************************)
EXTENDS PushDelivery, TLAPS

USE DEF vars, registry, delivery, history

Stages == Outcomes \cup {"backoff", "posting"}

Updates == 1 .. updates

\* The registry and its history.
RegistryType ==
    /\ configs \subseteq [id : ConfigIds, reg : Registrations]
    /\ registrations \in Nat
    /\ updates \in Nat
    /\ notifying \in [Writers -> 0 .. updates]
    /\ deliveries \subseteq [update : Updates, reg : Registrations]
    /\ before \in Seq(Nat) /\ Len(before) = registrations
    /\ notified \subseteq Updates
    /\ DOMAIN retired \subseteq Registrations
    /\ \A r \in DOMAIN retired : retired[r].put \in Nat

\* The delivery that is followed.
DeliveryType ==
    /\ attempt \in Nat
    /\ stage \in Stages
    /\ answers \in Seq(Answers)

\* Every registration is configured or retired, and not both.
PlaceInv ==
    /\ \A c, d \in configs : c.reg = d.reg => c = d
    /\ \A c \in configs : c.reg \notin DOMAIN retired
    /\ \A r \in Registrations : Registered(r) => r \in Targets
    /\ \A r \in DOMAIN retired : retired[r].notified \subseteq notified

RegistryInv == RegistryType /\ PlaceInv

-----------------------------------------------------------------------------
(***************************************************************************)
(* The registry.                                                           *)
(***************************************************************************)
DeliverySteps == DeliveryStep \/ \E answer \in Answers \ {"none"} : WebhookAnswers(answer)

LEMMA DeliveryLeavesRegistry ==
    DeliverySteps => UNCHANGED <<registry, history>>
BY DEF DeliverySteps, DeliveryStep, SkipDisallowed, Post, WebhookAnswers, ReceiveAnswer,
   SendFails

LEMMA RetireRecords ==
    ASSUME NEW regs, Retire(regs), NEW r \in DOMAIN retired'
    PROVE  /\ r \in DOMAIN retired \cup regs
           /\ r \in regs => retired'[r] = [put |-> updates, notified |-> notified]
           /\ r \notin regs => retired'[r] = retired[r]
BY DEF Retire

LEMMA RetireDomain ==
    ASSUME NEW regs, Retire(regs) PROVE DOMAIN retired' = DOMAIN retired \cup regs
BY DEF Retire

LEMMA InitRegistryInv == Init => RegistryInv
BY DEF Init, RegistryInv, RegistryType, PlaceInv, Registered, Registrations, Updates, EmptyMap

LEMMA PutRegistryInv ==
    ASSUME RegistryInv, NEW id \in ConfigIds, PutPushConfig(id)
    PROVE  RegistryInv'
<1> USE DEF RegistryInv, RegistryType, Registrations
<1>1. PICK new : new = [id |-> id, reg |-> registrations + 1]
  OBVIOUS
<1>2. /\ registrations' = registrations + 1 /\ configs' = Others(id) \cup {new}
      /\ before' = Append(before, updates) /\ Retire(WithId(id))
      /\ UNCHANGED <<updates, notifying, deliveries, notified>>
  BY <1>1 DEF PutPushConfig
<1>3. Others(id) \subseteq configs /\ WithId(id) \subseteq Registrations
  BY DEF Others, WithId
<1>4. RegistryType'
  <2>1. configs' \subseteq [id : ConfigIds, reg : Registrations']
    <3>1. new \in [id : ConfigIds, reg : Registrations'] /\ Registrations \subseteq Registrations'
      BY <1>1, <1>2
    <3>2. configs \subseteq [id : ConfigIds, reg : Registrations']
      BY <3>1
    <3> QED BY <1>2, <1>3, <3>1, <3>2
  <2>2. before' \in Seq(Nat) /\ Len(before') = registrations'
    BY <1>2
  <2>3. DOMAIN retired' \subseteq Registrations'
    <3>1. Registrations \subseteq Registrations'
      BY <1>2
    <3>2. DOMAIN retired' = DOMAIN retired \cup WithId(id)
      BY <1>2, RetireDomain
    <3> QED BY <1>3, <3>1, <3>2
  <2>4. ASSUME NEW r \in DOMAIN retired' PROVE retired'[r].put \in Nat
    <3>1. CASE r \in WithId(id)
      BY <1>2, <3>1, RetireRecords
    <3>2. CASE r \notin WithId(id)
      BY <1>2, <3>2, RetireRecords
    <3> QED BY <3>1, <3>2
  <2>5. deliveries' \subseteq [update : Updates', reg : Registrations']
    BY <1>2 DEF Updates
  <2> QED BY <1>2, <2>1, <2>2, <2>3, <2>4, <2>5 DEF Updates
<1>5. PlaceInv'
  <2>1. \A c \in Others(id) : c.reg \in Registrations /\ c.reg \notin WithId(id)
    BY <1>3 DEF Others, WithId, PlaceInv
  <2>2. DOMAIN retired' = DOMAIN retired \cup WithId(id)
    BY <1>2, RetireDomain
  <2>3. new.reg \notin Registrations /\ new.reg \notin DOMAIN retired'
    BY <1>1, <1>3, <2>2
  <2>4. \A c, d \in configs' : c.reg = d.reg => c = d
    BY <1>2, <1>3, <2>1, <2>3 DEF PlaceInv
  <2>5. \A c \in configs' : c.reg \notin DOMAIN retired'
    BY <1>2, <1>3, <2>1, <2>2, <2>3 DEF PlaceInv
  <2>6. ASSUME NEW r \in Registrations', r \notin DOMAIN retired'
        PROVE  \E c \in configs' : c.reg = r
    <3>1. CASE r = registrations + 1
      BY <1>1, <1>2, <3>1
    <3>2. CASE r # registrations + 1
      <4>1. r \in Registrations
        BY <1>2, <2>6, <3>2
      <4>2. PICK c \in configs : c.reg = r
        BY <2>2, <2>6, <4>1 DEF PlaceInv, Registered, Targets
      <4>3. c \in Others(id)
        BY <2>2, <2>6, <4>2 DEF Others, WithId
      <4> QED BY <1>2, <4>2, <4>3
    <3> QED BY <3>1, <3>2
  <2>7. \A r \in DOMAIN retired' : retired'[r].notified \subseteq notified'
    BY <1>2, RetireRecords DEF PlaceInv
  <2> QED BY <2>4, <2>5, <2>6, <2>7 DEF PlaceInv, Registered, Targets
<1> QED BY <1>4, <1>5

LEMMA DeleteRegistryInv ==
    ASSUME RegistryInv, NEW id \in ConfigIds, DeletePushConfig(id)
    PROVE  RegistryInv'
<1> USE DEF RegistryInv, RegistryType, Registrations
<1>1. /\ configs' = Others(id) /\ Retire(WithId(id))
      /\ UNCHANGED <<registrations, updates, notifying, deliveries, before, notified>>
  BY DEF DeletePushConfig
<1>2. Others(id) \subseteq configs /\ WithId(id) \subseteq Registrations
  BY DEF Others, WithId
<1>3. DOMAIN retired' = DOMAIN retired \cup WithId(id)
  BY <1>1, RetireDomain
<1>4. RegistryType'
  BY <1>1, <1>2, <1>3, RetireRecords DEF Updates
<1>5. PlaceInv'
  <2>1. \A c \in Others(id) : c.reg \notin DOMAIN retired'
    BY <1>2, <1>3 DEF Others, WithId, PlaceInv
  <2>2. ASSUME NEW r \in Registrations, r \notin DOMAIN retired'
        PROVE  \E c \in configs' : c.reg = r
    <3>1. PICK c \in configs : c.reg = r
      BY <1>3, <2>2 DEF PlaceInv, Registered, Targets
    <3>2. c \in Others(id)
      BY <1>3, <2>2, <3>1 DEF Others, WithId
    <3> QED BY <1>1, <3>1, <3>2
  <2>3. \A r \in DOMAIN retired' : retired'[r].notified \subseteq notified'
    BY <1>1, RetireRecords DEF PlaceInv
  <2> QED BY <1>1, <1>2, <2>1, <2>2, <2>3 DEF PlaceInv, Registered, Targets
<1> QED BY <1>4, <1>5

LEMMA WriterRegistryInv ==
    ASSUME RegistryInv, NEW w \in Writers, PutUpdate(w) \/ NotifyPushConfigs(w) \/ AbortHandler(w)
    PROVE  RegistryInv'
<1> USE DEF RegistryInv, RegistryType, Registrations, Updates
<1>1. CASE PutUpdate(w)
  <2>1. updates' = updates + 1
    BY <1>1 DEF PutUpdate
  <2>2. notifying' \in [Writers -> 0 .. updates']
    BY <1>1, <2>1 DEF PutUpdate
  <2>3. deliveries' \subseteq [update : 1 .. updates', reg : Registrations']
    BY <1>1, <2>1 DEF PutUpdate
  <2>4. RegistryType'
    BY <1>1, <2>1, <2>2, <2>3 DEF PutUpdate
  <2> QED BY <1>1, <2>4 DEF PutUpdate, PlaceInv, Registered, Targets
<1>2. CASE NotifyPushConfigs(w)
  <2>1. notifying[w] \in 1 .. updates
    BY <1>2 DEF NotifyPushConfigs
  <2>2. Targets \subseteq Registrations
    BY DEF Targets
  <2>3. deliveries' \subseteq [update : 1 .. updates', reg : Registrations']
    BY <1>2, <2>1, <2>2 DEF NotifyPushConfigs
  <2>4. RegistryType'
    <3>1. notifying' \in [Writers -> 0 .. updates'] /\ notified' \subseteq 1 .. updates'
      <4>1. /\ notifying' = [notifying EXCEPT ![w] = 0] /\ updates' = updates
            /\ notified' = notified \cup {notifying[w]}
        BY <1>2 DEF NotifyPushConfigs
      <4>2. 0 \in 0 .. updates
        OBVIOUS
      <4>3. notified' \subseteq 1 .. updates'
        BY <2>1, <4>1
      <4> QED BY <4>1, <4>2, <4>3
    <3>2. UNCHANGED <<configs, registrations, updates, before, retired>>
      BY <1>2 DEF NotifyPushConfigs
    <3>3. DOMAIN retired' \subseteq Registrations' /\ \A r \in DOMAIN retired' : retired'[r].put \in Nat
      BY <3>2
    <3> QED BY <2>3, <3>1, <3>2, <3>3
  <2>5. UNCHANGED <<configs, registrations, retired>> /\ notified \subseteq notified'
    BY <1>2 DEF NotifyPushConfigs
  <2>6. PlaceInv'
    BY <2>5 DEF PlaceInv, Registered, Targets
  <2> QED BY <2>4, <2>6
<1>3. CASE AbortHandler(w)
  BY <1>3 DEF AbortHandler, PlaceInv, Registered, Targets
<1> QED BY <1>1, <1>2, <1>3

LEMMA NextRegistryInv == RegistryInv /\ [Next]_vars => RegistryInv'
<1> SUFFICES ASSUME RegistryInv, [Next]_vars PROVE RegistryInv'
  OBVIOUS
<1>1. UNCHANGED <<registry, history>> => RegistryInv'
  BY DEF RegistryInv, RegistryType, PlaceInv, Registered, Registrations, Targets, Updates
<1> QED BY <1>1, PutRegistryInv, DeleteRegistryInv, WriterRegistryInv, DeliveryLeavesRegistry
        DEF Next, CreatePushConfig, InlinePushConfig, DeliverySteps

-----------------------------------------------------------------------------
(***************************************************************************)
(* Who is told.                                                            *)
(***************************************************************************)
LEMMA InitNoUpdateMissed == Init => NoUpdateMissed
BY DEF Init, NoUpdateMissed

LEMMA NextNoUpdateMissed ==
    RegistryInv /\ NoUpdateMissed /\ [Next]_vars => NoUpdateMissed'
<1> SUFFICES ASSUME RegistryInv, NoUpdateMissed, [Next]_vars,
                    NEW u \in notified', NEW r \in Registrations', before'[r] < u,
                    Registered(r)' \/ u \in retired'[r].notified
             PROVE  [update |-> u, reg |-> r] \in deliveries'
  BY DEF NoUpdateMissed
<1> USE DEF RegistryInv, RegistryType, Registrations
<1>1. ASSUME NEW id \in ConfigIds, PutPushConfig(id)
      PROVE  [update |-> u, reg |-> r] \in deliveries'
  <2>1. /\ before' = Append(before, updates) /\ u \in 1 .. updates
        /\ registrations' = registrations + 1
    BY <1>1 DEF PutPushConfig, Updates
  <2>2. r \in Registrations /\ before[r] < u
    BY <2>1
  <2>3. r \in DOMAIN retired' <=> r \in DOMAIN retired \cup WithId(id)
    BY <1>1, RetireDomain DEF PutPushConfig
  <2>4. Registered(r) \/ u \in retired[r].notified
    BY <1>1, <2>2, <2>3, RetireRecords DEF PutPushConfig, Registered, WithId, PlaceInv
  <2> QED BY <1>1, <2>2, <2>4 DEF PutPushConfig, NoUpdateMissed
<1>2. ASSUME NEW id \in ConfigIds, DeletePushConfig(id)
      PROVE  [update |-> u, reg |-> r] \in deliveries'
  <2>1. r \in DOMAIN retired' <=> r \in DOMAIN retired \cup WithId(id)
    BY <1>2, RetireDomain DEF DeletePushConfig
  <2>2. Registered(r) \/ u \in retired[r].notified
    BY <1>2, <2>1, RetireRecords DEF DeletePushConfig, Registered, WithId, PlaceInv
  <2> QED BY <1>2, <2>2 DEF DeletePushConfig, NoUpdateMissed
<1>3. ASSUME NEW w \in Writers, NotifyPushConfigs(w)
      PROVE  [update |-> u, reg |-> r] \in deliveries'
  <2>1. CASE u \in notified
    BY <1>3, <2>1 DEF NotifyPushConfigs, NoUpdateMissed, Registered
  <2>2. CASE u \notin notified
    <3>1. u = notifying[w]
      BY <1>3, <2>2 DEF NotifyPushConfigs
    <3>2. Registered(r)
      BY <1>3, <2>2 DEF NotifyPushConfigs, PlaceInv, Registered
    <3>3. r \in Targets
      BY <1>3, <3>2 DEF NotifyPushConfigs, PlaceInv
    <3> QED BY <1>3, <3>1, <3>3 DEF NotifyPushConfigs
  <2> QED BY <2>1, <2>2
<1>4. ASSUME UNCHANGED <<configs, registrations, deliveries, history>>
      PROVE  [update |-> u, reg |-> r] \in deliveries'
  BY <1>4 DEF NoUpdateMissed, Registered
<1>5. ASSUME NEW w \in Writers, PutUpdate(w) \/ AbortHandler(w)
      PROVE  UNCHANGED <<configs, registrations, deliveries, history>>
  BY <1>5 DEF PutUpdate, AbortHandler
<1> QED BY <1>1, <1>2, <1>3, <1>4, <1>5, DeliveryLeavesRegistry
        DEF Next, CreatePushConfig, InlinePushConfig, DeliverySteps

\* A registration that was there before an update, and still was when the
\* update was notified, has a delivery of it (notify_push_configs), for any
\* interleaving of puts and notifications with registrations that are made,
\* replaced and deleted.
THEOREM NoUpdateEverMissed == Spec => []NoUpdateMissed
BY InitRegistryInv, NextRegistryInv, InitNoUpdateMissed, NextNoUpdateMissed, PTL DEF Spec

LEMMA InitRetiredStaysSilent == Init => RetiredStaysSilent
BY DEF Init, RetiredStaysSilent

LEMMA NextRetiredStaysSilent ==
    RegistryInv /\ RetiredStaysSilent /\ [Next]_vars => RetiredStaysSilent'
<1> SUFFICES ASSUME RegistryInv, RetiredStaysSilent, [Next]_vars,
                    NEW k \in deliveries', k.reg \in DOMAIN retired'
             PROVE  k.update <= retired'[k.reg].put
  BY DEF RetiredStaysSilent
<1> USE DEF RegistryInv, RegistryType, Registrations
<1>1. ASSUME NEW regs, Retire(regs), deliveries' = deliveries
      PROVE  k.update <= retired'[k.reg].put
  <2>1. k.update \in 1 .. updates
    BY <1>1 DEF Updates
  <2> QED BY <1>1, <2>1, RetireRecords DEF RetiredStaysSilent
<1>2. ASSUME NEW w \in Writers, NotifyPushConfigs(w)
      PROVE  k.update <= retired'[k.reg].put
  <2>1. retired' = retired
    BY <1>2 DEF NotifyPushConfigs
  <2>2. k.reg \notin Targets
    BY <2>1 DEF Targets, PlaceInv
  <2>3. k \in deliveries
    BY <1>2, <2>2 DEF NotifyPushConfigs
  <2> QED BY <2>1, <2>3 DEF RetiredStaysSilent
<1>3. ASSUME UNCHANGED <<deliveries, retired>>
      PROVE  k.update <= retired'[k.reg].put
  BY <1>3 DEF RetiredStaysSilent
<1>4. ASSUME NEW w \in Writers, PutUpdate(w) \/ AbortHandler(w)
      PROVE  UNCHANGED <<deliveries, retired>>
  BY <1>4 DEF PutUpdate, AbortHandler
<1> QED BY <1>1, <1>2, <1>3, <1>4, DeliveryLeavesRegistry
        DEF Next, CreatePushConfig, InlinePushConfig, PutPushConfig, DeletePushConfig,
            DeliverySteps

\* A configuration that was deleted or replaced is told of no update put
\* after that, whatever pumps were between their put and their notification.
THEOREM RetiredAlwaysSilent == Spec => []RetiredStaysSilent
BY InitRegistryInv, NextRegistryInv, InitRetiredStaysSilent, NextRetiredStaysSilent, PTL
DEF Spec

-----------------------------------------------------------------------------
(***************************************************************************)
(* One delivery: the answers say which attempt it is at, and only the last *)
(* of them may end it.                                                     *)
(***************************************************************************)
AttemptInv ==
    /\ DeliveryType
    /\ attempt \in 1 .. MaxDeliveryAttempts
    /\ stage \in {"backoff", "disallowed"} => Len(answers) = attempt - 1
    /\ stage \notin {"backoff", "disallowed"} => Len(answers) = attempt
    /\ OutcomeIsEarned

LEMMA InitAttemptInv == Init => AttemptInv
BY PushAssumption
DEF Init, AttemptInv, DeliveryType, OutcomeIsEarned, Stages, Outcomes

LEMMA NextAttemptInv == AttemptInv /\ [Next]_vars => AttemptInv'
<1> SUFFICES ASSUME AttemptInv, [Next]_vars PROVE AttemptInv'
  OBVIOUS
<1> USE PushAssumption
    DEF AttemptInv, DeliveryType, OutcomeIsEarned, Stages, Outcomes, Answers, At
<1>1. ASSUME UNCHANGED delivery PROVE AttemptInv'
  BY <1>1
<1>2. CASE SkipDisallowed
  BY <1>2 DEF SkipDisallowed
<1>3. CASE Post
  BY <1>3 DEF Post
<1>4. ASSUME NEW answer \in Answers \ {"none"}, WebhookAnswers(answer) PROVE AttemptInv'
  BY <1>4 DEF WebhookAnswers
<1>5. ASSUME TryAgain, stage = "posting", answers' = answers PROVE AttemptInv'
  BY <1>5 DEF TryAgain
<1>6. CASE ReceiveAnswer
  <2>1. answers[attempt] \in {"success", "later", "never"}
    BY <1>6 DEF ReceiveAnswer
  <2>2. CASE answers[attempt] = "success"
    BY <1>6, <2>2 DEF ReceiveAnswer
  <2>3. CASE answers[attempt] = "later"
    BY <1>5, <1>6, <2>3 DEF ReceiveAnswer
  <2>4. CASE answers[attempt] = "never"
    BY <1>6, <2>4 DEF ReceiveAnswer
  <2> QED BY <2>1, <2>2, <2>3, <2>4
<1>7. CASE SendFails
  BY <1>5, <1>7 DEF SendFails
<1>8. ASSUME NEW id \in ConfigIds,
             CreatePushConfig(id) \/ InlinePushConfig(id) \/ DeletePushConfig(id)
      PROVE  UNCHANGED delivery
  BY <1>8 DEF CreatePushConfig, InlinePushConfig, PutPushConfig, DeletePushConfig
<1>9. ASSUME NEW w \in Writers, PutUpdate(w) \/ NotifyPushConfigs(w) \/ AbortHandler(w)
      PROVE  UNCHANGED delivery
  BY <1>9 DEF PutUpdate, NotifyPushConfigs, AbortHandler
<1> QED BY <1>1, <1>2, <1>3, <1>4, <1>6, <1>7, <1>8, <1>9 DEF Next, DeliveryStep

\* However requests fail, time out or are answered late: a delivery counts as
\* made or refused only on the webhook's word for its last request, and is
\* given up only after MAX_DELIVERY_ATTEMPTS requests (PushNotifier::notify).
THEOREM OutcomeAlwaysEarned == Spec => []OutcomeIsEarned
<1>1. AttemptInv => OutcomeIsEarned
  BY DEF AttemptInv
<1> QED BY <1>1, InitAttemptInv, NextAttemptInv, PTL DEF Spec
=============================================================================
