--------------------------- MODULE NotifierProofs ---------------------------
(***************************************************************************)
(* Theorems about Notifier, for every table of rules and channels, every   *)
(* queue and every cooldown: what one replica may promise of the alerts it *)
(* sends.  Nothing holds of two: neither sees what the other is sending.   *)
(***************************************************************************)
EXTENDS Notifier, SequenceTheorems, TLAPS

(* One process runs the notifier; a rule names a channel once (the server  *)
(* stores the list of channels as the request has it).                     *)
OneReplica == \A m, n \in Replicas : m = n

ChannelsOnce ==
  \A r \in Rules : \A j, k \in DOMAIN ChannelsOf[r] : ChannelsOf[r][j] = ChannelsOf[r][k] => j = k

-----------------------------------------------------------------------------
(* Where the goroutine is, and what it holds there.                        *)

WorkerState ==
  [pc : {"idle", "rule", "send", "delivered", "failed", "stopped"},
   issue : Issues \cup {NoIssue}, rules : SUBSET Rules, rule : SUBSET Rules,
   channels : Seq(Channels)]

Times == 0..MaxTime \cup {Never}

Busy(n) == worker[n].pc \in {"send", "delivered", "failed"}

(* Between a rule's check and its last channel: one rule, and the channels *)
(* still to be dealt with, no channel twice.                               *)
OneRuleInHand(n) ==
  Busy(n) => /\ \E r \in Rules : worker[n].rule = {r}
             /\ worker[n].channels # <<>>
             /\ \A j, k \in DOMAIN worker[n].channels :
                  worker[n].channels[j] = worker[n].channels[k] => j = k

NotifierType ==
  /\ todo \subseteq Events /\ dropped \subseteq Events
  /\ queue \in [Replicas -> Seq(Events)] /\ \A n \in Replicas : Len(queue[n]) <= Capacity
  /\ worker \in [Replicas -> WorkerState]
  /\ stopping \subseteq Replicas
  /\ deliveries \subseteq Alerts /\ tried \subseteq Alerts
  /\ sent \in [Alerts -> 0..MaxSent]
  /\ lastSent \in [Rules -> Times] /\ lastSpike \in [Rules \X Channels -> Times]
  /\ early \in [Rules \X Channels -> Nat]
  /\ spiking \in BOOLEAN /\ now \in 0..MaxTime
  /\ failures \in [lookup : Nat, cooldown : Nat, record : Nat]
  /\ \A n \in Replicas : OneRuleInHand(n)

LEMMA NeverIsLater == Never \in Nat /\ Never \notin 0..MaxTime /\ MaxTime \in Nat /\ MaxSent \in Nat
  BY NotifierAssumption DEF Never, MaxSent

LEMMA InitType == Init => NotifierType
  <1> SUFFICES ASSUME Init PROVE NotifierType
    OBVIOUS
  <1>1. Idle \in WorkerState
    BY DEF Idle, WorkerState
  <1>2. /\ worker = [n \in Replicas |-> Idle] /\ queue = [n \in Replicas |-> <<>>]
        /\ sent = [a \in Alerts |-> 0] /\ lastSent = [r \in Rules |-> Never]
        /\ lastSpike = [rc \in Rules \X Channels |-> Never]
        /\ early = [rc \in Rules \X Channels |-> 0]
        /\ failures = [lookup |-> 0, cooldown |-> 0, record |-> 0]
    BY DEF Init
  <1>3. \A n \in Replicas : OneRuleInHand(n)
    BY <1>2 DEF OneRuleInHand, Busy, Idle
  <1>4. Idle \in WorkerState => worker \in [Replicas -> WorkerState]
    BY <1>2
  <1>5. queue \in [Replicas -> Seq(Events)] /\ \A n \in Replicas : Len(queue[n]) <= Capacity
    BY <1>2, NotifierAssumption, EmptySeq
  <1>6. sent \in [Alerts -> 0..MaxSent] /\ lastSent \in [Rules -> Times]
        /\ early \in [Rules \X Channels -> Nat]
        /\ lastSpike \in [Rules \X Channels -> Times] /\ failures \in [lookup : Nat, cooldown : Nat, record : Nat]
    BY <1>2, NeverIsLater DEF Times
  <1>7. /\ todo = Events /\ dropped = {} /\ stopping = {} /\ deliveries = {} /\ tried = {}
        /\ spiking = FALSE /\ now = 0
    BY DEF Init
  <1>8. todo \subseteq Events /\ dropped \subseteq Events /\ stopping \subseteq Replicas
        /\ deliveries \subseteq Alerts /\ tried \subseteq Alerts
        /\ spiking \in BOOLEAN
    BY <1>7, Zenon
  <1>9. now \in 0..MaxTime
    BY <1>7, NeverIsLater
  <1>10. QED
    BY <1>1, <1>3, <1>4, <1>5, <1>6, <1>8, <1>9 DEF NotifierType

(* What the loops over rules and channels leave in the goroutine's hands.  *)
LEMMA NextRuleIs ==
    ASSUME NotifierType, NEW n \in Replicas, NEW rules \in SUBSET Rules, NextRule(n, rules)
    PROVE  /\ worker' \in [Replicas -> WorkerState]
           /\ worker'[n].pc \in {"idle", "rule"}
           /\ \A m \in Replicas : m # n => worker'[m] = worker[m]
  <1>1. PICK w : worker' = [worker EXCEPT ![n] = w] /\ w \in WorkerState /\ w.pc \in {"idle", "rule"}
    <2>1. Idle \in WorkerState /\ Idle.pc = "idle"
      BY DEF Idle, WorkerState
    <2>2. worker[n] \in WorkerState
      BY DEF NotifierType
    <2>3. [worker[n] EXCEPT !.pc = "rule", !.rules = rules, !.rule = {}, !.channels = <<>>] \in WorkerState
      BY <2>2, EmptySeq DEF WorkerState
    <2>4. [worker[n] EXCEPT !.pc = "rule", !.rules = rules, !.rule = {}, !.channels = <<>>].pc = "rule"
      BY <2>2 DEF WorkerState
    <2>5. QED
      BY <2>1, <2>3, <2>4 DEF NextRule, Become
  <1>2. QED
    BY <1>1 DEF NotifierType

LEMMA NextChannelIs ==
    ASSUME NotifierType, NEW n \in Replicas, Busy(n), NextChannel(n)
    PROVE  /\ worker' \in [Replicas -> WorkerState]
           /\ \/ worker'[n].pc \in {"idle", "rule"}
              \/ /\ worker'[n].pc = "send"
                 /\ worker'[n].issue = worker[n].issue /\ worker'[n].rule = worker[n].rule
                 /\ Len(worker[n].channels) > 1
                 /\ worker'[n].channels = Tail(worker[n].channels)
           /\ \A m \in Replicas : m # n => worker'[m] = worker[m]
  <1>0. worker[n] \in WorkerState
    BY DEF NotifierType
  <1>1. CASE Len(worker[n].channels) = 1
    <2>1. NextRule(n, worker[n].rules) /\ worker[n].rules \in SUBSET Rules
      BY <1>0, <1>1 DEF NextChannel, WorkerState
    <2>2. QED
      BY <2>1, NextRuleIs
  <1>2. CASE Len(worker[n].channels) # 1
    <2> DEFINE w == [worker[n] EXCEPT !.pc = "send", !.channels = Tail(worker[n].channels)]
    <2>1. worker[n].channels \in Seq(Channels) /\ worker[n].channels # <<>>
      BY <1>0 DEF NotifierType, OneRuleInHand, WorkerState
    <2>2. Tail(worker[n].channels) \in Seq(Channels) /\ Len(worker[n].channels) > 1
      <3>1. Len(worker[n].channels) \in Nat \ {0}
        BY <2>1, EmptySeq
      <3>2. Tail(worker[n].channels) \in Seq(Channels)
        BY <2>1, HeadTailProperties
      <3>3. \A l \in Nat \ {0} : l # 1 => l > 1
        OBVIOUS
      <3>4. Len(worker[n].channels) > 1
        BY <1>2, <3>1, <3>3, Zenon
      <3>5. QED
        BY <3>2, <3>4
    <2>3. /\ w \in WorkerState
          /\ w.pc = "send" /\ w.issue = worker[n].issue /\ w.rule = worker[n].rule
          /\ w.channels = Tail(worker[n].channels)
      BY <1>0, <2>2 DEF WorkerState
    <2>4. worker' = [worker EXCEPT ![n] = w]
      BY <1>2 DEF NextChannel, Become
    <2> HIDE DEF w
    <2>5. QED
      BY <2>2, <2>3, <2>4 DEF NotifierType
  <1>3. QED
    BY <1>1, <1>2

LEMMA NextType ==
    ASSUME ChannelsOnce, NotifierType, [Next]_vars
    PROVE  NotifierType'
  <1>0. /\ \A n \in Replicas : worker[n] \in WorkerState
        /\ \A r \in Rules : ChannelsOf[r] \in Seq(Channels)
    BY NotifierAssumption DEF NotifierType
  <1>1. ASSUME UNCHANGED worker PROVE \A n \in Replicas : OneRuleInHand(n)'
    BY <1>1 DEF NotifierType, OneRuleInHand, Busy
  <1>o. ASSUME NEW n \in Replicas, \A m \in Replicas : m # n => worker'[m] = worker[m],
               OneRuleInHand(n)'
        PROVE  \A m \in Replicas : OneRuleInHand(m)'
    <2>1. ASSUME NEW m \in Replicas, m # n PROVE OneRuleInHand(m)'
      <3>1. OneRuleInHand(m) /\ worker'[m] = worker[m]
        BY <1>o, <2>1 DEF NotifierType
      <3>2. QED
        BY <3>1 DEF OneRuleInHand, Busy
    <2>2. QED
      BY <1>o, <2>1
  \* A step that moves one worker and, at most, fails a call.
  <1>2. ASSUME NEW n \in Replicas, NEW w \in WorkerState, Become(n, w),
               w.pc \in {"idle", "rule", "stopped"}
        PROVE  worker' \in [Replicas -> WorkerState] /\ \A m \in Replicas : OneRuleInHand(m)'
    <2>1. worker' \in [Replicas -> WorkerState] /\ worker'[n] = w
          /\ \A m \in Replicas : m # n => worker'[m] = worker[m]
      BY <1>2 DEF Become, NotifierType
    <2>2. OneRuleInHand(n)'
      BY <1>2, <2>1 DEF OneRuleInHand, Busy
    <2>3. QED
      BY <1>o, <2>1, <2>2
  <1>3. ASSUME NEW n \in Replicas, NEW rules \in SUBSET Rules, NextRule(n, rules)
        PROVE  worker' \in [Replicas -> WorkerState] /\ \A m \in Replicas : OneRuleInHand(m)'
    <2>1. /\ worker' \in [Replicas -> WorkerState] /\ worker'[n].pc \in {"idle", "rule"}
          /\ \A m \in Replicas : m # n => worker'[m] = worker[m]
      BY <1>3, NextRuleIs
    <2>2. OneRuleInHand(n)'
      BY <2>1 DEF OneRuleInHand, Busy
    <2>3. QED
      BY <1>o, <2>1, <2>2
  <1>4. ASSUME NEW n \in Replicas, Busy(n), NextChannel(n)
        PROVE  worker' \in [Replicas -> WorkerState] /\ \A m \in Replicas : OneRuleInHand(m)'
    <2>1. /\ worker' \in [Replicas -> WorkerState]
          /\ \/ worker'[n].pc \in {"idle", "rule"}
             \/ /\ worker'[n].pc = "send" /\ worker'[n].rule = worker[n].rule
                /\ Len(worker[n].channels) > 1
                /\ worker'[n].channels = Tail(worker[n].channels)
          /\ \A m \in Replicas : m # n => worker'[m] = worker[m]
      BY <1>4, NextChannelIs
    <2>2. OneRuleInHand(n)'
      <3>1. CASE worker'[n].pc \in {"idle", "rule"}
        BY <3>1 DEF OneRuleInHand, Busy
      <3>2. CASE worker'[n].pc = "send"
        <4>1. worker[n].channels \in Seq(Channels) /\ worker[n].channels # <<>>
              /\ \A j, k \in DOMAIN worker[n].channels :
                   worker[n].channels[j] = worker[n].channels[k] => j = k
          BY <1>0, <1>4 DEF NotifierType, OneRuleInHand, WorkerState
        <4>2. Tail(worker[n].channels) # <<>>
              /\ \A j, k \in DOMAIN Tail(worker[n].channels) :
                   Tail(worker[n].channels)[j] = Tail(worker[n].channels)[k] => j = k
          <5> DEFINE q == worker[n].channels
          <5>1. q \in Seq(Channels) /\ q # <<>> /\ \A j, k \in DOMAIN q : q[j] = q[k] => j = k
            BY <4>1
          <5>2. Len(q) > 1
            BY <2>1, <3>2
          <5> HIDE DEF q
          <5>3. /\ Tail(q) \in Seq(Channels) /\ Len(Tail(q)) = Len(q) - 1
                /\ \A i \in 1..Len(Tail(q)) : Tail(q)[i] = q[i + 1]
            BY <5>1, HeadTailProperties
          <5>4. /\ Len(q) \in Nat /\ DOMAIN q = 1..Len(q)
                /\ DOMAIN Tail(q) = 1..Len(Tail(q))
            BY <5>1, <5>3, LenProperties
          <5>5. Tail(q) # <<>>
            BY <5>2, <5>3, <5>4, EmptySeq
          <5>6. ASSUME NEW j \in DOMAIN Tail(q), NEW k \in DOMAIN Tail(q), Tail(q)[j] = Tail(q)[k]
                PROVE  j = k
            <6>1. j \in Nat /\ k \in Nat /\ j + 1 \in DOMAIN q /\ k + 1 \in DOMAIN q
              BY <5>3, <5>4
            <6>2. q[j + 1] = q[k + 1]
              BY <5>3, <5>4, <5>6
            <6>3. QED
              BY <5>1, <6>1, <6>2
          <5>7. QED
            BY <5>5, <5>6 DEF q
        <4>3. \E r \in Rules : worker'[n].rule = {r}
          BY <1>4, <2>1, <3>2 DEF NotifierType, OneRuleInHand
        <4>4. worker'[n].channels = Tail(worker[n].channels)
          BY <2>1, <3>2
        <4>5. QED
          BY <4>2, <4>3, <4>4 DEF OneRuleInHand
      <3>3. QED
        BY <2>1, <3>1, <3>2
    <2>3. QED
      BY <1>o, <2>1, <2>2
  <1>5. ASSUME NEW n \in Replicas, NEW pc \in {"delivered", "failed"}, worker[n].pc = "send",
               Become(n, [worker[n] EXCEPT !.pc = pc])
        PROVE  worker' \in [Replicas -> WorkerState] /\ \A m \in Replicas : OneRuleInHand(m)'
    <2> DEFINE w == [worker[n] EXCEPT !.pc = pc]
    <2>1. w \in WorkerState /\ w.rule = worker[n].rule /\ w.channels = worker[n].channels
      BY <1>0, <1>5 DEF WorkerState
    <2>2. worker' = [worker EXCEPT ![n] = w]
      BY <1>5 DEF Become
    <2> HIDE DEF w
    <2>3. worker' \in [Replicas -> WorkerState] /\ worker'[n] = w
          /\ \A m \in Replicas : m # n => worker'[m] = worker[m]
      BY <2>1, <2>2 DEF NotifierType
    <2>4. OneRuleInHand(n) /\ Busy(n)
      BY <1>5 DEF NotifierType, Busy
    <2>5. worker'[n].rule = worker[n].rule /\ worker'[n].channels = worker[n].channels
      BY <2>1, <2>3
    <2>6. OneRuleInHand(n)'
      BY <2>4, <2>5, Zenon DEF OneRuleInHand
    <2>7. QED
      BY <1>o, <2>3, <2>6
  <1>6. ASSUME NEW what \in {"lookup", "cooldown", "record"}, NEW bound, MayFail(what, bound)
        PROVE  failures' \in [lookup : Nat, cooldown : Nat, record : Nat]
    <2>1. /\ failures \in [lookup : Nat, cooldown : Nat, record : Nat]
          /\ failures' = [failures EXCEPT ![what] = failures[what] + 1]
      BY <1>6 DEF MayFail, NotifierType
    <2>2. QED
      BY <2>1
  <1>7. CASE UNCHANGED vars
    BY <1>1, <1>7 DEF vars, log, NotifierType
  <1>8. ASSUME NEW n \in Replicas, NEW e \in Events, Enqueue(n, e) PROVE NotifierType'
    <2>1. queue' \in [Replicas -> Seq(Events)] /\ \A m \in Replicas : Len(queue'[m]) <= Capacity
      <3>1. CASE queue' = queue
        BY <3>1 DEF NotifierType
      <3>2. CASE Len(queue[n]) < Capacity /\ queue' = [queue EXCEPT ![n] = Append(queue[n], e)]
        <4>1. queue[n] \in Seq(Events) /\ Len(queue[n]) \in Nat
          BY LenProperties DEF NotifierType
        <4>2. Append(queue[n], e) \in Seq(Events) /\ Len(Append(queue[n], e)) = Len(queue[n]) + 1
          BY <4>1
        <4>3. Len(Append(queue[n], e)) <= Capacity
          BY <3>2, <4>1, <4>2, NotifierAssumption
        <4>4. QED
          BY <3>2, <4>2, <4>3 DEF NotifierType
      <3>3. QED
        BY <1>8, <3>1, <3>2 DEF Enqueue
    <2>2. todo' \subseteq Events /\ dropped' \subseteq Events
      BY <1>8 DEF Enqueue, NotifierType
    <2>3. UNCHANGED <<worker, stopping, log, spiking, now, failures>>
      BY <1>8 DEF Enqueue
    <2>4. QED
      BY <1>1, <2>1, <2>2, <2>3 DEF NotifierType, log
  <1>9. ASSUME NEW n \in Replicas, TakeEvent(n) \/ LoseEvent(n) PROVE NotifierType'
    <2>0. queue[n] \in Seq(Events) /\ queue[n] # <<>> /\ Len(queue[n]) \in Nat
      BY <1>9, LenProperties DEF NotifierType, TakeEvent, LoseEvent
    <2>1. /\ Head(queue[n]) \in Events /\ Tail(queue[n]) \in Seq(Events)
          /\ Len(Tail(queue[n])) = Len(queue[n]) - 1
      BY <2>0, HeadTailProperties
    <2>2. queue' = [queue EXCEPT ![n] = Tail(queue[n])]
      BY <1>9 DEF TakeEvent, LoseEvent
    <2>3. queue' \in [Replicas -> Seq(Events)] /\ \A m \in Replicas : Len(queue'[m]) <= Capacity
      BY <2>0, <2>1, <2>2, NotifierAssumption DEF NotifierType
    <2>4. UNCHANGED <<todo, dropped, stopping, log, spiking, now>>
          /\ failures' \in [lookup : Nat, cooldown : Nat, record : Nat]
      BY <1>6, <1>9 DEF TakeEvent, LoseEvent, NotifierType
    <2>5. worker' \in [Replicas -> WorkerState] /\ \A m \in Replicas : OneRuleInHand(m)'
      <3>1. CASE LoseEvent(n)
        BY <1>1, <3>1 DEF LoseEvent, NotifierType
      <3>2. CASE TakeEvent(n)
        <4> DEFINE e == Head(queue[n])
                   rules == {r \in Rules : KindOf[r] = e.kind}
                   w == IF rules = {} THEN Idle
                        ELSE [Idle EXCEPT !.pc = "rule", !.issue = e.issue, !.rules = rules]
        <4>1. e.issue \in Issues /\ Idle \in WorkerState
          BY <2>1, NotifierAssumption, EmptySeq DEF Idle, WorkerState
        <4>2. w \in WorkerState /\ w.pc \in {"idle", "rule"}
          BY <4>1 DEF Idle, WorkerState
        <4>3. Become(n, w)
          BY <3>2 DEF TakeEvent
        <4> HIDE DEF w
        <4>4. QED
          BY <1>2, <4>2, <4>3
      <3>3. QED
        BY <1>9, <3>1, <3>2
    <2>6. QED
      BY <2>3, <2>4, <2>5 DEF NotifierType, log
  <1>10. ASSUME NEW n \in Replicas, Tick(n) \/ Return(n) PROVE NotifierType'
    <2>1. \E w \in WorkerState : Become(n, w) /\ w.pc \in {"rule", "stopped"}
      <3>1. /\ [Idle EXCEPT !.pc = "rule", !.rules = RateRules] \in WorkerState
            /\ [Idle EXCEPT !.pc = "stopped"] \in WorkerState
            /\ [Idle EXCEPT !.pc = "rule", !.rules = RateRules].pc = "rule"
            /\ [Idle EXCEPT !.pc = "stopped"].pc = "stopped"
        BY EmptySeq DEF Idle, WorkerState, RateRules
      <3>2. QED
        BY <1>10, <3>1 DEF Tick, Return
    <2>2. UNCHANGED <<todo, queue, dropped, stopping, log, spiking, now, failures>>
      BY <1>10 DEF Tick, Return
    <2>3. QED
      BY <1>2, <2>1, <2>2 DEF NotifierType, log
  <1>11. ASSUME NEW n \in Replicas, CheckRule(n) \/ CheckFails(n) \/ CooldownUnknown(n)
         PROVE  NotifierType'
    <2>1. UNCHANGED <<todo, queue, dropped, stopping, log, spiking, now>>
          /\ failures' \in [lookup : Nat, cooldown : Nat, record : Nat]
      BY <1>6, <1>11 DEF CheckRule, CheckFails, CooldownUnknown, NotifierType
    <2>2. PICK r \in worker[n].rules :
             \/ NextRule(n, worker[n].rules \ {r})
             \/ /\ ChannelsOf[r] # <<>>
                /\ Become(n, [worker[n] EXCEPT !.pc = "send", !.rules = worker[n].rules \ {r},
                                               !.rule = {r}, !.channels = ChannelsOf[r]])
      BY <1>11 DEF CheckRule, CheckFails, CooldownUnknown, TakeOn
    <2>3. r \in Rules /\ worker[n].rules \ {r} \in SUBSET Rules
      BY <1>0 DEF WorkerState
    <2>4. CASE NextRule(n, worker[n].rules \ {r})
      BY <1>3, <2>1, <2>3, <2>4 DEF NotifierType, log
    <2>5. CASE ~NextRule(n, worker[n].rules \ {r})
      <3> DEFINE w == [worker[n] EXCEPT !.pc = "send", !.rules = worker[n].rules \ {r},
                                        !.rule = {r}, !.channels = ChannelsOf[r]]
      <3>1. w \in WorkerState /\ w.rule = {r} /\ w.channels = ChannelsOf[r]
        BY <1>0, <2>3 DEF WorkerState
      <3>2. worker' = [worker EXCEPT ![n] = w] /\ ChannelsOf[r] # <<>>
        BY <2>2, <2>5 DEF Become
      <3> HIDE DEF w
      <3>3. worker' \in [Replicas -> WorkerState] /\ worker'[n] = w
            /\ \A m \in Replicas : m # n => worker'[m] = worker[m]
        BY <3>1, <3>2 DEF NotifierType
      <3>4. OneRuleInHand(n)'
        BY <2>3, <3>1, <3>2, <3>3 DEF OneRuleInHand, ChannelsOnce
      <3>5. QED
        BY <1>o, <2>1, <3>3, <3>4 DEF NotifierType, log
    <2>6. QED
      BY <2>4, <2>5
  <1>12. ASSUME NEW n \in Replicas, Send(n) PROVE NotifierType'
    <2>1. PICK r \in worker[n].rule, ok \in BOOLEAN :
             /\ tried' = tried \cup {<<r, Head(worker[n].channels), worker[n].issue>>}
             /\ sent' = sent \/ \E a \in Alerts : sent[a] < MaxSent /\ sent' = [sent EXCEPT ![a] = sent[a] + 1]
             /\ lastSpike' = lastSpike
                  \/ \E rc \in Rules \X Channels : lastSpike' = [lastSpike EXCEPT ![rc] = now]
             /\ AfterSend(n, ok)
      <3>1. /\ worker[n].rule \subseteq Rules /\ worker[n].issue \in Issues \cup {NoIssue}
            /\ worker[n].channels \in Seq(Channels) /\ worker[n].channels # <<>>
        BY <1>0, <1>12 DEF WorkerState, NotifierType, OneRuleInHand, Busy, Send
      <3>2. Head(worker[n].channels) \in Channels
        BY <3>1, HeadTailProperties
      <3>3. QED
        BY <1>12, <3>1, <3>2 DEF Send, Alerts
    <2>2. <<r, Head(worker[n].channels), worker[n].issue>> \in Alerts
      <3>1. /\ worker[n].rule \subseteq Rules /\ worker[n].issue \in Issues \cup {NoIssue}
            /\ worker[n].channels \in Seq(Channels) /\ worker[n].channels # <<>>
        BY <1>0, <1>12 DEF WorkerState, NotifierType, OneRuleInHand, Busy, Send
      <3>2. QED
        BY <3>1, HeadTailProperties DEF Alerts
    <2>3. sent' \in [Alerts -> 0..MaxSent]
      <3>1. sent \in [Alerts -> 0..MaxSent]
        BY DEF NotifierType
      <3>2. QED
        BY <2>1, <3>1, NeverIsLater
    <2>4. lastSpike' \in [Rules \X Channels -> Times] /\ early' \in [Rules \X Channels -> Nat]
      <3>1. lastSpike' \in [Rules \X Channels -> Times]
        BY <2>1, NeverIsLater DEF NotifierType, Times
      <3>2. early' \in [Rules \X Channels -> Nat]
        <4>1. early \in [Rules \X Channels -> Nat]
          BY DEF NotifierType
        <4>2. \/ early' = early
              \/ \E rc \in Rules \X Channels : early' = [early EXCEPT ![rc] = early[rc] + 1]
          <5>1. /\ worker[n].rule \subseteq Rules /\ worker[n].channels \in Seq(Channels)
                /\ worker[n].channels # <<>>
            BY <1>0, <1>12 DEF WorkerState, NotifierType, OneRuleInHand, Busy, Send
          <5>2. Head(worker[n].channels) \in Channels
            BY <5>1, HeadTailProperties
          <5>3. QED
            BY <1>12, <5>1, <5>2 DEF Send
        <4>3. ASSUME NEW rc \in Rules \X Channels, early' = [early EXCEPT ![rc] = early[rc] + 1]
              PROVE  early' \in [Rules \X Channels -> Nat]
          <5>1. early[rc] + 1 \in Nat
            BY <4>1
          <5>2. QED
            BY <4>1, <4>3, <5>1
        <4>4. QED
          BY <4>1, <4>2, <4>3
      <3>3. QED
        BY <3>1, <3>2
    <2>5. worker' \in [Replicas -> WorkerState] /\ \A m \in Replicas : OneRuleInHand(m)'
      BY <1>5, <1>12, <2>1 DEF AfterSend, Send
    <2>6. UNCHANGED <<todo, queue, dropped, stopping, deliveries, lastSent, spiking, now, failures>>
          /\ tried' \subseteq Alerts
      BY <1>12, <2>1, <2>2 DEF Send, NotifierType
    <2>7. QED
      BY <2>3, <2>4, <2>5, <2>6 DEF NotifierType
  <1>13. ASSUME NEW n \in Replicas, Record(n) \/ RecordFails(n) \/ ChannelFails(n)
         PROVE  NotifierType'
    <2>1. Busy(n) /\ NextChannel(n)
      BY <1>13 DEF Record, RecordFails, ChannelFails, Busy
    <2>2. /\ worker[n].rule \subseteq Rules /\ worker[n].issue \in Issues \cup {NoIssue}
          /\ worker[n].channels \in Seq(Channels) /\ worker[n].channels # <<>>
      BY <1>0, <2>1 DEF WorkerState, NotifierType, OneRuleInHand
    <2>3. Head(worker[n].channels) \in Channels
      BY <2>2, HeadTailProperties
    <2>4. deliveries' \subseteq Alerts
      BY <1>13, <2>2, <2>3 DEF Record, RecordFails, ChannelFails, NotifierType, Alerts, log
    <2>5. lastSent' \in [Rules -> Times]
      BY <1>13 DEF Record, RecordFails, ChannelFails, NotifierType, log, Times
    <2>6. UNCHANGED <<todo, queue, dropped, stopping, tried, sent, lastSpike, early, spiking, now>>
      BY <1>13 DEF Record, RecordFails, ChannelFails, log
    <2>7. failures' \in [lookup : Nat, cooldown : Nat, record : Nat]
      BY <1>6, <1>13 DEF Record, RecordFails, ChannelFails, NotifierType
    <2>8. QED
      BY <1>4, <2>1, <2>4, <2>5, <2>6, <2>7 DEF NotifierType
  <1>14. ASSUME NEW n \in Replicas, Stop(n) PROVE NotifierType'
    BY <1>1, <1>14 DEF Stop, log, NotifierType
  <1>15. CASE Minute
    BY <1>1, <1>15, NeverIsLater DEF Minute, log, NotifierType
  <1>16. QED
    BY <1>7, <1>8, <1>9, <1>10, <1>11, <1>12, <1>13, <1>14, <1>15 DEF Next, Work

(* The step a replica takes, told apart by what it does with the rule in   *)
(* hand: it has none, takes one on, sends, or deals with the answer.       *)
OnlyLookups == failures'.record = failures.record /\ failures'.cooldown = failures.cooldown

LEMMA Steps ==
    ASSUME NotifierType, [Next]_vars
    PROVE  \/ /\ worker' = worker
              /\ UNCHANGED <<deliveries, sent, lastSent, lastSpike, early>>
              /\ now' \in {now, now + 1} /\ OnlyLookups
           \/ \E n \in Replicas :
                /\ ~Busy(n) /\ ~Busy(n)'
                /\ \A m \in Replicas : m # n => worker'[m] = worker[m]
                /\ UNCHANGED <<deliveries, sent, lastSent, lastSpike, early, now>>
                /\ OnlyLookups
           \/ \E n \in Replicas :
                \/ CheckRule(n) \/ CooldownUnknown(n) \/ Send(n)
                \/ Record(n) \/ RecordFails(n) \/ ChannelFails(n)
  <1>0. \A n \in Replicas : worker[n] \in WorkerState
    BY DEF NotifierType
  <1>1. ASSUME UNCHANGED <<worker, log>>, now' \in {now, now + 1}, OnlyLookups
        PROVE  /\ worker' = worker
               /\ UNCHANGED <<deliveries, sent, lastSent, lastSpike, early>>
               /\ now' \in {now, now + 1} /\ OnlyLookups
    BY <1>1 DEF log
  <1>2. ASSUME NEW n \in Replicas, NEW w, ~Busy(n), Become(n, w), w.pc \in {"idle", "rule", "stopped"},
               UNCHANGED <<log, now>>, OnlyLookups
        PROVE  /\ ~Busy(n) /\ ~Busy(n)'
               /\ \A m \in Replicas : m # n => worker'[m] = worker[m]
               /\ UNCHANGED <<deliveries, sent, lastSent, lastSpike, early, now>>
               /\ OnlyLookups
    BY <1>2 DEF Become, Busy, NotifierType, log
  <1>3. MayFail("lookup", MaxLookupFailures) => OnlyLookups
    BY DEF MayFail, NotifierType, OnlyLookups
  <1>4. ASSUME NEW n \in Replicas, TakeEvent(n)
        PROVE  \E w : /\ ~Busy(n) /\ Become(n, w) /\ w.pc \in {"idle", "rule", "stopped"}
                      /\ UNCHANGED <<log, now>> /\ OnlyLookups
    <2> DEFINE e == Head(queue[n])
               rules == {r \in Rules : KindOf[r] = e.kind}
               w == IF rules = {} THEN Idle
                    ELSE [Idle EXCEPT !.pc = "rule", !.issue = e.issue, !.rules = rules]
    <2>1. Become(n, w) /\ w.pc \in {"idle", "rule", "stopped"}
      BY <1>4 DEF TakeEvent, Idle
    <2>2. ~Busy(n) /\ UNCHANGED <<log, now>> /\ OnlyLookups
      BY <1>4 DEF TakeEvent, Busy, OnlyLookups
    <2> HIDE DEF w
    <2>3. QED
      BY <2>1, <2>2
  <1>5. ASSUME NEW n \in Replicas, Tick(n) \/ Return(n)
        PROVE  \E w : /\ ~Busy(n) /\ Become(n, w) /\ w.pc \in {"idle", "rule", "stopped"}
                      /\ UNCHANGED <<log, now>> /\ OnlyLookups
    <2>1. /\ [Idle EXCEPT !.pc = "rule", !.rules = RateRules].pc = "rule"
          /\ [Idle EXCEPT !.pc = "stopped"].pc = "stopped"
      BY DEF Idle
    <2>2. QED
      BY <1>5, <2>1 DEF Tick, Return, Busy, OnlyLookups
  <1>6. ASSUME NEW n \in Replicas, CheckFails(n)
        PROVE  /\ ~Busy(n) /\ ~Busy(n)'
               /\ \A m \in Replicas : m # n => worker'[m] = worker[m]
               /\ UNCHANGED <<deliveries, sent, lastSent, lastSpike, early, now>>
               /\ OnlyLookups
    <2>1. PICK r \in worker[n].rules : NextRule(n, worker[n].rules \ {r})
      BY <1>6 DEF CheckFails
    <2>2. worker[n].rules \ {r} \in SUBSET Rules
      BY <1>0 DEF WorkerState
    <2>3. worker'[n].pc \in {"idle", "rule"} /\ \A m \in Replicas : m # n => worker'[m] = worker[m]
      BY <2>1, <2>2, NextRuleIs
    <2>4. QED
      BY <1>3, <1>6, <2>3 DEF CheckFails, Busy, log
  <1>7. CASE UNCHANGED vars
    BY <1>1, <1>7 DEF vars, OnlyLookups
  <1>8. ASSUME NEW n \in Replicas, NEW e \in Events, Enqueue(n, e)
        PROVE  UNCHANGED <<worker, log>> /\ now' \in {now, now + 1} /\ OnlyLookups
    BY <1>8 DEF Enqueue, OnlyLookups
  <1>9. ASSUME NEW n \in Replicas, LoseEvent(n) \/ Stop(n)
        PROVE  UNCHANGED <<worker, log>> /\ now' \in {now, now + 1} /\ OnlyLookups
    BY <1>3, <1>9 DEF LoseEvent, Stop, OnlyLookups
  <1>10. CASE Minute
    BY <1>1, <1>10 DEF Minute, OnlyLookups
  <1>11. QED
    BY <1>1, <1>2, <1>4, <1>5, <1>6, <1>7, <1>8, <1>9, <1>10 DEF Next, Work

(* Sending and recording, as records of what is in hand.                   *)
LEMMA InHand ==
    ASSUME NotifierType, NEW n \in Replicas, Busy(n)
    PROVE  /\ \E r \in Rules : worker[n].rule = {r}
           /\ worker[n].issue \in Issues \cup {NoIssue}
           /\ worker[n].channels \in Seq(Channels) /\ 1 \in DOMAIN worker[n].channels
           /\ Head(worker[n].channels) = worker[n].channels[1]
           /\ Head(worker[n].channels) \in Channels
           /\ Tail(worker[n].channels) \in Seq(Channels)
           /\ \A k \in DOMAIN Tail(worker[n].channels) :
                /\ k + 1 \in DOMAIN worker[n].channels /\ k + 1 # 1
                /\ Tail(worker[n].channels)[k] = worker[n].channels[k + 1]
           /\ \A j, k \in DOMAIN worker[n].channels :
                worker[n].channels[j] = worker[n].channels[k] => j = k
  <1> DEFINE q == worker[n].channels
  <1>1. worker[n] \in WorkerState /\ OneRuleInHand(n)
    BY DEF NotifierType
  <1>2. q \in Seq(Channels) /\ q # <<>>
    BY <1>1 DEF OneRuleInHand, WorkerState
  <1>3. worker[n].issue \in Issues \cup {NoIssue} /\ (\E r \in Rules : worker[n].rule = {r})
        /\ \A j, k \in DOMAIN q : q[j] = q[k] => j = k
    BY <1>1 DEF OneRuleInHand, WorkerState
  <1> HIDE DEF q
  <1>4. /\ Len(q) \in Nat \ {0} /\ DOMAIN q = 1..Len(q)
        /\ Head(q) \in Channels /\ Tail(q) \in Seq(Channels)
        /\ Len(Tail(q)) = Len(q) - 1 /\ \A i \in 1..Len(Tail(q)) : Tail(q)[i] = q[i + 1]
    BY <1>2, HeadTailProperties, LenProperties, EmptySeq
  <1>5. DOMAIN Tail(q) = 1..Len(Tail(q))
    BY <1>4, LenProperties
  <1>6. Head(q) = q[1]
    BY <1>2
  <1>7. 1 \in DOMAIN q
    BY <1>4
  <1>8. ASSUME NEW k \in DOMAIN Tail(q)
        PROVE  k + 1 \in DOMAIN q /\ k + 1 # 1 /\ Tail(q)[k] = q[k + 1]
    BY <1>4, <1>5
  <1>9. QED
    BY <1>2, <1>3, <1>4, <1>6, <1>7, <1>8 DEF q

-----------------------------------------------------------------------------
(* One alert per issue.                                                    *)

(* A rule is taken on for an issue nobody has been told of, and each of    *)
(* its channels is recorded before the next one is tried.                  *)
Untold(n) ==
  Busy(n) /\ worker[n].issue # NoIssue =>
    \A r \in worker[n].rule : \A k \in DOMAIN worker[n].channels :
      <<r, worker[n].channels[k], worker[n].issue>> \notin deliveries

(* Delivered, and not recorded yet.                                        *)
Pending(a) ==
  \E n \in Replicas :
    /\ worker[n].pc = "delivered"
    /\ a[1] \in worker[n].rule /\ a[2] = Head(worker[n].channels) /\ a[3] = worker[n].issue

SentAgain(a) ==
  a[3] # NoIssue =>
    /\ sent[a] <= failures.record + 1
    /\ a \notin deliveries /\ ~Pending(a) => sent[a] <= failures.record

AlertInv == (\A n \in Replicas : Untold(n)) /\ \A a \in Alerts : SentAgain(a)

LEMMA InitAlerts == Init => AlertInv
  BY DEF Init, AlertInv, Untold, Busy, Idle, SentAgain

LEMMA NextAlerts ==
    ASSUME OneReplica, ChannelsOnce, NotifierType, NotifierType', AlertInv, [Next]_vars
    PROVE  AlertInv'
  <1>n. /\ \A a \in Alerts : sent[a] \in Nat /\ sent'[a] \in Nat
        /\ failures.record \in Nat /\ failures'.record \in Nat
    BY NeverIsLater DEF NotifierType
  <1>1. ASSUME worker' = worker, UNCHANGED <<deliveries, sent>>, failures'.record = failures.record
        PROVE  AlertInv'
    BY <1>1 DEF AlertInv, Untold, SentAgain, Pending, Busy
  <1>2. ASSUME NEW n \in Replicas, ~Busy(n), ~Busy(n)', UNCHANGED <<deliveries, sent>>,
               failures'.record = failures.record
        PROVE  AlertInv'
    <2>1. \A m \in Replicas : m = n
      BY DEF OneReplica
    <2>2. \A a \in Alerts : ~Pending(a)'
      BY <1>2, <2>1 DEF Pending, Busy
    <2>3. \A a \in Alerts : ~Pending(a)
      BY <1>2, <2>1 DEF Pending, Busy
    <2>4. QED
      BY <1>2, <2>1, <2>2, <2>3 DEF AlertInv, Untold, SentAgain
  <1>3. ASSUME NEW n \in Replicas, CheckRule(n) \/ CooldownUnknown(n) PROVE AlertInv'
    <2>0. \A m \in Replicas : m = n
      BY DEF OneReplica
    <2>1. /\ worker[n] \in WorkerState /\ ~Busy(n)
          /\ UNCHANGED <<deliveries, sent>> /\ failures'.record = failures.record
      BY <1>3 DEF CheckRule, CooldownUnknown, MayFail, log, NotifierType, Busy
    <2>2. PICK r \in worker[n].rules :
            \/ NextRule(n, worker[n].rules \ {r})
            \/ /\ worker[n].issue = NoIssue \/ ~Skip(n, r)
               /\ Become(n, [worker[n] EXCEPT !.pc = "send", !.rules = worker[n].rules \ {r},
                                              !.rule = {r}, !.channels = ChannelsOf[r]])
      BY <1>3 DEF CheckRule, CooldownUnknown, TakeOn
    <2>3. r \in Rules /\ worker[n].rules \ {r} \in SUBSET Rules
      BY <2>1 DEF WorkerState
    <2>4. CASE NextRule(n, worker[n].rules \ {r})
      <3>1. worker'[n].pc \in {"idle", "rule"}
        BY <2>3, <2>4, NextRuleIs
      <3>2. QED
        BY <1>2, <2>1, <3>1 DEF Busy
    <2>5. CASE ~NextRule(n, worker[n].rules \ {r})
      <3> DEFINE w == [worker[n] EXCEPT !.pc = "send", !.rules = worker[n].rules \ {r},
                                        !.rule = {r}, !.channels = ChannelsOf[r]]
      <3>1. /\ w.pc = "send" /\ w.rule = {r} /\ w.channels = ChannelsOf[r]
            /\ w.issue = worker[n].issue
        BY <2>1 DEF WorkerState
      <3>2. worker' = [worker EXCEPT ![n] = w]
        BY <2>2, <2>5 DEF Become
      <3> HIDE DEF w
      <3>3. worker'[n] = w
        BY <3>2 DEF NotifierType
      <3>4. \A a \in Alerts : ~Pending(a)' /\ ~Pending(a)
        BY <2>0, <2>1, <3>1, <3>3 DEF Pending, Busy
      <3>5. ASSUME worker[n].issue # NoIssue, NEW k \in DOMAIN ChannelsOf[r]
            PROVE  <<r, ChannelsOf[r][k], worker[n].issue>> \notin deliveries
        <4>1. ChannelsOf[r][k] \in Channels
          BY <2>3, <3>5, NotifierAssumption, ElementOfSeq, LenProperties
        <4>2. QED
          BY <2>2, <2>5, <3>5, <4>1 DEF Skip, HasDelivered
      <3>6. Untold(n)'
        BY <2>1, <3>1, <3>3, <3>5 DEF Untold
      <3>7. QED
        BY <2>0, <2>1, <3>4, <3>6 DEF AlertInv, SentAgain
    <2>6. QED
      BY <2>4, <2>5
  <1>4. ASSUME NEW n \in Replicas, Send(n) PROVE AlertInv'
    <2>0. \A m \in Replicas : m = n
      BY DEF OneReplica
    <2>1. Busy(n) /\ worker[n].pc = "send" /\ worker[n] \in WorkerState
      BY <1>4 DEF Send, Busy, NotifierType
    <2>2. PICK r \in Rules : worker[n].rule = {r}
      BY <2>1, InHand
    <2> DEFINE c == worker[n].channels[1]
               x == worker[n].issue
               b == <<r, c, x>>
    <2>3. /\ 1 \in DOMAIN worker[n].channels /\ Head(worker[n].channels) = c
          /\ c \in Channels /\ x \in Issues \cup {NoIssue}
      BY <2>1, InHand
    <2>4. b \in Alerts /\ (x # NoIssue => b \notin deliveries)
      BY <2>1, <2>2, <2>3 DEF Alerts, AlertInv, Untold
    <2>5. PICK ok \in BOOLEAN :
             /\ sent' = IF ok /\ sent[b] < MaxSent THEN [sent EXCEPT ![b] = sent[b] + 1] ELSE sent
             /\ AfterSend(n, ok)
             /\ UNCHANGED <<deliveries, failures>>
      BY <1>4, <2>2, <2>3 DEF Send
    <2>6. /\ worker'[n].rule = {r} /\ worker'[n].issue = x
          /\ worker'[n].channels = worker[n].channels
          /\ ok => worker'[n].pc = "delivered"
      <3> DEFINE w == [worker[n] EXCEPT !.pc = IF ok THEN "delivered" ELSE "failed"]
      <3>1. /\ w.rule = {r} /\ w.issue = x /\ w.channels = worker[n].channels
            /\ ok => w.pc = "delivered"
        BY <2>1, <2>2 DEF WorkerState
      <3>2. worker' = [worker EXCEPT ![n] = w]
        BY <2>5 DEF AfterSend, Become
      <3> HIDE DEF w
      <3>3. QED
        BY <3>1, <3>2 DEF NotifierType
    <2>7. Untold(n)'
      BY <2>1, <2>2, <2>5, <2>6 DEF AlertInv, Untold
    <2>8. ASSUME NEW a \in Alerts PROVE SentAgain(a)'
      <3>1. SentAgain(a) /\ ~Pending(a)
        BY <2>0, <2>1 DEF AlertInv, Pending
      <3>2. CASE a = b /\ ok
        <4>1. sent'[a] \in {sent[a], sent[a] + 1}
          BY <2>4, <2>5, <3>2 DEF NotifierType
        <4>2. Pending(a)'
          BY <2>3, <2>6, <3>2 DEF Pending
        <4>3. x # NoIssue => sent[a] <= failures.record
          BY <2>4, <3>1, <3>2 DEF SentAgain
        <4>4. QED
          BY <1>n, <2>5, <3>2, <4>1, <4>2, <4>3 DEF SentAgain
      <3>3. CASE ~(a = b /\ ok)
        <4>1. sent'[a] = sent[a]
          BY <2>4, <2>5, <3>3 DEF NotifierType
        <4>2. QED
          BY <1>n, <2>5, <3>1, <4>1 DEF SentAgain
      <3>4. QED
        BY <3>2, <3>3
    <2>9. QED
      BY <2>0, <2>7, <2>8 DEF AlertInv
  <1>5. ASSUME NEW n \in Replicas, Record(n) \/ RecordFails(n) \/ ChannelFails(n) PROVE AlertInv'
    <2>0. \A m \in Replicas : m = n
      BY DEF OneReplica
    <2>1. Busy(n) /\ worker[n] \in WorkerState /\ NextChannel(n)
      BY <1>5 DEF Record, RecordFails, ChannelFails, Busy, NotifierType
    <2>2. PICK r \in Rules : worker[n].rule = {r}
      BY <2>1, InHand
    <2> DEFINE c == worker[n].channels[1]
               x == worker[n].issue
               b == <<r, c, x>>
    <2>3. Head(worker[n].channels) = c
      BY <2>1, InHand
    <2>4. /\ sent' = sent /\ failures'.record >= failures.record
          /\ \/ deliveries' = deliveries /\ worker[n].pc # "delivered"
             \/ deliveries' = deliveries \cup {b}
             \/ deliveries' = deliveries /\ failures'.record = failures.record + 1
      BY <1>5, <1>n, <2>2, <2>3 DEF Record, RecordFails, ChannelFails, MayFail, log, NotifierType
    <2>5. \/ ~Busy(n)'
          \/ /\ worker'[n].pc = "send"
             /\ worker'[n].issue = x /\ worker'[n].rule = {r}
             /\ worker'[n].channels = Tail(worker[n].channels)
      BY <2>1, <2>2, NextChannelIs DEF Busy
    <2>6. Untold(n)'
      <3>1. CASE ~Busy(n)'
        BY <3>1 DEF Untold
      <3>2. CASE Busy(n)'
        <4>1. ASSUME NEW k \in DOMAIN Tail(worker[n].channels), x # NoIssue
              PROVE  <<r, Tail(worker[n].channels)[k], x>> \notin deliveries'
          <5> DEFINE d == worker[n].channels[k + 1]
          <5>1. d # c /\ Tail(worker[n].channels)[k] = d /\ k + 1 \in DOMAIN worker[n].channels
            BY <2>1, <4>1, InHand
          <5>2. <<r, d, x>> \notin deliveries
            BY <2>1, <2>2, <4>1, <5>1 DEF AlertInv, Untold
          <5> HIDE DEF d
          <5>3. QED
            BY <2>4, <5>1, <5>2
        <4>2. QED
          BY <2>5, <3>2, <4>1 DEF Untold
      <3>3. QED
        BY <3>1, <3>2
    <2>7. ASSUME NEW a \in Alerts PROVE SentAgain(a)'
      <3>1. SentAgain(a)
        BY DEF AlertInv
      <3>2. Pending(a) => worker[n].pc = "delivered" /\ a = b
        BY <2>0, <2>2, <2>3 DEF Pending, Alerts
      <3>3. QED
        BY <1>n, <2>4, <3>1, <3>2 DEF SentAgain
    <2>8. QED
      BY <2>0, <2>6, <2>7 DEF AlertInv
  <1>6. QED
    BY <1>1, <1>2, <1>3, <1>4, <1>5, Steps DEF OnlyLookups

(* However often an issue is announced, a rule's channel gets its alert    *)
(* once, and once more for each delivery that could not be recorded.       *)
THEOREM IssuesAreAlertedOnce ==
    ASSUME OneReplica, ChannelsOnce
    PROVE  Spec => []AlertedOnce
  <1> DEFINE Inv == NotifierType /\ AlertInv
  <1>1. Init => Inv
    BY InitType, InitAlerts
  <1>2. Inv /\ [Next]_vars => Inv'
    BY NextType, NextAlerts
  <1>3. Inv => AlertedOnce
    BY NeverIsLater DEF AlertInv, SentAgain, AlertedOnce, NotifierType
  <1>4. QED
    BY <1>1, <1>2, <1>3, PTL DEF Spec

-----------------------------------------------------------------------------
(* Cooldowns.  The check looks at the rule's last recorded delivery, on    *)
(* whichever channel; what is kept is a channel's last delivery, recorded  *)
(* or not.                                                                 *)

(* The last delivery to a channel is recorded, or about to be.             *)
Noted(r, c) ==
  lastSpike[<<r, c>>] # Never =>
    \/ Pending(<<r, c, NoIssue>>)
    \/ lastSent[r] # Never /\ lastSpike[<<r, c>>] <= lastSent[r]

(* If the goroutine is about to try the channel, that is not too early.    *)
Ready(n, r, c) ==
  Busy(n) /\ worker[n].issue = NoIssue /\ r \in worker[n].rule =>
    \A k \in DOMAIN worker[n].channels :
      worker[n].channels[k] = c /\ ~(k = 1 /\ worker[n].pc # "send") => Rested(r, c)

(* Each early alert has had its miss; where the next one would be early    *)
(* too, a miss is left to pay for it.                                      *)
Paid(r, c) ==
  /\ early[<<r, c>>] <= Misses
  /\ lastSpike[<<r, c>>] = Never \/ lastSpike[<<r, c>>] <= now
  /\ early[<<r, c>>] = Misses => Noted(r, c) /\ \A n \in Replicas : Ready(n, r, c)

SpikeInv == \A r \in Rules, c \in Channels : Paid(r, c)

LEMMA InitSpikes == Init => SpikeInv
  <1> SUFFICES ASSUME Init, NEW r \in Rules, NEW c \in Channels PROVE Paid(r, c)
    BY DEF SpikeInv
  <1>1. /\ early[<<r, c>>] = 0 /\ lastSpike[<<r, c>>] = Never
        /\ failures.record = 0 /\ failures.cooldown = 0
        /\ \A n \in Replicas : ~Busy(n)
    BY DEF Init, Busy, Idle
  <1>2. QED
    BY <1>1 DEF Paid, Noted, Ready, Misses

(* What the arithmetic rests on.                                           *)
Counts(r, c) ==
  /\ lastSent[r] \in Nat /\ lastSpike[<<r, c>>] \in Nat /\ early[<<r, c>>] \in Nat
  /\ now \in Nat /\ now # Never
  /\ failures.record \in Nat /\ failures.cooldown \in Nat

LEMMA Numbers ==
    ASSUME NotifierType, NEW r \in Rules, NEW c \in Channels
    PROVE  Counts(r, c) /\ Never \in Nat /\ Cooldown \in Nat
  BY NeverIsLater, NotifierAssumption DEF NotifierType, Times, Counts

(* A step that sends nothing and leaves the goroutine where it is, or      *)
(* without a rule in hand.                                                 *)
LEMMA QuietStep ==
    ASSUME NEW r \in Rules, NEW c \in Channels, Paid(r, c), Counts(r, c), Counts(r, c)',
           Never \in Nat, Cooldown \in Nat,
           now' \in {now, now + 1}, UNCHANGED <<lastSent, lastSpike, early>>, Misses' >= Misses,
           Misses' = Misses => (Pending(<<r, c, NoIssue>>) => Pending(<<r, c, NoIssue>>)'),
           Misses' = Misses /\ Noted(r, c) =>
             \A n \in Replicas : Ready(n, r, c) => Ready(n, r, c)' \/ Rested(r, c)
    PROVE  Paid(r, c)'
  <1>0. Misses \in Nat /\ Misses' \in Nat
    BY DEF Misses, Counts
  <1>1. Rested(r, c) => Rested(r, c)'
    BY DEF Rested, Counts
  <1>2. early'[<<r, c>>] <= Misses' /\ (lastSpike'[<<r, c>>] = Never \/ lastSpike'[<<r, c>>] <= now')
    BY <1>0 DEF Paid, Counts
  <1>3. ASSUME early'[<<r, c>>] = Misses' PROVE Noted(r, c)' /\ \A n \in Replicas : Ready(n, r, c)'
    <2>1. Misses' = Misses /\ early[<<r, c>>] = Misses
      BY <1>0, <1>3 DEF Paid, Counts
    <2>2. Noted(r, c) /\ \A n \in Replicas : Ready(n, r, c)
      BY <2>1 DEF Paid
    <2>3. Noted(r, c)'
      BY <2>1, <2>2 DEF Noted
    <2>4. ASSUME NEW n \in Replicas PROVE Ready(n, r, c)'
      <3>1. CASE Ready(n, r, c)'
        BY <3>1
      <3>2. CASE Rested(r, c)
        BY <1>1, <3>2 DEF Ready
      <3>3. QED
        BY <2>1, <2>2, <3>1, <3>2
    <2>5. QED
      BY <2>3, <2>4
  <1>4. QED
    BY <1>2, <1>3 DEF Paid

LEMMA NextSpikes ==
    ASSUME OneReplica, ChannelsOnce, NotifierType, NotifierType', SpikeInv, [Next]_vars
    PROVE  SpikeInv'
  <1> SUFFICES ASSUME NEW p \in Rules, NEW d \in Channels PROVE Paid(p, d)'
    BY DEF SpikeInv
  <1>n. Counts(p, d) /\ Counts(p, d)' /\ Never \in Nat /\ Cooldown \in Nat
    <2>1. Counts(p, d) /\ Never \in Nat /\ Cooldown \in Nat
      BY Numbers
    <2>2. Counts(p, d)'
      BY NeverIsLater DEF NotifierType, Times, Counts
    <2>3. QED
      BY <2>1, <2>2
  <1>p. Paid(p, d)
    BY DEF SpikeInv
  <1>m. Misses \in Nat /\ Misses' \in Nat
    BY <1>n DEF Misses, Counts
  <1>1. ASSUME worker' = worker, UNCHANGED <<lastSent, lastSpike, early>>, now' \in {now, now + 1},
               OnlyLookups
        PROVE  Paid(p, d)'
    <2>1. Pending(<<p, d, NoIssue>>) => Pending(<<p, d, NoIssue>>)'
      BY <1>1 DEF Pending
    <2>2. \A n \in Replicas : Ready(n, p, d) => Ready(n, p, d)' \/ Rested(p, d)
      BY <1>1 DEF Ready, Busy
    <2>3. Misses' = Misses
      BY <1>1 DEF OnlyLookups, Misses
    <2>4. QED
      BY <1>1, <1>n, <1>m, <1>p, <2>1, <2>2, <2>3, QuietStep
  <1>2. ASSUME NEW n \in Replicas, ~Busy(n), ~Busy(n)', UNCHANGED <<lastSent, lastSpike, early, now>>,
               Misses' >= Misses
        PROVE  Paid(p, d)'
    <2>1. \A m \in Replicas : m = n
      BY DEF OneReplica
    <2>2. ~Pending(<<p, d, NoIssue>>)
      BY <1>2, <2>1 DEF Pending, Busy
    <2>3. \A m \in Replicas : Ready(m, p, d)'
      BY <1>2, <2>1 DEF Ready
    <2>4. QED
      BY <1>2, <1>n, <1>p, <2>2, <2>3, QuietStep
  <1>3. ASSUME NEW n \in Replicas, CheckRule(n) \/ CooldownUnknown(n) PROVE Paid(p, d)'
    <2>0. \A m \in Replicas : m = n
      BY DEF OneReplica
    <2>1. worker[n] \in WorkerState /\ ~Busy(n) /\ UNCHANGED <<lastSent, lastSpike, early, now>>
      BY <1>3 DEF CheckRule, CooldownUnknown, log, NotifierType, Busy
    <2>2. Misses' = Misses + 1 \/ (CheckRule(n) /\ Misses' = Misses)
      <3>1. CASE CheckRule(n)
        BY <3>1 DEF CheckRule, Misses
      <3>2. CASE CooldownUnknown(n)
        <4>1. failures' = [failures EXCEPT !["cooldown"] = failures["cooldown"] + 1]
          BY <3>2 DEF CooldownUnknown, MayFail
        <4>2. failures \in [lookup : Nat, cooldown : Nat, record : Nat]
          BY DEF NotifierType
        <4>3. QED
          BY <4>1, <4>2 DEF Misses
      <3>3. QED
        BY <1>3, <3>1, <3>2
    <2>3. PICK r \in worker[n].rules :
            \/ NextRule(n, worker[n].rules \ {r})
            \/ TakeOn(n, r) /\ (CheckRule(n) /\ Misses' = Misses => ~Skip(n, r))
      <3>1. CASE Misses' = Misses + 1
        BY <1>3, <1>m, <3>1 DEF CheckRule, CooldownUnknown
      <3>2. CASE CheckRule(n)
        BY <3>2 DEF CheckRule
      <3>3. QED
        BY <2>2, <3>1, <3>2
    <2>4. r \in Rules /\ worker[n].rules \ {r} \in SUBSET Rules
      BY <2>1 DEF WorkerState
    <2>5. CASE NextRule(n, worker[n].rules \ {r})
      <3>1. worker'[n].pc \in {"idle", "rule"}
        BY <2>4, <2>5, NextRuleIs
      <3>2. Misses' >= Misses
        BY <1>m, <2>2
      <3>3. QED
        BY <1>2, <2>1, <3>1, <3>2 DEF Busy
    <2>6. CASE TakeOn(n, r) /\ (CheckRule(n) /\ Misses' = Misses => ~Skip(n, r))
      <3> DEFINE w == [worker[n] EXCEPT !.pc = "send", !.rules = worker[n].rules \ {r},
                                        !.rule = {r}, !.channels = ChannelsOf[r]]
      <3>1. w.pc = "send" /\ w.rule = {r} /\ w.channels = ChannelsOf[r] /\ w.issue = worker[n].issue
        BY <2>1 DEF WorkerState
      <3>2. worker' = [worker EXCEPT ![n] = w]
        BY <2>6 DEF TakeOn, Become
      <3> HIDE DEF w
      <3>3. worker'[n] = w
        BY <3>2 DEF NotifierType
      <3>4. ~Pending(<<p, d, NoIssue>>)
        BY <2>0, <2>1 DEF Pending, Busy
      <3>5. ASSUME Misses' = Misses, Noted(p, d), ~Ready(n, p, d)' PROVE Rested(p, d)
        <4>1. p = r /\ worker[n].issue = NoIssue
          BY <3>1, <3>3, <3>5 DEF Ready
        <4>2. ~CoolingDown(p)
          BY <1>m, <2>2, <2>6, <3>5, <4>1 DEF Skip
        <4>3. QED
          BY <1>n, <3>4, <3>5, <4>2 DEF Noted, CoolingDown, Rested, Counts
      <3>6. Misses' >= Misses
        BY <1>m, <2>2
      <3>7. \A m \in Replicas :
              Misses' = Misses /\ Noted(p, d) => Ready(m, p, d)' \/ Rested(p, d)
        BY <2>0, <3>5
      <3>8. QED
        BY <1>n, <1>p, <2>1, <3>4, <3>6, <3>7, QuietStep
    <2>7. QED
      BY <2>3, <2>5, <2>6
  <1>4. ASSUME NEW n \in Replicas, Send(n) PROVE Paid(p, d)'
    <2>0. \A m \in Replicas : m = n
      BY DEF OneReplica
    <2>1. Busy(n) /\ worker[n].pc = "send" /\ worker[n] \in WorkerState
      BY <1>4 DEF Send, Busy, NotifierType
    <2>2. PICK r \in Rules : worker[n].rule = {r}
      BY <2>1, InHand
    <2> DEFINE c == worker[n].channels[1]
               x == worker[n].issue
    <2>3. /\ 1 \in DOMAIN worker[n].channels /\ Head(worker[n].channels) = c /\ c \in Channels
      BY <2>1, InHand
    <2>4. PICK ok \in BOOLEAN :
             /\ IF ok /\ x = NoIssue
                THEN /\ lastSpike' = [lastSpike EXCEPT ![<<r, c>>] = now]
                     /\ early' = IF Rested(r, c) THEN early
                                ELSE [early EXCEPT ![<<r, c>>] = early[<<r, c>>] + 1]
                ELSE UNCHANGED <<lastSpike, early>>
             /\ AfterSend(n, ok)
             /\ UNCHANGED <<lastSent, failures, now>>
      BY <1>4, <2>2, <2>3 DEF Send
    <2>5. /\ worker'[n].rule = {r} /\ worker'[n].issue = x
          /\ worker'[n].channels = worker[n].channels
          /\ worker'[n].pc = IF ok THEN "delivered" ELSE "failed"
      <3> DEFINE w == [worker[n] EXCEPT !.pc = IF ok THEN "delivered" ELSE "failed"]
      <3>1. /\ w.rule = {r} /\ w.issue = x /\ w.channels = worker[n].channels
            /\ w.pc = IF ok THEN "delivered" ELSE "failed"
        BY <2>1, <2>2 DEF WorkerState
      <3>2. worker' = [worker EXCEPT ![n] = w]
        BY <2>4 DEF AfterSend, Become
      <3> HIDE DEF w
      <3>3. QED
        BY <3>1, <3>2 DEF NotifierType
    <2>6. Misses' = Misses
      BY <2>4 DEF Misses
    <2>7. CASE p = r /\ d = c /\ ok /\ x = NoIssue
      <3>1. lastSpike'[<<p, d>>] = now /\ now' = now
        BY <2>2, <2>3, <2>4, <2>7 DEF NotifierType
      <3>2. early'[<<p, d>>] = IF Rested(p, d) THEN early[<<p, d>>] ELSE early[<<p, d>>] + 1
        BY <2>2, <2>3, <2>4, <2>7 DEF NotifierType
      <3>3. ~Rested(p, d) => ~Ready(n, p, d)
        BY <2>1, <2>2, <2>3, <2>7 DEF Ready
      <3>4. early'[<<p, d>>] <= Misses'
        BY <1>m, <1>n, <1>p, <2>6, <3>2, <3>3 DEF Paid, Counts
      <3>5. Pending(<<p, d, NoIssue>>)'
        BY <2>3, <2>5, <2>7 DEF Pending
      <3>6. Ready(n, p, d)'
        <4> SUFFICES ASSUME NEW k \in DOMAIN worker[n].channels, worker[n].channels[k] = d, k # 1
                     PROVE  FALSE
          BY <2>5, <2>7 DEF Ready
        <4>1. QED
          BY <2>1, <2>3, <2>7, InHand
      <3>7. QED
        BY <1>n, <2>0, <3>1, <3>4, <3>5, <3>6 DEF Paid, Noted, Counts
    <2>8. CASE ~(p = r /\ d = c /\ ok /\ x = NoIssue)
      <3>1. lastSpike'[<<p, d>>] = lastSpike[<<p, d>>] /\ early'[<<p, d>>] = early[<<p, d>>]
        BY <2>2, <2>3, <2>4, <2>8 DEF NotifierType
      <3>2. Noted(p, d) => Noted(p, d)'
        BY <2>0, <2>1, <2>4, <3>1 DEF Noted, Pending
      <3>3. Ready(n, p, d) => Ready(n, p, d)'
        <4> SUFFICES ASSUME Ready(n, p, d), x = NoIssue, p = r,
                            NEW k \in DOMAIN worker[n].channels, worker[n].channels[k] = d
                     PROVE  Rested(p, d)'
          BY <2>5 DEF Ready
        <4>1. Rested(p, d)
          BY <2>1, <2>2 DEF Ready
        <4>2. QED
          BY <2>4, <3>1, <4>1 DEF Rested
      <3>4. QED
        BY <1>n, <1>p, <2>0, <2>4, <2>6, <3>1, <3>2, <3>3 DEF Paid
    <2>9. QED
      BY <2>7, <2>8
  <1>5. ASSUME NEW n \in Replicas, Record(n) \/ RecordFails(n) \/ ChannelFails(n) PROVE Paid(p, d)'
    <2>0. \A m \in Replicas : m = n
      BY DEF OneReplica
    <2>1. Busy(n) /\ worker[n] \in WorkerState /\ NextChannel(n)
      BY <1>5 DEF Record, RecordFails, ChannelFails, Busy, NotifierType
    <2>2. PICK r \in Rules : worker[n].rule = {r}
      BY <2>1, InHand
    <2>3. lastSpike' = lastSpike /\ early' = early /\ now' = now
      BY <1>5 DEF Record, RecordFails, ChannelFails, log
    <2>4. \/ Misses' = Misses + 1
          \/ /\ Misses' = Misses
             /\ \/ lastSent' = lastSent /\ worker[n].pc # "delivered"
                \/ lastSent' = [lastSent EXCEPT ![r] = now]
      <3>0. failures \in [lookup : Nat, cooldown : Nat, record : Nat]
        BY DEF NotifierType
      <3>1. CASE Record(n)
        BY <2>2, <3>1 DEF Record, Misses
      <3>2. CASE RecordFails(n)
        <4>1. failures' = [failures EXCEPT !["record"] = failures["record"] + 1]
          BY <3>2 DEF RecordFails, MayFail
        <4>2. QED
          BY <3>0, <4>1 DEF Misses
      <3>3. CASE ChannelFails(n)
        <4>1. failures' = [failures EXCEPT !["lookup"] = failures["lookup"] + 1]
              /\ lastSent' = lastSent /\ worker[n].pc = "send"
          BY <3>3 DEF ChannelFails, MayFail, log
        <4>2. QED
          BY <3>0, <4>1 DEF Misses
      <3>4. QED
        BY <1>5, <3>1, <3>2, <3>3
    <2>5. \/ ~Busy(n)'
          \/ /\ worker'[n].pc = "send"
             /\ worker'[n].issue = worker[n].issue /\ worker'[n].rule = {r}
             /\ worker'[n].channels = Tail(worker[n].channels)
      BY <2>1, <2>2, NextChannelIs DEF Busy
    <2>6. ASSUME Ready(n, p, d) PROVE Ready(n, p, d)'
      <3> SUFFICES ASSUME Busy(n)', worker[n].issue = NoIssue, p = r,
                          NEW k \in DOMAIN Tail(worker[n].channels), Tail(worker[n].channels)[k] = d
                   PROVE  Rested(p, d)'
        BY <2>5 DEF Ready
      <3>1. worker[n].channels[k + 1] = d /\ k + 1 \in DOMAIN worker[n].channels /\ k + 1 # 1
        BY <2>1, InHand
      <3>2. Rested(p, d)
        BY <2>1, <2>2, <2>6, <3>1 DEF Ready
      <3>3. QED
        BY <2>3, <3>2 DEF Rested
    <2>7. ASSUME Misses' = Misses, Noted(p, d), lastSpike[<<p, d>>] = Never \/ lastSpike[<<p, d>>] <= now
          PROVE  Noted(p, d)'
      <3>1. \/ lastSent' = lastSent /\ worker[n].pc # "delivered"
            \/ lastSent' = [lastSent EXCEPT ![r] = now]
        BY <1>m, <2>4, <2>7
      <3>2. CASE Pending(<<p, d, NoIssue>>)
        <4>1. p = r /\ worker[n].pc = "delivered"
          BY <2>0, <2>2, <3>2 DEF Pending
        <4>2. lastSent'[p] = now
          BY <3>1, <4>1 DEF NotifierType
        <4>3. QED
          BY <1>n, <2>3, <2>7, <4>2 DEF Noted, Counts
      <3>3. CASE ~Pending(<<p, d, NoIssue>>)
        <4>1. lastSent'[p] = lastSent[p] \/ lastSent'[p] = now
          BY <3>1 DEF NotifierType
        <4>2. QED
          BY <1>n, <2>3, <2>7, <3>3, <4>1 DEF Noted, Counts
      <3>4. QED
        BY <3>2, <3>3
    <2>8. QED
      BY <1>n, <1>m, <1>p, <2>0, <2>3, <2>4, <2>6, <2>7 DEF Paid, Counts
  <1>6. ASSUME OnlyLookups PROVE Misses' >= Misses
    BY <1>6, <1>m DEF OnlyLookups, Misses
  <1>7. QED
    BY <1>1, <1>2, <1>3, <1>4, <1>5, <1>6, Steps

(* A channel hears of a rate rule once per cooldown; each time it does     *)
(* sooner, a delivery was not recorded or the last one could not be read.  *)
THEOREM CooldownIsKept ==
    ASSUME OneReplica, ChannelsOnce
    PROVE  Spec => []CooldownKept
  <1> DEFINE Inv == NotifierType /\ SpikeInv
  <1>1. Init => Inv
    BY InitType, InitSpikes
  <1>2. Inv /\ [Next]_vars => Inv'
    BY NextType, NextSpikes
  <1>3. Inv => CooldownKept
    BY DEF SpikeInv, Paid, CooldownKept
  <1>4. QED
    BY <1>1, <1>2, <1>3, PTL DEF Spec

=============================================================================
