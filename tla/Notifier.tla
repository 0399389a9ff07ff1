----------------------------- MODULE Notifier -----------------------------
(* The alert notifier of each replica (alert/notifier.go): a bounded queue of *)
(* issue events, and one goroutine that takes an event, or the minute's tick  *)
(* for the rate rules, or the stop signal.  The replicas share the table      *)
(* alert_deliveries (store/alert.go), which is what tells them that an alert  *)
(* has been sent already.                                                     *)
EXTENDS Naturals, Sequences

CONSTANTS
  Replicas, Issues, Channels,
  Events,               \* announcements of ingest: [id, kind, issue]
  Rules, KindOf,        \* "new_issue", "regression" or "rate_spike"
  ChannelsOf,
  Silent,               \* mail servers that accept a connection and say nothing
  Capacity,             \* of the queue (2048)
  Cooldown,             \* minutes a rate rule keeps quiet
  MaxTime,              \* bound: minutes
  MaxLookupFailures,    \* bound: failing queries before a send
  MaxCooldownFailures,  \* bound: last deliveries that cannot be read
  MaxRecordFailures     \* bound: failing inserts after a send

ASSUME NotifierAssumption ==
  /\ Events \subseteq [id : Nat, kind : {"new_issue", "regression"}, issue : Issues]
  /\ KindOf \in [Rules -> {"new_issue", "regression", "rate_spike"}]
  /\ ChannelsOf \in [Rules -> Seq(Channels)]
  /\ Silent \subseteq Channels
  /\ {Capacity, Cooldown} \subseteq Nat \ {0}
  /\ {MaxTime, MaxLookupFailures, MaxCooldownFailures, MaxRecordFailures} \subseteq Nat

NoIssue == "none"
Never == MaxTime + Cooldown    \* no delivery yet
MaxSent == MaxRecordFailures + 2

VARIABLES
  todo,         \* events ingest has not announced yet
  queue,        \* per replica
  dropped,      \* events the queue had no room for
  worker,       \* per replica: where it is, its issue, rules and channels left
                \* (the first of them is the one being sent to)
  stopping,     \* replicas told to stop
  deliveries,   \* rows of status success: rule, channel, issue
  tried,        \* rule, channel, issue of every send, delivered or not
  sent,         \* how often each was delivered, up to MaxSent
  lastSent,     \* per rule: sent_at of its last row of status success
  lastSpike,    \* per rate rule and channel: when it was last delivered
  early,        \* history: and how often within the cooldown of the time before
  spiking,      \* whether the errors in the window exceed the threshold
  now, failures

log == <<deliveries, tried, sent, lastSent, lastSpike, early>>
vars == <<todo, queue, dropped, worker, stopping, log, spiking, now, failures>>

RateRules == {r \in Rules : KindOf[r] = "rate_spike"}
Alerts == Rules \X Channels \X (Issues \cup {NoIssue})

Idle == [pc |-> "idle", issue |-> NoIssue, rules |-> {}, rule |-> {}, channels |-> <<>>]

Init ==
  /\ todo = Events
  /\ queue = [n \in Replicas |-> <<>>]
  /\ dropped = {}
  /\ worker = [n \in Replicas |-> Idle]
  /\ stopping = {}
  /\ deliveries = {}
  /\ tried = {}
  /\ sent = [a \in Alerts |-> 0]
  /\ lastSent = [r \in Rules |-> Never]
  /\ lastSpike = [rc \in Rules \X Channels |-> Never]
  /\ early = [rc \in Rules \X Channels |-> 0]
  /\ spiking = FALSE
  /\ now = 0
  /\ failures = [lookup |-> 0, cooldown |-> 0, record |-> 0]

MayFail(what, bound) ==
  /\ failures[what] < bound
  /\ failures' = [failures EXCEPT ![what] = @ + 1]

Become(n, w) == worker' = [worker EXCEPT ![n] = w]

\* The loop over the rules goes on, or ends and the goroutine selects again.
NextRule(n, rules) ==
  Become(n, IF rules = {} THEN Idle
            ELSE [worker[n] EXCEPT !.pc = "rule", !.rules = rules, !.rule = {}, !.channels = <<>>])

\* The first channel left is dealt with; the next one, or the next rule.
NextChannel(n) ==
  IF Len(worker[n].channels) = 1 THEN NextRule(n, worker[n].rules)
  ELSE Become(n, [worker[n] EXCEPT !.pc = "send", !.channels = Tail(@)])

-----------------------------------------------------------------------------
\* Mutant of Enqueue: the queue has no bound.
EnqueueAlways(n, e) ==
  /\ e \in todo
  /\ todo' = todo \ {e}
  /\ queue' = [queue EXCEPT ![n] = Append(@, e)]
  /\ UNCHANGED <<dropped, worker, stopping, log, spiking, now, failures>>

\* Called by ingest on the replica that stored the envelope; it never waits.
Enqueue(n, e) ==
  /\ e \in todo
  /\ todo' = todo \ {e}
  /\ IF Len(queue[n]) < Capacity
     THEN queue' = [queue EXCEPT ![n] = Append(@, e)] /\ UNCHANGED dropped
     ELSE dropped' = dropped \cup {e} /\ UNCHANGED queue
  /\ UNCHANGED <<worker, stopping, log, spiking, now, failures>>

\* select takes any ready case, so an event may be taken after Stop.
TakeEvent(n) ==
  /\ worker[n].pc = "idle"
  /\ queue[n] # <<>>
  /\ queue' = [queue EXCEPT ![n] = Tail(@)]
  /\ LET e == Head(queue[n])
         rules == {r \in Rules : KindOf[r] = e.kind}
     IN  Become(n, IF rules = {} THEN Idle
                   ELSE [Idle EXCEPT !.pc = "rule", !.issue = e.issue, !.rules = rules])
  /\ UNCHANGED <<todo, dropped, stopping, log, spiking, now, failures>>

\* The rules cannot be listed: the event is gone.
LoseEvent(n) ==
  /\ worker[n].pc = "idle"
  /\ queue[n] # <<>>
  /\ MayFail("lookup", MaxLookupFailures)
  /\ queue' = [queue EXCEPT ![n] = Tail(@)]
  /\ UNCHANGED <<todo, dropped, worker, stopping, log, spiking, now>>

Tick(n) ==
  /\ worker[n].pc = "idle"
  /\ RateRules # {}
  /\ Become(n, [Idle EXCEPT !.pc = "rule", !.rules = RateRules])
  /\ UNCHANGED <<todo, queue, dropped, stopping, log, spiking, now, failures>>

\* Mutant of HasDelivered: every channel of the rule must have got it.
DeliveredToAll(r, i) ==
  \A k \in DOMAIN ChannelsOf[r] : <<r, ChannelsOf[r][k], i>> \in deliveries

\* A row of status success for the rule and the issue, whichever the channel.
HasDelivered(r, i) == \E c \in Channels : <<r, c, i>> \in deliveries

\* Mutant of CoolingDown: minutes compared the wrong way round.
WarmingUp(r) == lastSent[r] # Never /\ now - lastSent[r] >= Cooldown

CoolingDown(r) == lastSent[r] # Never /\ now - lastSent[r] < Cooldown

Skip(n, r) ==
  IF worker[n].issue = NoIssue THEN CoolingDown(r) \/ ~spiking
                               ELSE HasDelivered(r, worker[n].issue)

\* The rule's channels are next, in its order.
TakeOn(n, r) ==
  Become(n, [worker[n] EXCEPT !.pc = "send", !.rules = @ \ {r}, !.rule = {r},
                              !.channels = ChannelsOf[r]])

\* One rule: passed over, or its channels are taken on.
CheckRule(n) ==
  /\ worker[n].pc = "rule"
  /\ \E r \in worker[n].rules :
       IF Skip(n, r) \/ ChannelsOf[r] = <<>>
       THEN NextRule(n, worker[n].rules \ {r})
       ELSE TakeOn(n, r)
  /\ UNCHANGED <<todo, queue, dropped, stopping, log, spiking, now, failures>>

\* Whether the issue has been delivered, or what the metrics are, cannot be
\* read: the rule is passed over.
CheckFails(n) ==
  /\ worker[n].pc = "rule"
  /\ MayFail("lookup", MaxLookupFailures)
  /\ \E r \in worker[n].rules : NextRule(n, worker[n].rules \ {r})
  /\ UNCHANGED <<todo, queue, dropped, stopping, log, spiking, now>>

\* A rate rule's last delivery cannot be read: it counts as none.
CooldownUnknown(n) ==
  /\ worker[n].pc = "rule"
  /\ worker[n].issue = NoIssue
  /\ MayFail("cooldown", MaxCooldownFailures)
  /\ \E r \in worker[n].rules :
       IF ~spiking \/ ChannelsOf[r] = <<>>
       THEN NextRule(n, worker[n].rules \ {r})
       ELSE TakeOn(n, r)
  /\ UNCHANGED <<todo, queue, dropped, stopping, log, spiking, now>>

\* The channel cannot be read, or is gone: on to the next, nothing recorded.
ChannelFails(n) ==
  /\ worker[n].pc = "send"
  /\ MayFail("lookup", MaxLookupFailures)
  /\ NextChannel(n)
  /\ UNCHANGED <<todo, queue, dropped, stopping, log, spiking, now>>

\* Mutant of AfterSend: a failed send ends the rule.
AfterSendOrStop(n, ok) ==
  Become(n, IF ok THEN [worker[n] EXCEPT !.pc = "delivered"]
            ELSE [worker[n] EXCEPT !.pc = "failed", !.channels = SubSeq(@, 1, 1)])

AfterSend(n, ok) ==
  Become(n, [worker[n] EXCEPT !.pc = IF ok THEN "delivered" ELSE "failed"])

\* The channel has not heard of the rate rule for a cooldown.
Rested(r, c) == lastSpike[<<r, c>>] = Never \/ now - lastSpike[<<r, c>>] >= Cooldown

\* External: the channel answers, well or badly, or the client times out.
Send(n) ==
  /\ worker[n].pc = "send"
  /\ \E r \in worker[n].rule, ok \in BOOLEAN :
       LET c == Head(worker[n].channels)
           a == <<r, c, worker[n].issue>>
       IN  /\ c \notin Silent
           /\ tried' = tried \cup {a}
           /\ sent' = IF ok /\ sent[a] < MaxSent THEN [sent EXCEPT ![a] = @ + 1] ELSE sent
           /\ IF ok /\ a[3] = NoIssue
              THEN /\ lastSpike' = [lastSpike EXCEPT ![<<r, c>>] = now]
                   /\ early' = IF Rested(r, c) THEN early ELSE [early EXCEPT ![<<r, c>>] = @ + 1]
              ELSE UNCHANGED <<lastSpike, early>>
           /\ AfterSend(n, ok)
  /\ UNCHANGED <<todo, queue, dropped, stopping, deliveries, lastSent, spiking, now, failures>>

\* A row is inserted either way; only those of status success are ever read.
Record(n) ==
  /\ worker[n].pc \in {"delivered", "failed"}
  /\ IF worker[n].pc = "failed" THEN UNCHANGED <<deliveries, lastSent>>
     ELSE \E r \in worker[n].rule :
            /\ deliveries' = deliveries \cup {<<r, Head(worker[n].channels), worker[n].issue>>}
            /\ lastSent' = [lastSent EXCEPT ![r] = now]
  /\ NextChannel(n)
  /\ UNCHANGED <<todo, queue, dropped, stopping, tried, sent, lastSpike, early, spiking, now, failures>>

\* Logged, or not even that.
RecordFails(n) ==
  /\ worker[n].pc = "delivered"
  /\ MayFail("record", MaxRecordFailures)
  /\ NextChannel(n)
  /\ UNCHANGED <<todo, queue, dropped, stopping, log, spiking, now>>

Stop(n) ==
  /\ n \notin stopping
  /\ stopping' = stopping \cup {n}
  /\ UNCHANGED <<todo, queue, dropped, worker, log, spiking, now, failures>>

\* Mutant of Return: the goroutine waits for an event and then looks at stop.
ReturnAfterEvent(n) ==
  /\ n \in stopping
  /\ worker[n].pc = "idle"
  /\ queue[n] # <<>>
  /\ Become(n, [Idle EXCEPT !.pc = "stopped"])
  /\ UNCHANGED <<todo, queue, dropped, stopping, log, spiking, now, failures>>

\* run returns; what is queued is lost with the process.
Return(n) ==
  /\ n \in stopping
  /\ worker[n].pc = "idle"
  /\ Become(n, [Idle EXCEPT !.pc = "stopped"])
  /\ UNCHANGED <<todo, queue, dropped, stopping, log, spiking, now, failures>>

\* External: a minute passes, errors come and go.
Minute ==
  /\ now < MaxTime
  /\ now' = now + 1
  /\ spiking' \in BOOLEAN
  /\ UNCHANGED <<todo, queue, dropped, worker, stopping, log, failures>>

-----------------------------------------------------------------------------
Work(n) == TakeEvent(n) \/ CheckRule(n) \/ Send(n) \/ Record(n)

Next ==
  \/ \E n \in Replicas, e \in Events : Enqueue(n, e)
  \/ \E n \in Replicas :
       \/ Work(n) \/ LoseEvent(n) \/ Tick(n) \/ CheckFails(n) \/ CooldownUnknown(n)
       \/ ChannelFails(n) \/ RecordFails(n)
       \/ Stop(n) \/ Return(n)
  \/ Minute

Spec == Init /\ [][Next]_vars

\* The goroutine runs.  Go's select chooses among the ready cases at random, so
\* one that is ready again and again is taken: an event, or the stop signal.
Fairness ==
  \A n \in Replicas :
    /\ WF_vars(CheckRule(n)) /\ WF_vars(Send(n)) /\ WF_vars(Record(n))
    /\ SF_vars(TakeEvent(n))
    /\ SF_vars(Return(n))

FairSpec == Spec /\ Fairness

-----------------------------------------------------------------------------
\* The state is well formed; the queue keeps within its capacity.
NotifierTypeOK ==
  /\ todo \subseteq Events /\ dropped \subseteq Events
  /\ \A n \in Replicas : /\ Len(queue[n]) <= Capacity
                         /\ \A k \in DOMAIN queue[n] : queue[n][k] \in Events
  /\ worker \in [Replicas ->
       [pc : {"idle", "rule", "send", "delivered", "failed", "stopped"},
        issue : Issues \cup {NoIssue}, rules : SUBSET Rules, rule : SUBSET Rules,
        channels : Seq(Channels)]]
  /\ stopping \subseteq Replicas
  /\ deliveries \subseteq Alerts /\ tried \subseteq Alerts
  /\ sent \in [Alerts -> 0..MaxSent]
  /\ lastSent \in [Rules -> 0..MaxTime \cup {Never}]
  /\ spiking \in BOOLEAN /\ now \in 0..MaxTime

\* However often an issue is announced, a channel gets a rule's alert for it
\* once; a delivery that could not be recorded allows it once more.
AlertedOnce == \A a \in Alerts : a[3] # NoIssue => sent[a] <= 1 + failures.record

Misses == failures.record + failures.cooldown

\* During a sustained outage a channel hears of a rate rule once per cooldown.
\* Every repeat before that costs a delivery that could not be recorded, or one
\* that could not be looked up, when the notifier sends rather than keeps quiet.
CooldownKept == \A rc \in Rules \X Channels : early[rc] <= Misses

\* Unless its replica stops or a query fails, an event that was queued is dealt
\* with: every rule of its kind has already been delivered for the issue, or is
\* tried on every channel, whichever fail.
QueuedIsHandled ==
  \A n \in Replicas : \A e \in Events :
    (\E k \in DOMAIN queue[n] : queue[n][k] = e) ~>
      \/ n \in stopping \/ failures.lookup > 0
      \/ \A r \in Rules : KindOf[r] = e.kind =>
           \/ HasDelivered(r, e.issue)
           \/ \A k \in DOMAIN ChannelsOf[r] : <<r, ChannelsOf[r][k], e.issue>> \in tried

\* Stop, which waits for the goroutine, returns.
StopReturns == \A n \in Replicas : n \in stopping ~> worker[n].pc = "stopped"

=============================================================================
