---------------------------- MODULE MetricAlert ----------------------------
(* Metric threshold alerts: internal/alert/metric_worker.go and anomaly.go,   *)
(* internal/store/metric_alerts.go and metric_alert_handlers.go.  Every       *)
(* minute a worker (one per replica) lists the active rules and takes each    *)
(* through its state machine, statement by statement; the errors of those     *)
(* statements are dropped.  Of the four metrics the 95th percentile of        *)
(* durations and the count of crashes are left out: the state machine treats  *)
(* both as it treats the count of errors.                                     *)
EXTENDS WallClock, FiniteSets, Sequences

CONSTANTS MetricRules,      \* ids of rules; a deleted id is never handed out again
          MetricWorkers,    \* one worker per replica
          RuleKinds,        \* the rules users write: [metric, filtered, op, critical, warning]
          Windows,          \* what the last window may hold: [errors, matching, sessions]
          Pasts,            \* what lies behind it: [day7, day14, day, windows]
          MinCount,         \* the 5.0 of EvaluateRule: no anomaly below it
          MaxIncidents, MaxRuleEdits, MaxShifts, MaxMetricFaults     \* bounds

NoThreshold == 0            \* warning_threshold IS NULL
ASSUME MetricsAreSized ==
  /\ \A k \in RuleKinds : /\ k.metric \in {"error_count", "error_rate"} /\ k.filtered \in BOOLEAN
                          /\ k.op \in {"gt", "gte", "lt", "spike_multiplier"}
                          /\ k.critical \in Nat /\ k.warning \in Nat
  /\ \A h \in Pasts : h.day7 \in Nat /\ h.day14 \in Nat /\ h.day \in Nat /\ h.windows \in Nat \ {0}
  /\ \A x \in Windows : x.errors \in Nat /\ x.matching \in 0 .. x.errors /\ x.sessions \in Nat
  /\ MinCount \in Nat \ {0}
  /\ MaxIncidents \in Nat /\ MaxRuleEdits \in Nat /\ MaxShifts \in Nat /\ MaxMetricFaults \in Nat

VARIABLES rules,        \* metric_alert_rules: a function on the ids that exist
          incidents,    \* metric_alert_incidents
          recent,       \* what the window that ends now holds
          past,         \* what EvaluateMetricBaseline finds
          workers,      \* what each worker is doing
          notices,      \* every call of NotifyMetricIncident
          metricUse     \* ids handed out, and what is used up of the bounds

metricVars == <<rules, incidents, recent, past, workers, notices, metricUse>>

NoTask == [rule |-> "none", status |-> "ok", plan |-> <<>>, val |-> 0]
Resting == [at |-> "idle", todo |-> {}, cur |-> NoTask]

MetricInit ==
  /\ rules = [r \in {} |-> 0] /\ incidents = {} /\ notices = {}
  /\ recent \in Windows /\ past \in Pasts
  /\ workers = [w \in MetricWorkers |-> Resting]
  /\ metricUse = [ids |-> {}, incidents |-> 0, edits |-> 0, shifts |-> 0, faults |-> 0]

MetricSpend(kind, max) == metricUse[kind] < max /\ metricUse' = [metricUse EXCEPT ![kind] = @ + 1]

----------------------------------------------------------------------------
(* EvaluateMetricValue: errors, or errors per hundred sessions.  A rule's       *)
(* filter (a route, a platform, a word) narrows the count, not the rate.      *)
EvaluateMetricValue(k, x) ==
  CASE k.metric = "error_rate" -> IF x.sessions = 0 THEN 0 ELSE (x.errors * 100) \div x.sessions
    [] OTHER -> IF k.filtered THEN x.matching ELSE x.errors

(* EvaluateMetricBaseline, as a fraction: the mean of the windows one and two *)
(* weeks ago that have data, else the average window of the last day.  The      *)
(* filter does not reach evaluateMetricRange: the baseline counts everything. *)
Ratio(num, den) == [num |-> num, den |-> den]
EvaluateMetricBaseline(h) ==
  IF h.day7 = 0 /\ h.day14 = 0 THEN Ratio(h.day, h.windows)
  ELSE Ratio(h.day7 + h.day14, Cardinality({d \in {"day7", "day14"} : h[d] > 0}))

\* EvaluateAnomaly with spikeThreshold k: the value is k times the baseline; a
\* zero baseline counts as ten times exceeded.
EvaluateAnomaly(val, base, k, minCount) ==
  LET spike == IF k <= 1 THEN 2 ELSE k
  IN  /\ val >= minCount
      /\ IF base.num > 0 THEN val * base.den >= spike * base.num ELSE 10 >= spike

Exceeds(op, val, threshold) ==
  CASE op = "gt" -> val > threshold [] op = "gte" -> val >= threshold [] OTHER -> val < threshold

IsFiring(k, val, h) ==
  IF k.op = "spike_multiplier" THEN EvaluateAnomaly(val, EvaluateMetricBaseline(h), k.critical, MinCount)
  ELSE Exceeds(k.op, val, k.critical)
IsWarning(k, val) ==
  k.op # "spike_multiplier" /\ k.warning # NoThreshold /\ Exceeds(k.op, val, k.warning)
Level(k, x, h) ==
  LET val == EvaluateMetricValue(k, x)
  IN  IF IsFiring(k, val, h) THEN "firing" ELSE IF IsWarning(k, val) THEN "warning" ELSE "ok"

\* Mutant of Plan: a rule that drops to warning keeps its incident.
PlanKeepsWarning(status, level) ==
  CASE level = "firing" /\ status # "firing" -> <<"mark", "open">>
    [] level = "firing" /\ status = "firing" -> <<"peak">>
    [] level = "ok" /\ status = "firing" -> <<"resolve", "mark">>
    [] OTHER -> IF level = status THEN <<>> ELSE <<"mark">>

\* EvaluateRule's state machine: the statements a reading leads to.
Plan(status, level) ==
  CASE level = "firing" /\ status # "firing" -> <<"mark", "open">>
    [] level = "firing" /\ status = "firing" -> <<"peak">>
    [] level # "firing" /\ status = "firing" -> <<"resolve", "mark">>
    [] OTHER -> IF level = status THEN <<>> ELSE <<"mark">>

----------------------------------------------------------------------------
(* The dashboard: create, update (which leaves current_status alone), delete. *)
CreateMetricAlertRule(r, kind) ==
  /\ r \notin metricUse.ids
  /\ metricUse' = [metricUse EXCEPT !.ids = @ \cup {r}]
  /\ rules' = [i \in DOMAIN rules \cup {r} |->
                 IF i = r THEN [kind |-> kind, active |-> TRUE, status |-> "ok"] ELSE rules[i]]
  /\ UNCHANGED <<incidents, recent, past, workers, notices>>

UpdateMetricAlertRule(r, kind, active) ==
  /\ MetricSpend("edits", MaxRuleEdits)
  /\ rules' = [rules EXCEPT ![r].kind = kind, ![r].active = active]
  /\ UNCHANGED <<incidents, recent, past, workers, notices>>

DeleteMetricAlertRule(r) ==
  /\ MetricSpend("edits", MaxRuleEdits)
  /\ rules' = [i \in DOMAIN rules \ {r} |-> rules[i]]
  /\ incidents' = {i \in incidents : i.rule # r}
  /\ UNCHANGED <<recent, past, workers, notices>>

\* What is measured changes on its own.
Shift(x) ==
  /\ x # recent /\ MetricSpend("shifts", MaxShifts)
  /\ recent' = x
  /\ UNCHANGED <<rules, incidents, past, workers, notices>>

----------------------------------------------------------------------------
\* Mutant of ActiveRules: what already fires is not looked at again.
QuietRules == {[rule |-> r, kind |-> rules[r].kind, status |-> rules[r].status] :
                 r \in {i \in DOMAIN rules : rules[i].active /\ rules[i].status # "firing"}}

\* ListAllActiveMetricAlertRules.
ActiveRules == {[rule |-> r, kind |-> rules[r].kind, status |-> rules[r].status] :
                  r \in {i \in DOMAIN rules : rules[i].active}}

WorkerTick(w) ==
  /\ workers[w].at = "idle" /\ ActiveRules # {}
  /\ workers' = [workers EXCEPT ![w].at = "busy", ![w].todo = ActiveRules]
  /\ UNCHANGED <<rules, incidents, recent, past, notices, metricUse>>

\* What the dropped error of EvaluateMetricBaseline leaves: a baseline of zero.
NoPast == [day7 |-> 0, day14 |-> 0, day |-> 0, windows |-> 1]

Decide(w, r, behind) ==
  LET level == Level(r.kind, recent, behind) IN
  /\ workers[w].at = "busy" /\ workers[w].cur.plan = <<>> /\ r \in workers[w].todo
  /\ workers' = [workers EXCEPT ![w].todo = @ \ {r},
                                ![w].cur = [rule |-> r.rule, status |-> level, plan |-> Plan(r.status, level), val |-> EvaluateMetricValue(r.kind, recent)]]
  /\ UNCHANGED <<rules, incidents, recent, past, notices>>

\* EvaluateRule reads the metric and decides from the status of the list.
EvaluateRule(w, r) == Decide(w, r, past) /\ UNCHANGED metricUse

\* The metric cannot be read and the rule is left for the next tick, or its
\* baseline cannot and counts as zero.
EvaluationFails(w, r) ==
  /\ MetricSpend("faults", MaxMetricFaults)
  /\ \/ r.kind.op = "spike_multiplier" /\ Decide(w, r, NoPast)
     \/ /\ workers[w].at = "busy" /\ workers[w].cur.plan = <<>> /\ r \in workers[w].todo
        /\ workers' = [workers EXCEPT ![w].todo = @ \ {r}]
        /\ UNCHANGED <<rules, incidents, recent, past, notices>>

WorkerRests(w) ==
  /\ workers[w].at = "busy" /\ workers[w].cur.plan = <<>> /\ workers[w].todo = {}
  /\ workers' = [workers EXCEPT ![w] = Resting]
  /\ UNCHANGED <<rules, incidents, recent, past, notices, metricUse>>

At(w, stmt) == workers[w].cur.plan # <<>> /\ Head(workers[w].cur.plan) = stmt
Done(w) == workers' = [workers EXCEPT ![w].cur.plan = Tail(@)]

MarkRule(w) ==
  LET t == workers[w].cur IN
  /\ At(w, "mark") /\ Done(w)
  /\ rules' = [r \in DOMAIN rules |-> IF r = t.rule THEN [rules[r] EXCEPT !.status = t.status] ELSE rules[r]]
  /\ UNCHANGED <<incidents, recent, past, notices, metricUse>>

\* GetActiveIncidentForRule: the latest that is firing.
ActiveIncident(r) ==
  LET open == {i \in incidents : i.rule = r /\ i.status = "firing"}
  IN  {i \in open : \A j \in open : j.id <= i.id}

\* The insert fails when the rule is gone.
OpenIncident(w) ==
  LET t == workers[w].cur
      id == metricUse.incidents + 1
  IN
  /\ At(w, "open") /\ Done(w)
  /\ IF t.rule \in DOMAIN rules
     THEN /\ MetricSpend("incidents", MaxIncidents)
          /\ incidents' = incidents \cup {[id |-> id, rule |-> t.rule, status |-> "firing", peak |-> t.val]}
          /\ notices' = notices \cup {[incident |-> id, resolved |-> FALSE]}
     ELSE UNCHANGED <<incidents, notices, metricUse>>
  /\ UNCHANGED <<rules, recent, past>>

GreaterOf(a, b) == IF a > b THEN a ELSE b
Rewrite(old, status, val) ==
  (incidents \ old) \cup {[i EXCEPT !.status = status, !.peak = GreaterOf(i.peak, val)] : i \in old}

RaisePeak(w) ==
  LET t == workers[w].cur IN
  /\ At(w, "peak") /\ Done(w)
  /\ incidents' = Rewrite(ActiveIncident(t.rule), "firing", t.val)
  /\ UNCHANGED <<rules, recent, past, notices, metricUse>>

ResolveIncident(w) ==
  LET t == workers[w].cur IN
  /\ At(w, "resolve") /\ Done(w)
  /\ incidents' = Rewrite(ActiveIncident(t.rule), "resolved", t.val)
  /\ notices' = notices \cup {[incident |-> i.id, resolved |-> TRUE] : i \in ActiveIncident(t.rule)}
  /\ UNCHANGED <<rules, recent, past, metricUse>>

\* A statement fails and the worker goes on; a resolve that fails is announced
\* all the same when its incident had been read.
StatementFails(w) ==
  LET t == workers[w].cur IN
  /\ t.plan # <<>> /\ Done(w)
  /\ MetricSpend("faults", MaxMetricFaults)
  /\ \/ UNCHANGED notices
     \/ /\ At(w, "resolve")
        /\ notices' = notices \cup {[incident |-> i.id, resolved |-> TRUE] : i \in ActiveIncident(t.rule)}
  /\ UNCHANGED <<rules, incidents, recent, past>>

WorkerStep(w) ==
  \/ WorkerTick(w) \/ WorkerRests(w) \/ (\E r \in workers[w].todo : EvaluateRule(w, r))
  \/ MarkRule(w) \/ OpenIncident(w) \/ RaisePeak(w) \/ ResolveIncident(w)

MetricRequest ==
  \/ \E r \in MetricRules, kind \in RuleKinds : CreateMetricAlertRule(r, kind)
  \/ \E r \in DOMAIN rules :
       \/ \E kind \in RuleKinds, active \in BOOLEAN : UpdateMetricAlertRule(r, kind, active)
       \/ DeleteMetricAlertRule(r)

MetricNext ==
  \/ MetricRequest
  \/ \E x \in Windows : Shift(x)
  \/ \E w \in MetricWorkers : WorkerStep(w) \/ StatementFails(w) \/ (\E r \in workers[w].todo : EvaluationFails(w, r))

----------------------------------------------------------------------------
MetricTypeOK ==
  /\ DOMAIN rules \subseteq metricUse.ids /\ metricUse.ids \subseteq MetricRules
  /\ \A r \in DOMAIN rules : rules[r].kind \in RuleKinds /\ rules[r].status \in {"ok", "warning", "firing"}
  /\ \A i \in incidents : /\ i.rule \in DOMAIN rules /\ i.status \in {"firing", "resolved"}
                          /\ i.id \in 1 .. metricUse.incidents /\ i.peak \in Nat
  /\ \A w \in MetricWorkers : /\ workers[w].at \in {"idle", "busy"}
                              /\ workers[w].cur.plan \in {<<>>, <<"mark">>, <<"open">>, <<"peak">>, <<"mark", "open">>, <<"resolve", "mark">>}

Open(r) == {i \in incidents : i.rule = r /\ i.status = "firing"}

\* The dashboard's status and its incidents agree: a rule shows firing exactly
\* while one incident of it is open, between the passes of the worker, as long
\* as no statement of the worker failed.
OneIncidentWhileFiring ==
  metricUse.faults > 0 \/ \A r \in DOMAIN rules :
    \/ Cardinality(Open(r)) = IF rules[r].status = "firing" THEN 1 ELSE 0
    \/ \E w \in MetricWorkers : workers[w].at = "busy"

Recovered(r) == <>[](r \in DOMAIN rules /\ rules[r].active /\ Level(rules[r].kind, recent, past) # "firing")
Closed(r) == <>[](Open(r) = {})

\* Once the metric stays clear of an active rule's threshold, its incident is
\* resolved and stays resolved.
AutoResolves == \A r \in MetricRules : Recovered(r) => Closed(r)

\* That is so as long as no statement of the worker fails.
AutoResolvesUnlessFailed == [](metricUse.faults = 0) => AutoResolves
=============================================================================
