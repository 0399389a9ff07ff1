---------------------------- MODULE CronMonitor ----------------------------
(* Heartbeat monitors of scheduled jobs: internal/store/crons.go, the         *)
(* evaluator of internal/crons and the handlers of cron_handlers.go.  A job   *)
(* checks in over HTTP; every tick an evaluator (one per replica) marks the   *)
(* monitors whose deadline passed and alerts.  Each SQL statement is a step:  *)
(* none of these operations opens a transaction.                              *)
EXTENDS WallClock, FiniteSets, FiniteSetsExt

CONSTANTS CronJobs,     \* ids of monitors; a deleted id is never handed out again
          Evaluators,   \* one evaluator per replica
          Pings,        \* check-in requests that may be in flight together
          Periods,      \* schedules, as the distance between two due times
          Graces, Runtimes,
          MaxPings, MaxEdits, MaxCronFaults    \* bounds
ASSUME CronsAreSized ==
  /\ Periods \subseteq Nat \ {0} /\ Graces \subseteq Nat /\ Runtimes \subseteq Nat
  /\ MaxPings \in Nat /\ MaxEdits \in Nat /\ MaxCronFaults \in Nat

VARIABLES crons,        \* cron_monitors: a function on the ids that exist; `since` is the
                        \* updated_at of the last write of the status
          checkins,     \* cron_checkins
          evals,        \* what each evaluator is doing
          pings,        \* what each check-in request is doing
          cronAlerts,   \* every call of NotifyCronIncident
          cronUse       \* ids handed out, and what is used up of the bounds

cronVars == <<crons, checkins, evals, pings, cronAlerts, cronUse>>

CronStatuses == {"ok", "in_progress", "error", "missed"}
Never == Horizon + 1000                                 \* a NULL timestamp
NoJob == [job |-> "none", period |-> 0]

Asleep == [at |-> "idle", now |-> 0, todo |-> {}, cur |-> NoJob, alerted |-> {}]
NoPing == [at |-> "idle", job |-> "none", status |-> "ok", due |-> 0, period |-> 1, when |-> 0]

\* The schedule's first due time strictly after t.
ComputeNextExpected(period, t) == (t \div period + 1) * period

CronInit ==
  /\ crons = [j \in {} |-> 0] /\ checkins = {} /\ cronAlerts = {}
  /\ evals = [e \in Evaluators |-> Asleep]
  /\ pings = [p \in Pings |-> NoPing]
  /\ cronUse = [ids |-> {}, pings |-> 0, edits |-> 0, faults |-> 0]

Spend(kind, max) == cronUse[kind] < max /\ cronUse' = [cronUse EXCEPT ![kind] = @ + 1]
CronFault == Spend("faults", MaxCronFaults)
Alert(j, kind, t) == [job |-> j, kind |-> kind, at |-> t]
Checkin(j, status, t) == [job |-> j, status |-> status, at |-> t]

----------------------------------------------------------------------------
(* The dashboard: createCronMonitor, updateCronMonitor, deleteCronMonitor.    *)
CreateCronMonitor(j, period, grace, runtime) ==
  /\ j \notin cronUse.ids
  /\ cronUse' = [cronUse EXCEPT !.ids = @ \cup {j}]
  /\ crons' = [i \in DOMAIN crons \cup {j} |->
                 IF i # j THEN crons[i]
                 ELSE [status |-> "ok", last |-> Never, due |-> ComputeNextExpected(period, now), since |-> now,
                       period |-> period, grace |-> grace, runtime |-> runtime]]
  /\ UNCHANGED <<checkins, evals, pings, cronAlerts>>

\* The edit recomputes the due time from now and leaves the status as it is.
UpdateCronMonitor(j, period, grace, runtime) ==
  /\ Spend("edits", MaxEdits)
  /\ crons' = [crons EXCEPT ![j] = [@ EXCEPT !.period = period, !.grace = grace, !.runtime = runtime,
                                             !.due = ComputeNextExpected(period, now)]]
  /\ UNCHANGED <<checkins, evals, pings, cronAlerts>>

\* Mutant of DeleteCronMonitor: the check-ins stay.
DeleteMonitorOnly(j) ==
  /\ Spend("edits", MaxEdits)
  /\ crons' = [i \in DOMAIN crons \ {j} |-> crons[i]]
  /\ UNCHANGED <<checkins, evals, pings, cronAlerts>>

DeleteCronMonitor(j) ==
  /\ Spend("edits", MaxEdits)
  /\ crons' = [i \in DOMAIN crons \ {j} |-> crons[i]]
  /\ checkins' = {c \in checkins : c.job # j}
  /\ UNCHANGED <<evals, pings, cronAlerts>>

----------------------------------------------------------------------------
(* A check-in: RecordCronCheckin reads the monitor by slug, inserts the       *)
(* check-in, then writes the monitor back from what it read.                  *)
MonitorBySlug(j) == [due |-> crons[j].due, period |-> crons[j].period]

\* cronCheckin takes three statuses and refuses any other.
PingStatuses == CronStatuses \ {"missed"}

PingRead(p, j, status) ==
  /\ pings[p].at = "idle"
  /\ Spend("pings", MaxPings)
  /\ pings' = [pings EXCEPT ![p] = [at |-> "insert", job |-> j, status |-> status, when |-> 0,
                                    due |-> MonitorBySlug(j).due, period |-> MonitorBySlug(j).period]]
  /\ UNCHANGED <<crons, checkins, evals, cronAlerts>>

PingInsert(p) ==
  LET r == pings[p] IN
  /\ r.at = "insert"
  /\ IF r.job \in DOMAIN crons
     THEN /\ checkins' = checkins \cup {Checkin(r.job, r.status, now)}
          /\ pings' = [pings EXCEPT ![p].at = "update", ![p].when = now]
     ELSE /\ pings' = [pings EXCEPT ![p] = NoPing]
          /\ UNCHANGED checkins
  /\ UNCHANGED <<crons, evals, cronAlerts, cronUse>>

PingDue(r) == IF r.status \in {"ok", "error"} THEN ComputeNextExpected(r.period, r.when) ELSE r.due

PingUpdate(p) ==
  LET r == pings[p] IN
  /\ r.at = "update"
  /\ crons' = [i \in DOMAIN crons |->
                 IF i # r.job THEN crons[i]
                 ELSE [crons[i] EXCEPT !.status = r.status, !.last = r.when, !.due = PingDue(r), !.since = r.when]]
  /\ cronAlerts' = cronAlerts \cup (IF r.status = "error" THEN {Alert(r.job, "error", r.when)} ELSE {})
  /\ pings' = [pings EXCEPT ![p] = NoPing]
  /\ UNCHANGED <<checkins, evals, cronUse>>

\* The second statement fails: the caller sees a 500, the check-in stays.
PingFail(p) ==
  /\ pings[p].at = "update" /\ CronFault
  /\ pings' = [pings EXCEPT ![p] = NoPing]
  /\ UNCHANGED <<crons, checkins, evals, cronAlerts>>

----------------------------------------------------------------------------
(* EvaluateOnce: EvaluateCronDeadlines' two queries, each followed by two     *)
(* statements per row it found, then the alerts.                              *)
\* Mutant of MissedQuery: only a monitor that is ok can miss its deadline.
MissedWhileOk(t) == {j \in DOMAIN crons : crons[j].status = "ok" /\ t > crons[j].due + crons[j].grace}

MissedQuery(t) ==
  {j \in DOMAIN crons : crons[j].status # "missed" /\ t > crons[j].due + crons[j].grace}
TimeoutQuery(t) ==
  {j \in DOMAIN crons : crons[j].status = "in_progress" /\ crons[j].last # Never
                        /\ t > crons[j].last + crons[j].runtime}
Rows(J) == {[job |-> j, period |-> crons[j].period] : j \in J}
MarkOf(e) == IF evals[e].at = "missed" THEN "missed" ELSE "error"

EvalStart(e) ==
  /\ evals[e].at = "idle"
  /\ evals' = [evals EXCEPT ![e].at = "missed", ![e].now = now, ![e].todo = Rows(MissedQuery(now))]
  /\ UNCHANGED <<crons, checkins, pings, cronAlerts, cronUse>>

\* UPDATE .. WHERE id: the condition of the query is not repeated, and the
\* error of the statement is not looked at.
EvalMark(e, row) ==
  LET v == evals[e] IN
  /\ v.cur = NoJob /\ row \in v.todo
  /\ evals' = [evals EXCEPT ![e].cur = row, ![e].todo = @ \ {row}]
  /\ \/ /\ crons' = [i \in DOMAIN crons |->
                       IF i # row.job THEN crons[i]
                       ELSE [crons[i] EXCEPT !.status = MarkOf(e), !.since = v.now,
                                             !.due = ComputeNextExpected(row.period, v.now)]]
        /\ UNCHANGED cronUse
     \/ CronFault /\ UNCHANGED crons
  /\ UNCHANGED <<checkins, pings, cronAlerts>>

EvalLog(e) ==
  LET v == evals[e] IN
  /\ v.cur # NoJob
  /\ evals' = [evals EXCEPT ![e].cur = NoJob, ![e].alerted = @ \cup {Alert(v.cur.job, MarkOf(e), v.now)}]
  /\ checkins' = checkins \cup (IF v.cur.job \in DOMAIN crons THEN {Checkin(v.cur.job, "error", v.now)} ELSE {})
  /\ UNCHANGED <<crons, pings, cronAlerts, cronUse>>

\* Mutant of EvalTimeouts: the second query starts the list of alerts afresh.
TimeoutsAfresh(e) ==
  LET v == evals[e] IN
  /\ v.at = "missed" /\ v.todo = {} /\ v.cur = NoJob
  /\ evals' = [evals EXCEPT ![e].at = "timeout", ![e].todo = Rows(TimeoutQuery(v.now)), ![e].alerted = {}]
  /\ UNCHANGED <<crons, checkins, pings, cronAlerts, cronUse>>

EvalTimeouts(e) ==
  LET v == evals[e] IN
  /\ v.at = "missed" /\ v.todo = {} /\ v.cur = NoJob
  /\ evals' = [evals EXCEPT ![e].at = "timeout", ![e].todo = Rows(TimeoutQuery(v.now))]
  /\ UNCHANGED <<crons, checkins, pings, cronAlerts, cronUse>>

EvalNotify(e) ==
  LET v == evals[e] IN
  /\ v.at = "timeout" /\ v.todo = {} /\ v.cur = NoJob
  /\ cronAlerts' = cronAlerts \cup v.alerted
  /\ evals' = [evals EXCEPT ![e] = Asleep]
  /\ UNCHANGED <<crons, checkins, pings, cronUse>>

\* A query fails (`return nil, err`) or the process dies: what was marked so
\* far stays marked, the alerts it collected are dropped.
EvalFail(e) ==
  /\ evals[e].at # "idle" /\ CronFault
  /\ evals' = [evals EXCEPT ![e] = Asleep]
  /\ UNCHANGED <<crons, checkins, pings, cronAlerts>>

EvalStep(e) == EvalStart(e) \/ (\E row \in evals[e].todo : EvalMark(e, row)) \/ EvalLog(e) \/ EvalTimeouts(e) \/ EvalNotify(e)

CronEdit ==
  \/ \E period \in Periods, grace \in Graces, runtime \in Runtimes :
       \/ \E j \in CronJobs : CreateCronMonitor(j, period, grace, runtime)
       \/ \E j \in DOMAIN crons : UpdateCronMonitor(j, period, grace, runtime)
  \/ \E j \in DOMAIN crons : DeleteCronMonitor(j)

CronNext ==
  \/ CronEdit
  \/ \E p \in Pings :
       \/ \E j \in DOMAIN crons, status \in PingStatuses : PingRead(p, j, status)
       \/ PingInsert(p) \/ PingUpdate(p) \/ PingFail(p)
  \/ \E e \in Evaluators : EvalStep(e) \/ EvalFail(e)

----------------------------------------------------------------------------
CronTypeOK ==
  /\ DOMAIN crons \subseteq cronUse.ids /\ cronUse.ids \subseteq CronJobs
  /\ \A j \in DOMAIN crons :
       /\ crons[j].status \in CronStatuses /\ crons[j].last \in 0 .. now \cup {Never}
       /\ crons[j].due \in Nat \ {0} /\ crons[j].since \in 0 .. now
  /\ \A c \in checkins : c.job \in DOMAIN crons /\ c.status \in PingStatuses /\ c.at \in 0 .. now
  /\ \A e \in Evaluators : evals[e].at \in {"idle", "missed", "timeout"} /\ evals[e].now \in 0 .. now
  /\ \A p \in Pings : pings[p].at \in {"idle", "insert", "update"}

\* ListCronCheckins: the timeline the dashboard shows.
Timeline(j) == {c \in checkins : c.job = j}

\* A monitor shown as missed was announced as missed by the pass that marked
\* it, and its timeline has the failure, unless that pass is still under way
\* (EvaluateOnce alerts only after both queries of EvaluateCronDeadlines).
MissedIsAnnounced ==
  \A j \in DOMAIN crons :
    crons[j].status = "missed" =>
      \/ /\ Alert(j, "missed", crons[j].since) \in cronAlerts
         /\ Checkin(j, "error", crons[j].since) \in Timeline(j)
      \/ \E e \in Evaluators : evals[e].at # "idle"

\* As long as no statement fails and no process dies, that is so.
MissedIsAnnouncedUnlessFailed == cronUse.faults > 0 \/ MissedIsAnnounced

\* A job that stays silent past its grace period does not stay unnoticed: the
\* evaluator marks it, whatever check-ins, edits and other replicas do between
\* its query and its update.
SilenceIsNoticed ==
  \A j \in CronJobs :
    (j \in DOMAIN crons /\ crons[j].status # "missed" /\ now > crons[j].due + crons[j].grace)
      ~> ~(j \in DOMAIN crons /\ crons[j].status # "missed" /\ now > crons[j].due + crons[j].grace)
=============================================================================
