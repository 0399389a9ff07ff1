-------------------------- MODULE SchedulerProofs --------------------------
(***************************************************************************)
(* Theorems about Scheduler: cron monitors with any number of evaluators,  *)
(* jobs and check-ins; uptime monitors with one runner; metric rules with  *)
(* one worker.  They hold for every schedule, interval, rule and metric.   *)
(***************************************************************************)
EXTENDS Scheduler, FiniteSetTheorems, TLAPS

-----------------------------------------------------------------------------
(* Cron monitors.                                                          *)

CronRow == [status : CronStatuses, last : Int, due : Int, since : Int,
            period : Nat \ {0}, grace : Nat, runtime : Nat]
EvalState == [at : {"idle", "missed", "timeout"}, now : Nat, todo : SUBSET [job : CronJobs, period : Nat \ {0}],
              cur : [job : CronJobs, period : Nat \ {0}] \cup {NoJob},
              alerted : SUBSET [job : CronJobs, kind : {"missed", "error"}, at : Nat]]
PingState == [at : {"idle", "insert", "update"}, job : CronJobs \cup {"none"}, status : PingStatuses,
              due : Int, period : Nat \ {0}, when : Nat]

CronType ==
  /\ now \in Nat
  /\ crons \in [DOMAIN crons -> CronRow] /\ DOMAIN crons \subseteq CronJobs
  /\ evals \in [Evaluators -> EvalState]
  /\ pings \in [Pings -> PingState]
  /\ cronUse \in [ids : SUBSET CronJobs, pings : Nat, edits : Nat, faults : Nat]

\* A monitor that shows as missed was announced, or one evaluator still has
\* its row in hand, or the alert in its list.
Told(j) ==
  LET alert == Alert(j, "missed", crons[j].since)
      failure == Checkin(j, "error", crons[j].since)
  IN  \/ alert \in cronAlerts /\ failure \in checkins
      \/ \E e \in Evaluators :
           /\ evals[e].at # "idle"
           /\ \/ /\ evals[e].at = "missed" /\ evals[e].cur # NoJob
                 /\ evals[e].cur.job = j /\ evals[e].now = crons[j].since
              \/ alert \in evals[e].alerted /\ failure \in checkins

CronInv == CronType /\ (cronUse.faults > 0 \/ \A j \in DOMAIN crons : crons[j].status = "missed" => Told(j))

LEMMA NextExpectedType == ASSUME NEW period \in Nat \ {0}, NEW t \in Nat PROVE ComputeNextExpected(period, t) \in Int
  BY DEF ComputeNextExpected

LEMMA NeverType == Never \in Int
  BY HorizonIsTime DEF Never

LEMMA CronInitInv == SchedInit => CronInv
  <1> SUFFICES ASSUME SchedInit PROVE CronInv
    OBVIOUS
  <1>1. now = 0 /\ crons = [j \in {} |-> 0] /\ evals = [e \in Evaluators |-> Asleep] /\ pings = [p \in Pings |-> NoPing]
        /\ cronUse = [ids |-> {}, pings |-> 0, edits |-> 0, faults |-> 0]
    BY DEF SchedInit, CronInit
  <1>2. DOMAIN crons = {} /\ crons \in [DOMAIN crons -> CronRow]
    BY <1>1
  <1>3. Asleep \in EvalState /\ NoPing \in PingState
    BY DEF Asleep, EvalState, NoPing, PingState, PingStatuses, CronStatuses
  <1>4. QED
    BY <1>1, <1>2, <1>3 DEF CronInv, CronType

(* A step that leaves the evaluators alone and takes no announcement back. *)
LEMMA CronKeeps ==
    ASSUME CronInv, CronType', evals' = evals, cronUse'.faults >= cronUse.faults,
           cronAlerts \subseteq cronAlerts',
           \A c \in checkins : c.job \in DOMAIN crons' => c \in checkins',
           \A j \in DOMAIN crons' : crons'[j].status = "missed" =>
             j \in DOMAIN crons /\ crons[j].status = "missed" /\ crons'[j].since = crons[j].since
    PROVE  CronInv'
  <1>1. ASSUME cronUse.faults > 0 PROVE cronUse'.faults > 0
    BY <1>1 DEF CronInv, CronType
  <1>2. ASSUME NEW j \in DOMAIN crons', crons'[j].status = "missed", cronUse.faults = 0
        PROVE  Told(j)'
    <2> DEFINE alert == Alert(j, "missed", crons[j].since)
               failure == Checkin(j, "error", crons[j].since)
    <2>1. Told(j) /\ crons'[j].since = crons[j].since
      BY <1>2 DEF CronInv
    <2>2. failure.job = j
      BY DEF Checkin
    <2>3. failure \in checkins => failure \in checkins'
      BY <1>2, <2>2
    <2> HIDE DEF alert, failure
    <2>4. Told(j)' <=>
            \/ alert \in cronAlerts' /\ failure \in checkins'
            \/ \E e \in Evaluators :
                 /\ evals[e].at # "idle"
                 /\ \/ /\ evals[e].at = "missed" /\ evals[e].cur # NoJob
                       /\ evals[e].cur.job = j /\ evals[e].now = crons[j].since
                    \/ alert \in evals[e].alerted /\ failure \in checkins'
      BY <2>1 DEF Told, alert, failure
    <2>5. \/ alert \in cronAlerts /\ failure \in checkins
          \/ \E e \in Evaluators :
               /\ evals[e].at # "idle"
               /\ \/ /\ evals[e].at = "missed" /\ evals[e].cur # NoJob
                     /\ evals[e].cur.job = j /\ evals[e].now = crons[j].since
                  \/ alert \in evals[e].alerted /\ failure \in checkins
      BY <2>1 DEF Told, alert, failure
    <2>6. QED
      BY <2>3, <2>4, <2>5
  <1>3. cronUse.faults \in Nat
    BY DEF CronInv, CronType
  <1>4. QED
    BY <1>1, <1>2, <1>3 DEF CronInv

(* The dashboard: an edit leaves the status and its time as they are, and   *)
(* what is deleted is gone.                                                 *)
LEMMA CronEditInv == ASSUME CronInv, CronEdit, now' = now PROVE CronInv'
  <1>1. /\ now \in Nat /\ crons \in [DOMAIN crons -> CronRow] /\ DOMAIN crons \subseteq CronJobs
        /\ cronUse \in [ids : SUBSET CronJobs, pings : Nat, edits : Nat, faults : Nat]
    BY DEF CronInv, CronType
  <1>2. ASSUME NEW j \in CronJobs, NEW period \in Periods, NEW grace \in Graces, NEW runtime \in Runtimes,
               CreateCronMonitor(j, period, grace, runtime)
        PROVE  CronInv'
    <2> DEFINE row == [status |-> "ok", last |-> Never, due |-> ComputeNextExpected(period, now), since |-> now,
                       period |-> period, grace |-> grace, runtime |-> runtime]
    <2>1. row \in CronRow /\ row.status # "missed"
      BY <1>1, CronsAreSized, NeverType, NextExpectedType DEF CronRow, CronStatuses
    <2>2. /\ crons' = [i \in DOMAIN crons \cup {j} |-> IF i # j THEN crons[i] ELSE row]
          /\ cronUse' = [cronUse EXCEPT !.ids = @ \cup {j}]
          /\ UNCHANGED <<checkins, evals, pings, cronAlerts>>
      BY <1>2 DEF CreateCronMonitor
    <2> HIDE DEF row
    <2>3. DOMAIN crons' = DOMAIN crons \cup {j} /\ crons' \in [DOMAIN crons' -> CronRow]
      BY <1>1, <2>1, <2>2
    <2>4. \A i \in DOMAIN crons' : crons'[i].status = "missed" => i \in DOMAIN crons /\ crons'[i] = crons[i]
      BY <2>1, <2>2
    <2>5. CronType' /\ cronUse'.faults = cronUse.faults
      BY <1>1, <2>2, <2>3 DEF CronInv, CronType
    <2>6. cronUse.faults \in Nat
      BY <1>1
    <2>7. QED
      BY <2>2, <2>4, <2>5, <2>6, CronKeeps
  <1>3. ASSUME NEW j \in DOMAIN crons, NEW period \in Periods, NEW grace \in Graces, NEW runtime \in Runtimes,
               UpdateCronMonitor(j, period, grace, runtime)
        PROVE  CronInv'
    <2> DEFINE row == [crons[j] EXCEPT !.period = period, !.grace = grace, !.runtime = runtime,
                                       !.due = ComputeNextExpected(period, now)]
    <2>1. row \in CronRow /\ row.status = crons[j].status /\ row.since = crons[j].since
      BY <1>1, CronsAreSized, NextExpectedType DEF CronRow
    <2>2. /\ crons' = [crons EXCEPT ![j] = row]
          /\ cronUse' = [cronUse EXCEPT !.edits = @ + 1]
          /\ UNCHANGED <<checkins, evals, pings, cronAlerts>>
      BY <1>3 DEF UpdateCronMonitor, Spend
    <2> HIDE DEF row
    <2>3. DOMAIN crons' = DOMAIN crons /\ crons' \in [DOMAIN crons' -> CronRow]
      BY <1>1, <2>1, <2>2
    <2>4. \A i \in DOMAIN crons' : crons'[i].status = crons[i].status /\ crons'[i].since = crons[i].since
      BY <1>1, <2>1, <2>2
    <2>5. CronType' /\ cronUse'.faults = cronUse.faults
      BY <1>1, <2>2, <2>3 DEF CronInv, CronType
    <2>6. cronUse.faults \in Nat
      BY <1>1
    <2>7. QED
      BY <2>2, <2>3, <2>4, <2>5, <2>6, CronKeeps
  <1>4. ASSUME NEW j \in DOMAIN crons, DeleteCronMonitor(j) PROVE CronInv'
    <2>1. /\ crons' = [i \in DOMAIN crons \ {j} |-> crons[i]]
          /\ checkins' = {c \in checkins : c.job # j}
          /\ cronUse' = [cronUse EXCEPT !.edits = @ + 1]
          /\ UNCHANGED <<evals, pings, cronAlerts>>
      BY <1>4 DEF DeleteCronMonitor, Spend
    <2>2. CronType' /\ cronUse'.faults = cronUse.faults /\ cronUse.faults \in Nat
      BY <1>1, <2>1 DEF CronInv, CronType
    <2>3. QED
      BY <2>1, <2>2, CronKeeps
  <1>5. QED
    BY <1>2, <1>3, <1>4 DEF CronEdit

(* A check-in writes another status than "missed".                         *)
LEMMA PingInv ==
    ASSUME CronInv, now' = now, NEW p \in Pings,
           \/ \E j \in DOMAIN crons, status \in PingStatuses : PingRead(p, j, status)
           \/ PingInsert(p) \/ PingUpdate(p) \/ PingFail(p)
    PROVE  CronInv'
  <1> DEFINE r == pings[p]
  <1>1. /\ now \in Nat /\ crons \in [DOMAIN crons -> CronRow] /\ DOMAIN crons \subseteq CronJobs
        /\ pings \in [Pings -> PingState] /\ r \in PingState
        /\ cronUse \in [ids : SUBSET CronJobs, pings : Nat, edits : Nat, faults : Nat]
    BY DEF CronInv, CronType
  <1>2. NoPing \in PingState
    BY DEF NoPing, PingState, PingStatuses, CronStatuses
  <1>3. ASSUME NEW j \in DOMAIN crons, NEW status \in PingStatuses, PingRead(p, j, status) PROVE CronInv'
    <2> DEFINE to == [at |-> "insert", job |-> j, status |-> status, when |-> 0,
                      due |-> MonitorBySlug(j).due, period |-> MonitorBySlug(j).period]
    <2>1. to \in PingState
      BY <1>1 DEF PingState, MonitorBySlug, CronRow
    <2>2. /\ pings' = [pings EXCEPT ![p] = to] /\ cronUse' = [cronUse EXCEPT !.pings = @ + 1]
          /\ UNCHANGED <<crons, checkins, evals, cronAlerts>>
      BY <1>3 DEF PingRead, Spend
    <2> HIDE DEF to
    <2>3. CronType' /\ cronUse'.faults = cronUse.faults /\ cronUse.faults \in Nat
      BY <1>1, <2>1, <2>2 DEF CronInv, CronType
    <2>4. QED
      BY <2>2, <2>3, CronKeeps
  <1>4. ASSUME PingInsert(p) PROVE CronInv'
    <2>1. PICK to \in PingState : pings' = [pings EXCEPT ![p] = to]
      <3>1. CASE r.job \in DOMAIN crons
        <4>1. pings' = [pings EXCEPT ![p] = [r EXCEPT !.at = "update", !.when = now]]
          BY <1>1, <1>4, <3>1 DEF PingInsert
        <4>2. [r EXCEPT !.at = "update", !.when = now] \in PingState
          BY <1>1 DEF PingState
        <4>3. QED
          BY <4>1, <4>2
      <3>2. CASE r.job \notin DOMAIN crons
        BY <1>2, <1>4, <3>2 DEF PingInsert
      <3>3. QED
        BY <3>1, <3>2
    <2>2. checkins \subseteq checkins' /\ UNCHANGED <<crons, evals, cronAlerts, cronUse>>
      BY <1>4 DEF PingInsert
    <2>3. CronType' /\ cronUse.faults \in Nat
      BY <1>1, <2>1, <2>2 DEF CronInv, CronType
    <2>4. QED
      BY <2>2, <2>3, CronKeeps
  <1>5. ASSUME PingUpdate(p) PROVE CronInv'
    <2>1. /\ crons' = [i \in DOMAIN crons |->
                         IF i # r.job THEN crons[i]
                         ELSE [crons[i] EXCEPT !.status = r.status, !.last = r.when, !.due = PingDue(r), !.since = r.when]]
          /\ cronAlerts \subseteq cronAlerts' /\ pings' = [pings EXCEPT ![p] = NoPing]
          /\ UNCHANGED <<checkins, evals, cronUse>>
      BY <1>5 DEF PingUpdate
    <2>2. r.status \in CronStatuses /\ r.status # "missed" /\ r.when \in Int /\ PingDue(r) \in Int
      BY <1>1, NextExpectedType DEF PingState, PingStatuses, PingDue
    <2>3. ASSUME NEW i \in DOMAIN crons
          PROVE  [crons[i] EXCEPT !.status = r.status, !.last = r.when, !.due = PingDue(r), !.since = r.when] \in CronRow
      BY <1>1, <2>2 DEF CronRow
    <2>4. DOMAIN crons' = DOMAIN crons /\ crons' \in [DOMAIN crons' -> CronRow]
      BY <1>1, <2>1, <2>3
    <2>5. \A i \in DOMAIN crons' : crons'[i].status = "missed" => crons'[i] = crons[i]
      BY <1>1, <2>1, <2>2 DEF CronRow
    <2>6. CronType' /\ cronUse.faults \in Nat
      BY <1>1, <1>2, <2>1, <2>4 DEF CronInv, CronType
    <2>7. cronAlerts \subseteq cronAlerts' /\ UNCHANGED <<checkins, evals, cronUse>>
      BY <2>1
    <2>8. \A j \in DOMAIN crons' : crons'[j].status = "missed" =>
            j \in DOMAIN crons /\ crons[j].status = "missed" /\ crons'[j].since = crons[j].since
      BY <2>4, <2>5
    <2>9. QED
      BY <2>6, <2>7, <2>8, CronKeeps
  <1>6. ASSUME PingFail(p) PROVE CronInv'
    <2>1. /\ pings' = [pings EXCEPT ![p] = NoPing] /\ cronUse' = [cronUse EXCEPT !.faults = @ + 1]
          /\ UNCHANGED <<crons, checkins, evals, cronAlerts>>
      BY <1>6 DEF PingFail, CronFault, Spend
    <2>2. CronType' /\ cronUse'.faults = cronUse.faults + 1 /\ cronUse.faults \in Nat
      BY <1>1, <1>2, <2>1 DEF CronInv, CronType
    <2>3. QED
      BY <2>1, <2>2, CronKeeps
  <1>7. QED
    BY <1>3, <1>4, <1>5, <1>6

(* What an evaluator has in hand stays with it until it is announced.      *)
LEMMA EvalInv ==
    ASSUME CronInv, now' = now, NEW e \in Evaluators, EvalStep(e) \/ EvalFail(e)
    PROVE  CronInv'
  <1> DEFINE v == evals[e]
  <1>1. /\ now \in Nat /\ crons \in [DOMAIN crons -> CronRow] /\ DOMAIN crons \subseteq CronJobs
        /\ evals \in [Evaluators -> EvalState] /\ v \in EvalState
        /\ cronUse \in [ids : SUBSET CronJobs, pings : Nat, edits : Nat, faults : Nat]
        /\ cronUse.faults \in Nat
    BY DEF CronInv, CronType
  <1>2. ASSUME NEW J \in SUBSET DOMAIN crons PROVE Rows(J) \subseteq [job : CronJobs, period : Nat \ {0}]
    BY <1>1 DEF Rows, CronRow
  <1>3. Asleep \in EvalState
    BY DEF Asleep, EvalState
  <1>4. ASSUME NEW row \in [job : CronJobs, period : Nat \ {0}] PROVE row # NoJob
    BY DEF NoJob
  \* Every step but a failure: the evaluator's new state, and what is kept.
  <1>5. ASSUME NEW to \in EvalState, evals' = [evals EXCEPT ![e] = to], CronType', cronUse'.faults = cronUse.faults,
               cronAlerts \subseteq cronAlerts', checkins \subseteq checkins', crons' = crons,
               \A j \in DOMAIN crons :
                 LET alert == Alert(j, "missed", crons[j].since)
                     failure == Checkin(j, "error", crons[j].since)
                 IN  (\/ v.at = "missed" /\ v.cur # NoJob /\ v.cur.job = j /\ v.now = crons[j].since
                      \/ alert \in v.alerted /\ failure \in checkins) /\ v.at # "idle" =>
                     \/ alert \in cronAlerts' /\ failure \in checkins'
                     \/ /\ to.at # "idle"
                        /\ \/ to.at = "missed" /\ to.cur # NoJob /\ to.cur.job = j /\ to.now = crons[j].since
                           \/ alert \in to.alerted /\ failure \in checkins'
        PROVE  CronInv'
    <2>1. evals'[e] = to /\ \A d \in Evaluators : d # e => evals'[d] = evals[d]
      BY <1>1, <1>5
    <2>2. crons' = crons /\ cronUse'.faults = cronUse.faults /\ CronType'
      BY <1>5
    <2>3. ASSUME NEW j \in DOMAIN crons, Told(j) PROVE Told(j)'
      <3> DEFINE alert == Alert(j, "missed", crons[j].since)
                 failure == Checkin(j, "error", crons[j].since)
      <3>1. CASE alert \in cronAlerts /\ failure \in checkins
        BY <1>5, <3>1 DEF Told
      <3>2. ASSUME NEW d \in Evaluators, evals[d].at # "idle",
                   \/ /\ evals[d].at = "missed" /\ evals[d].cur # NoJob
                      /\ evals[d].cur.job = j /\ evals[d].now = crons[j].since
                   \/ alert \in evals[d].alerted /\ failure \in checkins
            PROVE  Told(j)'
        <4>1. CASE d # e
          BY <1>5, <2>1, <3>2, <4>1 DEF Told
        <4>2. CASE d = e
          <5>1. \/ alert \in cronAlerts' /\ failure \in checkins'
                \/ /\ to.at # "idle"
                   /\ \/ to.at = "missed" /\ to.cur # NoJob /\ to.cur.job = j /\ to.now = crons[j].since
                      \/ alert \in to.alerted /\ failure \in checkins'
            BY <1>5, <3>2, <4>2
          <5>2. QED
            BY <1>5, <2>1, <5>1 DEF Told
        <4>3. QED
          BY <4>1, <4>2
      <3>3. QED
        BY <2>3, <3>1, <3>2 DEF Told
    <2>4. \A j \in DOMAIN crons : Told(j) => Told(j)'
      BY <2>3
    <2>5. cronUse.faults > 0 \/ \A j \in DOMAIN crons : crons[j].status = "missed" => Told(j)
      BY DEF CronInv
    <2>6. QED
      BY <2>2, <2>4, <2>5 DEF CronInv
  <1>6. ASSUME EvalStart(e) PROVE CronInv'
    <2> DEFINE to == [v EXCEPT !.at = "missed", !.now = now, !.todo = Rows(MissedQuery(now))]
    <2>1. v.at = "idle" /\ evals' = [evals EXCEPT ![e] = to] /\ UNCHANGED <<crons, checkins, pings, cronAlerts, cronUse>>
      BY <1>1, <1>6 DEF EvalStart
    <2>2. to \in EvalState
      BY <1>1, <1>2 DEF EvalState, MissedQuery
    <2> HIDE DEF to
    <2>3. CronType'
      BY <1>1, <2>1, <2>2 DEF CronInv, CronType
    <2>4. QED
      BY <1>5, <2>1, <2>2, <2>3
  <1>7. ASSUME EvalLog(e) PROVE CronInv'
    <2> DEFINE new == Alert(v.cur.job, MarkOf(e), v.now)
               to == [v EXCEPT !.cur = NoJob, !.alerted = @ \cup {new}]
    <2>1. /\ v.cur # NoJob /\ evals' = [evals EXCEPT ![e] = to]
          /\ checkins' = checkins \cup (IF v.cur.job \in DOMAIN crons THEN {Checkin(v.cur.job, "error", v.now)} ELSE {})
          /\ UNCHANGED <<crons, pings, cronAlerts, cronUse>>
      BY <1>1, <1>7 DEF EvalLog
    <2>2. new \in [job : CronJobs, kind : {"missed", "error"}, at : Nat]
      BY <1>1, <2>1 DEF EvalState, Alert, MarkOf
    <2>3. /\ to \in EvalState /\ to.at = v.at /\ v.alerted \subseteq to.alerted /\ new \in to.alerted
      BY <1>1, <2>2 DEF EvalState
    <2>4. v.at = "missed" => new = Alert(v.cur.job, "missed", v.now)
      BY DEF MarkOf
    <2> HIDE DEF to, new
    <2>5. CronType'
      BY <1>1, <2>1, <2>3 DEF CronInv, CronType
    <2>6. QED
      BY <1>5, <2>1, <2>3, <2>4, <2>5
  <1>8. ASSUME EvalTimeouts(e) PROVE CronInv'
    <2> DEFINE to == [v EXCEPT !.at = "timeout", !.todo = Rows(TimeoutQuery(v.now))]
    <2>1. /\ v.cur = NoJob /\ evals' = [evals EXCEPT ![e] = to]
          /\ UNCHANGED <<crons, checkins, pings, cronAlerts, cronUse>>
      BY <1>1, <1>8 DEF EvalTimeouts
    <2>2. to \in EvalState /\ to.at # "idle" /\ to.alerted = v.alerted
      BY <1>1, <1>2 DEF EvalState, TimeoutQuery
    <2> HIDE DEF to
    <2>3. CronType'
      BY <1>1, <2>1, <2>2 DEF CronInv, CronType
    <2>4. QED
      BY <1>5, <2>1, <2>2, <2>3
  <1>9. ASSUME EvalNotify(e) PROVE CronInv'
    <2>1. /\ v.cur = NoJob /\ evals' = [evals EXCEPT ![e] = Asleep] /\ cronAlerts' = cronAlerts \cup v.alerted
          /\ UNCHANGED <<crons, checkins, pings, cronUse>>
      BY <1>9 DEF EvalNotify
    <2>2. CronType'
      BY <1>1, <1>3, <2>1 DEF CronInv, CronType
    <2>3. QED
      BY <1>3, <1>5, <2>1, <2>2
  <1>10. ASSUME NEW row \in v.todo, EvalMark(e, row) PROVE CronInv'
    <2> DEFINE to == [v EXCEPT !.cur = row, !.todo = @ \ {row}]
               marked(i) == [crons[i] EXCEPT !.status = MarkOf(e), !.since = v.now,
                                             !.due = ComputeNextExpected(row.period, v.now)]
    <2>1. /\ v.cur = NoJob /\ evals' = [evals EXCEPT ![e] = to] /\ UNCHANGED <<checkins, pings, cronAlerts>>
          /\ \/ /\ crons' = [i \in DOMAIN crons |-> IF i # row.job THEN crons[i] ELSE marked(i)]
                /\ cronUse' = cronUse
             \/ CronFault /\ crons' = crons
      BY <1>1, <1>10 DEF EvalMark
    <2>2. row \in [job : CronJobs, period : Nat \ {0}] /\ row # NoJob
      BY <1>1, <1>4, <1>10 DEF EvalState
    <2>3. to \in EvalState /\ to.at = v.at /\ to.now = v.now /\ to.cur = row /\ to.alerted = v.alerted
      BY <1>1, <2>2 DEF EvalState
    <2> HIDE DEF to
    <2>4. CASE CronFault /\ crons' = crons
      <3>1. cronUse' = [cronUse EXCEPT !.faults = @ + 1]
        BY <2>4 DEF CronFault, Spend
      <3>2. cronUse'.faults > 0 /\ CronType'
        BY <1>1, <2>1, <2>3, <2>4, <3>1 DEF CronInv, CronType
      <3>3. QED
        BY <3>2 DEF CronInv
    <2>5. CASE /\ crons' = [i \in DOMAIN crons |-> IF i # row.job THEN crons[i] ELSE marked(i)]
               /\ cronUse' = cronUse
      <3>1. v.now \in Int /\ ComputeNextExpected(row.period, v.now) \in Int /\ MarkOf(e) \in CronStatuses
        BY <1>1, <2>2, NextExpectedType DEF EvalState, MarkOf, CronStatuses
      <3>2. \A i \in DOMAIN crons : marked(i) \in CronRow /\ marked(i).status = MarkOf(e) /\ marked(i).since = v.now
        BY <1>1, <3>1 DEF CronRow
      <3> HIDE DEF marked
      <3>3. DOMAIN crons' = DOMAIN crons /\ crons' \in [DOMAIN crons' -> CronRow]
        BY <1>1, <2>5, <3>2
      <3>4. CronType'
        BY <1>1, <2>1, <2>3, <2>5, <3>3 DEF CronInv, CronType
      <3>5. ASSUME NEW j \in DOMAIN crons', crons'[j].status = "missed", cronUse.faults = 0 PROVE Told(j)'
        <4>1. evals'[e] = to /\ \A d \in Evaluators : d # e => evals'[d] = evals[d]
          BY <1>1, <2>1
        <4>2. CASE j = row.job
          <5>1. crons'[j].since = v.now /\ MarkOf(e) = "missed"
            BY <2>5, <3>2, <3>3, <3>5, <4>2
          <5>2. v.at = "missed"
            BY <5>1 DEF MarkOf
          <5>3. evals'[e].at = "missed" /\ evals'[e].cur # NoJob /\ evals'[e].cur.job = j /\ evals'[e].now = crons'[j].since
            BY <2>2, <2>3, <4>1, <4>2, <5>1, <5>2
          <5>4. QED
            BY <5>3 DEF Told
        <4>3. CASE j # row.job
          <5>1. crons'[j] = crons[j] /\ j \in DOMAIN crons
            BY <2>5, <3>3, <4>3
          <5>2. Told(j)
            BY <3>5, <5>1 DEF CronInv
          <5> DEFINE alert == Alert(j, "missed", crons[j].since)
                     failure == Checkin(j, "error", crons[j].since)
          <5>3. CASE alert \in cronAlerts /\ failure \in checkins
            BY <2>1, <5>1, <5>3 DEF Told
          <5>4. ASSUME NEW d \in Evaluators, evals[d].at # "idle",
                       \/ /\ evals[d].at = "missed" /\ evals[d].cur # NoJob
                          /\ evals[d].cur.job = j /\ evals[d].now = crons[j].since
                       \/ alert \in evals[d].alerted /\ failure \in checkins
                PROVE  Told(j)'
            <6>1. CASE d # e
              BY <2>1, <4>1, <5>1, <5>4, <6>1 DEF Told
            <6>2. CASE d = e
              <7>1. alert \in evals'[e].alerted /\ failure \in checkins' /\ evals'[e].at # "idle"
                BY <2>1, <2>3, <4>1, <5>4, <6>2
              <7>2. QED
                BY <5>1, <7>1 DEF Told
            <6>3. QED
              BY <6>1, <6>2
          <5>5. QED
            BY <5>2, <5>3, <5>4 DEF Told
        <4>4. QED
          BY <4>2, <4>3
      <3>6. QED
        BY <1>1, <2>5, <3>4, <3>5 DEF CronInv
    <2>6. QED
      BY <2>1, <2>4, <2>5
  <1>11. ASSUME EvalFail(e) PROVE CronInv'
    <2>1. /\ evals' = [evals EXCEPT ![e] = Asleep] /\ cronUse' = [cronUse EXCEPT !.faults = @ + 1]
          /\ UNCHANGED <<crons, checkins, pings, cronAlerts>>
      BY <1>11 DEF EvalFail, CronFault, Spend
    <2>2. cronUse'.faults > 0 /\ CronType'
      BY <1>1, <1>3, <2>1 DEF CronInv, CronType
    <2>3. QED
      BY <2>2 DEF CronInv
  <1>12. QED
    BY <1>6, <1>7, <1>8, <1>9, <1>10, <1>11 DEF EvalStep

(* Every step of the scheduler, as the cron monitors see it.               *)
LEMMA CronNextInv == CronInv /\ [SchedNext]_schedVars => CronInv'
  <1> SUFFICES ASSUME CronInv, [SchedNext]_schedVars PROVE CronInv'
    OBVIOUS
  <1>1. CASE UNCHANGED cronVars /\ (now' = now \/ Tick)
    <2>1. now' \in Nat
      BY <1>1 DEF CronInv, CronType, Tick
    <2>2. CronType'
      BY <1>1, <2>1 DEF CronInv, CronType, cronVars
    <2>3. QED
      BY <1>1, <2>2 DEF CronInv, Told, cronVars
  <1>2. CASE CronNext /\ now' = now
    BY <1>2, CronEditInv, PingInv, EvalInv DEF CronNext
  <1>3. QED
    BY <1>1, <1>2 DEF SchedNext, schedVars, Crons, Uptime, Metrics

(* A monitor shown as missed was announced as missed by the pass that      *)
(* marked it, and its timeline has the failure, unless a pass is still     *)
(* under way; whatever check-ins, edits and other replicas do in between.  *)
THEOREM MissedMonitorsAnnounced == SchedSpec => []MissedIsAnnouncedUnlessFailed
  <1>1. CronInv => MissedIsAnnouncedUnlessFailed
    <2> SUFFICES ASSUME CronInv, ~(cronUse.faults > 0), NEW j \in DOMAIN crons, crons[j].status = "missed",
                        \A e \in Evaluators : evals[e].at = "idle"
                 PROVE  /\ Alert(j, "missed", crons[j].since) \in cronAlerts
                        /\ Checkin(j, "error", crons[j].since) \in Timeline(j)
      BY DEF MissedIsAnnouncedUnlessFailed, MissedIsAnnounced
    <2>1. Told(j)
      BY DEF CronInv
    <2>2. /\ Alert(j, "missed", crons[j].since) \in cronAlerts
          /\ Checkin(j, "error", crons[j].since) \in checkins
      BY <2>1 DEF Told
    <2>3. Checkin(j, "error", crons[j].since).job = j
      BY DEF Checkin
    <2>4. QED
      BY <2>2, <2>3 DEF Timeline
  <1>2. QED
    BY CronInitInv, CronNextInv, <1>1, PTL DEF SchedSpec

-----------------------------------------------------------------------------
(* Uptime monitors.                                                        *)

Snapshots == [site : Sites, prev : {"up", "down"}]
ProbeState == [at : {"idle", "next", "probe", "confirm", "retry", "insert", "update", "alert"},
               due : SUBSET Snapshots, left : Int, cur : Snapshots \cup {NoSite}, up : BOOLEAN, when : Int]

UpType ==
  /\ now \in Nat
  /\ monitors \in [DOMAIN monitors -> [status : {"up", "down"}, last : Int, every : Nat]]
  /\ DOMAIN monitors \subseteq Sites
  /\ upChecks \subseteq [id : Nat, site : Sites, at : Nat, up : BOOLEAN]
  /\ probes \in [Checkers -> ProbeState]
  /\ told \in [Sites -> {"up", "down"}]
  /\ upUse \in [outages : Nat, requests : Nat, visited : BOOLEAN, ids : SUBSET Sites, checks : Nat]

\* A snapshot of the round is what the monitor still shows.
Current(m) == m.site \in DOMAIN monitors => m.prev = monitors[m.site].status

\* What a runner carries while nobody else checks.
RoundIsCurrent(r) ==
  LET v == probes[r] IN
  /\ \A m \in v.due : Current(m)
  /\ \A m, n \in v.due : m.site = n.site => m = n
  /\ v.at \notin {"idle", "next"} => v.cur \in Snapshots /\ \A m \in v.due : m.site # v.cur.site
  /\ v.at \notin {"idle", "next", "alert"} => Current(v.cur)
  /\ v.at = "alert" => /\ v.cur.site \in DOMAIN monitors => monitors[v.cur.site].status = StatusOf(v.up)
                       /\ v.cur.site \in DOMAIN monitors => told[v.cur.site] = v.cur.prev

Undisturbed ==
  /\ \A v \in Visits : probes[v].at = "idle"
  /\ \A r \in Runners : RoundIsCurrent(r)
  /\ \A s \in DOMAIN monitors :
       \/ told[s] = monitors[s].status
       \/ \E r \in Runners : probes[r].at = "alert" /\ probes[r].cur.site = s

UpInv == UpType /\ (upUse.visited \/ Undisturbed)

LEMMA NoProbeType == NoProbe \in ProbeState /\ NotChecked \in Int
  BY HorizonIsTime, UptimeIsSized DEF NoProbe, ProbeState, NotChecked

LEMMA SnapshotType ==
    ASSUME UpType PROVE \A s \in DOMAIN monitors : Snapshot(s) \in Snapshots /\ Snapshot(s).site = s /\ Current(Snapshot(s))
  BY DEF UpType, Snapshot, Snapshots, Current

\* What one check does to the checker's own state.
LEMMA CheckMonitorProbe ==
    ASSUME UpType, NEW p \in Checkers, CheckMonitor(p)
    PROVE  /\ probes[p].at \notin {"idle", "next", "alert"}
           /\ \E to \in ProbeState : probes' = [probes EXCEPT ![p] = to]
  <1> DEFINE v == probes[p]
  <1>1. v \in ProbeState /\ probes \in [Checkers -> ProbeState] /\ now \in Nat
    BY DEF UpType
  <1>2. NoProbe \in ProbeState /\ Returned(p) \in ProbeState
    BY <1>1, NoProbeType DEF Returned, ProbeState
  <1>3. CASE ProbeAnswered(p)
    <2>1. [v EXCEPT !.at = "insert", !.up = TRUE] \in ProbeState
      BY <1>1 DEF ProbeState
    <2>2. probes' = [probes EXCEPT ![p] = [v EXCEPT !.at = "insert", !.up = TRUE]]
      BY <1>1, <1>3 DEF ProbeAnswered
    <2>3. QED
      BY <1>3, <2>1, <2>2 DEF ProbeAnswered
  <1>4. CASE ProbeFailed(p)
    <2>1. PICK slow \in {0, 1} : probes' = [probes EXCEPT ![p].left = v.left - slow,
                                                         ![p].at = IF v.at = "probe" THEN "confirm" ELSE "insert"]
      BY <1>4 DEF ProbeFailed
    <2> DEFINE to == [v EXCEPT !.left = v.left - slow, !.at = IF v.at = "probe" THEN "confirm" ELSE "insert"]
    <2>2. to \in ProbeState
      <3> DEFINE l == v.left - slow
                 a == IF v.at = "probe" THEN "confirm" ELSE "insert"
      <3>1. l \in Int
        BY <1>1 DEF ProbeState
      <3>2. a \in {"confirm", "insert"}
        OBVIOUS
      <3> HIDE DEF l, a, v
      <3>3. [v EXCEPT !.left = l, !.at = a] \in ProbeState
        BY <1>1, <3>1, <3>2 DEF ProbeState
      <3>4. QED
        BY <3>3 DEF l, a
    <2>3. probes' = [probes EXCEPT ![p] = to]
      BY <1>1, <2>1
    <2>4. QED
      BY <1>4, <2>2, <2>3 DEF ProbeFailed
  <1>5. CASE Confirm(p)
    <2>1. [v EXCEPT !.at = "retry"] \in ProbeState
      BY <1>1 DEF ProbeState
    <2>2. v.at = "confirm" /\ probes' = [probes EXCEPT ![p] = IF v.left > 0 THEN [v EXCEPT !.at = "retry"] ELSE Returned(p)]
      BY <1>1, <1>5 DEF Confirm
    <2>3. QED
      BY <1>2, <2>1, <2>2
  <1>6. CASE RecordInsert(p)
    <2>1. [v EXCEPT !.at = "update", !.when = now] \in ProbeState
      <3>1. now \in Int
        BY <1>1
      <3> HIDE DEF v
      <3>2. QED
        BY <1>1, <3>1 DEF ProbeState
    <2>2. \/ probes' = [probes EXCEPT ![p] = [v EXCEPT !.at = "update", !.when = now]]
          \/ probes' = [probes EXCEPT ![p] = Returned(p)]
      BY <1>1, <1>6 DEF RecordInsert
    <2>3. QED
      BY <1>2, <1>6, <2>1, <2>2 DEF RecordInsert
  <1>7. CASE RecordUpdate(p)
    <2>1. [v EXCEPT !.at = "alert"] \in ProbeState
      BY <1>1 DEF ProbeState
    <2>2. v.at = "update" /\ probes' = [probes EXCEPT ![p] = IF p \in Runners THEN [v EXCEPT !.at = "alert"] ELSE NoProbe]
      BY <1>1, <1>7 DEF RecordUpdate
    <2>3. QED
      BY <1>2, <2>1, <2>2
  <1>8. QED
    BY <1>3, <1>4, <1>5, <1>6, <1>7 DEF CheckMonitor

LEMMA UpInitInv == SchedInit => UpInv
  <1> SUFFICES ASSUME SchedInit PROVE UpInv
    OBVIOUS
  <1>1. /\ now = 0 /\ monitors \in [Watched -> {NewMonitor(every) : every \in Intervals}] /\ upChecks = {}
        /\ probes = [p \in Checkers |-> NoProbe] /\ told = [s \in Sites |-> "up"]
        /\ upUse = [outages |-> 0, requests |-> 0, visited |-> FALSE, ids |-> Watched, checks |-> 0]
    BY DEF SchedInit, UptimeInit
  <1>2. \A every \in Intervals : /\ NewMonitor(every) \in [status : {"up", "down"}, last : Int, every : Nat]
                                /\ NewMonitor(every).status = "up"
    BY NoProbeType, UptimeIsSized DEF NewMonitor
  <1>3. /\ DOMAIN monitors = Watched /\ monitors \in [DOMAIN monitors -> [status : {"up", "down"}, last : Int, every : Nat]]
        /\ \A s \in DOMAIN monitors : monitors[s].status = "up"
    BY <1>1, <1>2
  <1>4. UpType
    BY <1>1, <1>3, NoProbeType, UptimeIsSized DEF UpType
  <1>5. \A p \in Checkers : probes[p].at = "idle" /\ probes[p].due = {}
    BY <1>1 DEF NoProbe
  <1>6. \A s \in DOMAIN monitors : told[s] = "up"
    BY <1>1, <1>3, UptimeIsSized
  <1>7. QED
    BY <1>3, <1>4, <1>5, <1>6 DEF UpInv, Undisturbed, RoundIsCurrent, Checkers

LEMMA UpTypeInv == UpType /\ [SchedNext]_schedVars => UpType'
  <1> SUFFICES ASSUME UpType, [SchedNext]_schedVars PROVE UpType'
    OBVIOUS
  <1> DEFINE Row == [status : {"up", "down"}, last : Int, every : Nat]
  <1>1. /\ now \in Nat /\ monitors \in [DOMAIN monitors -> Row] /\ DOMAIN monitors \subseteq Sites
        /\ upChecks \subseteq [id : Nat, site : Sites, at : Nat, up : BOOLEAN]
        /\ probes \in [Checkers -> ProbeState] /\ told \in [Sites -> {"up", "down"}]
        /\ upUse \in [outages : Nat, requests : Nat, visited : BOOLEAN, ids : SUBSET Sites, checks : Nat]
    BY DEF UpType
  <1>2. CASE UNCHANGED upVars /\ (now' = now \/ Tick)
    <2>1. now' \in Nat
      BY <1>1, <1>2 DEF Tick
    <2>2. QED
      BY <1>1, <1>2, <2>1 DEF UpType, upVars
  <1>3. ASSUME now' = now, NEW s \in Sites, Break(s) \/ Recover(s) PROVE UpType'
    <2>1. UNCHANGED <<monitors, upChecks, probes, told>>
      BY <1>3 DEF Break, Recover
    <2>2. upUse' \in [outages : Nat, requests : Nat, visited : BOOLEAN, ids : SUBSET Sites, checks : Nat]
      BY <1>1, <1>3 DEF Break, Recover, UpSpend
    <2>3. QED
      BY <1>1, <1>3, <2>1, <2>2 DEF UpType
  <1>4. ASSUME NEW v \in Visits, NEW s \in Sites, NEW prev \in {"up", "down"}, VisitStarts(v, s, prev)
        PROVE  /\ probes' \in [Checkers -> ProbeState]
               /\ upUse' \in [outages : Nat, requests : Nat, visited : BOOLEAN, ids : SUBSET Sites, checks : Nat]
    <2> DEFINE m == [site |-> s, prev |-> prev]
               to == [probes[v] EXCEPT !.at = "probe", !.cur = m]
    <2>1. m \in Snapshots /\ v \in Checkers
      BY DEF Snapshots, Checkers
    <2>2. to \in ProbeState
      <3> HIDE DEF m
      <3>1. probes[v] \in ProbeState
        BY <1>1, <2>1
      <3>2. QED
        BY <2>1, <3>1 DEF ProbeState
    <2>3. probes' = [probes EXCEPT ![v] = to]
      BY <1>1, <1>4, <2>1 DEF VisitStarts
    <2>4. upUse' = [upUse EXCEPT !.requests = @ + 1, !.visited = TRUE, !.ids = @ \cup {s}]
      BY <1>4 DEF VisitStarts
    <2>5. upUse.requests + 1 \in Nat /\ upUse.ids \cup {s} \in SUBSET Sites
      BY <1>1
    <2> HIDE DEF to
    <2>6. probes' \in [Checkers -> ProbeState]
      BY <1>1, <2>2, <2>3
    <2>7. upUse' \in [outages : Nat, requests : Nat, visited : BOOLEAN, ids : SUBSET Sites, checks : Nat]
      BY <1>1, <2>4, <2>5
    <2>8. QED
      BY <2>6, <2>7
  <1>5. ASSUME now' = now, NEW v \in Visits, NEW s \in Sites, NEW every \in Intervals, CreateUptimeMonitor(v, s, every)
        PROVE  UpType'
    <2>1. NewMonitor(every) \in Row
      BY NoProbeType, UptimeIsSized DEF NewMonitor
    <2>2. /\ monitors' = [i \in DOMAIN monitors \cup {s} |-> IF i = s THEN NewMonitor(every) ELSE monitors[i]]
          /\ UNCHANGED <<upChecks, answering, told>> /\ VisitStarts(v, s, "up")
      BY <1>5 DEF CreateUptimeMonitor
    <2>3. monitors' \in [DOMAIN monitors' -> Row] /\ DOMAIN monitors' \subseteq Sites
      BY <1>1, <2>1, <2>2
    <2>4. QED
      BY <1>1, <1>4, <1>5, <2>2, <2>3 DEF UpType
  <1>6. ASSUME now' = now, NEW s \in DOMAIN monitors, NEW v \in Visits, TriggerUptimeCheck(v, s)
        PROVE  UpType'
    <2>1. monitors[s].status \in {"up", "down"} /\ s \in Sites
      BY <1>1
    <2>2. VisitStarts(v, s, monitors[s].status) /\ UNCHANGED <<monitors, upChecks, answering, told>>
      BY <1>6 DEF TriggerUptimeCheck
    <2>3. QED
      BY <1>1, <1>4, <1>6, <2>1, <2>2 DEF UpType
  <1>7. ASSUME now' = now, NEW s \in DOMAIN monitors, (\E every \in Intervals : UpdateUptimeMonitor(s, every)) \/ DeleteUptimeMonitor(s)
        PROVE  UpType'
    <2>1. UNCHANGED <<probes, told>> /\ upUse' = [upUse EXCEPT !.requests = @ + 1]
      BY <1>7 DEF UpdateUptimeMonitor, DeleteUptimeMonitor, UpSpend
    <2>2. /\ monitors' \in [DOMAIN monitors' -> Row] /\ DOMAIN monitors' \subseteq Sites /\ upChecks' \subseteq upChecks
      <3>1. CASE DeleteUptimeMonitor(s)
        BY <1>1, <3>1 DEF DeleteUptimeMonitor
      <3>2. ASSUME NEW every \in Intervals, UpdateUptimeMonitor(s, every)
            PROVE  monitors' \in [DOMAIN monitors' -> Row] /\ DOMAIN monitors' \subseteq Sites /\ upChecks' = upChecks
        <4>1. [monitors[s] EXCEPT !.every = every] \in Row
          BY <1>1, UptimeIsSized
        <4>2. monitors' = [monitors EXCEPT ![s] = [monitors[s] EXCEPT !.every = every]] /\ upChecks' = upChecks
          BY <3>2 DEF UpdateUptimeMonitor
        <4>3. QED
          BY <1>1, <4>1, <4>2
      <3>3. QED
        BY <1>7, <3>1, <3>2
    <2>3. upUse' \in [outages : Nat, requests : Nat, visited : BOOLEAN, ids : SUBSET Sites, checks : Nat]
      BY <1>1, <2>1
    <2>4. upChecks' \subseteq [id : Nat, site : Sites, at : Nat, up : BOOLEAN]
      BY <1>1, <2>2
    <2>5. QED
      BY <1>1, <1>7, <2>1, <2>2, <2>3, <2>4 DEF UpType
  <1>8. ASSUME now' = now, NEW p \in Checkers, CheckMonitor(p) PROVE UpType'
    <2>1. probes' \in [Checkers -> ProbeState] /\ probes[p] \in ProbeState
      BY <1>1, <1>8, CheckMonitorProbe
    <2>2. told' = told
      BY <1>8 DEF CheckMonitor, ProbeAnswered, ProbeFailed, Confirm, RecordInsert, RecordUpdate
    <2>3. monitors' \in [DOMAIN monitors' -> Row] /\ DOMAIN monitors' \subseteq Sites
      <3>1. CASE RecordUpdate(p)
        <4>1. StatusOf(probes[p].up) \in {"up", "down"} /\ probes[p].when \in Int
          BY <2>1 DEF StatusOf, ProbeState
        <4>2. monitors' = [s \in DOMAIN monitors |->
                             IF s # probes[p].cur.site THEN monitors[s]
                             ELSE [monitors[s] EXCEPT !.status = StatusOf(probes[p].up), !.last = probes[p].when]]
          BY <3>1 DEF RecordUpdate
        <4>3. ASSUME NEW s \in DOMAIN monitors
              PROVE  [monitors[s] EXCEPT !.status = StatusOf(probes[p].up), !.last = probes[p].when] \in Row
          <5>1. ASSUME NEW row \in Row, NEW status \in {"up", "down"}, NEW last \in Int
                PROVE  [row EXCEPT !.status = status, !.last = last] \in Row
            OBVIOUS
          <5> HIDE DEF Row
          <5>2. QED
            BY <1>1, <4>1, <5>1
        <4>4. QED
          BY <1>1, <4>2, <4>3
      <3>2. CASE ~RecordUpdate(p)
        <4>1. monitors' = monitors
          BY <1>8, <3>2 DEF CheckMonitor, ProbeAnswered, ProbeFailed, Confirm, RecordInsert
        <4>2. QED
          BY <1>1, <4>1
      <3>3. QED
        BY <3>1, <3>2
    <2>4. /\ upChecks' \subseteq [id : Nat, site : Sites, at : Nat, up : BOOLEAN]
          /\ upUse' \in [outages : Nat, requests : Nat, visited : BOOLEAN, ids : SUBSET Sites, checks : Nat]
      <3>1. CASE RecordInsert(p) /\ probes[p].cur.site \in DOMAIN monitors
        <4> DEFINE id == upUse.checks + 1
                   row == [id |-> id, site |-> probes[p].cur.site, at |-> now, up |-> probes[p].up]
        <4>1. id \in Nat /\ row \in [id : Nat, site : Sites, at : Nat, up : BOOLEAN]
          BY <1>1, <2>1, <3>1 DEF ProbeState
        <4>2. upChecks' = upChecks \cup {row} /\ upUse' = [upUse EXCEPT !.checks = id]
          BY <3>1 DEF RecordInsert
        <4> HIDE DEF row, id
        <4>3. QED
          BY <1>1, <4>1, <4>2
      <3>2. CASE ~(RecordInsert(p) /\ probes[p].cur.site \in DOMAIN monitors)
        <4>1. upChecks' = upChecks /\ upUse' = upUse
          BY <1>8, <3>2 DEF CheckMonitor, ProbeAnswered, ProbeFailed, Confirm, RecordInsert, RecordUpdate
        <4>2. QED
          BY <1>1, <4>1
      <3>3. QED
        BY <3>1, <3>2
    <2>5. QED
      BY <1>1, <1>8, <2>1, <2>2, <2>3, <2>4 DEF UpType
  <1>9. ASSUME now' = now, NEW r \in Runners, RunnerStep(r), ~CheckMonitor(r) PROVE UpType'
    <2> DEFINE v == probes[r]
    <2>1. r \in Checkers /\ v \in ProbeState /\ NoProbe \in ProbeState
      BY <1>1, NoProbeType DEF Checkers
    <2>2. Returned(r) \in ProbeState
      BY <1>9, <2>1 DEF Returned, ProbeState
    <2>3. told' \in [Sites -> {"up", "down"}] /\ UNCHANGED <<monitors, upChecks, upUse>>
      BY <1>1, <1>9 DEF RunnerStep, RoundStart, NextMonitor, RoundEnd, AlertChange, StatusOf
    <2>4. probes' \in [Checkers -> ProbeState]
      <3>1. CASE RoundStart(r)
        <4>1. MonitorsDueForCheck(now) \subseteq Snapshots
          BY SnapshotType DEF MonitorsDueForCheck
        <4>2. probes' = [probes EXCEPT ![r] = [v EXCEPT !.at = "next", !.due = MonitorsDueForCheck(now)]]
          BY <1>1, <2>1, <3>1 DEF RoundStart
        <4>3. [v EXCEPT !.at = "next", !.due = MonitorsDueForCheck(now)] \in ProbeState
          <5> HIDE DEF v
          <5>1. QED
            BY <2>1, <4>1 DEF ProbeState
        <4>4. QED
          BY <1>1, <4>2, <4>3
      <3>2. ASSUME NEW m \in v.due, NextMonitor(r, m) PROVE probes' \in [Checkers -> ProbeState]
        <4>1. m \in Snapshots
          BY <2>1 DEF ProbeState
        <4>2. probes' = [probes EXCEPT ![r] = [v EXCEPT !.at = "probe", !.cur = m, !.due = @ \ {m}]]
          BY <1>1, <2>1, <3>2 DEF NextMonitor
        <4>3. [v EXCEPT !.at = "probe", !.cur = m, !.due = @ \ {m}] \in ProbeState
          <5> HIDE DEF v
          <5>1. QED
            BY <2>1, <4>1 DEF ProbeState
        <4>4. QED
          BY <1>1, <4>2, <4>3
      <3>3. CASE RoundEnd(r) \/ AlertChange(r)
        BY <1>1, <2>1, <2>2, <3>3 DEF RoundEnd, AlertChange
      <3>4. QED
        BY <1>9, <3>1, <3>2, <3>3 DEF RunnerStep
    <2>5. QED
      BY <1>1, <1>9, <2>3, <2>4 DEF UpType
  <1>10. CASE UptimeNext /\ now' = now
    BY <1>3, <1>5, <1>6, <1>7, <1>8, <1>9, <1>10 DEF UptimeNext, UptimeRequest, Checkers
  <1>11. QED
    BY <1>2, <1>10 DEF SchedNext, schedVars, Crons, Uptime, Metrics

\* Both days of a strip lie within its window.
LEMMA DayBounds ==
    ASSUME NEW t \in Nat, NEW d \in Nat \ {0}
    PROVE  t \div d \in Nat /\ (t \div d) * d <= t /\ t < (t \div d) * d + d
  OBVIOUS

OneRunner == \A r, q \in Runners : r = q

\* A runner at work changes its own state only, and the others are idle.
LEMMA RunnerKeeps ==
    ASSUME UpType, UpType', OneRunner, Undisturbed, NEW r \in Runners,
           RoundIsCurrent(r)', \A v \in Visits : probes'[v] = probes[v],
           \A s \in DOMAIN monitors' : told'[s] = monitors'[s].status \/ (probes'[r].at = "alert" /\ probes'[r].cur.site = s)
    PROVE  Undisturbed'
  BY DEF Undisturbed, OneRunner

LEMMA CheckKeepsRound ==
    ASSUME UpType, UpType', OneRunner, Undisturbed, NEW r \in Runners, CheckMonitor(r)
    PROVE  Undisturbed'
  <1> DEFINE v == probes[r]
  <1>1. r \in Checkers /\ v \in ProbeState /\ probes \in [Checkers -> ProbeState] /\ r \notin Visits
    BY UptimeIsSized DEF UpType, Checkers
  <1>2. v.at \notin {"idle", "next", "alert"} /\ \A p \in Checkers : p # r => probes'[p] = probes[p]
    BY <1>1, CheckMonitorProbe
  <1>3. /\ v.cur \in Snapshots /\ Current(v.cur) /\ \A m \in v.due : Current(m) /\ m.site # v.cur.site
        /\ \A m, n \in v.due : m.site = n.site => m = n
    BY <1>2 DEF Undisturbed, RoundIsCurrent
  <1>4. \A s \in DOMAIN monitors : told[s] = monitors[s].status
    <2>1. \A q \in Runners : probes[q].at # "alert"
      BY <1>2 DEF OneRunner
    <2>2. QED
      BY <2>1 DEF Undisturbed
  <1>5. \A w \in Visits : probes'[w] = probes[w]
    BY <1>1, <1>2 DEF Checkers
  <1>6. CASE RecordUpdate(r)
    <2>1. /\ v.at = "update" /\ probes' = [probes EXCEPT ![r] = [v EXCEPT !.at = "alert"]] /\ told' = told
          /\ monitors' = [s \in DOMAIN monitors |->
                            IF s # v.cur.site THEN monitors[s]
                            ELSE [monitors[s] EXCEPT !.status = StatusOf(v.up), !.last = v.when]]
      BY <1>1, <1>6 DEF RecordUpdate
    <2>2. probes'[r].at = "alert" /\ probes'[r].cur = v.cur /\ probes'[r].up = v.up /\ probes'[r].due = v.due
      BY <1>1, <2>1 DEF ProbeState
    <2>3. DOMAIN monitors' = DOMAIN monitors /\ \A s \in DOMAIN monitors : s # v.cur.site => monitors'[s] = monitors[s]
      BY <2>1
    <2>4. ASSUME v.cur.site \in DOMAIN monitors PROVE monitors'[v.cur.site].status = StatusOf(v.up)
      <3>1. monitors'[v.cur.site] = [monitors[v.cur.site] EXCEPT !.status = StatusOf(v.up), !.last = v.when]
        BY <2>1, <2>4
      <3>2. monitors[v.cur.site] \in [status : {"up", "down"}, last : Int, every : Nat]
        BY <2>4 DEF UpType
      <3>3. QED
        BY <3>1, <3>2
    <2>5. v.cur.site \in DOMAIN monitors => told'[v.cur.site] = v.cur.prev
      BY <1>3, <1>4, <2>1 DEF Current
    <2>6. \A m \in v.due : Current(m)'
      BY <1>3, <2>3 DEF Current
    <2>7. RoundIsCurrent(r)'
      BY <1>3, <2>2, <2>3, <2>4, <2>5, <2>6 DEF RoundIsCurrent
    <2>8. \A s \in DOMAIN monitors' : told'[s] = monitors'[s].status \/ (probes'[r].at = "alert" /\ probes'[r].cur.site = s)
      BY <1>4, <2>1, <2>2, <2>3
    <2>9. QED
      BY <1>5, <2>7, <2>8, RunnerKeeps
  <1>7. CASE ~RecordUpdate(r)
    <2>1. monitors' = monitors /\ told' = told
      BY <1>7 DEF CheckMonitor, ProbeAnswered, ProbeFailed, Confirm, RecordInsert
    <2>2. /\ probes'[r].due = v.due /\ probes'[r].at # "alert" /\ (probes'[r].at \notin {"idle", "next"} => probes'[r].cur = v.cur)
      <3>1. Returned(r).at = "next" /\ Returned(r).due = v.due
        BY DEF Returned, NoProbe
      <3>2. CASE ProbeAnswered(r)
        BY <1>1, <3>2 DEF ProbeAnswered, ProbeState
      <3>3. CASE ProbeFailed(r)
        BY <1>1, <3>3 DEF ProbeFailed, ProbeState
      <3>4. CASE Confirm(r)
        BY <1>1, <3>1, <3>4 DEF Confirm, ProbeState
      <3>5. CASE RecordInsert(r)
        BY <1>1, <3>1, <3>5 DEF RecordInsert, ProbeState
      <3>6. QED
        BY <1>7, <3>2, <3>3, <3>4, <3>5 DEF CheckMonitor
    <2>3. \A m \in Snapshots : Current(m) => Current(m)'
      BY <2>1 DEF Current
    <2>4. v.due \subseteq Snapshots
      BY <1>1 DEF ProbeState
    <2>5. RoundIsCurrent(r)'
      BY <1>3, <2>1, <2>2, <2>3, <2>4 DEF RoundIsCurrent
    <2>6. \A s \in DOMAIN monitors' : told'[s] = monitors'[s].status \/ (probes'[r].at = "alert" /\ probes'[r].cur.site = s)
      BY <1>4, <2>1
    <2>7. QED
      BY <1>5, <2>5, <2>6, RunnerKeeps
  <1>8. QED
    BY <1>6, <1>7

LEMMA RunnerKeepsRound ==
    ASSUME UpType, UpType', OneRunner, Undisturbed, NEW r \in Runners, RunnerStep(r), ~CheckMonitor(r)
    PROVE  Undisturbed'
  <1> DEFINE v == probes[r]
  <1>1. r \in Checkers /\ v \in ProbeState /\ probes \in [Checkers -> ProbeState] /\ r \notin Visits
    BY UptimeIsSized DEF UpType, Checkers
  <1>2. monitors' = monitors /\ v.due \subseteq Snapshots
    BY <1>1 DEF RunnerStep, RoundStart, NextMonitor, RoundEnd, AlertChange, ProbeState
  <1>3. \A m : Current(m) => Current(m)'
    BY <1>2 DEF Current
  <1>4. RoundIsCurrent(r)
    BY DEF Undisturbed
  <1>5. \A s \in DOMAIN monitors : told[s] = monitors[s].status \/ (v.at = "alert" /\ v.cur.site = s)
    BY DEF Undisturbed, OneRunner
  <1>6. CASE RoundStart(r)
    <2>1. /\ v.at = "idle" /\ told' = told
          /\ probes' = [probes EXCEPT ![r] = [v EXCEPT !.at = "next", !.due = MonitorsDueForCheck(now)]]
      BY <1>1, <1>6 DEF RoundStart
    <2>2. probes'[r].at = "next" /\ probes'[r].due = MonitorsDueForCheck(now)
      BY <1>1, <2>1 DEF ProbeState
    <2>3. \A m \in MonitorsDueForCheck(now) : m.site \in DOMAIN monitors /\ m = Snapshot(m.site) /\ Current(m)
      BY SnapshotType DEF MonitorsDueForCheck
    <2>4. RoundIsCurrent(r)'
      BY <1>3, <2>2, <2>3 DEF RoundIsCurrent
    <2>5. \A w \in Visits : probes'[w] = probes[w]
      BY <1>1, <2>1 DEF Checkers
    <2>6. QED
      BY <1>2, <1>5, <2>1, <2>4, <2>5, RunnerKeeps
  <1>7. ASSUME NEW m \in v.due, NextMonitor(r, m) PROVE Undisturbed'
    <2>1. /\ v.at = "next" /\ told' = told
          /\ probes' = [probes EXCEPT ![r] = [v EXCEPT !.at = "probe", !.cur = m, !.due = @ \ {m}]]
      BY <1>1, <1>7 DEF NextMonitor
    <2>2. probes'[r].at = "probe" /\ probes'[r].cur = m /\ probes'[r].due = v.due \ {m}
      BY <1>1, <2>1 DEF ProbeState
    <2>3. RoundIsCurrent(r)'
      BY <1>2, <1>3, <1>4, <1>7, <2>2 DEF RoundIsCurrent
    <2>4. \A w \in Visits : probes'[w] = probes[w]
      BY <1>1, <2>1 DEF Checkers
    <2>5. QED
      BY <1>2, <1>5, <2>1, <2>3, <2>4, RunnerKeeps
  <1>8. CASE RoundEnd(r)
    <2>1. v.at = "next" /\ told' = told /\ probes' = [probes EXCEPT ![r] = NoProbe]
      BY <1>8 DEF RoundEnd
    <2>2. probes'[r].at = "idle" /\ probes'[r].due = {}
      BY <1>1, <2>1 DEF NoProbe
    <2>3. RoundIsCurrent(r)'
      BY <2>2 DEF RoundIsCurrent
    <2>4. \A w \in Visits : probes'[w] = probes[w]
      BY <1>1, <2>1 DEF Checkers
    <2>5. QED
      BY <1>2, <1>5, <2>1, <2>3, <2>4, RunnerKeeps
  <1>9. CASE AlertChange(r)
    <2>1. /\ v.at = "alert" /\ probes' = [probes EXCEPT ![r] = Returned(r)]
          /\ told' = IF StatusOf(v.up) # v.cur.prev THEN [told EXCEPT ![v.cur.site] = StatusOf(v.up)] ELSE told
      BY <1>9 DEF AlertChange
    <2>2. probes'[r].at = "next" /\ probes'[r].due = v.due
      BY <1>1, <2>1 DEF Returned, NoProbe
    <2>3. RoundIsCurrent(r)'
      BY <1>2, <1>3, <1>4, <2>2 DEF RoundIsCurrent
    <2>4. \A w \in Visits : probes'[w] = probes[w]
      BY <1>1, <2>1 DEF Checkers
    <2>5. \A s \in DOMAIN monitors' : told'[s] = monitors'[s].status
      <3>1. /\ v.cur.site \in DOMAIN monitors => monitors[v.cur.site].status = StatusOf(v.up)
            /\ v.cur.site \in DOMAIN monitors => told[v.cur.site] = v.cur.prev
        BY <1>4, <2>1 DEF RoundIsCurrent
      <3>2. told \in [Sites -> {"up", "down"}] /\ DOMAIN monitors \subseteq Sites
        BY DEF UpType
      <3>3. QED
        BY <1>2, <1>5, <2>1, <3>1, <3>2
    <2>6. QED
      BY <2>3, <2>4, <2>5, RunnerKeeps
  <1>10. QED
    BY <1>6, <1>7, <1>8, <1>9 DEF RunnerStep

LEMMA UpNextInv == OneRunner /\ UpInv /\ [SchedNext]_schedVars => UpInv'
  <1> SUFFICES ASSUME OneRunner, UpInv, [SchedNext]_schedVars PROVE UpInv'
    OBVIOUS
  <1>1. UpType /\ UpType'
    BY UpTypeInv DEF UpInv
  <1>2. CASE UNCHANGED upVars
    <2>1. \A m : Current(m) => Current(m)'
      BY <1>2 DEF Current, upVars
    <2>2. \A r \in Runners : RoundIsCurrent(r) => RoundIsCurrent(r)'
      BY <1>2, <2>1 DEF RoundIsCurrent, upVars
    <2>3. QED
      BY <1>1, <1>2, <2>2 DEF UpInv, Undisturbed, upVars
  <1>3. ASSUME NEW v \in Visits, NEW s \in Sites,
               (\E every \in Intervals : CreateUptimeMonitor(v, s, every)) \/ TriggerUptimeCheck(v, s)
        PROVE  upUse'.visited
    BY <1>1, <1>3 DEF CreateUptimeMonitor, TriggerUptimeCheck, VisitStarts, UpType
  <1>4. ASSUME upUse.visited, UptimeNext PROVE upUse'.visited
    <2>1. \/ upUse' = upUse
          \/ \E kind \in {"outages", "requests"} : upUse' = [upUse EXCEPT ![kind] = @ + 1]
          \/ upUse' = [upUse EXCEPT !.checks = upUse.checks + 1]
          \/ upUse'.visited
      <3>1. ASSUME NEW s \in Sites, Break(s) \/ Recover(s)
            PROVE  upUse' = upUse \/ upUse' = [upUse EXCEPT !["outages"] = @ + 1]
        BY <3>1 DEF Break, Recover, UpSpend
      <3>2. ASSUME NEW s \in DOMAIN monitors, (\E every \in Intervals : UpdateUptimeMonitor(s, every)) \/ DeleteUptimeMonitor(s)
            PROVE  upUse' = [upUse EXCEPT !["requests"] = @ + 1]
        BY <3>2 DEF UpdateUptimeMonitor, DeleteUptimeMonitor, UpSpend
      <3>3. ASSUME NEW p \in Checkers, CheckMonitor(p)
            PROVE  upUse' = upUse \/ upUse' = [upUse EXCEPT !.checks = upUse.checks + 1]
        BY <3>3 DEF CheckMonitor, ProbeAnswered, ProbeFailed, Confirm, RecordInsert, RecordUpdate
      <3>4. ASSUME NEW r \in Runners, RunnerStep(r), ~CheckMonitor(r) PROVE upUse' = upUse
        BY <3>4 DEF RunnerStep, RoundStart, NextMonitor, RoundEnd, AlertChange
      <3>5. DOMAIN monitors \subseteq Sites
        BY <1>1 DEF UpType
      <3>6. QED
        BY <1>3, <1>4, <3>1, <3>2, <3>3, <3>4, <3>5 DEF UptimeNext, UptimeRequest, Checkers
    <2>2. QED
      BY <1>1, <1>4, <2>1 DEF UpType
  <1>5. ASSUME UptimeNext, Undisturbed, ~upUse'.visited PROVE Undisturbed'
    <2>1. ASSUME NEW s \in Sites, Break(s) \/ Recover(s) PROVE Undisturbed'
      <3>1. UNCHANGED <<monitors, probes, told>>
        BY <2>1 DEF Break, Recover
      <3>2. \A m : Current(m) => Current(m)'
        BY <3>1 DEF Current
      <3>3. \A r \in Runners : RoundIsCurrent(r) => RoundIsCurrent(r)'
        BY <3>1, <3>2 DEF RoundIsCurrent
      <3>4. QED
        BY <1>5, <3>1, <3>3 DEF Undisturbed
    <2>2. ASSUME NEW s \in DOMAIN monitors, (\E every \in Intervals : UpdateUptimeMonitor(s, every)) \/ DeleteUptimeMonitor(s)
          PROVE  Undisturbed'
      <3>1. probes' = probes /\ told' = told /\ DOMAIN monitors' \subseteq DOMAIN monitors
        BY <1>1, <2>2 DEF UpdateUptimeMonitor, DeleteUptimeMonitor, UpType
      <3>2. \A i \in DOMAIN monitors' : monitors'[i].status = monitors[i].status
        <4>1. CASE DeleteUptimeMonitor(s)
          BY <4>1 DEF DeleteUptimeMonitor
        <4>2. ASSUME NEW every \in Intervals, UpdateUptimeMonitor(s, every)
              PROVE  \A i \in DOMAIN monitors' : monitors'[i].status = monitors[i].status
          BY <1>1, <4>2 DEF UpdateUptimeMonitor, UpType
        <4>3. QED
          BY <2>2, <4>1, <4>2
      <3>3. \A m : Current(m) => Current(m)'
        BY <3>1, <3>2 DEF Current
      <3>4. \A r \in Runners : RoundIsCurrent(r) => RoundIsCurrent(r)'
        BY <3>1, <3>2, <3>3 DEF RoundIsCurrent
      <3>5. QED
        BY <1>5, <3>1, <3>2, <3>4 DEF Undisturbed
    <2>3. ASSUME NEW v \in Visits, CheckMonitor(v) PROVE FALSE
      BY <1>1, <1>5, <2>3, CheckMonitorProbe DEF Undisturbed, Checkers
    <2>4. DOMAIN monitors \subseteq Sites
      BY <1>1 DEF UpType
    <2>5. QED
      BY <1>1, <1>3, <1>5, <2>1, <2>2, <2>3, <2>4, CheckKeepsRound, RunnerKeepsRound DEF UptimeNext, UptimeRequest
  <1>6. CASE UptimeNext
    <2>1. upUse.visited \/ Undisturbed
      BY DEF UpInv
    <2>2. QED
      BY <1>1, <1>4, <1>5, <1>6, <2>1 DEF UpInv
  <1>7. QED
    BY <1>2, <1>6 DEF SchedNext, schedVars, Crons, Uptime, Metrics

(* While the one runner is the only checker, no outage and no recovery     *)
(* goes by unannounced: whatever users edit and delete during a round, and *)
(* wherever the round's deadline cuts it off.                              *)
THEOREM RunnerAnnouncesAll == ASSUME OneRunner PROVE SchedSpec => []RunnerTellsAll
  <1>1. UpInv => RunnerTellsAll
    BY DEF UpInv, Undisturbed, RunnerTellsAll, ToldIsShown, Checkers
  <1>2. UpInv /\ [SchedNext]_schedVars => UpInv'
    BY UpNextInv
  <1>3. QED
    BY UpInitInv, <1>1, <1>2, PTL DEF SchedSpec

(* The strip shows every check of its days, the first day's too, whatever  *)
(* the length of a day and the hour at which it is asked for.              *)
THEOREM StripShowsEveryCheck == SchedSpec => []StripIsComplete
  <1>1. UpType => StripIsComplete
    <2> SUFFICES ASSUME UpType, NEW s \in DOMAIN monitors, NEW days \in 1 .. 2, NEW k \in 1 .. days
                 PROVE  UptimeHistory(s, days)[k].total =
                          Cardinality({c \in upChecks : c.site = s /\ c.at \div DayLength = (now \div DayLength) + k - days})
      BY DEF StripIsComplete
    <2> DEFINE d == (now \div DayLength) + k - days
    <2>1. UptimeHistory(s, days)[k].total = Cardinality(Grouped(s, d, days))
      BY DEF UptimeHistory
    <2>2. ASSUME NEW c \in upChecks, c.at \div DayLength = d PROVE c.at + days * DayLength >= now
      <3> DEFINE a == c.at \div DayLength
                 n == now \div DayLength
      <3>1. DayLength \in Nat \ {0} /\ c.at \in Nat /\ now \in Nat
        BY UptimeIsSized DEF UpType
      <3>2. /\ a \in Nat /\ a * DayLength <= c.at
            /\ n \in Nat /\ now < n * DayLength + DayLength
        BY <3>1, DayBounds
      <3>3. a = n + k - days
        BY <2>2
      <3> HIDE DEF a, n
      <3>4. CASE days = 2 /\ k = 1
        <4>1. a = n - 1
          BY <3>2, <3>3, <3>4
        <4>2. (n - 1) * DayLength = n * DayLength - DayLength
          BY <3>1, <3>2
        <4>3. QED
          BY <3>1, <3>2, <3>4, <4>1, <4>2
      <3>5. CASE k = days
        <4>1. a = n
          BY <3>2, <3>3, <3>5
        <4>2. days * DayLength >= DayLength /\ n * DayLength \in Nat /\ days * DayLength \in Nat
          BY <3>1, <3>2
        <4>3. QED
          BY <3>1, <3>2, <4>1, <4>2
      <3>6. QED
        BY <3>4, <3>5
    <2>3. Grouped(s, d, days) = {c \in upChecks : c.site = s /\ c.at \div DayLength = d}
      BY <2>2 DEF Grouped
    <2>4. QED
      BY <2>1, <2>3
  <1>2. SchedInit => UpType
    BY UpInitInv DEF UpInv
  <1>3. QED
    BY UpTypeInv, <1>1, <1>2, PTL DEF SchedSpec

-----------------------------------------------------------------------------
(* Metric rules.                                                           *)

Levels == {"ok", "warning", "firing"}
MarkOpen == <<"mark", "open">>
OpenOnly == <<"open">>
PeakOnly == <<"peak">>
ResolveMark == <<"resolve", "mark">>
MarkOnly == <<"mark">>
Plans == {<<>>, MarkOpen, OpenOnly, PeakOnly, ResolveMark, MarkOnly}

LEMMA PlanFacts ==
  /\ Head(MarkOpen) = "mark" /\ Tail(MarkOpen) = OpenOnly /\ MarkOpen # <<>>
  /\ Head(OpenOnly) = "open" /\ Tail(OpenOnly) = <<>> /\ OpenOnly # <<>>
  /\ Head(PeakOnly) = "peak" /\ Tail(PeakOnly) = <<>> /\ PeakOnly # <<>>
  /\ Head(ResolveMark) = "resolve" /\ Tail(ResolveMark) = MarkOnly /\ ResolveMark # <<>>
  /\ Head(MarkOnly) = "mark" /\ Tail(MarkOnly) = <<>> /\ MarkOnly # <<>>
  BY DEF MarkOpen, OpenOnly, PeakOnly, ResolveMark, MarkOnly

LEMMA PlanApart ==
  /\ MarkOpen # OpenOnly /\ MarkOpen # PeakOnly /\ MarkOpen # ResolveMark /\ MarkOpen # MarkOnly
  /\ OpenOnly # PeakOnly /\ OpenOnly # ResolveMark /\ OpenOnly # MarkOnly
  /\ PeakOnly # ResolveMark /\ PeakOnly # MarkOnly /\ ResolveMark # MarkOnly
  /\ <<>> \notin {MarkOpen, OpenOnly, PeakOnly, ResolveMark, MarkOnly}
  BY DEF MarkOpen, OpenOnly, PeakOnly, ResolveMark, MarkOnly

LEMMA PlanCases ==
    ASSUME NEW status \in Levels, NEW level \in Levels
    PROVE  Plan(status, level) = IF level = "firing" THEN IF status = "firing" THEN PeakOnly ELSE MarkOpen
                                 ELSE IF status = "firing" THEN ResolveMark
                                 ELSE IF level = status THEN <<>> ELSE MarkOnly
  BY DEF Plan, MarkOpen, PeakOnly, ResolveMark, MarkOnly

Listed == [rule : MetricRules, kind : RuleKinds, status : Levels]
Incident == [id : Nat, rule : MetricRules, status : {"firing", "resolved"}, peak : Nat]
Task == [rule : MetricRules \cup {"none"}, status : Levels, plan : Plans, val : Nat]
WorkState == [at : {"idle", "busy"}, todo : SUBSET Listed, cur : Task]

MetType ==
  /\ rules \in [DOMAIN rules -> [kind : RuleKinds, active : BOOLEAN, status : Levels]]
  /\ DOMAIN rules \subseteq metricUse.ids
  /\ incidents \subseteq Incident /\ \A i \in incidents : i.rule \in metricUse.ids
  /\ recent \in Windows /\ past \in Pasts
  /\ workers \in [MetricWorkers -> WorkState]
  /\ metricUse \in [ids : SUBSET MetricRules, incidents : Nat, edits : Nat, shifts : Nat, faults : Nat]

HasOne(r) == \E i \in incidents : Open(r) = {i}
Agrees(r) == IF rules[r].status = "firing" THEN HasOne(r) ELSE Open(r) = {}

\* Where a worker is in a rule's statements, and what those that are left need.
TaskFits(w) ==
  LET t == workers[w].cur IN
  t.rule \in DOMAIN rules =>
    /\ t.plan = MarkOpen => rules[t.rule].status # "firing" /\ t.status = "firing" /\ Open(t.rule) = {}
    /\ t.plan = OpenOnly => rules[t.rule].status = "firing" /\ Open(t.rule) = {}
    /\ t.plan = PeakOnly => rules[t.rule].status = "firing" /\ HasOne(t.rule)
    /\ t.plan = ResolveMark => rules[t.rule].status = "firing" /\ t.status # "firing" /\ HasOne(t.rule)
    /\ t.plan = MarkOnly => t.status # "firing" /\ Open(t.rule) = {}

PassIsCurrent(w) ==
  LET v == workers[w] IN
  /\ v.at = "idle" => v.cur.plan = <<>>
  /\ \A m \in v.todo : m.rule \in DOMAIN rules => m.status = rules[m.rule].status
  /\ \A m, n \in v.todo : m.rule = n.rule => m = n
  /\ v.cur.plan # <<>> => v.cur.rule \in metricUse.ids /\ \A m \in v.todo : m.rule # v.cur.rule
  /\ \A m \in v.todo : m.rule \in metricUse.ids
  /\ TaskFits(w)

Between(r) == \E w \in MetricWorkers : workers[w].cur.rule = r /\ workers[w].cur.plan \in {OpenOnly, MarkOnly}

MetricSound ==
  /\ \A w \in MetricWorkers : PassIsCurrent(w)
  /\ \A r \in DOMAIN rules : Agrees(r) \/ Between(r)

MetricInv == MetType /\ (metricUse.faults > 0 \/ MetricSound)

LEMMA RateIsNat == ASSUME NEW e \in Nat, NEW s \in Nat, s # 0 PROVE (e * 100) \div s \in Nat
  OBVIOUS

LEMMA ValueIsNat == ASSUME NEW k \in RuleKinds, NEW x \in Windows PROVE EvaluateMetricValue(k, x) \in Nat
  <1>1. x.errors \in Nat /\ x.matching \in Nat /\ x.sessions \in Nat /\ (k.metric = "error_rate" \/ k.metric # "error_rate")
    BY MetricsAreSized
  <1>3. CASE k.metric = "error_rate"
    <2>1. EvaluateMetricValue(k, x) = IF x.sessions = 0 THEN 0 ELSE (x.errors * 100) \div x.sessions
      BY <1>3 DEF EvaluateMetricValue
    <2>2. QED
      BY <1>1, <2>1, RateIsNat
  <1>4. CASE k.metric # "error_rate"
    <2>1. EvaluateMetricValue(k, x) = IF k.filtered THEN x.matching ELSE x.errors
      BY <1>4 DEF EvaluateMetricValue
    <2>2. QED
      BY <1>1, <2>1
  <1>5. QED
    BY <1>3, <1>4

LEMMA ActiveRulesType ==
    ASSUME MetType
    PROVE  /\ ActiveRules \subseteq Listed
           /\ \A m \in ActiveRules : m.rule \in DOMAIN rules /\ m.status = rules[m.rule].status
           /\ \A m, n \in ActiveRules : m.rule = n.rule => m = n
  <1>1. DOMAIN rules \subseteq MetricRules
    BY DEF MetType
  <1>2. \A r \in DOMAIN rules : rules[r].kind \in RuleKinds /\ rules[r].status \in Levels
    BY DEF MetType
  <1>3. QED
    BY <1>1, <1>2 DEF ActiveRules, Listed

\* A worker strikes the statement it has done.
LEMMA DoneStep ==
    ASSUME MetType, NEW w \in MetricWorkers, workers[w].cur.plan # <<>>, Done(w)
    PROVE  /\ workers' \in [MetricWorkers -> WorkState]
           /\ \A o \in MetricWorkers : o # w => workers'[o] = workers[o]
           /\ workers'[w].at = workers[w].at /\ workers'[w].todo = workers[w].todo
           /\ workers'[w].cur.rule = workers[w].cur.rule /\ workers'[w].cur.status = workers[w].cur.status
           /\ workers'[w].cur.plan = Tail(workers[w].cur.plan)
  <1> DEFINE v == workers[w]
             rest == Tail(v.cur.plan)
  <1>1. v \in WorkState /\ workers \in [MetricWorkers -> WorkState]
    BY DEF MetType
  <1>2. v.cur \in Task
    BY <1>1 DEF WorkState
  <1>3. rest \in Plans
    BY <1>2, PlanFacts DEF Plans, Task
  <1>4. workers' = [workers EXCEPT ![w] = [v EXCEPT !.cur = [v.cur EXCEPT !.plan = rest]]]
    BY <1>1 DEF Done
  <1> HIDE DEF rest, v
  <1>5. [v.cur EXCEPT !.plan = rest] \in Task
    BY <1>2, <1>3 DEF Task
  <1>6. [v EXCEPT !.cur = [v.cur EXCEPT !.plan = rest]] \in WorkState
    BY <1>1, <1>5 DEF WorkState
  <1>7. workers'[w] = [v EXCEPT !.cur = [v.cur EXCEPT !.plan = rest]]
    BY <1>1, <1>4
  <1>8. QED
    BY <1>1, <1>2, <1>4, <1>6, <1>7 DEF v, rest, WorkState, Task

LEMMA RewriteKeeps ==
    ASSUME MetType, NEW r, NEW status \in {"firing", "resolved"}, NEW val \in Nat,
           incidents' = Rewrite(ActiveIncident(r), status, val)
    PROVE  /\ incidents' \subseteq Incident /\ \A i \in incidents' : i.rule \in metricUse.ids
           /\ \A q : q # r => Open(q)' = Open(q)
           /\ HasOne(r) /\ status = "firing" => HasOne(r)'
           /\ HasOne(r) /\ status = "resolved" => Open(r)' = {}
  <1> DEFINE old == ActiveIncident(r)
             new(i) == [i EXCEPT !.status = status, !.peak = GreaterOf(i.peak, val)]
  <1>1. incidents \subseteq Incident /\ \A i \in incidents : i.rule \in metricUse.ids
    BY DEF MetType
  <1>2. old \subseteq incidents /\ \A i \in old : i.rule = r /\ i.status = "firing"
    BY DEF ActiveIncident
  <1>3. ASSUME NEW i \in Incident PROVE new(i) \in Incident /\ new(i).rule = i.rule /\ new(i).status = status
    <2>1. GreaterOf(i.peak, val) \in Nat
      BY DEF GreaterOf, Incident
    <2>2. QED
      BY <2>1 DEF Incident
  <1>4. incidents' = (incidents \ old) \cup {new(i) : i \in old}
    BY DEF Rewrite
  <1> HIDE DEF old, new
  <1>5. incidents' \subseteq Incident /\ \A i \in incidents' : i.rule \in metricUse.ids
    BY <1>1, <1>2, <1>3, <1>4
  <1>6. ASSUME NEW q, q # r PROVE Open(q)' = Open(q)
    BY <1>1, <1>2, <1>3, <1>4, <1>6 DEF Open
  <1>7. ASSUME NEW i \in incidents, Open(r) = {i} PROVE old = {i}
    <2>1. i.id \in Nat
      BY <1>1 DEF Incident
    <2>2. QED
      BY <1>7, <2>1 DEF old, ActiveIncident, Open
  <1>8. ASSUME NEW i \in incidents, Open(r) = {i}
        PROVE  Open(r)' = IF status = "firing" THEN {new(i)} ELSE {}
    <2>1. old = {i}
      BY <1>7, <1>8
    <2>2. incidents' = (incidents \ {i}) \cup {new(i)}
      BY <1>4, <2>1
    <2>3. new(i).rule = r /\ new(i).status = status
      BY <1>1, <1>3, <1>8 DEF Open
    <2>4. \A j \in incidents \ {i} : ~(j.rule = r /\ j.status = "firing")
      BY <1>8 DEF Open
    <2>5. QED
      BY <2>2, <2>3, <2>4 DEF Open
  <1>9. ASSUME NEW i \in incidents, Open(r) = {i}, status = "firing" PROVE HasOne(r)'
    <2>1. Open(r)' = {new(i)}
      BY <1>8, <1>9
    <2>2. new(i) \in incidents'
      BY <2>1 DEF Open
    <2>3. QED
      BY <2>1, <2>2 DEF HasOne
  <1>10. QED
    BY <1>5, <1>6, <1>8, <1>9 DEF HasOne

LEMMA MetInitInv == SchedInit => MetricInv
  <1> SUFFICES ASSUME SchedInit PROVE MetricInv
    OBVIOUS
  <1>1. /\ rules = [r \in {} |-> 0] /\ incidents = {} /\ recent \in Windows /\ past \in Pasts
        /\ workers = [w \in MetricWorkers |-> Resting]
        /\ metricUse = [ids |-> {}, incidents |-> 0, edits |-> 0, shifts |-> 0, faults |-> 0]
    BY DEF SchedInit, MetricInit
  <1>2. Resting \in WorkState /\ Resting.cur.plan = <<>> /\ Resting.cur.rule = "none" /\ Resting.todo = {}
    <2>1. NoTask \in Task
      BY DEF NoTask, Task, Levels, Plans
    <2> HIDE DEF NoTask
    <2>2. Resting \in WorkState /\ Resting.todo = {} /\ Resting.cur = NoTask
      BY <2>1 DEF Resting, WorkState
    <2>3. QED
      BY <2>2 DEF NoTask
  <1>3. DOMAIN rules = {} /\ rules \in [DOMAIN rules -> [kind : RuleKinds, active : BOOLEAN, status : Levels]]
    BY <1>1
  <1>4. MetType
    BY <1>1, <1>2, <1>3 DEF MetType
  <1>5. MetricSound
    BY <1>1, <1>2, <1>3, PlanFacts DEF MetricSound, PassIsCurrent, TaskFits
  <1>6. QED
    BY <1>4, <1>5 DEF MetricInv

LEMMA MetTypeInv == MetType /\ [SchedNext]_schedVars => MetType'
  <1> SUFFICES ASSUME MetType, [SchedNext]_schedVars PROVE MetType'
    OBVIOUS
  <1> DEFINE Rule == [kind : RuleKinds, active : BOOLEAN, status : Levels]
             Use == [ids : SUBSET MetricRules, incidents : Nat, edits : Nat, shifts : Nat, faults : Nat]
  <1>1. /\ rules \in [DOMAIN rules -> Rule] /\ DOMAIN rules \subseteq metricUse.ids
        /\ incidents \subseteq Incident /\ (\A i \in incidents : i.rule \in metricUse.ids)
        /\ recent \in Windows /\ past \in Pasts
        /\ workers \in [MetricWorkers -> WorkState] /\ metricUse \in Use
    BY DEF MetType
  <1>2. CASE UNCHANGED metricVars
    BY <1>2 DEF MetType, metricVars
  \* Counting something keeps the ids.
  <1>3. ASSUME NEW kind \in {"incidents", "edits", "shifts", "faults"}, metricUse' = [metricUse EXCEPT ![kind] = @ + 1]
        PROVE  metricUse' \in Use /\ metricUse'.ids = metricUse.ids
    BY <1>1, <1>3
  <1>4. ASSUME NEW r \in MetricRules, NEW kind \in RuleKinds, CreateMetricAlertRule(r, kind) PROVE MetType'
    <2>1. /\ metricUse' = [metricUse EXCEPT !.ids = @ \cup {r}]
          /\ rules' = [i \in DOMAIN rules \cup {r} |->
                         IF i = r THEN [kind |-> kind, active |-> TRUE, status |-> "ok"] ELSE rules[i]]
          /\ UNCHANGED <<incidents, recent, past, workers, notices>>
      BY <1>4 DEF CreateMetricAlertRule
    <2>2. metricUse' \in Use /\ metricUse'.ids = metricUse.ids \cup {r}
      BY <1>1, <2>1
    <2>3. [kind |-> kind, active |-> TRUE, status |-> "ok"] \in Rule
      BY DEF Levels
    <2>4. rules' \in [DOMAIN rules' -> Rule] /\ DOMAIN rules' = DOMAIN rules \cup {r}
      BY <1>1, <2>1, <2>3
    <2>5. QED
      BY <1>1, <2>1, <2>2, <2>4 DEF MetType
  <1>5. ASSUME NEW r \in DOMAIN rules, NEW kind \in RuleKinds, NEW active \in BOOLEAN, UpdateMetricAlertRule(r, kind, active)
        PROVE  MetType'
    <2>1. rules' = [rules EXCEPT ![r] = [rules[r] EXCEPT !.kind = kind, !.active = active]]
      BY <1>1, <1>5 DEF UpdateMetricAlertRule
    <2>2. [rules[r] EXCEPT !.kind = kind, !.active = active] \in Rule
      BY <1>1
    <2>3. rules' \in [DOMAIN rules' -> Rule] /\ DOMAIN rules' = DOMAIN rules
      BY <1>1, <2>1, <2>2
    <2>4. metricUse' \in Use /\ metricUse'.ids = metricUse.ids
      BY <1>3, <1>5 DEF UpdateMetricAlertRule, MetricSpend
    <2>5. UNCHANGED <<incidents, recent, past, workers>>
      BY <1>5 DEF UpdateMetricAlertRule
    <2>6. QED
      BY <1>1, <2>3, <2>4, <2>5 DEF MetType
  <1>6. ASSUME NEW r \in DOMAIN rules, DeleteMetricAlertRule(r) PROVE MetType'
    <2>1. /\ rules' = [i \in DOMAIN rules \ {r} |-> rules[i]] /\ incidents' \subseteq incidents
          /\ UNCHANGED <<recent, past, workers>>
      BY <1>6 DEF DeleteMetricAlertRule
    <2>2. metricUse' \in Use /\ metricUse'.ids = metricUse.ids
      BY <1>3, <1>6 DEF DeleteMetricAlertRule, MetricSpend
    <2>3. rules' \in [DOMAIN rules' -> Rule] /\ DOMAIN rules' \subseteq DOMAIN rules
      BY <1>1, <2>1
    <2>4. QED
      BY <1>1, <2>1, <2>2, <2>3 DEF MetType
  <1>7. ASSUME NEW x \in Windows, Shift(x) PROVE MetType'
    <2>1. recent' \in Windows /\ UNCHANGED <<rules, incidents, past, workers>>
      BY <1>7 DEF Shift
    <2>2. metricUse' \in Use /\ metricUse'.ids = metricUse.ids
      BY <1>3, <1>7 DEF Shift, MetricSpend
    <2>3. QED
      BY <1>1, <2>1, <2>2 DEF MetType
  <1>8. ASSUME NEW w \in MetricWorkers, WorkerTick(w) \/ WorkerRests(w) \/ (\E r \in workers[w].todo : EvaluateRule(w, r) \/ EvaluationFails(w, r))
        PROVE  MetType'
    <2> DEFINE v == workers[w]
    <2>1. v \in WorkState /\ v.todo \subseteq Listed /\ UNCHANGED <<rules, incidents, recent, past>>
      BY <1>1, <1>8 DEF WorkerTick, WorkerRests, EvaluateRule, EvaluationFails, Decide, WorkState
    <2>a. metricUse' \in Use /\ metricUse'.ids = metricUse.ids
      BY <1>1, <1>3, <1>8 DEF WorkerTick, WorkerRests, EvaluateRule, EvaluationFails, MetricSpend
    <2>2. workers' \in [MetricWorkers -> WorkState]
      <3>1. CASE WorkerTick(w)
        <4>1. workers' = [workers EXCEPT ![w] = [v EXCEPT !.at = "busy", !.todo = ActiveRules]]
          BY <1>1, <3>1 DEF WorkerTick
        <4>2. [v EXCEPT !.at = "busy", !.todo = ActiveRules] \in WorkState
          <5> HIDE DEF v
          <5>1. QED
            BY <2>1, ActiveRulesType DEF WorkState
        <4>3. QED
          BY <1>1, <4>1, <4>2
      <3>2. CASE WorkerRests(w)
        <4>1. NoTask \in Task
          BY DEF NoTask, Task, Levels, Plans
        <4>2. Resting \in WorkState
          BY <4>1 DEF Resting, WorkState
        <4>3. QED
          BY <1>1, <3>2, <4>2 DEF WorkerRests
      <3>3. ASSUME NEW r \in v.todo, NEW behind, Decide(w, r, behind) PROVE workers' \in [MetricWorkers -> WorkState]
        <4> DEFINE level == Level(r.kind, recent, behind)
                   task == [rule |-> r.rule, status |-> level, plan |-> Plan(r.status, level), val |-> EvaluateMetricValue(r.kind, recent)]
        <4>1. r \in Listed
          BY <2>1
        <4>2. level \in Levels
          BY DEF Level, Levels
        <4>3. Plan(r.status, level) \in Plans
          <5> HIDE DEF level
          <5>1. QED
            BY <4>1, <4>2, PlanCases DEF Plans, Listed
        <4>4. EvaluateMetricValue(r.kind, recent) \in Nat
          BY <1>1, <4>1, ValueIsNat DEF Listed
        <4>5. task \in Task
          <5> HIDE DEF level
          <5>1. QED
            BY <4>1, <4>2, <4>3, <4>4 DEF Task, Listed
        <4>6. workers' = [workers EXCEPT ![w] = [v EXCEPT !.todo = @ \ {r}, !.cur = task]]
          BY <1>1, <3>3 DEF Decide
        <4> HIDE DEF task, v
        <4>7. [v EXCEPT !.todo = @ \ {r}, !.cur = task] \in WorkState
          BY <2>1, <4>5 DEF WorkState
        <4>8. QED
          BY <1>1, <4>6, <4>7
      <3>4. ASSUME NEW r \in v.todo, workers' = [workers EXCEPT ![w].todo = @ \ {r}]
            PROVE  workers' \in [MetricWorkers -> WorkState]
        <4>1. workers' = [workers EXCEPT ![w] = [v EXCEPT !.todo = @ \ {r}]]
          BY <1>1, <3>4
        <4> HIDE DEF v
        <4>2. [v EXCEPT !.todo = @ \ {r}] \in WorkState
          BY <2>1 DEF WorkState
        <4>3. QED
          BY <1>1, <4>1, <4>2
      <3>5. QED
        BY <1>8, <3>1, <3>2, <3>3, <3>4 DEF EvaluateRule, EvaluationFails
    <2>3. QED
      BY <1>1, <2>1, <2>a, <2>2 DEF MetType
  <1>9. ASSUME NEW w \in MetricWorkers, MarkRule(w) PROVE MetType'
    <2> DEFINE t == workers[w].cur
    <2>1. workers' \in [MetricWorkers -> WorkState] /\ UNCHANGED <<incidents, recent, past, metricUse>>
      BY <1>9, DoneStep DEF MarkRule, At
    <2>2. rules' = [r \in DOMAIN rules |-> IF r = t.rule THEN [rules[r] EXCEPT !.status = t.status] ELSE rules[r]]
      BY <1>9 DEF MarkRule
    <2>3. t.status \in Levels
      BY <1>1 DEF WorkState, Task
    <2> HIDE DEF t
    <2>4. \A r \in DOMAIN rules : [rules[r] EXCEPT !.status = t.status] \in Rule
      BY <1>1, <2>3
    <2>5. rules' \in [DOMAIN rules' -> Rule] /\ DOMAIN rules' = DOMAIN rules
      BY <1>1, <2>2, <2>4
    <2>6. QED
      BY <1>1, <2>1, <2>5 DEF MetType
  <1>10. ASSUME NEW w \in MetricWorkers, OpenIncident(w) PROVE MetType'
    <2> DEFINE t == workers[w].cur
               row == [id |-> metricUse.incidents + 1, rule |-> t.rule, status |-> "firing", peak |-> t.val]
    <2>1. workers' \in [MetricWorkers -> WorkState] /\ UNCHANGED <<rules, recent, past>>
      BY <1>10, DoneStep DEF OpenIncident, At
    <2>2. t.val \in Nat
      BY <1>1 DEF WorkState, Task
    <2>3. CASE t.rule \in DOMAIN rules
      <3>1. row \in Incident /\ row.rule \in metricUse.ids
        BY <1>1, <2>2, <2>3 DEF Incident
      <3>2. incidents' = incidents \cup {row}
        BY <1>10, <2>3 DEF OpenIncident
      <3>3. metricUse' \in Use /\ metricUse'.ids = metricUse.ids
        BY <1>3, <1>10, <2>3 DEF OpenIncident, MetricSpend
      <3> HIDE DEF row
      <3>4. QED
        BY <1>1, <2>1, <3>1, <3>2, <3>3 DEF MetType
    <2>4. CASE t.rule \notin DOMAIN rules
      <3>1. UNCHANGED <<incidents, metricUse>>
        BY <1>10, <2>4 DEF OpenIncident
      <3>2. QED
        BY <1>1, <2>1, <3>1 DEF MetType
    <2>5. QED
      BY <2>3, <2>4
  <1>11. ASSUME NEW w \in MetricWorkers, RaisePeak(w) \/ ResolveIncident(w) PROVE MetType'
    <2> DEFINE t == workers[w].cur
    <2>1. workers' \in [MetricWorkers -> WorkState] /\ UNCHANGED <<rules, recent, past, metricUse>>
      BY <1>11, DoneStep DEF RaisePeak, ResolveIncident, At
    <2>2. t.val \in Nat
      BY <1>1 DEF WorkState, Task
    <2>3. \/ incidents' = Rewrite(ActiveIncident(t.rule), "firing", t.val)
          \/ incidents' = Rewrite(ActiveIncident(t.rule), "resolved", t.val)
      BY <1>11 DEF RaisePeak, ResolveIncident
    <2>4. incidents' \subseteq Incident /\ \A i \in incidents' : i.rule \in metricUse.ids
      BY <2>2, <2>3, RewriteKeeps
    <2>5. QED
      BY <1>1, <2>1, <2>4 DEF MetType
  <1>12. ASSUME NEW w \in MetricWorkers, StatementFails(w) PROVE MetType'
    <2>1. workers' \in [MetricWorkers -> WorkState] /\ UNCHANGED <<rules, incidents, recent, past>>
      BY <1>12, DoneStep DEF StatementFails
    <2>2. metricUse' \in Use /\ metricUse'.ids = metricUse.ids
      BY <1>3, <1>12 DEF StatementFails, MetricSpend
    <2>3. QED
      BY <1>1, <2>1, <2>2 DEF MetType
  <1>13. CASE MetricNext
    BY <1>4, <1>5, <1>6, <1>7, <1>8, <1>9, <1>10, <1>11, <1>12, <1>13 DEF MetricNext, MetricRequest, WorkerStep
  <1>14. QED
    BY <1>2, <1>13 DEF SchedNext, schedVars, Crons, Uptime, Metrics

OneWorker == \A w, o \in MetricWorkers : w = o

\* What users do leaves the worker where it was; a rule that is new is clear
\* of incidents, and no list has it.
LEMMA RequestKeeps ==
    ASSUME MetType, MetType', MetricSound, workers' = workers, metricUse.ids \subseteq metricUse'.ids,
           \A r \in DOMAIN rules' : IF r \in DOMAIN rules THEN rules'[r].status = rules[r].status /\ Open(r)' = Open(r)
                                    ELSE rules'[r].status # "firing" /\ Open(r)' = {} /\ r \notin metricUse.ids
    PROVE  MetricSound'
  <1>1. \A r \in DOMAIN rules' : r \in DOMAIN rules /\ HasOne(r) => HasOne(r)'
    BY DEF HasOne, Open
  <1>2. \A r \in DOMAIN rules' : r \in DOMAIN rules /\ Agrees(r) => Agrees(r)'
    BY <1>1 DEF Agrees
  <1>3. \A r \in DOMAIN rules' : r \notin DOMAIN rules => Agrees(r)'
    BY DEF Agrees
  <1>4. ASSUME NEW w \in MetricWorkers PROVE PassIsCurrent(w)'
    <2>1. PassIsCurrent(w)
      BY DEF MetricSound
    <2>2. TaskFits(w)'
      <3>1. workers[w].cur.rule \in DOMAIN rules' /\ workers[w].cur.plan # <<>> => workers[w].cur.rule \in DOMAIN rules
        BY <2>1 DEF PassIsCurrent
      <3>2. QED
        BY <1>1, <2>1, <3>1, PlanFacts DEF PassIsCurrent, TaskFits
    <2>3. \A m \in workers[w].todo : m.rule \in DOMAIN rules' => m.rule \in DOMAIN rules
      BY <2>1 DEF PassIsCurrent
    <2>4. QED
      BY <2>1, <2>2, <2>3 DEF PassIsCurrent
  <1>5. \A r : Between(r) => Between(r)'
    BY DEF Between
  <1>6. QED
    BY <1>2, <1>3, <1>4, <1>5 DEF MetricSound

\* The rule whose statements the one worker does; the other rules stay.
LEMMA StatementKeeps ==
    ASSUME MetType, MetType', OneWorker, MetricSound, NEW w \in MetricWorkers, workers[w].cur.plan # <<>>, Done(w),
           DOMAIN rules' = DOMAIN rules, metricUse'.ids = metricUse.ids,
           \A r \in DOMAIN rules : r # workers[w].cur.rule => rules'[r] = rules[r] /\ Open(r)' = Open(r),
           \A o \in MetricWorkers : TaskFits(o)',
           workers[w].cur.rule \in DOMAIN rules => Agrees(workers[w].cur.rule)' \/ Tail(workers[w].cur.plan) \in {OpenOnly, MarkOnly}
    PROVE  MetricSound'
  <1> DEFINE q == workers[w].cur.rule
  <1>1. /\ workers'[w].at = workers[w].at /\ workers'[w].todo = workers[w].todo
        /\ workers'[w].cur.rule = q /\ workers'[w].cur.plan = Tail(workers[w].cur.plan)
    BY DoneStep
  <1>2. PassIsCurrent(w) /\ workers[w].at # "idle" /\ \A m \in workers[w].todo : m.rule # q
    BY DEF MetricSound, PassIsCurrent
  <1>3. ASSUME NEW o \in MetricWorkers PROVE PassIsCurrent(o)'
    <2>1. o = w
      BY DEF OneWorker
    <2>2. PassIsCurrent(w)'
      BY <1>1, <1>2 DEF PassIsCurrent
    <2>3. QED
      BY <2>1, <2>2
  <1>4. ASSUME NEW r \in DOMAIN rules, r # q PROVE Agrees(r)'
    <2>1. ~Between(r)
      BY <1>4 DEF Between, OneWorker
    <2>2. Agrees(r)
      BY <2>1 DEF MetricSound
    <2>3. QED
      BY <1>4, <2>2 DEF Agrees, HasOne, Open
  <1>5. ASSUME NEW r \in DOMAIN rules, r = q PROVE Agrees(r)' \/ Between(r)'
    BY <1>1, <1>5 DEF Between
  <1>6. \A r \in DOMAIN rules' : Agrees(r)' \/ Between(r)'
    BY <1>4, <1>5
  <1>7. QED
    BY <1>3, <1>6 DEF MetricSound

LEMMA MetricSoundNext ==
    ASSUME MetType, MetType', OneWorker, MetricSound, MetricNext, metricUse'.faults = 0
    PROVE  MetricSound'
  <1> DEFINE Rule == [kind : RuleKinds, active : BOOLEAN, status : Levels]
  <1>1. /\ rules \in [DOMAIN rules -> Rule] /\ DOMAIN rules \subseteq metricUse.ids
        /\ incidents \subseteq Incident /\ (\A i \in incidents : i.rule \in metricUse.ids)
        /\ workers \in [MetricWorkers -> WorkState]
    BY DEF MetType
  <1>2. ASSUME NEW r \in MetricRules, NEW kind \in RuleKinds, CreateMetricAlertRule(r, kind) PROVE MetricSound'
    <2>1. /\ rules' = [i \in DOMAIN rules \cup {r} |->
                         IF i = r THEN [kind |-> kind, active |-> TRUE, status |-> "ok"] ELSE rules[i]]
          /\ incidents' = incidents /\ workers' = workers /\ r \notin metricUse.ids
          /\ metricUse' = [metricUse EXCEPT !.ids = @ \cup {r}]
      BY <1>2 DEF CreateMetricAlertRule
    <2>2. DOMAIN rules' = DOMAIN rules \cup {r} /\ rules'[r].status # "firing" /\ \A q \in DOMAIN rules : rules'[q] = rules[q]
      BY <1>1, <2>1
    <2>3. Open(r) = {} /\ \A q : Open(q)' = Open(q)
      BY <1>1, <2>1 DEF Open
    <2>4. metricUse.ids \subseteq metricUse'.ids
      BY <2>1 DEF MetType
    <2>5. QED
      BY <1>1, <2>1, <2>2, <2>3, <2>4, RequestKeeps
  <1>3. ASSUME NEW r \in DOMAIN rules, NEW kind \in RuleKinds, NEW active \in BOOLEAN, UpdateMetricAlertRule(r, kind, active)
        PROVE  MetricSound'
    <2>1. /\ rules' = [rules EXCEPT ![r].kind = kind, ![r].active = active] /\ incidents' = incidents /\ workers' = workers
          /\ metricUse'.ids = metricUse.ids
      BY <1>3 DEF UpdateMetricAlertRule, MetricSpend, MetType
    <2>2. DOMAIN rules' = DOMAIN rules /\ \A q \in DOMAIN rules : rules'[q].status = rules[q].status
      BY <1>1, <2>1
    <2>3. \A q : Open(q)' = Open(q)
      BY <2>1 DEF Open
    <2>4. QED
      BY <2>1, <2>2, <2>3, RequestKeeps
  <1>4. ASSUME NEW r \in DOMAIN rules, DeleteMetricAlertRule(r) PROVE MetricSound'
    <2>1. /\ rules' = [i \in DOMAIN rules \ {r} |-> rules[i]] /\ incidents' = {i \in incidents : i.rule # r}
          /\ workers' = workers /\ metricUse'.ids = metricUse.ids
      BY <1>4 DEF DeleteMetricAlertRule, MetricSpend, MetType
    <2>2. DOMAIN rules' \subseteq DOMAIN rules /\ \A q \in DOMAIN rules' : rules'[q] = rules[q] /\ q # r
      BY <2>1
    <2>3. \A q \in DOMAIN rules' : Open(q)' = Open(q)
      BY <2>1, <2>2 DEF Open
    <2>4. QED
      BY <2>1, <2>2, <2>3, RequestKeeps
  <1>5. ASSUME NEW x \in Windows, Shift(x) PROVE MetricSound'
    <2>1. UNCHANGED <<rules, incidents, workers>> /\ metricUse'.ids = metricUse.ids
      BY <1>5 DEF Shift, MetricSpend, MetType
    <2>2. \A q : Open(q)' = Open(q)
      BY <2>1 DEF Open
    <2>3. QED
      BY <2>1, <2>2, RequestKeeps
  <1>6. ASSUME NEW w \in MetricWorkers, WorkerTick(w) \/ WorkerRests(w) \/ (\E r \in workers[w].todo : EvaluateRule(w, r))
        PROVE  MetricSound'
    <2> DEFINE v == workers[w]
    <2>1. /\ v \in WorkState /\ v.cur.plan = <<>> /\ UNCHANGED <<rules, incidents, metricUse>>
      BY <1>1, <1>6 DEF WorkerTick, WorkerRests, EvaluateRule, Decide, MetricSound, PassIsCurrent
    <2>2. PassIsCurrent(w)
      BY DEF MetricSound
    <2>3. \A q \in DOMAIN rules : Agrees(q)
      BY <2>1, PlanFacts DEF MetricSound, Between, OneWorker
    <2>4. \A q : Open(q)' = Open(q) /\ HasOne(q)' = HasOne(q) /\ Agrees(q)' = Agrees(q)
      BY <2>1 DEF Open, HasOne, Agrees
    <2>5. ASSUME PassIsCurrent(w)' PROVE MetricSound'
      <3>1. ASSUME NEW o \in MetricWorkers PROVE PassIsCurrent(o)'
        <4>1. o = w
          BY DEF OneWorker
        <4>2. QED
          BY <2>5, <4>1
      <3>2. \A q \in DOMAIN rules' : Agrees(q)'
        BY <2>1, <2>3, <2>4
      <3>3. QED
        BY <3>1, <3>2 DEF MetricSound
    <2>6. CASE WorkerTick(w)
      <3>1. workers' = [workers EXCEPT ![w] = [v EXCEPT !.at = "busy", !.todo = ActiveRules]]
        BY <1>1, <2>6 DEF WorkerTick
      <3>2. workers'[w].at = "busy" /\ workers'[w].todo = ActiveRules /\ workers'[w].cur = v.cur
        BY <1>1, <2>1, <3>1 DEF WorkState
      <3>3. \A m \in ActiveRules : m.rule \in metricUse.ids
        BY <1>1, ActiveRulesType
      <3>4. TaskFits(w)'
        BY <2>1, <3>2, PlanFacts DEF TaskFits
      <3>5. PassIsCurrent(w)'
        BY <2>1, <3>2, <3>3, <3>4, ActiveRulesType DEF PassIsCurrent
      <3>6. QED
        BY <2>5, <3>5
    <2>7. CASE WorkerRests(w)
      <3>1. workers'[w] = Resting
        BY <1>1, <2>7 DEF WorkerRests
      <3>2. Resting.cur.plan = <<>> /\ Resting.todo = {}
        BY DEF Resting, NoTask
      <3>3. PassIsCurrent(w)'
        BY <3>1, <3>2, PlanFacts DEF PassIsCurrent, TaskFits
      <3>4. QED
        BY <2>5, <3>3
    <2>8. ASSUME NEW r \in v.todo, EvaluateRule(w, r) PROVE MetricSound'
      <3> DEFINE level == Level(r.kind, recent, past)
                 plan == Plan(r.status, level)
                 task == [rule |-> r.rule, status |-> level, plan |-> plan, val |-> EvaluateMetricValue(r.kind, recent)]
      <3>1. workers' = [workers EXCEPT ![w] = [v EXCEPT !.todo = @ \ {r}, !.cur = task]] /\ v.at = "busy"
        BY <1>1, <2>8 DEF EvaluateRule, Decide
      <3>2. r \in Listed /\ level \in Levels
        BY <2>1 DEF WorkState, Level, Levels
      <3> HIDE DEF level
      <3>3. plan = IF level = "firing" THEN IF r.status = "firing" THEN PeakOnly ELSE MarkOpen
                   ELSE IF r.status = "firing" THEN ResolveMark
                   ELSE IF level = r.status THEN <<>> ELSE MarkOnly
        BY <3>2, PlanCases DEF Listed
      <3> HIDE DEF plan
      <3>4. task.rule = r.rule /\ task.status = level /\ task.plan = plan
        OBVIOUS
      <3> HIDE DEF task
      <3>5. workers'[w].at = "busy" /\ workers'[w].todo = v.todo \ {r} /\ workers'[w].cur = task
        BY <1>1, <2>1, <3>1 DEF WorkState
      <3>6. \A m \in v.todo \ {r} : m.rule # r.rule
        BY <2>2, <2>8 DEF PassIsCurrent
      <3>7. r.rule \in DOMAIN rules => r.status = rules[r.rule].status /\ Agrees(r.rule)
        BY <2>2, <2>3, <2>8 DEF PassIsCurrent
      <3>8. TaskFits(w)'
        BY <2>1, <2>4, <3>3, <3>4, <3>5, <3>7, PlanApart DEF TaskFits, Agrees
      <3>9. PassIsCurrent(w)'
        BY <2>1, <2>2, <2>8, <3>4, <3>5, <3>6, <3>8 DEF PassIsCurrent
      <3>10. QED
        BY <2>5, <3>9
    <2>9. QED
      BY <1>6, <2>6, <2>7, <2>8
  \* A statement of the task: what it needs holds, and what the rest needs is made true.
  <1>7. ASSUME NEW w \in MetricWorkers, workers[w].cur.plan # <<>>, Done(w)
        PROVE  /\ PassIsCurrent(w) /\ TaskFits(w) /\ workers[w].cur.plan \in Plans /\ workers[w].cur.val \in Nat
               /\ workers'[w].cur.rule = workers[w].cur.rule /\ workers'[w].cur.status = workers[w].cur.status
               /\ workers'[w].cur.plan = Tail(workers[w].cur.plan)
    BY <1>1, <1>7, DoneStep DEF MetricSound, PassIsCurrent, WorkState, Task
  <1>8. ASSUME NEW w \in MetricWorkers, TaskFits(w)' PROVE \A o \in MetricWorkers : TaskFits(o)'
    <2>1. ASSUME NEW o \in MetricWorkers PROVE TaskFits(o)'
      <3>1. o = w
        BY DEF OneWorker
      <3>2. QED
        BY <1>8, <3>1
    <2>2. QED
      BY <2>1
  <1>9. ASSUME NEW w \in MetricWorkers, MarkRule(w) PROVE MetricSound'
    <2> DEFINE t == workers[w].cur
    <2>1. /\ t.plan # <<>> /\ Head(t.plan) = "mark" /\ Done(w) /\ UNCHANGED <<incidents, metricUse>>
          /\ rules' = [r \in DOMAIN rules |-> IF r = t.rule THEN [rules[r] EXCEPT !.status = t.status] ELSE rules[r]]
      BY <1>9 DEF MarkRule, At
    <2>2. t.plan = MarkOpen \/ t.plan = MarkOnly
      BY <1>7, <2>1, PlanFacts DEF Plans
    <2>3. /\ DOMAIN rules' = DOMAIN rules /\ \A r \in DOMAIN rules : r # t.rule => rules'[r] = rules[r]
          /\ t.rule \in DOMAIN rules => rules'[t.rule].status = t.status
      <3> HIDE DEF t
      <3>1. ASSUME t.rule \in DOMAIN rules PROVE rules'[t.rule].status = t.status
        <4>1. rules'[t.rule] = [rules[t.rule] EXCEPT !.status = t.status] /\ rules[t.rule] \in Rule
          BY <1>1, <2>1, <3>1
        <4>2. QED
          BY <4>1
      <3>2. QED
        BY <2>1, <3>1
    <2>4. \A r : Open(r)' = Open(r)
      BY <2>1 DEF Open
    <2>5. TaskFits(w)'
      BY <1>7, <2>1, <2>2, <2>3, <2>4, PlanFacts, PlanApart DEF TaskFits
    <2>6. Tail(t.plan) = OpenOnly \/ (t.rule \in DOMAIN rules => Agrees(t.rule)')
      <3>1. CASE t.plan = MarkOpen
        BY <2>1, <3>1, PlanFacts
      <3>2. CASE t.plan = MarkOnly
        <4>1. TaskFits(w)
          BY <1>7, <2>1
        <4>2. t.rule \in DOMAIN rules => t.status # "firing" /\ Open(t.rule) = {}
          BY <3>2, <4>1 DEF TaskFits
        <4>3. ASSUME t.rule \in DOMAIN rules PROVE Agrees(t.rule)'
          <5>1. t.rule = (t.rule)'
            BY <1>7, <2>1
          <5>2. rules'[t.rule].status # "firing" /\ Open(t.rule)' = {}
            BY <2>3, <2>4, <4>2, <4>3, <5>1
          <5>3. QED
            BY <5>1, <5>2 DEF Agrees
        <4>4. QED
          BY <2>1, <4>3
      <3>3. QED
        BY <2>2, <3>1, <3>2
    <2>7. \A o \in MetricWorkers : TaskFits(o)'
      BY <1>8, <2>5
    <2>8. QED
      BY <2>1, <2>3, <2>4, <2>6, <2>7, StatementKeeps
  <1>10. ASSUME NEW w \in MetricWorkers, OpenIncident(w) \/ RaisePeak(w) \/ ResolveIncident(w) PROVE MetricSound'
    <2> DEFINE t == workers[w].cur
    <2>1. t.plan # <<>> /\ Done(w) /\ rules' = rules
      BY <1>10 DEF OpenIncident, RaisePeak, ResolveIncident, At
    <2>2. ASSUME \A r \in DOMAIN rules : r # t.rule => Open(r)' = Open(r), metricUse'.ids = metricUse.ids, TaskFits(w)',
                 t.rule \in DOMAIN rules => Agrees(t.rule)' \/ Tail(t.plan) = MarkOnly
          PROVE  MetricSound'
      <3>1. \A o \in MetricWorkers : TaskFits(o)'
        BY <1>8, <2>2
      <3>2. QED
        BY <2>1, <2>2, <3>1, StatementKeeps
    <2>3. CASE OpenIncident(w)
      <3> DEFINE row == [id |-> metricUse.incidents + 1, rule |-> t.rule, status |-> "firing", peak |-> t.val]
      <3>1. t.plan = OpenOnly
        BY <1>7, <2>1, <2>3, PlanFacts DEF OpenIncident, At, Plans
      <3>2. workers'[w].cur.plan = <<>>
        BY <1>7, <2>1, <3>1, PlanFacts
      <3>3. TaskFits(w)'
        BY <3>2, PlanFacts DEF TaskFits
      <3>4. metricUse'.ids = metricUse.ids
        BY <2>3 DEF OpenIncident, MetricSpend, MetType
      <3>5. CASE t.rule \in DOMAIN rules
        <4>1. rules[t.rule].status = "firing" /\ Open(t.rule) = {}
          BY <1>7, <2>1, <3>1, <3>5 DEF TaskFits
        <4>2. incidents' = incidents \cup {row}
          BY <2>3, <3>5 DEF OpenIncident
        <4>3. row.rule = t.rule /\ row.status = "firing"
          OBVIOUS
        <4> HIDE DEF row
        <4>4. \A r : Open(r)' = IF r = t.rule THEN {row} ELSE Open(r)
          BY <4>1, <4>2, <4>3 DEF Open
        <4>5. \A r : r = t.rule => HasOne(r)'
          BY <4>2, <4>4 DEF HasOne
        <4>6. workers'[w].cur.rule = t.rule
          BY <1>7, <2>1
        <4>7. Agrees(t.rule)'
          BY <2>1, <4>1, <4>5, <4>6 DEF Agrees
        <4>8. QED
          BY <2>2, <3>3, <3>4, <4>4, <4>7
      <3>6. CASE t.rule \notin DOMAIN rules
        <4>1. incidents' = incidents
          BY <2>3, <3>6 DEF OpenIncident
        <4>2. \A r : Open(r)' = Open(r)
          BY <4>1 DEF Open
        <4>3. QED
          BY <2>2, <3>3, <3>4, <3>6, <4>2
      <3>7. QED
        BY <3>5, <3>6
    <2>4. CASE RaisePeak(w)
      <3>1. t.plan = PeakOnly
        BY <1>7, <2>1, <2>4, PlanFacts DEF RaisePeak, At, Plans
      <3>2. workers'[w].cur.plan = <<>>
        BY <1>7, <2>1, <3>1, PlanFacts
      <3>3. TaskFits(w)'
        BY <3>2, PlanFacts DEF TaskFits
      <3>4. incidents' = Rewrite(ActiveIncident(t.rule), "firing", t.val) /\ metricUse' = metricUse
        BY <2>4 DEF RaisePeak
      <3>5. (\A q : q # t.rule => Open(q)' = Open(q)) /\ (HasOne(t.rule) => HasOne(t.rule)')
        BY <1>7, <2>1, <3>4, RewriteKeeps
      <3>6. t.rule \in DOMAIN rules => Agrees(t.rule)'
        BY <1>7, <2>1, <3>1, <3>5 DEF TaskFits, Agrees
      <3>7. QED
        BY <2>2, <3>3, <3>4, <3>5, <3>6
    <2>5. CASE ResolveIncident(w)
      <3>1. t.plan = ResolveMark
        BY <1>7, <2>1, <2>5, PlanFacts DEF ResolveIncident, At, Plans
      <3>2. workers'[w].cur.plan = MarkOnly
        BY <1>7, <2>1, <3>1, PlanFacts
      <3>3. incidents' = Rewrite(ActiveIncident(t.rule), "resolved", t.val) /\ metricUse' = metricUse
        BY <2>5 DEF ResolveIncident
      <3>4. (\A q : q # t.rule => Open(q)' = Open(q)) /\ (HasOne(t.rule) => Open(t.rule)' = {})
        BY <1>7, <2>1, <3>3, RewriteKeeps
      <3>5. TaskFits(w)'
        BY <1>7, <2>1, <3>1, <3>2, <3>4, PlanApart DEF TaskFits
      <3>6. QED
        BY <2>2, <3>1, <3>3, <3>4, <3>5, PlanFacts
    <2>6. QED
      BY <1>10, <2>3, <2>4, <2>5
  <1>11. ASSUME NEW w \in MetricWorkers, StatementFails(w) \/ (\E r \in workers[w].todo : EvaluationFails(w, r))
         PROVE  FALSE
    BY <1>11 DEF StatementFails, EvaluationFails, MetricSpend, MetType
  <1>12. QED
    BY <1>2, <1>3, <1>4, <1>5, <1>6, <1>9, <1>10, <1>11 DEF MetricNext, MetricRequest, WorkerStep

LEMMA MetricNextInv == ASSUME OneWorker PROVE MetricInv /\ [SchedNext]_schedVars => MetricInv'
  <1> SUFFICES ASSUME MetricInv, [SchedNext]_schedVars PROVE MetricInv'
    OBVIOUS
  <1>1. MetType /\ MetType'
    BY MetTypeInv DEF MetricInv
  <1>2. CASE UNCHANGED metricVars
    <2>1. \A r : Open(r)' = Open(r)
      BY <1>2 DEF Open, metricVars
    <2>2. \A r : HasOne(r)' = HasOne(r)
      BY <1>2, <2>1 DEF HasOne, metricVars
    <2>3. \A r : Agrees(r)' = Agrees(r) /\ Between(r)' = Between(r)
      BY <1>2, <2>1, <2>2 DEF Agrees, Between, metricVars
    <2>4. \A w : PassIsCurrent(w) => PassIsCurrent(w)'
      BY <1>2, <2>1, <2>2 DEF PassIsCurrent, TaskFits, metricVars
    <2>5. MetricSound => MetricSound'
      BY <1>2, <2>3, <2>4 DEF MetricSound, metricVars
    <2>6. QED
      BY <1>1, <1>2, <2>5 DEF MetricInv, metricVars
  <1>3. CASE MetricNext
    <2>1. metricUse'.faults >= metricUse.faults
      <3>1. \/ metricUse' = metricUse
            \/ \E r : metricUse' = [metricUse EXCEPT !.ids = @ \cup {r}]
            \/ \E kind \in {"incidents", "edits", "shifts", "faults"} : metricUse' = [metricUse EXCEPT ![kind] = @ + 1]
        <4>1. ASSUME MetricRequest PROVE \/ \E r : metricUse' = [metricUse EXCEPT !.ids = @ \cup {r}]
                                        \/ metricUse' = [metricUse EXCEPT !["edits"] = @ + 1]
          BY <4>1 DEF MetricRequest, CreateMetricAlertRule, UpdateMetricAlertRule, DeleteMetricAlertRule, MetricSpend
        <4>2. ASSUME NEW x \in Windows, Shift(x) PROVE metricUse' = [metricUse EXCEPT !["shifts"] = @ + 1]
          BY <4>2 DEF Shift, MetricSpend
        <4>3. ASSUME NEW w \in MetricWorkers, WorkerStep(w)
              PROVE  metricUse' = metricUse \/ metricUse' = [metricUse EXCEPT !["incidents"] = @ + 1]
          BY <4>3 DEF WorkerStep, WorkerTick, WorkerRests, EvaluateRule, MarkRule, OpenIncident, RaisePeak, ResolveIncident, MetricSpend
        <4>4. ASSUME NEW w \in MetricWorkers, StatementFails(w) \/ (\E r \in workers[w].todo : EvaluationFails(w, r))
              PROVE  metricUse' = [metricUse EXCEPT !["faults"] = @ + 1]
          BY <4>4 DEF StatementFails, EvaluationFails, MetricSpend
        <4>5. QED
          BY <1>3, <4>1, <4>2, <4>3, <4>4 DEF MetricNext
      <3>2. QED
        BY <1>1, <3>1 DEF MetType
    <2>2. metricUse.faults \in Nat /\ metricUse'.faults \in Nat
      BY <1>1 DEF MetType
    <2>3. QED
      BY <1>1, <1>3, <2>1, <2>2, MetricSoundNext DEF MetricInv
  <1>4. QED
    BY <1>2, <1>3 DEF SchedNext, schedVars, Crons, Uptime, Metrics

(* With one worker, a rule shows firing exactly while one incident of it   *)
(* is open: edits, switched off and deleted rules, and a metric that moves *)
(* between the worker's list and its reading, included.                    *)
THEOREM IncidentMatchesStatus == ASSUME OneWorker PROVE SchedSpec => []OneIncidentWhileFiring
  <1>1. MetricInv => OneIncidentWhileFiring
    <2> SUFFICES ASSUME MetricInv, ~(metricUse.faults > 0), NEW r \in DOMAIN rules, \A w \in MetricWorkers : workers[w].at # "busy"
                 PROVE  Cardinality(Open(r)) = IF rules[r].status = "firing" THEN 1 ELSE 0
      BY DEF OneIncidentWhileFiring
    <2>1. \A w \in MetricWorkers : workers[w].cur.plan = <<>>
      BY DEF MetricInv, MetricSound, PassIsCurrent, MetType, WorkState
    <2>2. Agrees(r)
      BY <2>1, PlanFacts DEF MetricInv, MetricSound, Between
    <2>3. QED
      BY <2>2, FS_EmptySet, FS_Singleton DEF Agrees, HasOne
  <1>2. MetricInv /\ [SchedNext]_schedVars => MetricInv'
    BY MetricNextInv
  <1>3. QED
    BY MetInitInv, <1>1, <1>2, PTL DEF SchedSpec
=============================================================================
