--------------------------- MODULE UptimeMonitor ---------------------------
(* HTTP checks of endpoints: internal/uptime (runner and checker),          *)
(* internal/store/uptime.go and uptime_handlers.go.  A runner per replica     *)
(* walks the monitors that are due, one after the other, under one deadline;  *)
(* creating a monitor and "check now" run the same check from a goroutine of  *)
(* their own, without the alert that follows a runner's check.  The            *)
(* certificate a check reads on the way is left out: no status depends on it. *)
EXTENDS WallClock, FiniteSets

CONSTANTS Sites,          \* ids of monitors, each with the endpoint it watches
          Watched,        \* the monitors there are at the start
          Runners,        \* one runner per replica
          Visits,         \* checks started by a request that may run together
          Intervals,      \* interval_seconds
          DayLength,      \* of the history's strip
          RoundBudget,    \* probes that time out before a round's two minutes are over
          MaxOutages, MaxRequests      \* bounds
ASSUME UptimeIsSized ==
  /\ Watched \subseteq Sites /\ Intervals \subseteq Nat \ {0} /\ Runners \cap Visits = {}
  /\ RoundBudget \in Nat /\ DayLength \in Nat \ {0} /\ MaxOutages \in Nat /\ MaxRequests \in Nat

VARIABLES monitors,      \* uptime_monitors: a function on the ids that exist
          upChecks,      \* uptime_checks
          answering,     \* the endpoints that answer with the expected status
          probes,        \* what each runner and each visit is doing
          told,          \* what the last alert about a monitor said
          upUse          \* ids handed out, and what is used up of the bounds

upVars == <<monitors, upChecks, answering, probes, told, upUse>>

NotChecked == Horizon + 1000                    \* last_checked_at IS NULL
NoSite == [site |-> "none", prev |-> "up"]
NoProbe == [at |-> "idle", due |-> {}, left |-> RoundBudget, cur |-> NoSite, up |-> FALSE, when |-> 0]
Checkers == Runners \cup Visits
NewMonitor(every) == [status |-> "up", last |-> NotChecked, every |-> every]

\* The monitors there are were made while their endpoints answered.
UptimeInit ==
  /\ monitors \in [Watched -> {NewMonitor(every) : every \in Intervals}]
  /\ upChecks = {}
  /\ answering = Sites
  /\ probes = [p \in Checkers |-> NoProbe]
  /\ told = [s \in Sites |-> "up"]
  /\ upUse = [outages |-> 0, requests |-> 0, visited |-> FALSE, ids |-> Watched, checks |-> 0]

UpSpend(kind, max) == upUse[kind] < max /\ upUse' = [upUse EXCEPT ![kind] = @ + 1]

----------------------------------------------------------------------------
(* The endpoints, which fail and recover on their own.                        *)
Break(s) ==
  /\ s \in answering /\ UpSpend("outages", MaxOutages)
  /\ answering' = answering \ {s}
  /\ UNCHANGED <<monitors, upChecks, probes, told>>
Recover(s) ==
  /\ s \notin answering
  /\ answering' = answering \cup {s}
  /\ UNCHANGED <<monitors, upChecks, probes, told, upUse>>

----------------------------------------------------------------------------
(* A new monitor is checked at once, by a goroutine of the request's.         *)
Snapshot(s) == [site |-> s, prev |-> monitors[s].status]
VisitStarts(v, s, prev) ==
  /\ probes[v].at = "idle" /\ upUse.requests < MaxRequests
  /\ upUse' = [upUse EXCEPT !.requests = @ + 1, !.visited = TRUE, !.ids = @ \cup {s}]
  /\ probes' = [probes EXCEPT ![v].at = "probe", ![v].cur = [site |-> s, prev |-> prev]]

CreateUptimeMonitor(v, s, every) ==
  /\ s \notin upUse.ids
  /\ VisitStarts(v, s, "up")
  /\ monitors' = [i \in DOMAIN monitors \cup {s} |-> IF i = s THEN NewMonitor(every) ELSE monitors[i]]
  /\ UNCHANGED <<upChecks, answering, told>>

\* triggerUptimeCheck: "check now".
TriggerUptimeCheck(v, s) ==
  /\ VisitStarts(v, s, monitors[s].status)
  /\ UNCHANGED <<monitors, upChecks, answering, told>>

(* UpdateUptimeMonitor reads the monitor, replaces the fields the request     *)
(* names and writes all of them; DeleteUptimeMonitor cascades.                *)
UpdateUptimeMonitor(s, every) ==
  /\ UpSpend("requests", MaxRequests)
  /\ monitors' = [monitors EXCEPT ![s].every = every]
  /\ UNCHANGED <<upChecks, answering, probes, told>>

DeleteUptimeMonitor(s) ==
  /\ UpSpend("requests", MaxRequests)
  /\ monitors' = [i \in DOMAIN monitors \ {s} |-> monitors[i]]
  /\ upChecks' = {c \in upChecks : c.site # s}
  /\ UNCHANGED <<answering, probes, told>>

----------------------------------------------------------------------------
\* Mutant of IsDue: `<` for `<=`.
IsDueLate(m, t) == m.last = NotChecked \/ m.last + m.every < t

IsDue(m, t) == m.last = NotChecked \/ m.last + m.every <= t
MonitorsDueForCheck(t) == {Snapshot(s) : s \in {i \in DOMAIN monitors : IsDue(monitors[i], t)}}

\* A tick: RunOnce lists what is due and starts its round of two minutes.
RoundStart(r) ==
  /\ probes[r].at = "idle" /\ MonitorsDueForCheck(now) # {}
  /\ probes' = [probes EXCEPT ![r].at = "next", ![r].due = MonitorsDueForCheck(now)]
  /\ UNCHANGED <<monitors, upChecks, answering, told, upUse>>

\* The list has no order of its own.
NextMonitor(r, m) ==
  /\ probes[r].at = "next" /\ m \in probes[r].due
  /\ probes' = [probes EXCEPT ![r].at = "probe", ![r].cur = m, ![r].due = @ \ {m}]
  /\ UNCHANGED <<monitors, upChecks, answering, told, upUse>>

RoundEnd(r) ==
  /\ probes[r].at = "next" /\ probes[r].due = {}
  /\ probes' = [probes EXCEPT ![r] = NoProbe]
  /\ UNCHANGED <<monitors, upChecks, answering, told, upUse>>

\* CheckMonitor returns: a runner goes on to its next monitor.
Returned(p) == IF p \in Runners THEN [NoProbe EXCEPT !.at = "next", !.due = probes[p].due, !.left = probes[p].left]
               ELSE NoProbe

ProbeAnswered(p) ==
  LET v == probes[p] IN
  /\ v.at \in {"probe", "retry"} /\ v.left > 0 /\ v.cur.site \in answering
  /\ probes' = [probes EXCEPT ![p].at = "insert", ![p].up = TRUE]
  /\ UNCHANGED <<monitors, upChecks, answering, told, upUse>>

\* A failing probe is fast (the wrong status, a refused connection) or takes its
\* whole timeout.  Under an expired deadline none succeeds, nor does one that is
\* still waiting for its answer when the deadline ends.
ProbeFailed(p) ==
  LET v == probes[p] IN
  /\ v.at \in {"probe", "retry"}
  /\ \E slow \in {0, 1} :
       /\ slow <= v.left
       /\ v.cur.site \in answering => v.left = slow
       /\ probes' = [probes EXCEPT ![p].left = v.left - slow,
                                   ![p].at = IF v.at = "probe" THEN "confirm" ELSE "insert"]
  /\ UNCHANGED <<monitors, upChecks, answering, told, upUse>>

\* Before it calls the endpoint down the checker waits and tries once more,
\* unless the deadline is over: then it returns the error and records nothing.
Confirm(p) ==
  /\ probes[p].at = "confirm"
  /\ probes' = [probes EXCEPT ![p] = IF probes[p].left > 0 THEN [@ EXCEPT !.at = "retry"] ELSE Returned(p)]
  /\ UNCHANGED <<monitors, upChecks, answering, told, upUse>>

\* RecordUptimeCheck: INSERT the check, UPDATE the monitor.
RecordInsert(p) ==
  LET v == probes[p]
      id == upUse.checks + 1
  IN
  /\ v.at = "insert"
  /\ IF v.cur.site \in DOMAIN monitors
     THEN /\ upChecks' = upChecks \cup {[id |-> id, site |-> v.cur.site, at |-> now, up |-> v.up]}
          /\ probes' = [probes EXCEPT ![p].at = "update", ![p].when = now]
          /\ upUse' = [upUse EXCEPT !.checks = id]
     ELSE /\ probes' = [probes EXCEPT ![p] = Returned(p)]
          /\ UNCHANGED <<upChecks, upUse>>
  /\ UNCHANGED <<monitors, answering, told>>

StatusOf(up) == IF up THEN "up" ELSE "down"

RecordUpdate(p) ==
  LET v == probes[p] IN
  /\ v.at = "update"
  /\ monitors' = [s \in DOMAIN monitors |->
                    IF s # v.cur.site THEN monitors[s]
                    ELSE [monitors[s] EXCEPT !.status = StatusOf(v.up), !.last = v.when]]
  /\ probes' = [probes EXCEPT ![p] = IF p \in Runners THEN [@ EXCEPT !.at = "alert"] ELSE NoProbe]
  /\ UNCHANGED <<upChecks, answering, told, upUse>>

\* Mutant of AlertChange: the outcome is compared with the row it was written to.
AlertOnRow(r) ==
  LET v == probes[r] IN
  /\ v.at = "alert"
  /\ told' = IF v.cur.site \in DOMAIN monitors /\ StatusOf(v.up) # monitors[v.cur.site].status
             THEN [told EXCEPT ![v.cur.site] = StatusOf(v.up)] ELSE told
  /\ probes' = [probes EXCEPT ![r] = Returned(r)]
  /\ UNCHANGED <<monitors, upChecks, answering, upUse>>

\* RunOnce, after the check: alert when the outcome differs from the status
\* the list had.
AlertChange(r) ==
  LET v == probes[r] IN
  /\ v.at = "alert"
  /\ told' = IF StatusOf(v.up) # v.cur.prev THEN [told EXCEPT ![v.cur.site] = StatusOf(v.up)] ELSE told
  /\ probes' = [probes EXCEPT ![r] = Returned(r)]
  /\ UNCHANGED <<monitors, upChecks, answering, upUse>>

CheckMonitor(p) ==
  ProbeAnswered(p) \/ ProbeFailed(p) \/ Confirm(p) \/ RecordInsert(p) \/ RecordUpdate(p)
RunnerStep(r) ==
  RoundStart(r) \/ (\E m \in probes[r].due : NextMonitor(r, m)) \/ RoundEnd(r) \/ CheckMonitor(r) \/ AlertChange(r)

UptimeRequest ==
  \/ \E v \in Visits, s \in Sites, every \in Intervals : CreateUptimeMonitor(v, s, every)
  \/ \E s \in DOMAIN monitors :
       \/ \E every \in Intervals : UpdateUptimeMonitor(s, every)
       \/ DeleteUptimeMonitor(s)
       \/ \E v \in Visits : TriggerUptimeCheck(v, s)

UptimeNext ==
  \/ \E s \in Sites : Break(s) \/ Recover(s)
  \/ UptimeRequest
  \/ \E v \in Visits : CheckMonitor(v)
  \/ \E r \in Runners : RunnerStep(r)

----------------------------------------------------------------------------
(* GetUptimeHistory: the checks of the last `days` times 24 hours, grouped by  *)
(* calendar day, laid out as one entry a day that ends today.                 *)
\* Mutant of Grouped: the window is as long as the days before today.
GroupedShort(s, d, days) ==
  {c \in upChecks : c.site = s /\ c.at \div DayLength = d /\ c.at + (days - 1) * DayLength >= now}

Grouped(s, d, days) ==
  {c \in upChecks : c.site = s /\ c.at \div DayLength = d /\ c.at + days * DayLength >= now}
DayStatus(C) ==
  LET ups == {c.up : c \in C}
  IN  IF ups = {} THEN "none" ELSE IF ups = {TRUE} THEN "up" ELSE IF ups = {FALSE} THEN "down" ELSE "degraded"
UptimeHistory(s, days) ==
  [k \in 1 .. days |-> LET d == (now \div DayLength) + k - days
                       IN  [total |-> Cardinality(Grouped(s, d, days)), status |-> DayStatus(Grouped(s, d, days))]]

----------------------------------------------------------------------------
UptimeTypeOK ==
  /\ DOMAIN monitors \subseteq Sites /\ answering \subseteq Sites
  /\ \A s \in DOMAIN monitors : /\ monitors[s].status \in {"up", "down"}
                               /\ monitors[s].last \in 0 .. now \cup {NotChecked}
  /\ \A c \in upChecks : c.site \in DOMAIN monitors /\ c.at \in 0 .. now /\ c.id \in 1 .. upUse.checks
  /\ \A p \in Checkers :
       /\ probes[p].at \in {"idle", "next", "probe", "confirm", "retry", "insert", "update", "alert"}
       /\ probes[p].left \in 0 .. RoundBudget

\* What the channels were last told about an endpoint is what its monitor
\* shows, once no check of it is under way (NotifyUptimeIncident is for an
\* endpoint that goes down or recovers).
ToldIsShown ==
  \A s \in DOMAIN monitors :
    told[s] = monitors[s].status \/ \E p \in Checkers : probes[p].at # "idle"

\* While the runner alone checks, no outage and no recovery goes by unannounced.
RunnerTellsAll == upUse.visited \/ ToldIsShown

IsDueAt(s) == monitors[s].last = NotChecked \/ now >= monitors[s].last + monitors[s].every

\* A monitor that is due is checked: slow endpoints before it in the round do
\* not keep it waiting for ever.
DueIsChecked ==
  \A s \in Sites :
    (s \in DOMAIN monitors /\ IsDueAt(s)) ~> ~(s \in DOMAIN monitors /\ IsDueAt(s))

\* The strip counts every check made on a day it shows, the oldest day's too,
\* although the query's window starts at this hour of the day and the strip's
\* first day at midnight.
StripIsComplete ==
  \A s \in DOMAIN monitors, days \in 1 .. 2 : \A k \in 1 .. days :
    UptimeHistory(s, days)[k].total =
      Cardinality({c \in upChecks : c.site = s /\ c.at \div DayLength = (now \div DayLength) + k - days})
=============================================================================
