----------------------------- MODULE Scheduler -----------------------------
(* The engine that runs the background workers (internal/scheduler): the cron *)
(* evaluator, the uptime runner and the metric worker.  They share the clock  *)
(* and nothing else, no table and no lock, so a behaviour of the three is any *)
(* interleaving of one behaviour of each; `part` says whose behaviour a run   *)
(* follows, and TLC explores the sum of the three instead of their product.   *)
EXTENDS CronMonitor, UptimeMonitor, MetricAlert

CONSTANT Parts          \* the workers an instance looks at
ASSUME PartsAreWorkers == Parts \subseteq {"crons", "uptime", "metrics"}

VARIABLE part

schedVars == <<now, part, cronVars, upVars, metricVars>>

SchedInit == now = 0 /\ part \in Parts /\ CronInit /\ UptimeInit /\ MetricInit

Crons(A) == part = "crons" /\ A /\ UNCHANGED <<now, part, upVars, metricVars>>
Uptime(A) == part = "uptime" /\ A /\ UNCHANGED <<now, part, cronVars, metricVars>>
Metrics(A) == part = "metrics" /\ A /\ UNCHANGED <<now, part, cronVars, upVars>>

SchedNext ==
  \/ part # "metrics" /\ Tick /\ UNCHANGED <<part, cronVars, upVars, metricVars>>
  \/ Crons(CronNext) \/ Uptime(UptimeNext) \/ Metrics(MetricNext)

\* The goroutines that Engine.Start starts run: their tickers tick, every
\* statement returns and every probe ends within its timeout.  Users, jobs,
\* endpoints and the metric owe nothing.
SchedFairness ==
  /\ \A e \in Evaluators : WF_schedVars(Crons(EvalStep(e)))
  /\ \A r \in Runners : WF_schedVars(Uptime(RunnerStep(r)))
  /\ \A w \in MetricWorkers : WF_schedVars(Metrics(WorkerStep(w)))

SchedSpec == SchedInit /\ [][SchedNext]_schedVars /\ SchedFairness

\* The runner checks what is due in the behaviours that are the runner's.
RunnerChecksWhatIsDue == part = "uptime" => DueIsChecked

SchedTypeOK == CronTypeOK /\ UptimeTypeOK /\ MetricTypeOK
=============================================================================
