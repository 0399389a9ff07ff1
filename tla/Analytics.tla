----------------------------- MODULE Analytics -----------------------------
(* The product analytics of a project: reports over the event log, cohorts,   *)
(* and experiments on feature flags.  Each keeps tables of its own and reads  *)
(* no other's while it changes them, so TLC explores the sum of the three:    *)
(* `area` says whose behaviour a run follows.                                 *)
EXTENDS Funnel, UserPaths, RetentionMatrix, Cohort, Experiment

CONSTANT Areas
ASSUME AreasAreKnown == Areas \subseteq {"reports", "cohorts", "experiments"}

VARIABLE area

analyticsVars == <<area, logVars, funnels, cohortVars, experimentVars>>

AnalyticsInit == area \in Areas /\ LogInit /\ FunnelInit /\ CohortInit /\ ExperimentInit

Reports(A) == area = "reports" /\ A /\ UNCHANGED <<area, cohortVars, experimentVars>>
Cohorts(A) == area = "cohorts" /\ A /\ UNCHANGED <<area, logVars, funnels, experimentVars>>
Experiments(A) == area = "experiments" /\ A /\ UNCHANGED <<area, logVars, funnels, cohortVars>>

AnalyticsNext ==
  \/ Reports(LogNext /\ UNCHANGED funnels)
  \/ Reports(FunnelNext /\ UNCHANGED logVars)
  \/ Cohorts(CohortNext)
  \/ Experiments(ExperimentNext)

\* A request that can go on does; one that waits for a row, a key or a
\* connection is not enabled.  Clients owe no request.
AnalyticsFairness ==
  /\ \A c \in Callers : WF_analyticsVars(Cohorts(RefreshStep(c)))
  /\ \A j \in Judges : WF_analyticsVars(Experiments(JudgeStep(j)))

AnalyticsSpec == AnalyticsInit /\ [][AnalyticsNext]_analyticsVars /\ AnalyticsFairness
=============================================================================
