------------------------------ MODULE Service ------------------------------
(* What else the server does for SDKs and operators: surveys, the ingest      *)
(* quota, the schema at startup and the move of the frames to another store.  *)
(* The four share the clock and the event log and nothing they change, so     *)
(* TLC explores their sum: `duty` says whose behaviour a run follows.         *)
EXTENDS Survey, IngestLimiter, SchemaMigration, FrameMove

CONSTANT Duties
ASSUME DutiesAreKnown == Duties \subseteq {"surveys", "answers", "quota", "schema", "frames"}

VARIABLE duty

serviceVars == <<now, duty, logVars, surveyVars, limiterVars, migrationVars, moveVars>>

ServiceInit ==
  /\ now = 0 /\ duty \in Duties
  /\ LogInit /\ SurveyInit /\ LimiterInit /\ MigrationInit /\ MoveInit
  /\ duty # "frames" => ~intoFiles      \* of no matter to the others

Surveys(A) == duty = "surveys" /\ A /\ UNCHANGED <<duty, limiterVars, migrationVars, moveVars>>
Answers(A) == duty = "answers" /\ A /\ UNCHANGED <<now, duty, logVars, limiterVars, migrationVars, moveVars>>
Quota(A) == duty = "quota" /\ A /\ UNCHANGED <<duty, logVars, surveyVars, migrationVars, moveVars>>
Schema(A) == duty = "schema" /\ A /\ UNCHANGED <<now, duty, logVars, surveyVars, limiterVars, moveVars>>
Frames(A) == duty = "frames" /\ A /\ UNCHANGED <<now, duty, logVars, surveyVars, limiterVars, migrationVars>>

ServiceNext ==
  \/ Surveys(RowNext \/ DueNext) /\ UNCHANGED <<now, logVars>>
  \/ Surveys(LogNext) /\ UNCHANGED <<now, surveyVars>>
  \/ Surveys(now < Today /\ Tick) /\ UNCHANGED <<logVars, surveyVars>>
  \/ Answers(RowNext \/ EditNext \/ AnswerNext)
  \/ Quota(LimiterNext) /\ UNCHANGED now
  \/ Quota(Tick) /\ UNCHANGED limiterVars
  \/ Schema(MigrationNext)
  \/ Frames(MoveNext)

\* A replica that has started goes on, and one that is down is restarted.
ServiceFairness == \A r \in Replicas : WF_serviceVars(Schema(MigrateStep(r)))

ServiceSpec == ServiceInit /\ [][ServiceNext]_serviceVars /\ ServiceFairness

ReplicasComeUp == duty = "schema" => AllServe
=============================================================================
