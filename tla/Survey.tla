------------------------------- MODULE Survey -------------------------------
(* In-app surveys (store/surveys.go, server/survey_handlers.go).  Editors     *)
(* change them from the dashboard, by a read and a write of the whole row.    *)
(* A server-scheduled survey is due for a person once its trigger event is    *)
(* old enough; the SDK of a device asks, shows, and reports what it showed.   *)
(* Answers come in by themselves and reports count them query by query; of    *)
(* the types, the two whose answers are scores are modelled.                  *)
EXTENDS EventLog, WallClock, TLC

CONSTANTS
  SurveyIds, NoSurvey, Deleted,
  Drafts,               \* rows a create request may carry
  Changes,              \* the fields an update request may carry, with values
  Editors, Devices,
  SessionOfDevice,
  DueWindow,            \* SurveyDueWindow
  MaxDelay,             \* MaxSurveyDelaySeconds
  Scores, NoScore,      \* what an answer may carry
  MaxEdits, MaxAnswers  \* bounds: update requests, answers

ASSUME SurveyAssumption ==
  /\ SessionOfDevice \in [Devices -> SessionIds]
  /\ DueWindow \in Nat /\ MaxDelay \in Nat /\ MaxEdits \in Nat /\ MaxAnswers \in Nat
  /\ Scores \subseteq Nat /\ NoScore \notin Scores
  /\ Today <= Horizon

VARIABLES
  surveys,    \* id |-> row, NoSurvey before it is created, Deleted after
  shown,      \* id |-> user_key |-> shown_at; no row is absent from the domain
  edits,      \* editor |-> the row an update is about to write, or Idle
  edited,     \* update requests so far
  asks,       \* device |-> where its request stands
  marks,      \* history: what was recorded as shown, to whom and when
  overtaken,  \* history: the records a report that began earlier was written over
  answers,    \* id |-> score |-> count of survey_responses
  report      \* the results request under way, or Idle

surveyVars == <<surveys, shown, edits, edited, asks, marks, overtaken, answers, report>>

Idle == [at |-> "idle"]
Stored(v) == surveys[v] \notin {NoSurvey, Deleted}

---------------------------------------------------------------------------
\* The dashboard.

ValidTargeting(t) ==
  /\ t.delay \in 0..MaxDelay              \* validSurveyDelay
  /\ t.server => t.trigger # ""           \* validServerScheduling

CreateSurvey(v, row) ==
  /\ surveys[v] = NoSurvey /\ ValidTargeting(row.targeting)
  /\ surveys' = [surveys EXCEPT ![v] = row]
  /\ UNCHANGED <<shown, edits, edited, asks, marks, overtaken, answers, report>>

\* updateSurvey fills in what the request leaves out from the row it reads.
ReadForUpdate(a, v, change) ==
  /\ edits[a] = Idle /\ edited < MaxEdits /\ Stored(v)
  /\ "targeting" \in DOMAIN change => ValidTargeting(change.targeting)
  /\ edits' = [edits EXCEPT ![a] = [at |-> "write", survey |-> v, change |-> change, row |-> change @@ surveys[v]]]
  /\ edited' = edited + 1
  /\ UNCHANGED <<surveys, shown, asks, marks, overtaken, answers, report>>

\* No row is updated when the survey is gone.
UpdateSurvey(a) ==
  /\ edits[a] # Idle
  /\ surveys' = [surveys EXCEPT ![edits[a].survey] = IF @ = Deleted THEN @ ELSE edits[a].row]
  /\ edits' = [edits EXCEPT ![a] = Idle]
  /\ UNCHANGED <<shown, edited, asks, marks, overtaken, answers, report>>

\* ON DELETE CASCADE: shown and answers go with the survey.
DeleteSurvey(v) ==
  /\ Stored(v)
  /\ surveys' = [surveys EXCEPT ![v] = Deleted]
  /\ shown' = [shown EXCEPT ![v] = <<>>]
  /\ marks' = {k \in marks : k.survey # v}
  /\ answers' = [answers EXCEPT ![v] = [s \in DOMAIN @ |-> 0]]
  /\ report' = IF report.at # "idle" /\ report.survey = v THEN [report EXCEPT !.gone = TRUE] ELSE report
  /\ UNCHANGED <<edits, edited, asks, overtaken>>

---------------------------------------------------------------------------
\* What is due.  A request takes its time from the clock when it begins, and
\* then reads statement by statement: the user of the session, the surveys, and
\* of each one its last trigger and then whether it was shown since.

\* Mutant of UserKey: what was shown is remembered for the session alone.
UserKeyOfSession(s, user) == <<"s", s>>

UserKey(s, user) == IF user = Anonymous THEN <<"s", s>> ELSE <<"u", user>>

\* ts of the trigger events in the window.
Triggers(t, s, user, at) ==
  {i.ts : i \in {j \in items :
     /\ j.type = "event" /\ j.name = t.trigger
     /\ IF user = Anonymous THEN j.session = s ELSE sessions[j.session].user = user
     /\ j.ts + t.delay <= at /\ j.ts + t.delay + DueWindow >= at}}

Scheduled(v) ==
  /\ Stored(v) /\ surveys[v].active
  /\ surveys[v].targeting.server /\ surveys[v].targeting.trigger # ""

AskDue(d) ==
  LET s == SessionOfDevice[d] IN
  /\ asks[d] = Idle /\ s \in Rows          \* else the answer is empty
  /\ asks' = [asks EXCEPT ![d] = [at |-> "asked", user |-> sessions[s].user, time |-> now]]
  /\ UNCHANGED <<surveys, shown, edits, edited, marks, overtaken, answers, report>>

\* The loop over the surveys as they were listed, with `left` still to do.
Sift(d, left, due) ==
  /\ asks' = [asks EXCEPT ![d] = [at |-> IF left = {} THEN "told" ELSE "sifts", user |-> @.user, time |-> @.time,
                                  left |-> left, due |-> due]]
  /\ UNCHANGED <<surveys, shown, edits, edited, marks, overtaken, answers, report>>

ListSurveys(d) ==
  /\ asks[d].at = "asked"
  /\ Sift(d, {[survey |-> v, targeting |-> surveys[v].targeting] : v \in {x \in SurveyIds : Scheduled(x)}}, {})

\* max(ts); a survey without a trigger event in the window is not due.
LastTrigger(d) ==
  LET q == asks[d] IN
  /\ q.at = "sifts"
  /\ \E l \in q.left :
       LET ts == Triggers(l.targeting, SessionOfDevice[d], q.user, q.time) IN
       \/ ts = {} /\ Sift(d, q.left \ {l}, q.due)
       \/ /\ ts # {}
          /\ asks' = [asks EXCEPT ![d] = [at |-> "weighs", user |-> q.user, time |-> q.time, left |-> q.left \ {l},
                                          due |-> q.due, survey |-> l.survey, last |-> Max(ts)]]
          /\ UNCHANGED <<surveys, shown, edits, edited, marks, overtaken, answers, report>>

DueSurveys(d) ==
  LET q == asks[d]
      key == UserKey(SessionOfDevice[d], q.user)
      seen == key \in DOMAIN shown[q.survey] /\ shown[q.survey][key] >= q.last
  IN  q.at = "weighs" /\ Sift(d, q.left, IF seen THEN q.due ELSE q.due \cup {q.survey})

\* The SDK shows one of the surveys it was told of, or none.
Show(d) ==
  /\ asks[d].at = "told"
  /\ \/ \E v \in asks[d].due : asks' = [asks EXCEPT ![d] = [at |-> "shows", survey |-> v]]
     \/ asks' = [asks EXCEPT ![d] = Idle]
  /\ UNCHANGED <<surveys, shown, edits, edited, marks, overtaken, answers, report>>

\* MarkSurveyShown: the survey and the session's user are read ..
ReadForMark(d) ==
  /\ asks[d].at = "shows"
  /\ LET v == asks[d].survey
         s == SessionOfDevice[d]
     IN  asks' = [asks EXCEPT ![d] =
           IF Stored(v) THEN [at |-> "marks", survey |-> v, key |-> UserKey(s, sessions[s].user),
                              user |-> sessions[s].user, time |-> now]
           ELSE Idle]
  /\ UNCHANGED <<surveys, shown, edits, edited, marks, overtaken, answers, report>>

\* .. and the row is upserted, unless its survey has gone (foreign key).  The
\* time it is given is that of the report, whatever was there: one that crossed
\* a later report of the same person moves shown_at back.
SamePerson(s1, u1, s2, u2) == u1 = u2 /\ (u1 = Anonymous => s1 = s2)

MarkSurveyShown(d) ==
  LET q == asks[d]
      s == SessionOfDevice[d]
      Same(k) == k.survey = q.survey /\ SamePerson(k.session, k.user, s, q.user)
  IN  /\ q.at = "marks"
      /\ asks' = [asks EXCEPT ![d] = Idle]
      /\ IF Stored(q.survey)
         THEN /\ shown' = [shown EXCEPT ![q.survey] =
                   [k \in {q.key} \cup DOMAIN @ |-> IF k = q.key THEN q.time ELSE @[k]]]
              /\ marks' = marks \cup {[survey |-> q.survey, session |-> s, user |-> q.user, time |-> q.time]}
              /\ overtaken' = {k \in overtaken : ~Same(k)} \cup {k \in marks : Same(k) /\ k.time > q.time}
         ELSE UNCHANGED <<shown, marks, overtaken>>
      /\ UNCHANGED <<surveys, edits, edited, answers, report>>

---------------------------------------------------------------------------
\* Answers and results.

\* Any score is stored; nothing checks it against the survey's type.
SubmitSurveyResponse(v, score) ==
  /\ Stored(v) /\ FoldFunction(+, 0, answers[v]) < MaxAnswers
  /\ answers' = [answers EXCEPT ![v][score] = @ + 1]
  /\ UNCHANGED <<surveys, shown, edits, edited, asks, marks, overtaken, report>>

CountOf(v, S) == FoldFunctionOnSet(+, 0, answers[v], S)

\* Mutant of Groups: one off at the boundary of passives and promoters.
GroupsOffByOne(kind) ==
  CASE kind = "nps" -> [promoters |-> {s \in Scores : s > 9}, passives |-> {s \in Scores : s \in 7..8},
                        detractors |-> {s \in Scores : s \in 0..6}]
    [] OTHER -> [satisfied |-> {s \in Scores : s >= 4}, scored |-> Scores]

\* The FILTERs of the metrics query.
Groups(kind) ==
  CASE kind = "nps" -> [promoters |-> {s \in Scores : s >= 9}, passives |-> {s \in Scores : s \in 7..8},
                        detractors |-> {s \in Scores : s \in 0..6}]
    [] OTHER -> [satisfied |-> {s \in Scores : s >= 4}, scored |-> Scores]

Buckets(kind) == IF kind = "nps" THEN 0..10 ELSE 1..5

\* The type, then the count of all answers; without any, the report is empty.
CountResponses(v) ==
  LET total == CountOf(v, DOMAIN answers[v]) IN
  /\ report = Idle /\ Stored(v) /\ total > 0
  /\ report' = [at |-> "groups", survey |-> v, kind |-> surveys[v].kind, total |-> total,
                groups |-> <<>>, sum |-> 0, unscored |-> answers[v][NoScore], gone |-> FALSE]
  /\ UNCHANGED <<surveys, shown, edits, edited, asks, marks, overtaken, answers>>

CountGroups ==
  /\ report.at = "groups"
  /\ LET g == Groups(report.kind) IN
     report' = [report EXCEPT !.at = "buckets", !.groups = [x \in DOMAIN g |-> CountOf(report.survey, g[x])]]
  /\ UNCHANGED <<surveys, shown, edits, edited, asks, marks, overtaken, answers>>

CountBuckets ==
  /\ report.at = "buckets"
  /\ report' = [report EXCEPT !.at = "done", !.sum = CountOf(report.survey, Buckets(report.kind) \cap Scores)]
  /\ UNCHANGED <<surveys, shown, edits, edited, asks, marks, overtaken, answers>>

Reply ==
  /\ report.at = "done" /\ report' = Idle
  /\ UNCHANGED <<surveys, shown, edits, edited, asks, marks, overtaken, answers>>

---------------------------------------------------------------------------
SurveyInit ==
  /\ surveys = [v \in SurveyIds |-> NoSurvey]
  /\ shown = [v \in SurveyIds |-> <<>>]
  /\ edits = [a \in Editors |-> Idle] /\ edited = 0
  /\ asks = [d \in Devices |-> Idle] /\ marks = {} /\ overtaken = {}
  /\ answers = [v \in SurveyIds |-> [s \in Scores \cup {NoScore} |-> 0]]
  /\ report = Idle

RowNext == \E v \in SurveyIds : (\E row \in Drafts : CreateSurvey(v, row)) \/ DeleteSurvey(v)

EditNext == \E a \in Editors : (\E v \in SurveyIds, c \in Changes : ReadForUpdate(a, v, c)) \/ UpdateSurvey(a)

DueNext ==
  \E d \in Devices :
    \/ AskDue(d) \/ ListSurveys(d) \/ LastTrigger(d) \/ DueSurveys(d)
    \/ Show(d) \/ ReadForMark(d) \/ MarkSurveyShown(d)

AnswerNext ==
  \/ \E v \in SurveyIds :
       (\E s \in Scores \cup {NoScore} : SubmitSurveyResponse(v, s)) \/ CountResponses(v)
  \/ CountGroups \/ CountBuckets \/ Reply

---------------------------------------------------------------------------
\* A survey that was recorded as shown to a person is not brought back to them,
\* in any session of theirs, by a trigger event no later than that: each answer
\* that names it again rests on a later event, however the queries of the answer
\* fall between the reports.  The exception is a record that a report which
\* began earlier was written over: nothing in the upsert keeps the later time.
BroughtBack(k, d) ==
  /\ asks[d].at = "weighs" /\ asks[d].survey = k.survey /\ asks[d].last <= k.time
  /\ k.survey \in asks'[d].due \ asks[d].due

NotBroughtBack ==
  [][\A d \in Devices, k \in marks \ overtaken :
       BroughtBack(k, d) => ~SamePerson(k.session, k.user, SessionOfDevice[d], asks[d].user)]_surveyVars

\* The same of every record, as the comment of MarkSurveyShown and migration
\* 0027 have it: it does not hold, two reports of one person can cross.
NeverBroughtBack ==
  [][\A d \in Devices, k \in marks :
       BroughtBack(k, d) => ~SamePerson(k.session, k.user, SessionOfDevice[d], asks[d].user)]_surveyVars

\* The same of a session, whoever it belongs to by then: it does not hold, as
\* a person who signs in after the survey was shown gets a key of their own.
NotBroughtBackToSession ==
  [][\A d \in Devices, k \in marks \ overtaken : BroughtBack(k, d) => k.session # SessionOfDevice[d]]_surveyVars

\* updateSurveyRequest "changes only the fields it carries": it does not hold of
\* updates that overlap, since each writes the whole row it has read.
OnlyCarriedFieldsChange ==
  [][\A a \in Editors, v \in SurveyIds :
       UpdateSurvey(a) /\ edits[a].survey = v /\ Stored(v) =>
         \A f \in DOMAIN surveys[v] \ DOMAIN edits[a].change : surveys'[v][f] = surveys[v][f]]_surveyVars

\* The numbers of a report are of answers in the order they were counted, when
\* all are within the range of their type: the groups count no less than the
\* scored answers of the total, the buckets no less than the groups, and no more
\* than there are by then.  While nobody answers, the four are equal.
Grouped(r) ==
  IF r.kind = "nps" THEN r.groups.promoters + r.groups.passives + r.groups.detractors ELSE r.groups.scored

InRange(v, kind) == \A s \in Scores : answers[v][s] > 0 => s \in Buckets(kind)

ReportAddsUp ==
  (report.at = "done" /\ ~report.gone /\ InRange(report.survey, report.kind)) =>
    /\ report.total <= Grouped(report) + report.unscored
    /\ Grouped(report) <= report.sum /\ report.sum <= CountOf(report.survey, Scores)
    /\ report.kind # "nps" => report.groups.satisfied <= report.groups.scored
=============================================================================
