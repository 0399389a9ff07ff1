-------------------------- MODULE RetentionMatrix --------------------------
(* The retention matrix (store/retention_matrix.go, getRetentionMatrix):      *)
(* users grouped by the day or the week they first did something, and how     *)
(* many of each group did something again, period by period.                  *)
EXTENDS EventLog

CONSTANTS
  DayUnits,             \* instants in a day
  WeekDays,             \* days in a week
  FirstWeekday,         \* weekday of day 0, 1 for a Monday
  LastPeriod            \* periods shown: "day" |-> 14, "week" |-> 7
ASSUME CalendarAssumption ==
  /\ DayUnits \in Nat \ {0} /\ WeekDays \in Nat \ {0} /\ FirstWeekday \in 1..WeekDays
  /\ LastPeriod \in [{"day", "week"} -> Nat]

Day(t) == t \div DayUnits
Weekday(t) == ((Day(t) + FirstWeekday - 1) % WeekDays) + 1

\* When a user did something: sessions started, or events of a name.
Times(u, event, since) ==
  IF event = "session_start"
  THEN {sessions[s].started : s \in {x \in Rows : sessions[x].user = u /\ sessions[x].started >= since}}
  ELSE {i.ts : i \in {x \in items : x.type = "event" /\ x.name = event /\ x.ts >= since /\ sessions[x.session].user = u}}

\* Days before the reading's epoch (t.Day()-weekday+1 may be one) are negative;
\* a bucket is named by its first day plus a week.
BucketDay(period, t) == Day(t) + WeekDays - (IF period = "week" THEN Weekday(t) - 1 ELSE 0)

\* Mutant of PeriodIndex: counted from the first event instead of its bucket.
PeriodFromFirst(period, first, t) ==
  LET days == (t - first) \div DayUnits IN IF period = "week" THEN days \div WeekDays ELSE days

\* Whole days since the bucket's midnight, then whole weeks.
PeriodIndex(period, first, t) ==
  LET days == (t + WeekDays * DayUnits - BucketDay(period, first) * DayUnits) \div DayUnits
  IN  IF period = "week" THEN days \div WeekDays ELSE days

\* cohort is the set of members of the cohort asked for, or "any".
CalculateRetentionMatrix(period, since, start, return, cohort) ==
  LET started == {u \in LogUsers : Times(u, start, since) # {} /\ (cohort = "any" \/ u \in cohort)}
      first == [u \in started |-> Min(Times(u, start, since))]
      In(b) == {u \in started : BucketDay(period, first[u]) = b}
      Back(b, p) == {u \in In(b) : \E t \in Times(u, return, since) :
                                     t >= first[u] /\ PeriodIndex(period, first[u], t) = p}
  IN  [b \in {BucketDay(period, first[u]) : u \in started} |->
        [total |-> Cardinality(In(b)),
         activity |-> [p \in 0..LastPeriod[period] |->
                         IF p = 0 /\ Cardinality(Back(b, 0)) < Cardinality(In(b)) THEN Cardinality(In(b))
                         ELSE Cardinality(Back(b, p))]]]

-----------------------------------------------------------------------------
\* The period a time lies in, by the calendar.
CalendarPeriod(period, t) ==
  IF period = "week" THEN (Day(t) + FirstWeekday - 1) \div WeekDays ELSE Day(t)

\* Every user who started is in one bucket; a cell p > 0 counts the users of
\* the bucket who came back in the p-th calendar day or week after it, whatever
\* the hour or the weekday they started at.
RetentionFollowsCalendar ==
  \A period \in {"day", "week"}, since \in {0, 1}, return \in {"session_start"} \cup {k.name : k \in Shapes} :
    LET m == CalculateRetentionMatrix(period, since, "session_start", return, "any")
        started == {u \in LogUsers : Times(u, "session_start", since) # {}}
        First(u) == Min(Times(u, "session_start", since))
    IN  /\ MapThenSumSet(LAMBDA b : m[b].total, DOMAIN m) = Cardinality(started)
        /\ \A b \in DOMAIN m : \A p \in DOMAIN m[b].activity :
             /\ m[b].activity[p] <= m[b].total
             /\ p > 0 => m[b].activity[p] = Cardinality({u \in started :
                  /\ BucketDay(period, First(u)) = b
                  /\ \E t \in Times(u, return, since) : t >= First(u) /\ CalendarPeriod(period, t) = CalendarPeriod(period, First(u)) + p})
=============================================================================
