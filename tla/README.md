# Sightpane in TLA+

A verification project for the Sightpane server (Go, Postgres, a file or S3
object store). The modules are translated from the source under `src/`; the
README of the program, its comments and its tests are used only as statements
to check the code against.

## 1. The system

Sightpane receives envelopes from SDKs (`POST /ingest`), groups errors into
issues, keeps replay frames, and runs a dashboard plus a handful of background
workers. Several replicas may run over one database and one object store.
Nothing is kept in memory except caches, the notifier's queue and the rate
limiter's buckets; all coordination between requests is done by Postgres row
locks at READ COMMITTED.

| Component | State | Operations | Interacts with | What is hard | What makes it correct |
|---|---|---|---|---|---|
| Error ingest (`store/ingest.go`) | `sessions`, `items`, `issues`, `project_releases` rows | `Ingest`: one transaction per envelope | source map cache, frame store, notifier | status decided on an unlocked row, counters in three tables, deadlocks, crash before the announcement | counts equal stored errors; a group is new once; workflow rules hold |
| Issue workflow (`store/issue_workflow.go`, `query.go`) | `issues` | set status, snooze, resolve, merge, assign, comment | ingest | lost updates against ingest; merges checked on unlocked rows | no merge cycle, nothing counted twice, flag and status agree |
| Source map cache (`symbol/symbol.go`, `store/artifact.go`) | LRU of parsed maps; `release_artifacts` rows and objects | resolve, upload, delete, forget | ingest, object store | load outside the lock, invalidation during a load, other replicas | bounded, byte count exact; a change takes effect |
| Connection pool (`store/store.go`) | 16 connections | every query | ingest, crons, uptime | a request that holds one connection and needs a second | every request is answered |
| Frames and blobs (`blob/`, `saveFrame`) | objects `<session>/<seq>.png`, `frames` rows | put, read, delete a prefix, walk | ingest, retention, project deletion | objects are outside the transaction | no row without object, orphans swept |
| Retention (`store/retention.go`) | same tables | purge, sweep | frames, ingest | two replicas, late envelopes of old sessions | purges whole sessions, expired ones only |
| Project deletion (`store/project.go`) | all tables of a project | `DeleteProject` | ingest, frames | collected before the transaction | nothing outlives the project |
| Notifier (`alert/notifier.go`) | queue of 2048 events, `alert_deliveries` | enqueue, deliver, rate rules | ingest, all workers | full queue, de-duplication, partial failure, shutdown | an announced event is sent once per channel |
| Metric alerts (`alert/metric_worker.go`) | rule status, incidents | evaluate once a minute | notifier | rule snapshot, two replicas, partial failure | one open incident iff firing |
| Cron monitors (`crons/`, `store/crons.go`) | monitor row, check-ins | check-in, deadline evaluation | notifier, pool | evaluator and check-in overwrite each other | missed exactly when the deadline passed |
| Uptime monitors (`uptime/`) | monitor row, checks | check, record | notifier | stale previous status, two replicas | one alert per change |
| Rate limiter (`server/limiter.go`) | bucket per project | `Allow` | ingest handler | refill, request larger than the bucket | never above quota, never starves |
| Scheduler (`scheduler/engine.go`) | worker goroutines | start, stop | all workers | stop during work | every worker keeps running |
| Users, organisations (`store/auth.go`, `users.go`, `org.go`) | users, members, tokens, invitations | sign in, invite, change role, remove | every handler | nothing checks for the last owner; organisation and owner are two statements | a new organisation has its owner |
| Funnels, paths, retention matrix (`store/funnels.go`, `paths.go`, `retention_matrix.go`) | definitions; events of `items` and `sessions` | create, edit, delete; calculate | ingest (late and unordered events), dashboard | boundaries of windows and steps, events of one instant | equals the reference definition |
| Cohorts (`store/cohorts.go`) | cohorts, members | create, edit, delete, refresh | dashboard | refreshes that overlap, key order | members are who the rules match |
| Flags, experiments (`store/feature_flags.go`, `experiments.go`) | flags, experiments | edit, evaluate, declare a winner | SDK, dashboard | two hashes; a winner written from a flag read on another connection | nobody changes variant; the winner is served |
| Surveys (`store/surveys.go`) | surveys, what was shown, answers | edit, due, shown, answer, results | SDK, ingest, dashboard | who a session belongs to changes; reports that cross; results from several queries | a trigger shows a survey once; the numbers add up |
| Schema and blob migration | `schema_migrations`, objects | migrate, move | start of each replica; a server that stays up | crash between steps, two replicas, objects stored meanwhile | who serves has the whole schema; a finished move is complete |
| Search, statistics, spans, insights, geolocation, HTTP wiring, UI | none of their own | read | all | none: read-only SQL and formatting | not modelled |

## 2. Plan

Order: what loses or miscounts user data first.

1. **Issue ingest** - `IssueRules`, `IssueIngest`, `IssueIngestProps`, abstract
   `IssueTracker`; then **merge**, `IssueMerge` composed with it. (done)
2. **First theorems** about `IssueIngest`: `IssueIngestProofs`. (done)
3. `SymbolCache`, `FrameStore` (ingest, retention, deletion over rows and
   objects), `IngestPool` (connections). (done)
4. The workers: `Notifier`; `CronMonitor`, `UptimeMonitor` and `MetricAlert`,
   composed by `Scheduler`. (done)
5. Product analytics, read from an event log that arrives late: `Funnel`,
   `UserPaths`, `RetentionMatrix`, `Cohort`, `FeatureFlag`, `Experiment`,
   composed by `Analytics`. (done)
6. `Survey`, `IngestLimiter`, `SchemaMigration`, `FrameMove`, composed by
   `Service`. (done)
7. Proofs of the safety properties the runs check, each with its inductive
   invariant, and of the refinement of `IssueTracker` under one release. (done)
8. Further proofs: that the pool cannot be used up by requests that wait for
   each other while it is larger than their number (the safety behind
   `AllAnswered`); what a merge leaves of the counts; the workflow properties
   that hold under one release (`OlderReleaseNeverReopens`,
   `IgnoredStaysIgnored`, `LandsWhole`); that an event stays queued until it is
   handled (`QueuedIsHandled`).

## 3. Modules

| Module | Kind | Stands for |
|---|---|---|
| `IssueRules` | operators | the decisions of `Ingest` for one error (ingest.go 330-413) |
| `IssueIngest` | state machine | `Ingest` and the dashboard's edits of issues |
| `IssueIngestProps` | properties | what ingest promises; the mapping to `IssueTracker` |
| `IssueTracker` | abstract state machine | envelopes stored one at a time, each whole or not at all |
| `IssueMerge` | state machine over `IssueIngest` | `MergeIssue` beside ingest |
| `IssueMergeProps` | properties | what merging promises |
| `IssueIngestProofs`, `IssueMergeProofs` | proofs | theorems about `IssueIngest`, its refinement of `IssueTracker`, and `IssueMerge` |
| `SymbolCache` | state machine | `symbol.Cache` over `PutArtifact`, `DeleteArtifact` |
| `FrameStore` | state machine | frames in ingest, retention, erasure and project deletion |
| `IngestPool` | state machine | the connections `Ingest` and the cron evaluator hold and wait for |
| `Notifier` | state machine | `alert.Notifier` and the table `alert_deliveries` |
| `WallClock` | clock | `time.Now` and Postgres' `NOW()`, which the code treats as one |
| `CronMonitor`, `UptimeMonitor`, `MetricAlert` | state machines over the clock | the background workers and the requests that change their rows |
| `Scheduler` | composition | the workers `Engine.Start` starts |
| `EventLog` | state machine | the sessions and items that ingest leaves for reports to read |
| `Funnel`, `UserPaths`, `RetentionMatrix` | operators over the log, and the funnels' editing | the reports and their reference definitions |
| `Cohort`, `FeatureFlag`, `Experiment` | state machines | cohort refreshes; flags; experiments that roll out their winner on a flag |
| `Analytics` | composition | the product analytics of a project |
| `Survey` | state machine over the log | surveys from their editing to their results |
| `IngestLimiter` | state machine over the clock | the token bucket of a project and the requests it refuses |
| `SchemaMigration` | state machine | `Store.migrate` on replicas that start together |
| `FrameMove` | state machine | `blob.Migrate` beside a running server |
| `Service` | composition | these four |
| `SymbolCacheProofs`, `FrameStoreProofs`, `NotifierProofs`, `SchedulerProofs`, `AnalyticsProofs`, `ServiceProofs` | proofs | theorems about the module of that name |
| `MC*` | instances | small envelopes, tables and bounds for TLC |

`Scheduler`, `Analytics` and `Service` compose parts that share the clock or the
log and no state they change. A behaviour of the whole is an interleaving of one
of each, and every property is about one part, so TLC explores the sum of the
parts: `part`, `area` and `duty` say whose behaviour is followed. Inside a part
everything that can overlap does. `Experiment` over
`FeatureFlag`, and the reports and `Survey` over `EventLog`, do share state and
are composed in full.

### Issue ingest

One action is one SQL statement that other transactions can tell apart:

| Action | Code |
|---|---|
| `UpsertSession`, `UpsertRelease` | the two upserts before the loop; both lock a row |
| `SelectIssue` | the unlocked SELECT of one item of type error |
| `UpsertIssue` | the `ON CONFLICT` upsert and the INSERT of the item |
| `Commit` | the UPDATE of the session's counters and the COMMIT |
| `Publish` | the call of `onIssueEvent` |
| `Fail`, `Die` | any error return with its deferred rollback; the process dying between COMMIT and the call |
| `DeadlockVictim` | Postgres failing one transaction of a cycle of waits |
| `SetIssueStatus`, `SnoozeIssue`, `ResolveIssue` | the dashboard's single-statement edits |

`issues`, `items` and `errorCount` are committed tables; `heap` holds the
newest version of each issue row, which only its lock's holder writes.
`Visible` is READ COMMITTED: a statement sees committed rows and its own
writes. An UPDATE on a locked row waits, and then works on the committed row,
which is why `UpsertRow` adds to the row that is there while the status comes
from the row that was read. Left out: items that touch no issue, all columns
no rule reads, titles and fingerprints (an issue *is* its fingerprint).
The tables are those between two runs of the retention job: it deletes items and
keeps counts on purpose.

### Issue merge

`ReadSource` and `ReadTarget` are the SELECTs and the checks on them,
`UpdateSource`, `UpdateTarget`, `MoveItems` (with the commit) the writes. Merges
share the issues' locks with ingest; a deadlock may fail either.

### Source map cache

| Action | Code |
|---|---|
| `Hit`, `Miss` | `Cache.consumer` up to the unlock: found and moved to the front, or not |
| `CheckRow`, `GetObject`, `LoadFails` | `Store.SourceMap`, called without the mutex |
| `Insert` | the second lock: what another goroutine inserted is kept, else `Push` |
| `PutObject`, `PutRow`, `ForgetRelease` | `PutArtifact` |
| `DeleteRow`, `ForgetRelease`, `DeleteObject` | `DeleteArtifact` |
| `ChangeFails` | an error or the death of the process between two of them |

`index`, `order` and `bytes` are the fields of `Cache`; a map is named by the
upload it came from, so a stale one can be told from a fresh one. `Kept` is the
loop of `evict` in closed form: as much of the front as is within the bounds, and
never less than one entry. `Part` are the entries of a release, which `Forget` drops,
or those of all others, which it leaves in order. Nothing keeps calls apart: three
histories say which of them met. `crossed` are the files of which an upload and a deletion
were under way together, `passed` the lookups a `Forget` of their release went by while they
were loading, `behind` the files a replica has not been told of. Resolving a position
inside a parsed map is not modelled.

### Frames, retention and deletion

A call puts its frames one by one (`PutFrame`) before its transaction
(`StoreEnvelope`). A cleaner is a replica's retention job, a project deletion or
a user's erasure: `SelectSessions` collects ids, `DeleteRows` is the
transaction, `DeletePrefix` removes the objects of one session, and retention
goes on with `Walk` and `LookUp`, its sweep. A transaction is one step (its
statements lock what they delete; what can be seen between them is nothing), and
so is `DeletePrefix`, which is idempotent. One batch holds all expired sessions.
`CutoffPasses` is time. Every step may fall between any two others: no call waits for a
purge or a sweep, nor they for a call. Two histories keep what is needed to say how far the
promises go. `crossed` are the frames an envelope under way had put when a cleaner was
about to delete their session's objects; `gone` are the sessions deleted since a janitor
made its list.

### Connection pool

A request begins (`Begin` takes a connection, or waits), may wait for its
release's row lock, and asks for a second connection for the ignore rules of
every error; the cron evaluator holds one for its rows and asks for another for
each update. Only who holds what is kept.

### Notifier

`Enqueue` is ingest's call, which never waits; the goroutine is `TakeEvent`, then for each
rule `CheckRule` and for each channel `Send` and `Record`, or `Tick` for the rate rules. A
rule's failed query (`CheckFails`), a failed send and a failed record are actions of their
own or choices in them. A failed lookup of a rate rule's last delivery is
`CooldownUnknown`: the code then skips the cooldown and sends. `early` counts, per rule
and channel, the alerts delivered within the cooldown of the one before. `Minute` is time
and lets the errors in the window cross the threshold. Left out: the wording of messages,
quiet channels, rules of another project.

### Cron monitors

No operation opens a transaction, so every statement is a step. A check-in is
`PingRead`, `PingInsert`, `PingUpdate`, the last from what the first read. An
evaluator's pass runs the query for missed monitors, marks them one by one, runs
the query for timeouts, marks those, and only then alerts. A statement may fail
and a process may die between any two. A schedule is a period; cron syntax and
time zones are the library's.

### Uptime monitors

A runner's round takes the monitors due (`MonitorsDueForCheck`), and for each probes,
confirms a failure with a retry under what is left of the round's deadline
(`RoundBudget`), which may also end inside the first probe and fail it, inserts the check,
updates the row and alerts if the status differs from the one the *list* had. A request's
own check (`Visits`) shares all steps but the alert. `Break` and `Recover` are the
endpoint's. `UptimeHistory` is the strip of days on the dashboard; `upChecks` is the table
of checks, a set of rows with ids.

### Metric alerts

`WorkerTick` lists the active rules, `EvaluateRule` measures one and plans the
statements of the transition (`Plan`), which then run one at a time against
whatever the rows are by then; each may fail, and the code drops the error.
`Shift` changes what is measured. When it cannot be read the rule is left as it is
(`EvaluationFails`); when the baseline cannot be read, its error is dropped and it counts as
zero. Baseline and anomaly are exact ratios. The p95 of a duration and the count of crashes
are left out: they are other numbers for the same transition.

### Event log, funnels, paths, retention matrix

An envelope may bring events of any time, a session's user may change, and items of one
instant are read in any order (`OrdersOf`). The diagram of paths and the list behind a
link are two requests: each reads in an order of its own (`read`, `again`), and the list
is any that `SELECT DISTINCT .. LIMIT` may return (`GetPathSessions`). The reports are
operators over such an order, with the fold, the windows and the limits of their SQL.
Their references are stated independently: a funnel's step is reached iff a passage
through the log exists (`Passes`), a link of the paths diagram counts the sessions its
click lists, and a period of the retention matrix is a calendar period.

### Cohorts, flags, experiments

A refresh reads the rules, runs their queries one at a time, and then in one
transaction deletes the members it can see, inserts its own in any order and
updates the count; keys lock, two refreshes can deadlock, and Postgres fails one.
A flag is a row; its two hashes are arbitrary functions. `DeclareWinner` follows
the handler: experiment row updated in a transaction, the flag read on *another*
connection of the pool, both written back.

### Surveys

A question what is due is answered statement by statement: `AskDue` reads the session's user,
`ListSurveys` the surveys, and for each of them `LastTrigger` reads its last trigger and
`DueSurveys` when it was shown; reports may fall between any two. `Show`, `ReadForMark` and
`MarkSurveyShown` are the SDK's report, whose upsert writes the time the report began
over whatever is there. `marks` are the showings recorded and `overtaken` those a report
that began earlier was written over, which forgets them. An update reads the row and writes
all of it. Results count all answers, the groups of the type's FILTERs and the buckets by
separate queries, between which answers come. `surveys` follows surveys that are due and
`answers` their editing and results; a survey that is edited between ask and answer is
not modelled. Answers are scores or none; choices and text are counted by the same
statement.

### Rate limiter

One action under the mutex is `Unlimited`, `Admit` or `Refuse`. Time is counted in
fractions of a second (`Fine`) and tokens in fractions of a token, so that the
rounding of Retry-After to seconds is exact. `admitted` is a history: what each project
has been let through since every instant. The quota is the one read with the
project, before the bucket is locked; none of its own means the server's default.
A replica has buckets of its own, so several replicas let through several quotas.

### Schema and blob migration

A replica reads the versions on record, runs each file's statements one at a time
(some may fail and are passed over), and records it; the record's key decides
races. `Exit` is a crash or an error. Running a statement again is taken to add
nothing, as the comment of `applyMigration` says; it is not true of the backfill of
`0011_orgs_roles_audit.sql` when two replicas run it at once, since each inserts an
organisation for the same project and one of them is left without it. The mover walks the
keys in order and passes over objects of the right length, copies and verifies; a file store
truncates before it writes. A key that was listed and has been swept since ends the run
(`VisitSwept`). The server puts and deletes objects meanwhile, and a run that was cut
short is begun again.

## 4. Runs

| Run | Instance | What it shows |
|---|---|---|
| `watch` | two evaluators, one job, one check-in; a runner, two endpoints, an outage, a visit; a worker, a rule of each kind, three changes of the metric; an edit and a failure each, fair | misses, outages and recoveries are announced; one incident per firing rule; the strip is complete; silence is noticed and recovery resolves |
| `analytics` | four items over two sessions of two users; two refreshes of one cohort; two winners of one experiment beside edits of its flag, fair | reports equal their references; a refresh alone is exact; variants are kept; winners are served |
| `service` | a survey, two devices, a sign-in; two senders and a changing quota; two replicas and two files with two mishaps; two objects and two stops, fair | a survey is not brought back, unless an older report is written over a newer one; results add up while answers come; the quota and Retry-After hold; replicas serve a whole schema and come up; a finished move is complete |
| `ingest_one_release` | two envelopes of one release, 2 issues in any of 7 stored states, failures | the statements implement `IssueTracker`; new once, snoozes end on time |
| `ingest_race` | two envelopes of different releases and none, one edit, failures | types, counts, bills, flags and announcements agree whatever interleaves |
| `merge_serial` | two merges one after the other, an envelope naming both issues, an edit, failures | the checks of `MergeIssue` do what they say when nothing overlaps them |
| `symbol_cache` | two lookups of three files and three changes of one of them on two replicas, in any order, failures | the cache's accounts agree and stay within bounds; what it holds once the changes of a file are done is what is stored, unless a `Forget` passed the load or another replica changed the file; no row without its object, unless an upload and a deletion of the file met |
| `frame_overlap` | two replicas cleaning, a deletion, an erasure, two calls with three frames of one session, in any order, a failure | a frame row lacks its object only if the frame was put while a cleaner was about to delete it; retention deletes a young session only if it was deleted after it was listed and stored anew |
| `frame_swept` | one replica, a deletion, every overlap, a failure, fair | orphans are swept, expired sessions purged |
| `pool_large` | three envelopes and the evaluator, five connections, fair | all are answered |
| `alerts` | one replica, a new issue that comes back twice, a rate rule, failing lookups, sends and records, fair | one alert per issue and channel, and one more per failed record; a rate alert within the cooldown costs a failed record or a failed look at the last one; Stop returns |
| `merge_loop` | two merges in opposite directions | violation: see below |

Beside these, further properties hold and are worth checking after a change, each in
place of the properties of a listed configuration: `LandsWhole` and `EnvelopeAnswered`
in `IngestRace` (an envelope lands whole and is answered although deadlocks occur),
`IgnoredStaysIgnored` and `OlderReleaseNeverReopens` in `IngestOneRelease`, `MergedOnce`,
`MergeAnswered` and `ResolvedHasFlag` in `MergeSerial`, `QueuedIsHandled` in `Alerts`,
`ReturnedHoldsNothing` in `PoolLarge`, `JustUsedIsFirst` in `SymbolCache`,
`RunnerChecksWhatIsDue` in `Watch` with
`RoundBudget = 2`, and the type invariants (`SchedTypeOK` in `Watch`,
`MergeTypeOK`, `SymbolTypeOK`, `FrameTypeOK`, `PoolTypeOK`, `NotifierTypeOK`).

Bounds. Two issues and two envelopes of up to two errors are enough for every pair of
conflicting statements, for both orders of locks, and for an envelope meeting its own
earlier write (an issue named twice). Envelopes that name the issues in opposite orders
give the deadlocks. Three issues are used where a chain of merges matters. Releases are
numbers 0 (none) to 2, times 1 and 2, so that equality, older and newer all occur.
`MaxEdits` bounds the dashboard's edits: one edit between a SELECT and the upsert is the
case at stake. The cache has a bound of three bytes and two entries, one map inside it and
one that is over it alone, so that both bounds evict and the last entry stays. The three changes are of one file,
which is the least for a row that a deletion leaves without its object, and one of them is
another replica's; the lookups are of that file, another of its release and one of another
release. Two sessions tell a session that is purged from one
that is not, and two frames a half-put envelope from a whole one; where calls and cleaners
may meet, one session is enough, stored by two calls, one with a date and one without. The
pool matters at its size: as many requests as connections, or more connections than users.
The notifier's queue holds two of three events, so that it overflows; three minutes are
one more than the cooldown. One failure of each kind may fall anywhere, a lookup of the
cooldown and a record apart from the others, so that two alerts may come too early. In
`watch` a deadline, a check-in and two passes fit into the horizon, a round's budget of
one ends inside the probe or the retry of one slow endpoint of two, and three changes take
a rule through ok, warning and firing and back. In `analytics` three items are the
shortest passage through the funnel view-buy-view and the shortest diagram with a middle
step, and the fourth is one too many for it; two sessions are one more than the list
behind a link may hold when it is cut; an instant is half a day and a week two days, so
that both calendar boundaries fall inside four instants; the ids' places lie at the start,
middle and end of four buckets, on both sides of a rollout. In `service` two devices are
one person's or two's, a trigger's delay and window end inside the horizon, the scores
include both edges of every group, a minute is two seconds of two units each, so that a
wait has to be rounded, and the quota goes from the default to another and back. Two files
of two and three statements, one of which may fail, and two crashes interrupt each other's
files. Two objects are one behind the walk and one ahead of it.

Fairness. Weak fairness of each call's next statement (the goroutine is
scheduled and Postgres runs a statement that is not blocked), and of the
deadlock detector, which runs after `deadlock_timeout`. No fairness for
failures, crashes or users. A statement blocked on a row is not enabled, so
weak fairness does not assume away waiting. Retention's rounds recur (the
scheduler's ticker) and a round under way goes on. A request waiting for a
connection takes one that stays free (`database/sql` queues waiters); the calls
are finitely many, so weak fairness suffices. The
notifier's `select` chooses at random among ready cases, so a case that is ready
again and again is taken: strong fairness of taking an event and of returning.
A channel answers or times out, except one in `Silent`.
Workers: tickers tick, statements return and probes end within their timeout, so an
evaluator's, a runner's and a worker's next step are weakly fair; the clock, users,
endpoints and the metric owe nothing. A request's cohort refresh or winner goes on
when it can. A replica that is down is restarted and one that has begun goes on.
Deadlock is not checked where all calls end, a worker stops or the clock reaches its
bound: the pool, the notifier, `watch`, `analytics` and `service`.

### Disagreement with the documentation

`merge_loop` is a run; the others are counterexamples of the table below.

* **Merges check unlocked rows** (`merge_loop`). Two issues merged into each
  other at once both vanish from the list, although the tests say that merging into a merged
  issue must fail.
* **Reports of a shown survey that cross** (`NeverBroughtBack`). `MarkSurveyShown` says that
  the trigger that made a survey due does not bring it back (surveys.go 598, and migration
  0027), but its upsert writes the time its report began over a later one: the same trigger
  then does. `NotBroughtBack` is what holds.
* **A re-uploaded map takes effect** (`NothingIsStale`), says `Forget` (symbol.go 235). A load
  under way inserts the old map after it, and other replicas are not told. `NoStaleMap` is
  what holds.
* **A failure leaves no row pointing at nothing** (`NoRowDangles`), says `PutArtifact`
  (artifact.go 50). A deletion under way removes the object an upload of the same file has
  just written. `RowHasObject` is what holds.

### Further counterexamples

These properties are stated in the modules and fail; they are kept for whoever changes
the code concerned. Each row names the configuration to check the property under and what to
change in it. The first three contradict a document: README.md calls `new_issue` the
very first error of a group and retention a daily drop of what is expired, and store.go
calls the pool's size no limit on concurrency.

| Property | Configuration | What happens |
|---|---|---|
| `NewIssueOnce` | `IngestRace` | first errors in two releases at once: neither sees the other's row. The upsert of the release's row is, by accident or not, the lock that makes `ingest_one_release` pass |
| `AllAnswered` | `PoolLarge`, `Size = 3` | as many envelopes with errors as connections wait for each other for ever |
| `ExpiredPurged` | `FrameSwept`, `FutureDated = {i2}` | an item dated in the future makes its batch fail on the foreign key in every round |
| `SnoozeEndsAtThreshold` | `IngestRace` | both errors read a count one below the threshold |
| `OlderReleaseNeverReopens` | `IngestRace` | the issue is resolved between the SELECT and the upsert |
| `MergedOnce` | `MergeLoop`, three issues | one source is merged into two targets and counted in both |
| `MergeAddsTheCounts` | `MergeLoop`, an ingest, no overlap | an error that arrives meanwhile is moved and not counted |
| `IgnoredStaysIgnored` | `MergeLoop`, an ingest, no overlap | an ingest in flight reopens the merged issue |
| `NothingIsStale` | `SymbolCache` | a load in flight inserts after `Forget`; `Forget` reaches one replica |
| `NoRowDangles` | `SymbolCache` | a deletion removes the object an upload has just put |
| `EveryFrameOpens` | `FrameOverlap` | the sweep takes frames put before their commit; a purge takes those of a session stored again |
| `NoYoungPurged` | `FrameOverlap` | the second replica deletes by its old list a session stored again |
| `LeftoverMapsSwept` | `FrameSwept` | nothing sweeps under `sourcemaps/` |
| `NoConnectionDuringGet` | `PoolLarge` | a map is fetched inside the transaction |
| `AlertedOnce`, `CooldownKept` | `Alerts`, two replicas | two replicas look before either has recorded |
| `StopReturns` | `Alerts`, `Silent = {c2}` | a mail server that never answers |
| `MissedIsAnnounced` | `Watch` | the second query fails after the first has marked |
| `AutoResolves` | `Watch` | the statement that closes the incident fails and is not repeated |
| `RunnerChecksWhatIsDue` | `Watch` | an endpoint whose retry never fits into the round is never recorded and stays due |
| `ToldIsShown` | `Watch` | a request's own check changes the status and tells nobody |
| `OneIncidentWhileFiring` | `Watch`, two workers | two workers open an incident each |
| `ConversionStays` | `Analytics` | a late first step moves the window; the session converts no more |
| `ReplaysTookTheStep` | `Analytics` | the replays behind a link ignore the diagram's root and exclusions |
| `CountIsMembers`, `InitialCountIsMembers` | `Analytics` | two refreshes leave both lists and one count; repeated members are counted |
| `WinnersAreAnswered` | `Analytics`, `FlagPool = 2` | each winner holds a connection and waits for another |
| `ConclusionKeepsResults` | `Analytics` | after the roll-out everybody is counted as the winner's |
| `NeverBroughtBack` | `Service` | a report that began earlier is written over a later one |
| `NotBroughtBackToSession` | `Service` | who signs in gets another key and the survey again |
| `OnlyCarriedFieldsChange` | `Service`, two editors and edits | of two edits at once the second writes back what it read |
| `RetryIsEnoughForAll` | `Service` | more items than a quota never pass, however long the client waits |

### Hazards beyond the list

`PROJECT.json` lists the hazards the runs' properties are about. The code has others,
which no listed property covers; all but the last are in the models:

* envelopes, and merges and envelopes, that take row locks in opposite orders
  (ingest.go 402, issue_workflow.go 121): `EnvelopeAnswered`, `MergeAnswered`;
* the merge adds a count read before the source was locked (issue_workflow.go 125) and
  an ingest in flight reopens the merged issue (ingest.go 407): `MergeAddsTheCounts`,
  `IgnoredStaysIgnored`;
* a process that dies between commit and announcement announces nothing (ingest.go 550),
  and queued events die with it (notifier.go 102): nothing promises otherwise;
* the notifier's de-duplication is for ever, so a channel that failed is never retried
  (notifier.go 147);
* a check-in writes back the due time it read, so an evaluation in between is undone
  (crons.go 269); an `in_progress` check-in does not move it at all, so a long job is
  missed before its `max_runtime` (crons.go 324);
* a rule switched off while it fires keeps its incident (metric_alerts.go 88); the
  baseline of a filtered rule is not filtered (metric_alerts.go 451);
* slow endpoints may use up a round (runner.go 70): `RunnerChecksWhatIsDue`;
* a cohort emptied of rules keeps its members (cohorts.go 261), users without a row match
  no rule (cohorts.go 303), and a given list is counted with its repetitions (cohorts.go
  65): `InitialCountIsMembers`;
* a winner need not be a variant of its flag (experiments.go 262), results move to the
  winner (experiments.go 387): `ConclusionKeepsResults`; and several winners at once can empty
  the pool (experiments.go 249): `WinnersAreAnswered`;
* read-change-write updates lose one of two edits (survey_handlers.go 353, uptime.go
  236): `OnlyCarriedFieldsChange`;
* scores are stored unchecked (surveys.go 392);
* members are inserted in the order of a Go map, so two refreshes of a cohort can deadlock
  (cohorts.go 372): `RefreshEnds`;
* a connection and a row lock are held while the object store is asked (ingest.go 314):
  `NoConnectionDuringGet`;
* an organisation and its owner are two statements outside a transaction (org.go 74).

## 5. Theorems

Every safety invariant and every action property that a run checks is also a theorem,
for all values of the constants that satisfy the named assumptions of the modules (which
TLC evaluates in the runs). What a theorem assumes beyond these is in the third column.
Where a hypothesis excludes an overlap, a second replica or a second release, the table
of counterexamples above has the run that fails without it.

| Theorem | Says | Assumes |
|---|---|---|
| `TypeCorrect` | `TypeOK` is invariant (it is inductive) | |
| `CountsAreExact` | an issue's count is the number of its stored errors | |
| `FlagsAgree` | status and resolved flag agree | |
| `AnnouncementsAreStored` | an announced issue can be read | |
| `EveryErrorIsBilled` | errors billed to sessions are the errors counted in issues | finitely many issues and sessions |
| `NewIssuesAreAnnouncedOnce` | `new_issue` is raised once per issue | `OneReleasePerIssue` |
| `SnoozesEndInTime` | no issue stays snoozed at its threshold | `OneReleasePerIssue`, no edits, `InitialSnoozesRun` |
| `IngestImplementsTracker` | the statements implement `IssueTracker` | `OneReleasePerIssue`, no edits |
| `MergeTypeCorrect` | `MergeTypeOK` is invariant | |
| `MergesNeverCycle` | merges never lead back to an issue | merges do not overlap, `InitialMergesEnd` |
| `MergedErrorsCountOnce` | no error counts in two shown issues | the same |
| `CachesAddUp` | index, order, bytes and bounds of the cache agree | |
| `RowsHaveObjects` | a row of an artifact has its object, unless an upload and a deletion of the file met | |
| `ToldCachesAreFresh` | a cached map is the stored one, unless a `Forget` passed its load or another replica changed the file | |
| `RetentionKeepsTheYoung` | retention deletes expired sessions only, unless a listed one was deleted and stored anew | |
| `FramesCanBeOpened` | a row of a frame has its object, unless the frame crossed a cleaner | |
| `IssuesAreAlertedOnce` | one alert per rule, channel and issue, and one more per failed record | one replica; a rule names a channel once |
| `CooldownIsKept` | rate alerts within the cooldown are no more than failed records and failed looks at the last one | the same |
| `MissedMonitorsAnnounced` | a missed monitor has been announced, unless a statement failed | |
| `RunnerAnnouncesAll` | no outage or recovery goes untold | one runner |
| `StripShowsEveryCheck` | the strip of days counts every check | |
| `IncidentMatchesStatus` | one open incident while a rule fires, else none | one worker |
| `LoneRefreshesAreExact` | a lone refresh leaves who the rules match, and their number | |
| `LinksCountTheirSessions` | a link of a plain diagram counts the sessions listed behind it, up to ties and the list's length | `NoneNamedExit` |
| `FunnelsFollowPassages` | a step is reached iff a passage exists; drop-offs add up | |
| `MatrixFollowsCalendar` | cells are calendar periods and count who came back | |
| `RaisingMovesNobody` | raising a rollout changes nobody's variant | |
| `WinnersAreServed` | an ended experiment's winner is what the flag gives | |
| `MoveCompletes` | a finished move has every object left alone | |
| `SchemaIsWhole` | who serves has the whole schema | |
| `QuotaIsKept` | what a span lets through is bounded by bucket and refill | |
| `RetryAfterSuffices` | who waits as told is admitted | |
| `ShownIsNotBroughtBack` | a shown survey returns only on a newer trigger, unless an older report was written over the record | |
| `ResultsAddUp` | total, groups and distribution of the results differ only by answers that came in between | `FiniteScores` |

The hypotheses, and what of the program justifies them:

* `OneReleasePerIssue`: envelopes that name the same issue are of one project and one
  release. It is the case between two deployments, and then the release's row, which
  every envelope upserts first, is a lock they queue on.
* No edits (`MaxEdits = 0`): an edit between an envelope's SELECT and its upsert is
  overwritten by what the envelope read; `IssueTracker` has no such step.
* `InitialSnoozesRun`, `InitialMergesEnd`: the tables found hold no snooze past its
  threshold and no cycle of merges.
* `FiniteTables`, `FiniteScores`: a database holds finitely many rows, a request's score is
  of a finite range; a sum over them would not be defined otherwise.
* One replica, runner or worker; merges that do not meet: the normal deployment and pace.
  Several replicas are allowed by the code and break these. The theorems about the cache and
  about frames assume nothing of the kind: what an overlap may spoil is part of what they say.
* A rule names a channel once: the dashboard offers each channel once; the server stores
  the list as it is sent.
* `NoneNamedExit`: no event has the name `Exit`, which the diagram gives to a session's
  end. The statement behind a link tells an exit by that name (paths.go 448), so such an event
  would be taken for one.

### The invariants

`IssueIngestProofs`. `RowInv`: a row nobody has locked has its committed version in
`heap`; a row locked by an envelope is the committed row plus what that envelope has
inserted (`LockedRow`); a call without locks has inserted nothing; both versions have
agreeing flags. Only then is the commit provable: it publishes `heap` and `inserted`
together. `EventInv` says the same of announcements: the count a running call will
announce is reached in the row it has locked, and from the commit on in the committed one.
`BillInv` ties how far a call's loop has come to how many errors it has inserted; a commit
then adds the same number to the sum over sessions and to the sum over issues. Under one
release, `QueueInv` (a call past the upsert of its release holds that row) makes the
reader of an issue its only writer, whence `FreshInv` (what was read is what is written
over) and `FirstInv` (two calls never both claim a new issue). `SnoozeInv` is `FreshInv`
and the arithmetic of the threshold.

The refinement maps an envelope's commit to the tracker's `Land` and all other steps to
stutters. `ReplayInv` carries it: the rows an uncommitted call has locked are what the
tracker's recursive function `Replay` makes of the committed ones after the errors done so far.
`Replay` is unfolded at each step of the loop.

`IssueMergeProofs`. `MergeInv`: while no other merge runs, what a merge has checked of
its two rows still holds, since ingest changes no `mergedInto` (`OtherEffect`). Then
an edge from an unmerged source to an unmerged target closes no cycle. `CountInv`
bounds the counts read and written by the items that will have moved.

`SymbolCacheProofs`. `CacheInv`: the order has no key twice, the index is its set of
keys, the bytes are the sum of its sizes. The lemmas are about sequences: what `Push`,
moving to the front, `Forget` and the longest part within the bounds do to keys and sums.
`PairInv` says which of row and object are there at each step of a change, and that files of
which an upload and a deletion are under way together are on record as `crossed`. `StaleInv`
is about the keys a replica has been told of (`Told`): its entries are what is stored, and so
is what its lookups are about to insert, except those a `Forget` has passed.

`FrameStoreProofs`. `ListInv`: what a janitor has listed is still expired or has been
deleted since; nothing makes a row young again. `FrameInv`: no row names an object a cleaner
is about to delete, and what a call has put is still there, but for the frames that have
crossed; and every frame that is crossing is on record.

`NotifierProofs`. `AlertInv`: what a worker is about to send is not on record, and what
was sent is on record, about to be, or lost with a failure. `SpikeInv` is its counterpart
over time: each alert that came early is paid for by a miss (`Paid`), and while as many came
early as there were misses, the last record of a rule is no older than any channel's last
delivery and nothing early is in hand.

`SchedulerProofs`. `CronInv`: who is missed was told of or is in an evaluator's hands.
`UpInv`: a runner's snapshot is the row's status, and the status last told differs from
the row only between update and alert. `MetricInv`: what is left of a rule's statements
fits its row and its open incidents (`TaskFits`). All are stated up to the first failure.

`AnalyticsProofs`. `CohortInv`: a refresh that has met nobody knows in its hands what the
tables hold. The reports are recursive functions and folds over an order of the log;
`FunnelsFollowPassages` needs that the greedy walk stays ahead of every passage (`Led`,
`Leading`); `LinksCountTheirSessions` that a session's nodes are walked once and that two
readings of a session without ties are one; `MatrixFollowsCalendar` the arithmetic of
divisions that are shifted by the first weekday, and that users who started are the
disjoint sum over buckets. `LogInv`, `RowsInv`, `StartsInv` and `FunnelType` are the
little that the log's own steps must keep. `ExperimentInv`: a rolled-out flag is one the
winner takes all of, until it is edited.

`ServiceProofs`. `MoveInv`: behind the walk every key left alone is moved. `MigrationInv`:
a record is worth what it says, and no statement of a file has run before the files
before it were applied, so that a process may skip what another has recorded. `QuotaInv`:
what was let through since any instant and the tokens left are together no more than the
most that can have come in; a bound on the admitted alone is not inductive. `WaitInv`: by
the time told, the bucket will hold the request. `DueInv`: each record of a showing that was
not overtaken has a row that is no older, and a report in hand has the key of the person read.
`ReportInv`: answers only come, so that each number read so far bounds those read after it.

Recursion over data. A recursive function or a fold is a CHOICE among the functions that
obey its equation. The proofs show that such a function exists and is unique on its
domain, by the least number (`LeastExists`, from `WFMin` on the naturals) or by taking
elements away from a finite set (`ByRemoval`), and then argue by the same two. No operator
is a parameter of such a lemma: what is to be shown is given as a set.

Only model-checked: liveness (`AllAnswered`, `OrphansSwept`, `ExpiredPurged`, `StopReturns`,
`SilenceIsNoticed`, `AutoResolvesUnlessFailed`, `ReplicasComeUp`), which needs
fairness and ENABLED and is out of the prover's reach; everything about the connection
pool, whose property is one of these; and the properties of §4 that belong to no listed run.

## 6. Not modelled

* Users, sign-in, organisations, roles, invitations: a request reads one token and
  writes at most one row, `CreateOrg` excepted.
* Insights, dashboards, search, statistics, spans, performance and profiles:
  read-only SQL, query building and tree assembly.
* Fingerprints, scrubbing, parsing of user agents, geolocation, cron syntax, cutting a
  migration into statements: rewriting of strings or libraries; where their result
  matters it is an input of a model.
* p95 latency, rates and percentages, and the statistics of experiments: floating point.
* The certificate probe, which sets no status, and `RunDueChecks`, which nothing calls.
* Routing, configuration, test database, seed tool and the dashboard's client.
