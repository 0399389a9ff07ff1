---------------------------- MODULE IssueIngest ----------------------------
(***************************************************************************)
(* store.Ingest as the database runs it: every envelope with errors is one *)
(* transaction of several statements at READ COMMITTED, concurrent with    *)
(* the others and with the dashboard's updates of the same issues.  One    *)
(* action is one statement: it takes the row locks the statement takes and *)
(* waits for a row another transaction has written.                        *)
(*                                                                         *)
(* Items other than errors touch no issue; they are left out.  Merges are  *)
(* transactions too: they are the actions of IssueMerge, and only their    *)
(* names (which may hold an issue's lock) are known here.                  *)
(***************************************************************************)
EXTENDS IssueRules, Sequences, FiniteSets, Functions

CONSTANTS
    Ingests,            \* calls of store.Ingest, one envelope each
    Merges,             \* calls of store.MergeIssue (see IssueMerge)
    NoTx,               \* holder of a free lock
    Projects, Sessions, Releases,
    Envelopes,          \* what the clients may post
    InitialIssues,      \* issue tables the calls may find
    InitialErrorCounts, \* and the error counts of their sessions
    SnoozeDates, SnoozeThresholds,  \* what a user may type
    MaxEdits,           \* bound on the edits from the dashboard
    StatementsMayFail   \* whether connections and statements fail

Envelope == [project : Projects, session : Sessions, release : Releases,
             errors : Seq(ErrorItem)]

ASSUME IngestAssumption ==
    /\ NoTx \notin Ingests \cup Merges
    /\ Releases \subseteq Nat
    /\ Envelopes \subseteq Envelope
    /\ InitialIssues \subseteq [Issues -> IssueRow]
    /\ InitialErrorCounts \subseteq [Sessions -> Nat]
    /\ SnoozeDates \subseteq Nat /\ SnoozeThresholds \subseteq Nat
    /\ MaxEdits \in Nat
    /\ StatementsMayFail \in BOOLEAN

(* The rows of Init are rows the program has written.                      *)
ASSUME InitialIssuesAssumption ==
    \A table \in InitialIssues, i \in Issues :
        /\ Exists(table[i]) \/ table[i] = NoRow
        /\ (table[i].status = "resolved") <=> table[i].resolved

VARIABLES
    issues,       \* committed rows of the issues table
    items,        \* committed error items of each issue
    errorCount,   \* committed sessions.error_count
    heap,         \* newest version of each row, written by its lock's holder
    issueLock, sessionLock, releaseLock,
    envelope,     \* the envelope of each call
    pc,           \* the next statement of each call
    next,         \* index of the item the loop is at
    prev,         \* the row the SELECT of this item returned
    inserted,     \* items the call has inserted and not committed
    events,       \* issueEvents: what the call will announce
    published,    \* what reached onIssueEvent
    edits         \* number of dashboard edits so far

tables   == <<issues, items, errorCount, heap>>
locks    == <<issueLock, sessionLock, releaseLock>>
progress == <<envelope, pc, next, prev, inserted, events>>
vars     == <<tables, locks, progress, published, edits>>

Transactions == Ingests \cup Merges
Total(f)     == FoldFunction(+, 0, f)

IssueEvent == [by : Ingests, kind : {"new_issue", "regression"},
               issue : Issues, count : Nat]
NoItems    == [i \in Issues |-> 0]

Init ==
    /\ issues \in InitialIssues
    /\ items = [i \in Issues |-> issues[i].count]
    /\ errorCount \in InitialErrorCounts
    /\ Total(errorCount) = Total(items)
    /\ heap = issues
    /\ issueLock = [i \in Issues |-> NoTx]
    /\ sessionLock = [s \in Sessions |-> NoTx]
    /\ releaseLock = [r \in Projects \X Releases |-> NoTx]
    /\ envelope \in [Ingests -> Envelopes]
    /\ pc = [t \in Ingests |-> "session"]
    /\ next = [t \in Ingests |-> 1]
    /\ prev = [t \in Ingests |-> NoRow]
    /\ inserted = [t \in Ingests |-> NoItems]
    /\ events = [t \in Ingests |-> {}]
    /\ published = {}
    /\ edits = 0

-----------------------------------------------------------------------------
(* The transaction of one envelope.                                        *)

Errors(t)      == envelope[t].errors
Item(t)        == Errors(t)[next[t]]
ReleaseRow(t)  == <<envelope[t].project, envelope[t].release>>
Running(t)     == pc[t] \in {"session", "release", "select", "upsert", "commit"}
Landed(t)      == pc[t] \in {"publish", "accepted", "lost"}

(* Variants of LoopAt: one iteration too many; leaving after the first.    *)
LoopPastEnd(t, n)  == IF n <= Len(Errors(t)) + 1 THEN "select" ELSE "commit"
LoopOnlyOnce(t, n) == IF n = 1 /\ Errors(t) # <<>> THEN "select" ELSE "commit"

LoopAt(t, n)   == IF n <= Len(Errors(t)) THEN "select" ELSE "commit"
Goto(t, label) == pc' = [pc EXCEPT ![t] = label]

(* What t reads: its own uncommitted version, else the committed one.      *)
Visible(t, i) == IF issueLock[i] = t THEN heap[i] ELSE issues[i]

UpsertSession(t) ==
    /\ pc[t] = "session"
    /\ sessionLock[envelope[t].session] = NoTx
    /\ sessionLock' = [sessionLock EXCEPT ![envelope[t].session] = t]
    /\ Goto(t, IF envelope[t].release # NoRelease THEN "release" ELSE LoopAt(t, next[t]))
    /\ UNCHANGED <<tables, issueLock, releaseLock, envelope, next, prev,
                   inserted, events, published, edits>>

(* Variant: ON CONFLICT DO NOTHING, which locks no row that exists.        *)
TouchRelease(t) ==
    /\ pc[t] = "release"
    /\ Goto(t, LoopAt(t, next[t]))
    /\ UNCHANGED <<tables, locks, envelope, next, prev, inserted, events, published, edits>>

UpsertRelease(t) ==
    /\ pc[t] = "release"
    /\ releaseLock[ReleaseRow(t)] = NoTx
    /\ releaseLock' = [releaseLock EXCEPT ![ReleaseRow(t)] = t]
    /\ Goto(t, LoopAt(t, next[t]))
    /\ UNCHANGED <<tables, issueLock, sessionLock, envelope, next, prev,
                   inserted, events, published, edits>>

(* Variant: the SELECT on another connection than the transaction's.       *)
SelectOutside(t) ==
    /\ pc[t] = "select"
    /\ prev' = [prev EXCEPT ![t] = issues[Item(t).issue]]
    /\ Goto(t, "upsert")
    /\ UNCHANGED <<tables, locks, envelope, next, inserted, events, published, edits>>

(* No lock: an issue another transaction is writing is read as it was.     *)
SelectIssue(t) ==
    /\ pc[t] = "select"
    /\ prev' = [prev EXCEPT ![t] = Visible(t, Item(t).issue)]
    /\ Goto(t, "upsert")
    /\ UNCHANGED <<tables, locks, envelope, next, inserted, events, published, edits>>

(* The upsert and the INSERT of the item: no other transaction can tell    *)
(* them apart.                                                             *)
UpsertIssue(t) ==
    LET e    == Item(t)
        kind == EventKind(prev[t], e, envelope[t].release)
    IN  /\ pc[t] = "upsert"
        /\ issueLock[e.issue] \in {NoTx, t}
        /\ issueLock' = [issueLock EXCEPT ![e.issue] = t]
        /\ heap' = [heap EXCEPT ![e.issue] =
                        UpsertRow(@, prev[t], e, envelope[t].release)]
        /\ inserted' = [inserted EXCEPT ![t][e.issue] = @ + 1]
        /\ events' = [events EXCEPT ![t] = @ \cup
                        {[by |-> t, kind |-> k, issue |-> e.issue,
                          count |-> heap[e.issue].count + 1] : k \in {kind} \ {""}}]
        /\ next' = [next EXCEPT ![t] = @ + 1]
        /\ Goto(t, LoopAt(t, next[t] + 1))
        /\ UNCHANGED <<issues, items, errorCount, sessionLock, releaseLock,
                       envelope, prev, published, edits>>

Unlocked(lock, t) == [r \in DOMAIN lock |-> IF lock[r] = t THEN NoTx ELSE lock[r]]

ReleaseLocks(t) ==
    /\ issueLock' = Unlocked(issueLock, t)
    /\ sessionLock' = Unlocked(sessionLock, t)
    /\ releaseLock' = Unlocked(releaseLock, t)

(* Variant: an envelope counts once.                                       *)
BillOnce(t) == 1

(* errs, the addition to the session's error_count.                        *)
Billed(t) == Len(Errors(t))

(* UPDATE sessions .. error_count + COMMIT.                                *)
Commit(t) ==
    /\ pc[t] = "commit"
    /\ issues' = [i \in Issues |-> Visible(t, i)]
    /\ items' = [i \in Issues |-> items[i] + inserted[t][i]]
    /\ errorCount' = [errorCount EXCEPT ![envelope[t].session] = @ + Billed(t)]
    /\ inserted' = [inserted EXCEPT ![t] = NoItems]
    /\ ReleaseLocks(t)
    /\ Goto(t, IF events[t] = {} THEN "accepted" ELSE "publish")
    /\ UNCHANGED <<heap, envelope, next, prev, events, published, edits>>

(* Variant: announced by the open transaction.                             *)
PublishBeforeCommit(t) ==
    /\ pc[t] = "commit"
    /\ published' = published \cup events[t]
    /\ UNCHANGED <<tables, locks, progress, edits>>

(* onIssueEvent, after the commit.                                         *)
Publish(t) ==
    /\ pc[t] = "publish"
    /\ published' = published \cup events[t]
    /\ Goto(t, "accepted")
    /\ UNCHANGED <<tables, locks, envelope, next, prev, inserted, events, edits>>

(* Variant: rolled back and tried again.                                   *)
RetryFromStart(t) ==
    /\ Running(t)
    /\ heap' = [i \in Issues |-> IF issueLock[i] = t THEN issues[i] ELSE heap[i]]
    /\ inserted' = [inserted EXCEPT ![t] = NoItems]
    /\ events' = [events EXCEPT ![t] = {}]
    /\ next' = [next EXCEPT ![t] = 1]
    /\ ReleaseLocks(t)
    /\ Goto(t, "session")
    /\ UNCHANGED <<issues, items, errorCount, envelope, prev, published, edits>>

(* The deferred Rollback of every error return.                            *)
RollBack(t) ==
    /\ Running(t)
    /\ heap' = [i \in Issues |-> IF issueLock[i] = t THEN issues[i] ELSE heap[i]]
    /\ inserted' = [inserted EXCEPT ![t] = NoItems]
    /\ ReleaseLocks(t)
    /\ Goto(t, "failed")
    /\ UNCHANGED <<issues, items, errorCount, envelope, next, prev, events,
                   published, edits>>

(* A statement fails or the connection is lost; the process dies with a    *)
(* committed envelope still to announce.                                   *)
Fail(t) == StatementsMayFail /\ RollBack(t)

Die(t) ==
    /\ StatementsMayFail
    /\ pc[t] = "publish"
    /\ Goto(t, "lost")
    /\ UNCHANGED <<tables, locks, envelope, next, prev, inserted, events,
                   published, edits>>

(* The holder of the row t's next statement writes: Postgres makes t wait  *)
(* for it, and fails one transaction of a cycle of waits.                  *)
Awaited(t) ==
    CASE pc[t] = "session" -> {sessionLock[envelope[t].session]}
      [] pc[t] = "release" -> {releaseLock[ReleaseRow(t)]}
      [] pc[t] = "upsert"  -> {issueLock[Item(t).issue]}
      [] OTHER -> {}

InCycle(t, awaited) ==
    \E S \in SUBSET DOMAIN awaited :
        /\ t \in S
        /\ \A u \in S : \E v \in S : v # u /\ v \in awaited[u]
        /\ \A v \in S : \E u \in S : v # u /\ v \in awaited[u]

DeadlockVictim(t) ==
    /\ InCycle(t, [u \in Ingests |-> Awaited(u)])
    /\ RollBack(t)

Step(t) == \/ UpsertSession(t) \/ UpsertRelease(t)
           \/ SelectIssue(t) \/ UpsertIssue(t)
           \/ Commit(t) \/ Publish(t)

-----------------------------------------------------------------------------
(* The dashboard's edits: one UPDATE each, committed at once.              *)

Edit(i, row) ==
    /\ edits < MaxEdits
    /\ Exists(issues[i])
    /\ issueLock[i] = NoTx
    /\ issues' = [issues EXCEPT ![i] = row]
    /\ heap' = [heap EXCEPT ![i] = row]
    /\ edits' = edits + 1
    /\ UNCHANGED <<items, errorCount, locks, progress, published>>

(* Variant: the boolean of the old API forgotten.                          *)
SetStatusOnly(i, status) == Edit(i, [issues[i] EXCEPT !.status = status])

SetIssueStatus(i, status) ==
    Edit(i, [issues[i] EXCEPT !.status = status, !.resolved = (status = "resolved")])

(* Variant: the same in the snooze.                                        *)
SnoozeStatusOnly(i, until, threshold) ==
    Edit(i, [issues[i] EXCEPT !.status = "snoozed",
                              !.snoozeUntil = until,
                              !.snoozeThreshold = threshold,
                              !.snoozeStart = issues[i].count])

SnoozeIssue(i, until, threshold) ==
    Edit(i, [issues[i] EXCEPT !.status = "snoozed", !.resolved = FALSE,
                              !.snoozeUntil = until,
                              !.snoozeThreshold = threshold,
                              !.snoozeStart = issues[i].count])

(* Resolving without naming a release resolves in the last one seen.       *)
ResolvedIn(row, release) ==
    CASE release # NoRelease         -> release
      [] row.lastRelease # NoRelease -> row.lastRelease
      [] OTHER                       -> row.resolvedInRelease

ResolveIssue(i, release) ==
    Edit(i, [issues[i] EXCEPT !.status = "resolved", !.resolved = TRUE,
                              !.resolvedInRelease = ResolvedIn(issues[i], release)])

UserEdit ==
    \E i \in Issues :
        \/ \E status \in Statuses : SetIssueStatus(i, status)
        \/ \E until \in SnoozeDates, n \in SnoozeThresholds : SnoozeIssue(i, until, n)
        \/ \E release \in Releases : ResolveIssue(i, release)

-----------------------------------------------------------------------------
(* All calls answered: nothing is left to do.                              *)
Finished ==
    /\ \A t \in Ingests : ~Running(t) /\ pc[t] # "publish"
    /\ UNCHANGED vars

Next ==
    \/ \E t \in Ingests : Step(t) \/ Fail(t) \/ Die(t) \/ DeadlockVictim(t)
    \/ UserEdit
    \/ Finished

Spec == Init /\ [][Next]_vars

(* A statement that can run is run, and Postgres' deadlock_timeout fails   *)
(* a member of a cycle; nothing else has to happen.                        *)
FairSpec ==
    Spec /\ \A t \in Ingests : WF_vars(Step(t)) /\ WF_vars(DeadlockVictim(t))
=============================================================================
