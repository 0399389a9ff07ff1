------------------------- MODULE IssueIngestProofs -------------------------
(***************************************************************************)
(* Theorems about IssueIngest, for any number of calls, issues, sessions   *)
(* and releases and whatever the envelopes say.                            *)
(***************************************************************************)
EXTENDS IssueIngestProps, FiniteSetTheorems, NaturalsInduction,
        WellFoundedInduction, TLAPS

(* What one error writes is an issue row, whatever rows it was decided on. *)
LEMMA UpsertRowType ==
    ASSUME NEW row \in IssueRow, NEW old \in IssueRow,
           NEW e \in ErrorItem, NEW release \in Nat
    PROVE  /\ UpsertRow(row, old, e, release) \in IssueRow
           /\ UpsertRow(row, old, e, release).count = row.count + 1
           /\ UpsertRow(row, old, e, release).mergedInto = row.mergedInto
           /\ (UpsertRow(row, old, e, release).status = "resolved")
                 <=> UpsertRow(row, old, e, release).resolved
  <1> DEFINE status == TargetStatus(old, e, release)
             last   == IF release # NoRelease THEN release ELSE old.lastRelease
  <1>1. status \in Statuses
    BY DEF TargetStatus, Statuses, IssueRow
  <1>2. last \in Nat
    BY DEF IssueRow
  <1> HIDE DEF status, last
  <1>3. UpsertRow(row, old, e, release) =
          [row EXCEPT !.count = row.count + 1, !.status = status,
                      !.resolved = (status = "resolved"),
                      !.lastRelease = IF last # NoRelease THEN last
                                      ELSE row.lastRelease]
    BY DEF UpsertRow, status, last
  <1>4. UpsertRow(row, old, e, release) =
          [status |-> status, resolved |-> (status = "resolved"),
           count |-> row.count + 1, mergedInto |-> row.mergedInto,
           snoozeUntil |-> row.snoozeUntil,
           snoozeThreshold |-> row.snoozeThreshold,
           snoozeStart |-> row.snoozeStart,
           lastRelease |-> IF last # NoRelease THEN last ELSE row.lastRelease,
           resolvedInRelease |-> row.resolvedInRelease]
    BY <1>3 DEF IssueRow
  <1>5. /\ row.count + 1 \in Nat
        /\ (IF last # NoRelease THEN last ELSE row.lastRelease) \in Nat
        /\ (status = "resolved") \in BOOLEAN
    BY <1>2 DEF IssueRow
  <1>6. UpsertRow(row, old, e, release) \in IssueRow
    BY <1>1, <1>4, <1>5 DEF IssueRow
  <1>7. /\ UpsertRow(row, old, e, release).count = row.count + 1
        /\ UpsertRow(row, old, e, release).mergedInto = row.mergedInto
    BY <1>4
  <1>8. (UpsertRow(row, old, e, release).status = "resolved")
          <=> UpsertRow(row, old, e, release).resolved
    <2>1. UpsertRow(row, old, e, release).status = status
      BY <1>4
    <2>2. UpsertRow(row, old, e, release).resolved = (status = "resolved")
      BY <1>4
    <2>3. QED
      BY <2>1, <2>2
  <1>9. QED
    BY <1>6, <1>7, <1>8

(* The item the loop is at is an error of the envelope.                    *)
LEMMA EnvelopeType ==
    ASSUME TypeOK, NEW t \in Ingests
    PROVE  /\ envelope[t].session \in Sessions
           /\ envelope[t].release \in Nat
           /\ ReleaseRow(t) \in Projects \X Releases
           /\ Len(Errors(t)) \in Nat
           /\ next[t] \in Nat \ {0}
           /\ pc[t] \in {"select", "upsert"} => Item(t) \in ErrorItem
  <1>1. envelope[t] \in Envelope
    BY IngestAssumption DEF TypeOK
  <1>2. /\ envelope[t].session \in Sessions
        /\ envelope[t].project \in Projects
        /\ envelope[t].release \in Releases
        /\ Errors(t) \in Seq(ErrorItem)
    BY <1>1 DEF Envelope, Errors
  <1>3. next[t] \in Nat \ {0}
    BY DEF TypeOK
  <1>4. Len(Errors(t)) \in Nat
    BY <1>2
  <1>5. ASSUME pc[t] \in {"select", "upsert"}
        PROVE  Item(t) \in ErrorItem
    <2>1. next[t] \in 1..Len(Errors(t))
      BY <1>3, <1>4, <1>5 DEF TypeOK
    <2>2. QED
      BY <2>1, <1>2 DEF Item
  <1>6. QED
    BY <1>2, <1>3, <1>4, <1>5, IngestAssumption DEF ReleaseRow

LEMMA NoRowType == NoRow \in IssueRow
  BY DEF NoRow, IssueRow, Statuses, NoTime, NoRelease

(* Where the loop goes from the end of an iteration.                       *)
LEMMA LoopType ==
    ASSUME NEW t \in Ingests, NEW n \in Nat, Len(Errors(t)) \in Nat
    PROVE  /\ LoopAt(t, n) \in {"select", "commit"}
           /\ LoopAt(t, n) = "select" => n <= Len(Errors(t))
  BY DEF LoopAt

-----------------------------------------------------------------------------
(* The type invariant.                                                     *)

LEMMA InitType == Init => TypeOK
  <1> SUFFICES ASSUME Init PROVE TypeOK
    OBVIOUS
  <1>1. issues \in [Issues -> IssueRow] /\ heap \in [Issues -> IssueRow]
    BY IngestAssumption DEF Init
  <1>2. items \in [Issues -> Nat]
    BY <1>1 DEF Init, IssueRow
  <1>3. errorCount \in [Sessions -> Nat]
    BY IngestAssumption DEF Init
  <1>4. /\ prev \in [Ingests -> IssueRow]
        /\ inserted \in [Ingests -> [Issues -> Nat]]
    BY NoRowType DEF Init, NoItems
  <1>5. /\ issueLock \in [Issues -> Transactions \cup {NoTx}]
        /\ sessionLock \in [Sessions -> Ingests \cup {NoTx}]
        /\ releaseLock \in [Projects \X Releases -> Ingests \cup {NoTx}]
    BY DEF Init
  <1>6. /\ envelope \in [Ingests -> Envelopes]
        /\ pc \in [Ingests -> {"session", "release", "select", "upsert", "commit",
                               "publish", "accepted", "lost", "failed"}]
        /\ next \in [Ingests -> Nat \ {0}]
        /\ \A t \in Ingests : pc[t] \in {"select", "upsert"} => next[t] <= Len(Errors(t))
    BY DEF Init
  <1>7. /\ events \in [Ingests -> SUBSET IssueEvent]
        /\ published \in SUBSET IssueEvent
        /\ edits \in 0..MaxEdits
    BY IngestAssumption DEF Init
  <1>8. QED
    BY <1>1, <1>2, <1>3, <1>4, <1>5, <1>6, <1>7 DEF TypeOK

(* One lock map, emptied of one holder.                                    *)
LEMMA UnlockedType ==
    ASSUME NEW D, NEW H, NEW lock \in [D -> H \cup {NoTx}], NEW t
    PROVE  Unlocked(lock, t) \in [D -> H \cup {NoTx}]
  BY DEF Unlocked

(* The rows an edit writes keep the types and the boolean.                 *)
LEMMA EditType ==
    ASSUME TypeOK, UserEdit
    PROVE  \E i \in Issues, row \in IssueRow :
              /\ Edit(i, row)
              /\ row.count = issues[i].count
              /\ row.mergedInto = issues[i].mergedInto
              /\ (row.status = "resolved") <=> row.resolved
  <1>1. PICK i \in Issues :
          \/ \E status \in Statuses : SetIssueStatus(i, status)
          \/ \E until \in SnoozeDates, n \in SnoozeThresholds : SnoozeIssue(i, until, n)
          \/ \E release \in Releases : ResolveIssue(i, release)
    BY DEF UserEdit
  <1>2. issues[i] \in IssueRow
    BY DEF TypeOK
  <1>3. CASE \E status \in Statuses : SetIssueStatus(i, status)
    <2>1. PICK status \in Statuses : SetIssueStatus(i, status)
      BY <1>3
    <2> DEFINE row == [issues[i] EXCEPT !.status = status, !.resolved = (status = "resolved")]
    <2>2. /\ row \in IssueRow
          /\ row.count = issues[i].count
          /\ row.mergedInto = issues[i].mergedInto
          /\ row.status = status
          /\ row.resolved = (status = "resolved")
      BY <1>2 DEF IssueRow
    <2>3. Edit(i, row)
      BY <2>1 DEF SetIssueStatus
    <2>4. QED
      <3> HIDE DEF row
      <3> QED BY <2>2, <2>3
  <1>4. CASE \E until \in SnoozeDates, n \in SnoozeThresholds : SnoozeIssue(i, until, n)
    <2>1. PICK until \in SnoozeDates, n \in SnoozeThresholds : SnoozeIssue(i, until, n)
      BY <1>4
    <2> DEFINE row == [issues[i] EXCEPT !.status = "snoozed", !.resolved = FALSE,
                                        !.snoozeUntil = until,
                                        !.snoozeThreshold = n,
                                        !.snoozeStart = issues[i].count]
    <2>2. /\ row \in IssueRow
          /\ row.count = issues[i].count
          /\ row.mergedInto = issues[i].mergedInto
          /\ row.status = "snoozed" /\ row.resolved = FALSE
      <3>1. until \in Nat /\ n \in Nat
        BY IngestAssumption
      <3>2. QED
        BY <1>2, <3>1 DEF IssueRow, Statuses
    <2>3. Edit(i, row)
      BY <2>1 DEF SnoozeIssue
    <2>4. QED
      <3> HIDE DEF row
      <3> QED BY <2>2, <2>3
  <1>5. CASE \E release \in Releases : ResolveIssue(i, release)
    <2>1. PICK release \in Releases : ResolveIssue(i, release)
      BY <1>5
    <2> DEFINE in  == ResolvedIn(issues[i], release)
               row == [issues[i] EXCEPT !.status = "resolved", !.resolved = TRUE,
                                        !.resolvedInRelease = in]
    <2>2. in \in Nat
      BY <1>2, IngestAssumption DEF ResolvedIn, IssueRow
    <2>3. Edit(i, row)
      BY <2>1 DEF ResolveIssue
    <2> HIDE DEF in
    <2>4. /\ row \in IssueRow
          /\ row.count = issues[i].count
          /\ row.mergedInto = issues[i].mergedInto
          /\ row.status = "resolved" /\ row.resolved = TRUE
      BY <1>2, <2>2 DEF IssueRow, Statuses
    <2>5. QED
      <3> HIDE DEF row
      <3> QED BY <2>3, <2>4
  <1>6. QED
    BY <1>1, <1>3, <1>4, <1>5

Labels == {"session", "release", "select", "upsert", "commit",
           "publish", "accepted", "lost", "failed"}

(* The loop never points past the last error while it has one to read.     *)
InLoop == \A t \in Ingests : pc[t] \in {"select", "upsert"} => next[t] <= Len(Errors(t))

(* The statement of one call keeps the types.                              *)
LEMMA StepType ==
    ASSUME TypeOK, NEW t \in Ingests, Step(t)
    PROVE  TypeOK'
  <1>e. /\ envelope[t].session \in Sessions
        /\ envelope[t].release \in Nat
        /\ ReleaseRow(t) \in Projects \X Releases
        /\ Len(Errors(t)) \in Nat
        /\ next[t] \in Nat \ {0}
        /\ pc[t] \in {"select", "upsert"} => Item(t) \in ErrorItem
    BY EnvelopeType
  <1>l. /\ LoopAt(t, next[t]) \in {"select", "commit"}
        /\ LoopAt(t, next[t]) = "select" => next[t] <= Len(Errors(t))
    BY <1>e, LoopType
  <1>1. CASE UpsertSession(t)
    <2>1. sessionLock' \in [Sessions -> Ingests \cup {NoTx}]
      BY <1>1 DEF UpsertSession, TypeOK
    <2>2. pc' \in [Ingests -> Labels] /\ InLoop'
      BY <1>1, <1>l DEF UpsertSession, Goto, TypeOK, InLoop, Labels, Errors
    <2>3. QED
      BY <1>1, <2>1, <2>2 DEF UpsertSession, tables, TypeOK, InLoop, Labels
  <1>2. CASE UpsertRelease(t)
    <2>1. releaseLock' \in [Projects \X Releases -> Ingests \cup {NoTx}]
      BY <1>2 DEF UpsertRelease, TypeOK
    <2>2. pc' \in [Ingests -> Labels] /\ InLoop'
      BY <1>2, <1>l DEF UpsertRelease, Goto, TypeOK, InLoop, Labels, Errors
    <2>3. QED
      BY <1>2, <2>1, <2>2 DEF UpsertRelease, tables, TypeOK, InLoop, Labels
  <1>3. CASE SelectIssue(t)
    <2>1. prev' \in [Ingests -> IssueRow]
      <3>1. Item(t).issue \in Issues
        BY <1>3, <1>e DEF SelectIssue, ErrorItem
      <3>2. Visible(t, Item(t).issue) \in IssueRow
        BY <3>1 DEF Visible, TypeOK
      <3>3. QED
        BY <1>3, <3>2 DEF SelectIssue, TypeOK
    <2>2. pc' \in [Ingests -> Labels] /\ InLoop'
      BY <1>3 DEF SelectIssue, Goto, TypeOK, InLoop, Labels, Errors
    <2>3. QED
      BY <1>3, <2>1, <2>2 DEF SelectIssue, tables, locks, TypeOK, InLoop, Labels
  <1>4. CASE UpsertIssue(t)
    <2> DEFINE e    == Item(t)
               kind == EventKind(prev[t], e, envelope[t].release)
               new  == {[by |-> t, kind |-> k, issue |-> e.issue,
                         count |-> heap[e.issue].count + 1] : k \in {kind} \ {""}}
    <2>1. e \in ErrorItem /\ e.issue \in Issues /\ pc[t] = "upsert"
      BY <1>4, <1>e DEF UpsertIssue, ErrorItem
    <2>2. UpsertRow(heap[e.issue], prev[t], e, envelope[t].release) \in IssueRow
      BY <2>1, <1>e, UpsertRowType DEF TypeOK
    <2>3. new \subseteq IssueEvent
      <3>1. kind \in {"", "new_issue", "regression"}
        BY DEF EventKind
      <3>2. heap[e.issue].count + 1 \in Nat
        <4>1. heap[e.issue] \in IssueRow
          BY <2>1 DEF TypeOK
        <4>2. QED
          BY <4>1 DEF IssueRow
      <3> DEFINE n == heap[e.issue].count + 1
      <3>3. ASSUME NEW k \in {kind} \ {""}
            PROVE  [by |-> t, kind |-> k, issue |-> e.issue, count |-> n] \in IssueEvent
        <4>1. k \in {"new_issue", "regression"}
          BY <3>1, <3>3
        <4>2. e.issue \in Issues /\ n \in Nat
          BY <2>1, <3>2
        <4> HIDE DEF n, e, kind
        <4>3. QED
          BY <4>1, <4>2 DEF IssueEvent
      <3>4. QED
        BY <3>3
    <2>4. /\ heap' = [heap EXCEPT ![e.issue] =
                        UpsertRow(heap[e.issue], prev[t], e, envelope[t].release)]
          /\ issueLock' = [issueLock EXCEPT ![e.issue] = t]
          /\ inserted' = [inserted EXCEPT ![t][e.issue] = inserted[t][e.issue] + 1]
          /\ events' = [events EXCEPT ![t] = events[t] \cup new]
          /\ next' = [next EXCEPT ![t] = next[t] + 1]
          /\ pc' = [pc EXCEPT ![t] = LoopAt(t, next[t] + 1)]
          /\ UNCHANGED <<issues, items, errorCount, sessionLock, releaseLock,
                         envelope, prev, published, edits>>
      BY <1>4 DEF UpsertIssue, Goto
    <2>5. /\ LoopAt(t, next[t] + 1) \in {"select", "commit"}
          /\ LoopAt(t, next[t] + 1) = "select" => next[t] + 1 <= Len(Errors(t))
      BY <1>e, LoopType
    <2> HIDE DEF e, new
    <2>6. heap' \in [Issues -> IssueRow]
      BY <2>1, <2>2, <2>4 DEF TypeOK
    <2>7. inserted' \in [Ingests -> [Issues -> Nat]]
      BY <2>1, <2>4 DEF TypeOK
    <2>8. events' \in [Ingests -> SUBSET IssueEvent]
      BY <2>3, <2>4 DEF TypeOK
    <2>9. /\ pc' \in [Ingests -> Labels] /\ InLoop'
          /\ next' \in [Ingests -> Nat \ {0}]
      BY <1>e, <2>4, <2>5 DEF TypeOK, InLoop, Labels, Errors
    <2>10. issueLock' \in [Issues -> Transactions \cup {NoTx}]
      BY <2>1, <2>4 DEF TypeOK, Transactions
    <2>11. QED
      BY <2>4, <2>6, <2>7, <2>8, <2>9, <2>10 DEF TypeOK, InLoop, Labels
  <1>5. CASE Commit(t)
    <2>1. issues' \in [Issues -> IssueRow]
      BY <1>5 DEF Commit, Visible, TypeOK
    <2>2. items' \in [Issues -> Nat]
      BY <1>5 DEF Commit, TypeOK
    <2>3. errorCount' \in [Sessions -> Nat]
      BY <1>5, <1>e DEF Commit, Billed, TypeOK
    <2>4. inserted' \in [Ingests -> [Issues -> Nat]]
      BY <1>5 DEF Commit, NoItems, TypeOK
    <2>5. /\ issueLock' \in [Issues -> Transactions \cup {NoTx}]
          /\ sessionLock' \in [Sessions -> Ingests \cup {NoTx}]
          /\ releaseLock' \in [Projects \X Releases -> Ingests \cup {NoTx}]
      BY <1>5, UnlockedType DEF Commit, ReleaseLocks, TypeOK
    <2>6. pc' \in [Ingests -> Labels] /\ InLoop'
      BY <1>5 DEF Commit, Goto, TypeOK, InLoop, Labels, Errors
    <2>7. QED
      BY <1>5, <2>1, <2>2, <2>3, <2>4, <2>5, <2>6 DEF Commit, TypeOK, InLoop, Labels
  <1>6. CASE Publish(t)
    <2>1. pc' \in [Ingests -> Labels] /\ InLoop'
      BY <1>6 DEF Publish, Goto, TypeOK, InLoop, Labels, Errors
    <2>2. published' \in SUBSET IssueEvent
      BY <1>6 DEF Publish, TypeOK
    <2>3. QED
      BY <1>6, <2>1, <2>2 DEF Publish, tables, locks, TypeOK, InLoop, Labels
  <1>7. QED
    BY <1>1, <1>2, <1>3, <1>4, <1>5, <1>6 DEF Step

LEMMA RollBackType ==
    ASSUME TypeOK, NEW t \in Ingests, RollBack(t)
    PROVE  TypeOK'
  <1>1. heap' \in [Issues -> IssueRow]
    BY DEF RollBack, TypeOK
  <1>2. inserted' \in [Ingests -> [Issues -> Nat]]
    BY DEF RollBack, NoItems, TypeOK
  <1>3. /\ issueLock' \in [Issues -> Transactions \cup {NoTx}]
        /\ sessionLock' \in [Sessions -> Ingests \cup {NoTx}]
        /\ releaseLock' \in [Projects \X Releases -> Ingests \cup {NoTx}]
    BY UnlockedType DEF RollBack, ReleaseLocks, TypeOK
  <1>4. pc' \in [Ingests -> Labels] /\ InLoop'
    BY DEF RollBack, Goto, TypeOK, InLoop, Labels, Errors
  <1>5. QED
    BY <1>1, <1>2, <1>3, <1>4 DEF RollBack, TypeOK, InLoop, Labels

LEMMA NextType == TypeOK /\ [Next]_vars => TypeOK'
  <1> SUFFICES ASSUME TypeOK, [Next]_vars PROVE TypeOK'
    OBVIOUS
  <1>1. ASSUME NEW t \in Ingests, Step(t) PROVE TypeOK'
    BY <1>1, StepType
  <1>2. ASSUME NEW t \in Ingests, RollBack(t) PROVE TypeOK'
    BY <1>2, RollBackType
  <1>3. ASSUME NEW t \in Ingests, Die(t) PROVE TypeOK'
    <2>1. pc' \in [Ingests -> Labels] /\ InLoop'
      BY <1>3 DEF Die, Goto, TypeOK, InLoop, Labels, Errors
    <2>2. QED
      BY <1>3, <2>1 DEF Die, tables, locks, TypeOK, InLoop, Labels
  <1>4. CASE UserEdit
    <2>1. PICK i \in Issues, row \in IssueRow : Edit(i, row)
      BY <1>4, EditType
    <2>2. edits' \in 0..MaxEdits
      BY <2>1, IngestAssumption DEF Edit, TypeOK
    <2>3. issues' \in [Issues -> IssueRow] /\ heap' \in [Issues -> IssueRow]
      BY <2>1 DEF Edit, TypeOK
    <2>4. QED
      BY <2>1, <2>2, <2>3 DEF Edit, locks, progress, TypeOK, Errors
  <1>5. CASE UNCHANGED vars
    BY <1>5 DEF vars, tables, locks, progress, TypeOK, Errors
  <1>6. QED
    BY <1>1, <1>2, <1>3, <1>4, <1>5 DEF Next, Fail, DeadlockVictim, Finished

(* Whatever the envelopes, edits and failures, every variable keeps its    *)
(* type; in particular the loop never reads past the envelope's last error.*)
THEOREM TypeCorrect == Spec => []TypeOK
  <1>1. QED
    BY InitType, NextType, PTL DEF Spec

-----------------------------------------------------------------------------
(* Counters, locks and flags.                                              *)

(* The strengthening: a row is written only under its lock, the version    *)
(* under the lock is ahead of the committed one by exactly the holder's    *)
(* uncommitted items, and nobody else has any of that issue.               *)
LockedRow(i) ==
    /\ issueLock[i] \in Ingests \cup {NoTx}
    /\ issueLock[i] = NoTx => heap[i] = issues[i]
    /\ \A t \in Ingests : issueLock[i] # t => inserted[t][i] = 0
    /\ \A t \in Ingests : issueLock[i] = t => heap[i].count = items[i] + inserted[t][i]
    /\ issues[i].count = items[i]

RowFlags(i) ==
    /\ (issues[i].status = "resolved") <=> issues[i].resolved
    /\ (heap[i].status = "resolved") <=> heap[i].resolved

RowInv == \A i \in Issues : LockedRow(i) /\ RowFlags(i)

LEMMA InitRows == Init => RowInv
  <1> SUFFICES ASSUME Init, NEW i \in Issues PROVE LockedRow(i) /\ RowFlags(i)
    BY DEF RowInv
  <1>1. TypeOK
    BY InitType
  <1>2. issueLock[i] = NoTx /\ heap[i] = issues[i] /\ items[i] = issues[i].count
    BY DEF Init
  <1>3. \A t \in Ingests : inserted[t][i] = 0 /\ issueLock[i] # t
    BY <1>2, IngestAssumption DEF Init, NoItems
  <1>4. (issues[i].status = "resolved") <=> issues[i].resolved
    BY InitialIssuesAssumption DEF Init
  <1>5. QED
    BY <1>2, <1>3, <1>4 DEF LockedRow, RowFlags

(* The only statement that writes a row of another version than it read.   *)
LEMMA UpsertRows ==
    ASSUME TypeOK, RowInv, NEW t \in Ingests, UpsertIssue(t)
    PROVE  RowInv'
  <1> DEFINE e == Item(t)
             r == UpsertRow(heap[e.issue], prev[t], e, envelope[t].release)
  <1>1. e \in ErrorItem /\ e.issue \in Issues
    BY EnvelopeType DEF UpsertIssue, ErrorItem
  <1>2. /\ issueLock[e.issue] \in {NoTx, t}
        /\ heap' = [heap EXCEPT ![e.issue] = r]
        /\ issueLock' = [issueLock EXCEPT ![e.issue] = t]
        /\ inserted' = [inserted EXCEPT ![t][e.issue] = inserted[t][e.issue] + 1]
        /\ UNCHANGED <<issues, items>>
    BY DEF UpsertIssue
  <1>3. /\ r.count = heap[e.issue].count + 1
        /\ (r.status = "resolved") <=> r.resolved
    <2> DEFINE row == heap[e.issue]
               old == prev[t]
               release == envelope[t].release
    <2>1. row \in IssueRow /\ old \in IssueRow /\ release \in Nat
      BY <1>1, EnvelopeType DEF TypeOK
    <2> HIDE DEF row, old, release, e
    <2>2. /\ UpsertRow(row, old, e, release).count = row.count + 1
          /\ (UpsertRow(row, old, e, release).status = "resolved")
                <=> UpsertRow(row, old, e, release).resolved
      BY <1>1, <2>1, UpsertRowType
    <2>3. QED
      BY <2>2 DEF row, old, release
  <1> HIDE DEF e, r
  <1>4. ASSUME NEW i \in Issues PROVE LockedRow(i)' /\ RowFlags(i)'
    <2>1. LockedRow(i) /\ RowFlags(i)
      BY DEF RowInv
    <2>2. CASE i = e.issue
      <3>1. heap'[i] = r /\ issueLock'[i] = t
        BY <1>1, <1>2, <2>2 DEF TypeOK
      <3>2. inserted'[t][i] = inserted[t][i] + 1
        BY <1>1, <1>2, <2>2 DEF TypeOK
      <3>3. \A u \in Ingests : u # t => inserted'[u][i] = inserted[u][i]
        BY <1>2 DEF TypeOK
      <3>4. heap[i].count = items[i] + inserted[t][i]
        <4>1. inserted[t][i] \in Nat /\ items[i] \in Nat
          BY DEF TypeOK
        <4>2. CASE issueLock[i] = t
          BY <4>2, <2>1 DEF LockedRow
        <4>3. CASE issueLock[i] = NoTx
          BY <4>1, <4>3, <2>1, IngestAssumption DEF LockedRow
        <4>4. QED
          BY <4>2, <4>3, <1>2, <2>2
      <3>5. \A u \in Ingests : u # t => inserted[u][i] = 0
        BY <1>2, <2>1, <2>2, IngestAssumption DEF LockedRow
      <3>6. inserted[t][i] \in Nat /\ items[i] \in Nat
        BY DEF TypeOK
      <3>7. heap'[i].count = items[i] + inserted'[t][i]
        BY <1>3, <2>2, <3>1, <3>2, <3>4, <3>6
      <3>8. LockedRow(i)'
        BY <1>2, <2>1, <3>1, <3>3, <3>5, <3>7, IngestAssumption DEF LockedRow
      <3>9. RowFlags(i)'
        BY <1>2, <1>3, <2>1, <3>1 DEF RowFlags
      <3>10. QED
        BY <3>8, <3>9
    <2>3. CASE i # e.issue
      <3>1. heap'[i] = heap[i] /\ issueLock'[i] = issueLock[i]
        BY <1>2, <2>3 DEF TypeOK
      <3>2. \A u \in Ingests : inserted'[u][i] = inserted[u][i]
        BY <1>2, <2>3 DEF TypeOK
      <3>3. QED
        BY <1>2, <2>1, <3>1, <3>2 DEF LockedRow, RowFlags
    <2>4. QED
      BY <2>2, <2>3
  <1>5. QED
    BY <1>4 DEF RowInv

(* A commit or a rollback brings the two versions of a row together.       *)
LEMMA EndRows ==
    ASSUME TypeOK, RowInv, NEW t \in Ingests, Commit(t) \/ RollBack(t)
    PROVE  RowInv'
  <1> SUFFICES ASSUME NEW i \in Issues PROVE LockedRow(i)' /\ RowFlags(i)'
    BY DEF RowInv
  <1>1. LockedRow(i) /\ RowFlags(i)
    BY DEF RowInv
  <1>2. issueLock'[i] = IF issueLock[i] = t THEN NoTx ELSE issueLock[i]
    BY DEF Commit, RollBack, ReleaseLocks, Unlocked, TypeOK
  <1>3. inserted' = [inserted EXCEPT ![t] = NoItems]
    BY DEF Commit, RollBack
  <1>4. /\ inserted'[t][i] = 0
        /\ \A u \in Ingests : u # t => inserted'[u][i] = inserted[u][i]
    BY <1>3 DEF TypeOK, NoItems
  <1>5. /\ inserted[t][i] \in Nat /\ items[i] \in Nat
        /\ t # NoTx
    BY IngestAssumption DEF TypeOK
  <1>6. CASE Commit(t)
    <2>1. /\ heap' = heap
          /\ issues'[i] = IF issueLock[i] = t THEN heap[i] ELSE issues[i]
          /\ items'[i] = items[i] + inserted[t][i]
      BY <1>6 DEF Commit, Visible
    <2>2. CASE issueLock[i] = t
      BY <1>1, <1>2, <1>4, <1>5, <2>1, <2>2 DEF LockedRow, RowFlags
    <2>3. CASE issueLock[i] # t
      <3>1. items'[i] = items[i]
        BY <1>1, <1>5, <2>1, <2>3 DEF LockedRow
      <3>2. QED
        BY <1>1, <1>2, <1>4, <1>5, <2>1, <2>3, <3>1 DEF LockedRow, RowFlags
    <2>4. QED
      BY <2>2, <2>3
  <1>7. CASE RollBack(t)
    <2>1. /\ issues' = issues /\ items' = items
          /\ heap'[i] = IF issueLock[i] = t THEN issues[i] ELSE heap[i]
      BY <1>7 DEF RollBack
    <2>2. CASE issueLock[i] = t
      BY <1>1, <1>2, <1>4, <1>5, <2>1, <2>2 DEF LockedRow, RowFlags
    <2>3. CASE issueLock[i] # t
      BY <1>1, <1>2, <1>4, <1>5, <2>1, <2>3 DEF LockedRow, RowFlags
    <2>4. QED
      BY <2>2, <2>3
  <1>8. QED
    BY <1>6, <1>7

LEMMA NextRows == TypeOK /\ RowInv /\ [Next]_vars => RowInv'
  <1> SUFFICES ASSUME TypeOK, RowInv, [Next]_vars PROVE RowInv'
    OBVIOUS
  <1>1. ASSUME UNCHANGED <<issues, items, heap, issueLock, inserted>>
        PROVE  RowInv'
    BY <1>1 DEF RowInv, LockedRow, RowFlags
  <1>2. ASSUME NEW t \in Ingests, Step(t) PROVE RowInv'
    <2>1. CASE UpsertIssue(t)
      BY <2>1, UpsertRows
    <2>2. CASE Commit(t)
      BY <2>2, EndRows
    <2>3. CASE UpsertSession(t) \/ UpsertRelease(t) \/ SelectIssue(t) \/ Publish(t)
      BY <2>3, <1>1 DEF UpsertSession, UpsertRelease, SelectIssue, Publish, tables, locks
    <2>4. QED
      BY <1>2, <2>1, <2>2, <2>3 DEF Step
  <1>3. ASSUME NEW t \in Ingests, RollBack(t) PROVE RowInv'
    BY <1>3, EndRows
  <1>4. ASSUME NEW t \in Ingests, Die(t) PROVE RowInv'
    BY <1>4, <1>1 DEF Die, tables, locks
  <1>5. CASE UserEdit
    <2>1. PICK i \in Issues, row \in IssueRow :
             /\ Edit(i, row)
             /\ row.count = issues[i].count
             /\ (row.status = "resolved") <=> row.resolved
      BY <1>5, EditType
    <2>2. /\ issueLock[i] = NoTx
          /\ issues' = [issues EXCEPT ![i] = row]
          /\ heap' = [heap EXCEPT ![i] = row]
          /\ UNCHANGED <<items, issueLock, inserted>>
      BY <2>1 DEF Edit, locks, progress
    <2>3. ASSUME NEW j \in Issues PROVE LockedRow(j)' /\ RowFlags(j)'
      <3>1. LockedRow(j) /\ RowFlags(j)
        BY DEF RowInv
      <3>2. CASE j = i
        <4>1. issues'[j] = row /\ heap'[j] = row
          BY <2>2, <3>2 DEF TypeOK
        <4>2. QED
          BY <2>1, <2>2, <3>1, <3>2, <4>1, IngestAssumption DEF LockedRow, RowFlags
      <3>3. CASE j # i
        <4>1. issues'[j] = issues[j] /\ heap'[j] = heap[j]
          BY <2>2, <3>3 DEF TypeOK
        <4>2. QED
          BY <2>2, <3>1, <4>1 DEF LockedRow, RowFlags
      <3>4. QED
        BY <3>2, <3>3
    <2>4. QED
      BY <2>3 DEF RowInv
  <1>6. CASE UNCHANGED vars
    BY <1>6, <1>1 DEF vars, tables, locks, progress
  <1>7. QED
    BY <1>2, <1>3, <1>4, <1>5, <1>6 DEF Next, Fail, DeadlockVictim, Finished

LEMMA RowsInvariant == Spec => [](TypeOK /\ RowInv)
  <1>1. Init => TypeOK /\ RowInv
    BY InitType, InitRows
  <1>2. TypeOK /\ RowInv /\ [Next]_vars => (TypeOK /\ RowInv)'
    BY NextType, NextRows
  <1>3. QED
    BY <1>1, <1>2, PTL DEF Spec

(* The count of an issue is the number of its stored errors, however the   *)
(* envelopes that wrote it interleaved, rolled back or deadlocked.         *)
THEOREM CountsAreExact == Spec => []CountIsItems
  <1>1. RowInv => CountIsItems
    BY DEF RowInv, LockedRow, CountIsItems
  <1>2. QED
    BY <1>1, RowsInvariant, PTL

(* Status and resolved flag agree, although ingest decides both from a row *)
(* it read earlier and the dashboard writes them in between.               *)
THEOREM FlagsAgree == Spec => []ResolvedFlagAgrees
  <1>1. RowInv => ResolvedFlagAgrees
    BY DEF RowInv, RowFlags, ResolvedFlagAgrees
  <1>2. QED
    BY <1>1, RowsInvariant, PTL

-----------------------------------------------------------------------------
(* What is announced.                                                      *)

(* The count of a stored issue never goes down.                            *)
LEMMA CountsGrow ==
    ASSUME TypeOK, RowInv, [Next]_vars, NEW i \in Issues
    PROVE  issues'[i].count >= issues[i].count
  <1>t. issues[i].count \in Nat
    BY DEF TypeOK, IssueRow
  <1>1. ASSUME issues'[i] = issues[i] PROVE issues'[i].count >= issues[i].count
    BY <1>1, <1>t
  <1>2. ASSUME NEW t \in Ingests, Commit(t)
        PROVE  issues'[i].count >= issues[i].count
    <2>1. issues'[i] = IF issueLock[i] = t THEN heap[i] ELSE issues[i]
      BY <1>2 DEF Commit, Visible
    <2>2. CASE issueLock[i] = t
      <3>1. /\ heap[i].count = items[i] + inserted[t][i]
            /\ issues[i].count = items[i]
        BY <2>2 DEF RowInv, LockedRow
      <3>2. items[i] \in Nat /\ inserted[t][i] \in Nat
        BY DEF TypeOK
      <3>3. issues'[i] = heap[i]
        BY <2>1, <2>2
      <3>4. QED
        BY <3>1, <3>2, <3>3
    <2>3. QED
      BY <2>1, <2>2, <1>1
  <1>3. CASE UserEdit
    <2>1. PICK j \in Issues, row \in IssueRow :
             Edit(j, row) /\ row.count = issues[j].count
      BY <1>3, EditType
    <2>2. issues' = [issues EXCEPT ![j] = row]
      BY <2>1 DEF Edit
    <2>3. CASE i = j
      <3>1. issues'[i] = row
        BY <2>2, <2>3 DEF TypeOK
      <3>2. QED
        BY <3>1, <2>1, <2>3, <1>t
    <2>4. CASE i # j
      BY <2>2, <2>4, <1>1 DEF TypeOK
    <2>5. QED
      BY <2>3, <2>4
  <1>4. QED
    <2>1. ASSUME NEW t \in Ingests, Step(t) PROVE issues'[i].count >= issues[i].count
      BY <2>1, <1>1, <1>2 DEF Step, UpsertSession, UpsertRelease, SelectIssue,
                              UpsertIssue, Publish, tables
    <2>2. ASSUME NEW t \in Ingests, RollBack(t) \/ Die(t) PROVE issues'[i] = issues[i]
      BY <2>2 DEF RollBack, Die, tables
    <2>3. CASE UNCHANGED vars
      BY <2>3, <1>1 DEF vars, tables
    <2>4. QED
      BY <1>1, <1>3, <2>1, <2>2, <2>3 DEF Next, Fail, DeadlockVictim, Finished

(* The event tells a count its issue has reached: in the version under the *)
(* lock of the call that will announce it, and in the committed row from   *)
(* its commit on.                                                          *)
Reached(event, table) == 0 < event.count /\ event.count <= table[event.issue].count

OpenClaims(t) ==
    Running(t) => \A event \in events[t] :
                     issueLock[event.issue] = t /\ Reached(event, heap)
StoredClaims(t) ==
    Landed(t) => \A event \in events[t] : Reached(event, issues)

EventInv ==
    /\ \A event \in published : Reached(event, issues)
    /\ \A t \in Ingests : OpenClaims(t) /\ StoredClaims(t)

LEMMA ReachedGrows ==
    ASSUME TypeOK, RowInv, [Next]_vars, NEW event \in IssueEvent, Reached(event, issues)
    PROVE  Reached(event, issues')
  <1>1. event.issue \in Issues /\ event.count \in Nat
    BY DEF IssueEvent
  <1>2. issues[event.issue].count \in Nat
    BY <1>1 DEF TypeOK, IssueRow
  <1>3. issues'[event.issue].count >= issues[event.issue].count
    BY <1>1, CountsGrow
  <1>4. issues'[event.issue].count \in Nat
    BY <1>1, NextType DEF TypeOK, IssueRow
  <1>5. QED
    BY <1>1, <1>2, <1>3, <1>4 DEF Reached

(* Calls other than u keep what they claim when the step leaves them, and  *)
(* the rows they hold, alone.                                              *)
LEMMA ClaimsKept ==
    ASSUME TypeOK, RowInv, EventInv, [Next]_vars, NEW u \in Ingests,
           pc'[u] = pc[u], events'[u] = events[u],
           \A i \in Issues : issueLock[i] = u =>
                                 issueLock'[i] = u /\ heap'[i] = heap[i]
    PROVE  OpenClaims(u)' /\ StoredClaims(u)'
  <1>1. events[u] \subseteq IssueEvent
    BY DEF TypeOK
  <1>2. \A event \in events[u] : event.issue \in Issues
    BY <1>1 DEF IssueEvent
  <1>3. OpenClaims(u) /\ StoredClaims(u)
    BY DEF EventInv
  <1>4. OpenClaims(u)'
    BY <1>2, <1>3 DEF OpenClaims, Running, Reached
  <1>5. StoredClaims(u)'
    BY <1>1, <1>3, ReachedGrows DEF StoredClaims, Landed, Reached
  <1>6. QED
    BY <1>4, <1>5

LEMMA UpsertEvents ==
    ASSUME TypeOK, RowInv, EventInv, NEW t \in Ingests, UpsertIssue(t)
    PROVE  EventInv'
  <1> DEFINE e    == Item(t)
             row  == UpsertRow(heap[e.issue], prev[t], e, envelope[t].release)
             kind == EventKind(prev[t], e, envelope[t].release)
             new  == {[by |-> t, kind |-> k, issue |-> e.issue,
                       count |-> heap[e.issue].count + 1] : k \in {kind} \ {""}}
  <1>n. [Next]_vars
    BY DEF Next, Step
  <1>1. e \in ErrorItem /\ e.issue \in Issues
    BY EnvelopeType DEF UpsertIssue, ErrorItem
  <1>2. /\ pc[t] = "upsert"
        /\ issueLock[e.issue] \in {NoTx, t}
        /\ heap' = [heap EXCEPT ![e.issue] = row]
        /\ issueLock' = [issueLock EXCEPT ![e.issue] = t]
        /\ events' = [events EXCEPT ![t] = events[t] \cup new]
        /\ pc' = [pc EXCEPT ![t] = LoopAt(t, next[t] + 1)]
        /\ UNCHANGED <<issues, published>>
    BY DEF UpsertIssue, Goto
  <1>3. row.count = heap[e.issue].count + 1 /\ heap[e.issue].count \in Nat
    <2> DEFINE found   == heap[e.issue]
               old     == prev[t]
               release == envelope[t].release
    <2>1. found \in IssueRow /\ old \in IssueRow /\ release \in Nat
      BY <1>1, EnvelopeType DEF TypeOK
    <2> HIDE DEF found, old, release, e
    <2>2. UpsertRow(found, old, e, release).count = found.count + 1
      BY <1>1, <2>1, UpsertRowType
    <2>3. found.count \in Nat
      BY <2>1 DEF IssueRow
    <2>4. QED
      BY <2>2, <2>3 DEF found, old, release
  <1>4. \A event \in new : event.issue = e.issue /\ event.count = heap[e.issue].count + 1
    <2> DEFINE n == heap[e.issue].count + 1
    <2> HIDE DEF n, e, kind
    <2>1. ASSUME NEW event \in {[by |-> t, kind |-> k, issue |-> e.issue, count |-> n]
                                 : k \in {kind} \ {""}}
          PROVE  event.issue = e.issue /\ event.count = n
      <3>1. PICK k \in {kind} \ {""} :
               event = [by |-> t, kind |-> k, issue |-> e.issue, count |-> n]
        BY <2>1
      <3>2. QED
        BY <3>1
    <2>2. QED
      BY <2>1 DEF n
  <1> HIDE DEF e, row, kind, new
  <1>5. heap'[e.issue].count = heap[e.issue].count + 1 /\ issueLock'[e.issue] = t
    BY <1>1, <1>2, <1>3 DEF TypeOK
  <1>6. \A i \in Issues : i # e.issue => heap'[i] = heap[i] /\ issueLock'[i] = issueLock[i]
    BY <1>2 DEF TypeOK
  <1>7. LoopAt(t, next[t] + 1) \in {"select", "commit"}
    BY DEF LoopAt
  <1>8. OpenClaims(t)'
    <2>1. SUFFICES ASSUME NEW event \in events[t] \cup new
                   PROVE  issueLock'[event.issue] = t /\ Reached(event, heap')
      BY <1>2 DEF OpenClaims, TypeOK
    <2>2. CASE event \in new
      <3>1. event.issue = e.issue /\ event.count = heap[e.issue].count + 1
        BY <2>2, <1>4
      <3>2. QED
        BY <3>1, <1>3, <1>5 DEF Reached
    <2>3. CASE event \in events[t]
      <3>1. Running(t)
        BY <1>2 DEF Running
      <3>2. issueLock[event.issue] = t /\ Reached(event, heap)
        BY <2>3, <3>1 DEF EventInv, OpenClaims
      <3>3. event.issue \in Issues /\ event.count \in Nat
        BY <2>3 DEF TypeOK, IssueEvent
      <3>4. CASE event.issue = e.issue
        BY <3>2, <3>3, <3>4, <1>3, <1>5 DEF Reached
      <3>5. CASE event.issue # e.issue
        BY <3>2, <3>3, <3>5, <1>6 DEF Reached
      <3>6. QED
        BY <3>4, <3>5
    <2>4. QED
      BY <2>2, <2>3
  <1>9. StoredClaims(t)'
    BY <1>2, <1>7 DEF StoredClaims, Landed, TypeOK
  <1>10. ASSUME NEW u \in Ingests, u # t PROVE OpenClaims(u)' /\ StoredClaims(u)'
    <2>1. pc'[u] = pc[u] /\ events'[u] = events[u]
      BY <1>2, <1>10 DEF TypeOK
    <2>2. \A i \in Issues : issueLock[i] = u => issueLock'[i] = u /\ heap'[i] = heap[i]
      BY <1>2, <1>6, <1>10, IngestAssumption
    <2>3. QED
      BY <1>n, <2>1, <2>2, ClaimsKept
  <1>11. \A event \in published' : Reached(event, issues')
    BY <1>2 DEF EventInv
  <1>12. QED
    BY <1>8, <1>9, <1>10, <1>11 DEF EventInv

LEMMA CommitEvents ==
    ASSUME TypeOK, RowInv, EventInv, NEW t \in Ingests, Commit(t)
    PROVE  EventInv'
  <1>n. [Next]_vars
    BY DEF Next, Step
  <1>1. /\ pc[t] = "commit"
        /\ pc' = [pc EXCEPT ![t] = IF events[t] = {} THEN "accepted" ELSE "publish"]
        /\ UNCHANGED <<heap, events, published>>
        /\ issues' = [i \in Issues |-> Visible(t, i)]
        /\ \A i \in Issues : issueLock'[i] = IF issueLock[i] = t THEN NoTx ELSE issueLock[i]
    BY DEF Commit, Goto, ReleaseLocks, Unlocked, TypeOK
  <1>2. pc'[t] \in {"accepted", "publish"}
    BY <1>1 DEF TypeOK
  <1>3. OpenClaims(t)'
    BY <1>2 DEF OpenClaims, Running
  <1>4. StoredClaims(t)'
    <2>1. SUFFICES ASSUME NEW event \in events[t] PROVE Reached(event, issues')
      BY <1>1 DEF StoredClaims
    <2>2. issueLock[event.issue] = t /\ Reached(event, heap)
      BY <1>1 DEF EventInv, OpenClaims, Running
    <2>3. event.issue \in Issues
      BY DEF TypeOK, IssueEvent
    <2>4. issues'[event.issue] = heap[event.issue]
      BY <1>1, <2>2, <2>3 DEF Visible
    <2>5. QED
      BY <2>2, <2>4 DEF Reached
  <1>5. ASSUME NEW u \in Ingests, u # t PROVE OpenClaims(u)' /\ StoredClaims(u)'
    <2>1. pc'[u] = pc[u] /\ events'[u] = events[u]
      BY <1>1, <1>5 DEF TypeOK
    <2>2. \A i \in Issues : issueLock[i] = u => issueLock'[i] = u /\ heap'[i] = heap[i]
      BY <1>1, <1>5
    <2>3. QED
      BY <1>n, <2>1, <2>2, ClaimsKept
  <1>6. \A event \in published' : Reached(event, issues')
    BY <1>n, <1>1, ReachedGrows DEF EventInv, TypeOK
  <1>7. QED
    BY <1>3, <1>4, <1>5, <1>6 DEF EventInv

LEMMA RollBackEvents ==
    ASSUME TypeOK, RowInv, EventInv, NEW t \in Ingests, RollBack(t), [Next]_vars
    PROVE  EventInv'
  <1>1. /\ pc' = [pc EXCEPT ![t] = "failed"]
        /\ UNCHANGED <<issues, events, published>>
        /\ heap' = [i \in Issues |-> IF issueLock[i] = t THEN issues[i] ELSE heap[i]]
        /\ \A i \in Issues : issueLock'[i] = IF issueLock[i] = t THEN NoTx ELSE issueLock[i]
    BY DEF RollBack, Goto, ReleaseLocks, Unlocked, TypeOK
  <1>2. OpenClaims(t)' /\ StoredClaims(t)'
    BY <1>1 DEF OpenClaims, StoredClaims, Running, Landed, TypeOK
  <1>3. ASSUME NEW u \in Ingests, u # t PROVE OpenClaims(u)' /\ StoredClaims(u)'
    <2>1. pc'[u] = pc[u] /\ events'[u] = events[u]
      BY <1>1, <1>3 DEF TypeOK
    <2>2. \A i \in Issues : issueLock[i] = u => issueLock'[i] = u /\ heap'[i] = heap[i]
      BY <1>1, <1>3
    <2>3. QED
      BY <2>1, <2>2, ClaimsKept
  <1>4. \A event \in published' : Reached(event, issues')
    BY <1>1 DEF EventInv
  <1>5. QED
    BY <1>2, <1>3, <1>4 DEF EventInv

(* The statements that write no issue.                                     *)
Quiet(t) == UpsertSession(t) \/ UpsertRelease(t) \/ SelectIssue(t) \/ Publish(t) \/ Die(t)

LEMMA QuietEvents ==
    ASSUME TypeOK, RowInv, EventInv, NEW t \in Ingests, Quiet(t), [Next]_vars
    PROVE  EventInv'
  <1>1. /\ UNCHANGED <<issues, heap, issueLock, events>>
        /\ \A u \in Ingests : u # t => pc'[u] = pc[u]
        /\ pc' \in [Ingests -> Labels]
    BY NextType DEF Quiet, UpsertSession, UpsertRelease, SelectIssue, Publish, Die,
                    Goto, tables, locks, TypeOK, Labels
  <1>2. /\ Running(t)' => Running(t)
        /\ Landed(t)' => Landed(t)
    <2>1. \A n : LoopAt(t, n) \in {"select", "commit"}
      BY DEF LoopAt
    <2>2. QED
      BY <2>1 DEF Quiet, UpsertSession, UpsertRelease, SelectIssue, Publish, Die,
                  Goto, Running, Landed, TypeOK
  <1>3. OpenClaims(t)' /\ StoredClaims(t)'
    BY <1>1, <1>2 DEF EventInv, OpenClaims, StoredClaims, Reached
  <1>4. ASSUME NEW u \in Ingests, u # t PROVE OpenClaims(u)' /\ StoredClaims(u)'
    BY <1>1, <1>4, ClaimsKept
  <1>5. published' = published \/ (published' = published \cup events[t] /\ Landed(t))
    BY DEF Quiet, UpsertSession, UpsertRelease, SelectIssue, Publish, Die, Landed
  <1>6. \A event \in published' : Reached(event, issues')
    BY <1>1, <1>5 DEF EventInv, StoredClaims
  <1>7. QED
    BY <1>3, <1>4, <1>6 DEF EventInv

LEMMA NextEvents == TypeOK /\ RowInv /\ EventInv /\ [Next]_vars => EventInv'
  <1> SUFFICES ASSUME TypeOK, RowInv, EventInv, [Next]_vars PROVE EventInv'
    OBVIOUS
  <1>1. ASSUME NEW t \in Ingests, Step(t) \/ Die(t) PROVE EventInv'
    <2>1. CASE UpsertIssue(t)
      BY <2>1, UpsertEvents
    <2>2. CASE Commit(t)
      BY <2>2, CommitEvents
    <2>3. CASE Quiet(t)
      BY <2>3, QuietEvents
    <2>4. QED
      BY <1>1, <2>1, <2>2, <2>3 DEF Step, Quiet
  <1>2. ASSUME NEW t \in Ingests, RollBack(t) PROVE EventInv'
    BY <1>2, RollBackEvents
  <1>3. CASE UserEdit
    <2>1. PICK i \in Issues, row \in IssueRow : Edit(i, row)
      BY <1>3, EditType
    <2>2. /\ issueLock[i] = NoTx
          /\ heap' = [heap EXCEPT ![i] = row]
          /\ UNCHANGED <<pc, events, published, issueLock>>
      BY <2>1 DEF Edit, locks, progress
    <2>3. \A j \in Issues : j # i => heap'[j] = heap[j]
      BY <2>2 DEF TypeOK
    <2>4. ASSUME NEW u \in Ingests PROVE OpenClaims(u)' /\ StoredClaims(u)'
      <3>1. \A j \in Issues : issueLock[j] = u => issueLock'[j] = u /\ heap'[j] = heap[j]
        BY <2>2, <2>3, IngestAssumption
      <3>2. QED
        BY <2>2, <3>1, ClaimsKept
    <2>5. \A event \in published' : Reached(event, issues')
      BY <2>2, ReachedGrows DEF EventInv, TypeOK
    <2>6. QED
      BY <2>4, <2>5 DEF EventInv
  <1>4. CASE UNCHANGED vars
    BY <1>4 DEF vars, tables, locks, progress, EventInv, OpenClaims, StoredClaims,
                Reached, Running, Landed
  <1>5. QED
    BY <1>1, <1>2, <1>3, <1>4 DEF Next, Fail, DeadlockVictim, Finished

LEMMA EventsInvariant == Spec => [](TypeOK /\ RowInv /\ EventInv)
  <1>1. Init => EventInv
    BY DEF Init, EventInv, OpenClaims, StoredClaims
  <1>2. Init => TypeOK /\ RowInv
    BY InitType, InitRows
  <1>3. TypeOK /\ RowInv /\ EventInv /\ [Next]_vars => (TypeOK /\ RowInv /\ EventInv)'
    BY NextType, NextRows, NextEvents
  <1>4. QED
    BY <1>1, <1>2, <1>3, PTL DEF Spec

(* A notification is about an error the database holds, whatever was       *)
(* rolled back before it, and stays true of it.                            *)
THEOREM AnnouncementsAreStored == Spec => []AnnouncedIsStored
  <1>1. TypeOK /\ EventInv => AnnouncedIsStored
    <2> SUFFICES ASSUME TypeOK, EventInv, NEW event \in published
                   PROVE  Exists(issues[event.issue])
                          /\ event.count <= issues[event.issue].count
      BY DEF AnnouncedIsStored
    <2>2. event.count \in Nat /\ event.issue \in Issues
      BY DEF TypeOK, IssueEvent
    <2>3. issues[event.issue].count \in Nat
      BY <2>2 DEF TypeOK, IssueRow
    <2>4. Reached(event, issues)
      BY DEF EventInv
    <2>5. QED
      BY <2>2, <2>3, <2>4 DEF Reached, Exists
  <1>2. QED
    BY <1>1, EventsInvariant, PTL

-----------------------------------------------------------------------------
(* Envelopes that queue.                                                   *)

Names(e, i) == \E k \in 1..Len(e.errors) : e.errors[k].issue = i
Looping(t)  == pc[t] \in {"select", "upsert", "commit"}

(* The upsert of the release's row makes the envelopes of a release queue, *)
(* and an issue's row is locked by a call that names it.                   *)
ReleaseHeld(t) ==
    Looping(t) /\ envelope[t].release # NoRelease => releaseLock[ReleaseRow(t)] = t
IssuesHeld(t) ==
    \A i \in Issues : issueLock[i] = t => Looping(t) /\ Names(envelope[t], i)

QueueInv == \A t \in Ingests : ReleaseHeld(t) /\ IssuesHeld(t)

(* What a step of another call cannot take from u.                         *)
LEMMA QueueKept ==
    ASSUME QueueInv, NEW u \in Ingests, pc'[u] = pc[u], envelope' = envelope,
           releaseLock[ReleaseRow(u)] = u => releaseLock'[ReleaseRow(u)] = u,
           \A i \in Issues : issueLock'[i] = u => issueLock[i] = u
    PROVE  ReleaseHeld(u)' /\ IssuesHeld(u)'
  BY DEF QueueInv, ReleaseHeld, IssuesHeld, Looping, ReleaseRow

LEMMA NextQueue == TypeOK /\ QueueInv /\ [Next]_vars => QueueInv'
  <1> SUFFICES ASSUME TypeOK, QueueInv, [Next]_vars PROVE QueueInv'
    OBVIOUS
  <1>0. \A t \in Ingests : t # NoTx
    BY IngestAssumption
  <1>1. ASSUME NEW t \in Ingests, UpsertSession(t) PROVE QueueInv'
    <2>1. /\ pc[t] = "session"
          /\ pc' = [pc EXCEPT ![t] = IF envelope[t].release # NoRelease
                                     THEN "release" ELSE LoopAt(t, next[t])]
          /\ UNCHANGED <<envelope, releaseLock, issueLock>>
      BY <1>1 DEF UpsertSession, Goto
    <2>2. ReleaseHeld(t)' /\ IssuesHeld(t)'
      <3>1. pc'[t] = IF envelope[t].release # NoRelease
                     THEN "release" ELSE LoopAt(t, next[t])
        BY <2>1 DEF TypeOK
      <3>2. \A i \in Issues : issueLock[i] # t
        BY <2>1 DEF QueueInv, IssuesHeld, Looping
      <3>3. QED
        BY <2>1, <3>1, <3>2 DEF ReleaseHeld, IssuesHeld, Looping
    <2>3. ASSUME NEW u \in Ingests, u # t PROVE ReleaseHeld(u)' /\ IssuesHeld(u)'
      <3>1. pc'[u] = pc[u]
        BY <2>1, <2>3 DEF TypeOK
      <3>2. QED
        BY <2>1, <3>1, QueueKept
    <2>4. QED
      BY <2>2, <2>3 DEF QueueInv
  <1>2. ASSUME NEW t \in Ingests, UpsertRelease(t) PROVE QueueInv'
    <2>1. /\ pc[t] = "release"
          /\ releaseLock[ReleaseRow(t)] = NoTx
          /\ releaseLock' = [releaseLock EXCEPT ![ReleaseRow(t)] = t]
          /\ pc' = [pc EXCEPT ![t] = LoopAt(t, next[t])]
          /\ UNCHANGED <<envelope, issueLock>>
      BY <1>2 DEF UpsertRelease, Goto
    <2>2. ReleaseHeld(t)' /\ IssuesHeld(t)'
      <3>1. \A i \in Issues : issueLock[i] # t
        BY <2>1 DEF QueueInv, IssuesHeld, Looping
      <3>2. releaseLock'[ReleaseRow(t)] = t
        BY <2>1, EnvelopeType DEF TypeOK
      <3>3. QED
        BY <2>1, <3>1, <3>2 DEF ReleaseHeld, IssuesHeld, ReleaseRow
    <2>3. ASSUME NEW u \in Ingests, u # t PROVE ReleaseHeld(u)' /\ IssuesHeld(u)'
      <3>1. pc'[u] = pc[u]
        BY <2>1, <2>3 DEF TypeOK
      <3>2. releaseLock[ReleaseRow(u)] = u => releaseLock'[ReleaseRow(u)] = u
        <4>1. ReleaseRow(u) \in Projects \X Releases
          BY EnvelopeType
        <4>2. QED
          BY <1>0, <2>1, <4>1 DEF TypeOK
      <3>3. QED
        BY <2>1, <3>1, <3>2, QueueKept
    <2>4. QED
      BY <2>2, <2>3 DEF QueueInv
  <1>3. ASSUME NEW t \in Ingests, SelectIssue(t) PROVE QueueInv'
    <2>1. /\ pc[t] = "select"
          /\ pc' = [pc EXCEPT ![t] = "upsert"]
          /\ UNCHANGED <<envelope, releaseLock, issueLock>>
      BY <1>3 DEF SelectIssue, Goto, locks
    <2>2. \A u \in Ingests : Looping(u)' <=> Looping(u)
      BY <2>1 DEF Looping, TypeOK
    <2>3. QED
      BY <2>1, <2>2 DEF QueueInv, ReleaseHeld, IssuesHeld, ReleaseRow
  <1>4. ASSUME NEW t \in Ingests, UpsertIssue(t) PROVE QueueInv'
    <2> DEFINE j == Item(t).issue
    <2>1. /\ pc[t] = "upsert"
          /\ issueLock[j] \in {NoTx, t}
          /\ issueLock' = [issueLock EXCEPT ![j] = t]
          /\ pc' = [pc EXCEPT ![t] = LoopAt(t, next[t] + 1)]
          /\ UNCHANGED <<envelope, releaseLock>>
      BY <1>4 DEF UpsertIssue, Goto
    <2>2. j \in Issues /\ Names(envelope[t], j)
      <3>1. next[t] \in 1..Len(Errors(t))
        BY <2>1, EnvelopeType DEF TypeOK
      <3>2. QED
        BY <2>1, <3>1, EnvelopeType DEF Names, Item, Errors, ErrorItem
    <2> HIDE DEF j
    <2>3. pc'[t] \in {"select", "commit"}
      BY <2>1 DEF LoopAt, TypeOK
    <2>4. \A i \in Issues : i # j => issueLock'[i] = issueLock[i]
      BY <2>1 DEF TypeOK
    <2>5. ReleaseHeld(t)' /\ IssuesHeld(t)'
      BY <2>1, <2>2, <2>3, <2>4
         DEF QueueInv, ReleaseHeld, IssuesHeld, Looping, ReleaseRow
    <2>6. ASSUME NEW u \in Ingests, u # t PROVE ReleaseHeld(u)' /\ IssuesHeld(u)'
      <3>1. pc'[u] = pc[u]
        BY <2>1, <2>6 DEF TypeOK
      <3>2. \A i \in Issues : issueLock'[i] = u => issueLock[i] = u
        BY <2>1, <2>2, <2>4, <2>6 DEF TypeOK
      <3>3. QED
        BY <2>1, <3>1, <3>2, QueueKept
    <2>7. QED
      BY <2>5, <2>6 DEF QueueInv
  <1>5. ASSUME NEW t \in Ingests, Commit(t) \/ RollBack(t) PROVE QueueInv'
    <2>1. /\ envelope' = envelope
          /\ pc' \in [Ingests -> Labels]
          /\ pc'[t] \in {"accepted", "publish", "failed"}
          /\ \A u \in Ingests : u # t => pc'[u] = pc[u]
          /\ \A i \in Issues : issueLock'[i] = IF issueLock[i] = t THEN NoTx ELSE issueLock[i]
          /\ \A r \in Projects \X Releases :
                releaseLock'[r] = IF releaseLock[r] = t THEN NoTx ELSE releaseLock[r]
      BY <1>5, NextType DEF Commit, RollBack, Goto, ReleaseLocks, Unlocked, TypeOK, Labels
    <2>2. ReleaseHeld(t)' /\ IssuesHeld(t)'
      BY <1>0, <2>1 DEF ReleaseHeld, IssuesHeld, Looping
    <2>3. ASSUME NEW u \in Ingests, u # t PROVE ReleaseHeld(u)' /\ IssuesHeld(u)'
      <3>1. releaseLock[ReleaseRow(u)] = u => releaseLock'[ReleaseRow(u)] = u
        BY <2>1, <2>3, EnvelopeType
      <3>2. \A i \in Issues : issueLock'[i] = u => issueLock[i] = u
        BY <1>0, <2>1
      <3>3. QED
        BY <2>1, <2>3, <3>1, <3>2, QueueKept
    <2>4. QED
      BY <2>2, <2>3 DEF QueueInv
  <1>6. ASSUME NEW t \in Ingests, Publish(t) \/ Die(t) PROVE QueueInv'
    <2>1. /\ UNCHANGED <<envelope, issueLock, releaseLock>>
          /\ ~Looping(t) /\ ~Looping(t)'
          /\ \A u \in Ingests : u # t => pc'[u] = pc[u]
      BY <1>6 DEF Publish, Die, Goto, locks, Looping, TypeOK
    <2>2. ReleaseHeld(t)' /\ IssuesHeld(t)'
      BY <2>1 DEF QueueInv, ReleaseHeld, IssuesHeld
    <2>3. QED
      BY <2>1, <2>2, QueueKept DEF QueueInv
  <1>7. CASE UserEdit
    <2>1. UNCHANGED <<envelope, pc, issueLock, releaseLock>>
      BY <1>7, EditType DEF Edit, locks, progress
    <2>2. QED
      BY <2>1 DEF QueueInv, ReleaseHeld, IssuesHeld, ReleaseRow, Looping
  <1>8. CASE UNCHANGED vars
    BY <1>8 DEF vars, locks, progress, QueueInv, ReleaseHeld, IssuesHeld, ReleaseRow, Looping
  <1>9. QED
    BY <1>1, <1>2, <1>3, <1>4, <1>5, <1>6, <1>7, <1>8
       DEF Next, Step, Fail, DeadlockVictim, Finished

-----------------------------------------------------------------------------
(* While envelopes of different releases never name the same issue.        *)

(* The envelopes that name an issue are of one project, and carry one      *)
(* release.                                                                *)
OneReleasePerIssue ==
    \A e, f \in Envelopes : \A i \in Issues :
        Names(e, i) /\ Names(f, i) =>
            e.project = f.project /\ e.release = f.release /\ e.release # NoRelease

LEMMA AloneOnIssue ==
    ASSUME OneReleasePerIssue, TypeOK, QueueInv,
           NEW t \in Ingests, NEW u \in Ingests, Looping(t), Looping(u),
           NEW i \in Issues, Names(envelope[t], i), Names(envelope[u], i)
    PROVE  t = u
  <1>1. envelope[t] \in Envelopes /\ envelope[u] \in Envelopes
    BY DEF TypeOK
  <1>2. ReleaseRow(t) = ReleaseRow(u) /\ envelope[t].release # NoRelease
        /\ envelope[u].release # NoRelease
    BY <1>1 DEF OneReleasePerIssue, ReleaseRow
  <1>3. QED
    BY <1>2 DEF QueueInv, ReleaseHeld

(* The issue the loop is at is nobody else's.                              *)
LEMMA ItemIsOwn ==
    ASSUME OneReleasePerIssue, TypeOK, RowInv, QueueInv,
           NEW t \in Ingests, pc[t] \in {"select", "upsert"}
    PROVE  /\ Item(t).issue \in Issues
           /\ Names(envelope[t], Item(t).issue)
           /\ issueLock[Item(t).issue] \in {NoTx, t}
           /\ Visible(t, Item(t).issue) = heap[Item(t).issue]
  <1> DEFINE i == Item(t).issue
  <1>1. i \in Issues
    BY EnvelopeType DEF ErrorItem
  <1>2. Names(envelope[t], i)
    <2>1. next[t] \in 1..Len(Errors(t))
      BY EnvelopeType DEF TypeOK
    <2>2. QED
      BY <2>1 DEF Names, Item, Errors
  <1> HIDE DEF i
  <1>3. LockedRow(i)
    BY <1>1 DEF RowInv
  <1>4. issueLock[i] \in {NoTx, t}
    <2>1. ASSUME NEW u \in Ingests, issueLock[i] = u PROVE u = t
      <3>1. Looping(u) /\ Names(envelope[u], i)
        BY <1>1, <2>1 DEF QueueInv, IssuesHeld
      <3>2. Looping(t)
        BY DEF Looping
      <3>3. QED
        BY <1>1, <1>2, <3>1, <3>2, AloneOnIssue
    <2>2. QED
      BY <1>3, <2>1 DEF LockedRow
  <1>5. Visible(t, i) = heap[i]
    BY <1>3, <1>4, IngestAssumption DEF LockedRow, Visible
  <1>6. QED
    BY <1>1, <1>2, <1>4, <1>5 DEF i

-----------------------------------------------------------------------------
(* What a call decides on is what it writes over: the count of its issue   *)
(* always, and the whole row while nobody edits.                           *)
Fresh(t) ==
    pc[t] = "upsert" =>
        /\ prev[t].count = heap[Item(t).issue].count
        /\ MaxEdits = 0 => prev[t] = heap[Item(t).issue]

FreshInv == \A t \in Ingests : Fresh(t)

LEMMA FreshKept ==
    ASSUME FreshInv, NEW u \in Ingests, pc'[u] = pc[u], envelope' = envelope,
           next'[u] = next[u], prev'[u] = prev[u],
           pc[u] = "upsert" => heap'[Item(u).issue] = heap[Item(u).issue]
    PROVE  Fresh(u)'
  BY DEF FreshInv, Fresh, Item, Errors

LEMMA NextFresh ==
    ASSUME OneReleasePerIssue
    PROVE  TypeOK /\ RowInv /\ QueueInv /\ FreshInv /\ [Next]_vars => FreshInv'
  <1> SUFFICES ASSUME TypeOK, RowInv, QueueInv, FreshInv, [Next]_vars PROVE FreshInv'
    OBVIOUS
  <1>1. ASSUME NEW t \in Ingests, UpsertSession(t) \/ UpsertRelease(t) \/ Publish(t) \/ Die(t)
        PROVE  FreshInv'
    <2>1. /\ UNCHANGED <<heap, envelope, next, prev>>
          /\ pc'[t] # "upsert"
          /\ \A u \in Ingests : u # t => pc'[u] = pc[u]
      BY <1>1 DEF UpsertSession, UpsertRelease, Publish, Die, Goto, LoopAt, tables, TypeOK
    <2>2. ASSUME NEW u \in Ingests PROVE Fresh(u)'
      <3>1. CASE u = t
        BY <2>1, <3>1 DEF Fresh
      <3>2. CASE u # t
        BY <2>1, <3>2, FreshKept
      <3>3. QED
        BY <3>1, <3>2
    <2>3. QED
      BY <2>2 DEF FreshInv
  <1>2. ASSUME NEW t \in Ingests, SelectIssue(t) PROVE FreshInv'
    <2>1. /\ pc[t] = "select"
          /\ UNCHANGED <<heap, envelope, next>>
          /\ prev' = [prev EXCEPT ![t] = Visible(t, Item(t).issue)]
          /\ \A u \in Ingests : u # t => pc'[u] = pc[u]
      BY <1>2 DEF SelectIssue, Goto, tables, TypeOK
    <2>2. Visible(t, Item(t).issue) = heap[Item(t).issue]
      BY <2>1, ItemIsOwn
    <2>3. Fresh(t)'
      <3>1. prev'[t] = heap[Item(t).issue]
        BY <2>1, <2>2 DEF TypeOK
      <3>2. QED
        BY <2>1, <3>1 DEF Fresh, Item, Errors
    <2>4. ASSUME NEW u \in Ingests, u # t PROVE Fresh(u)'
      <3>1. prev'[u] = prev[u]
        BY <2>1, <2>4 DEF TypeOK
      <3>2. QED
        BY <2>1, <2>4, <3>1, FreshKept
    <2>5. QED
      BY <2>3, <2>4 DEF FreshInv
  <1>3. ASSUME NEW t \in Ingests, UpsertIssue(t) PROVE FreshInv'
    <2>1. /\ pc[t] = "upsert"
          /\ UNCHANGED <<envelope, prev>>
          /\ heap' = [heap EXCEPT ![Item(t).issue] =
                        UpsertRow(heap[Item(t).issue], prev[t], Item(t), envelope[t].release)]
          /\ next' = [next EXCEPT ![t] = next[t] + 1]
          /\ pc' = [pc EXCEPT ![t] = LoopAt(t, next[t] + 1)]
      BY <1>3 DEF UpsertIssue, Goto
    <2>2. Fresh(t)'
      BY <2>1 DEF Fresh, LoopAt, TypeOK
    <2>3. ASSUME NEW u \in Ingests, u # t PROVE Fresh(u)'
      <3>1. pc'[u] = pc[u] /\ next'[u] = next[u] /\ prev'[u] = prev[u]
        BY <2>1, <2>3 DEF TypeOK
      <3>2. ASSUME pc[u] = "upsert" PROVE heap'[Item(u).issue] = heap[Item(u).issue]
        <4>1. /\ Item(t).issue \in Issues /\ Names(envelope[t], Item(t).issue)
              /\ Item(u).issue \in Issues /\ Names(envelope[u], Item(u).issue)
          BY <2>1, <3>2, ItemIsOwn
        <4>2. Looping(t) /\ Looping(u)
          BY <2>1, <3>2 DEF Looping
        <4>3. Item(t).issue # Item(u).issue
          BY <2>3, <4>1, <4>2, AloneOnIssue
        <4>4. QED
          BY <2>1, <4>1, <4>3 DEF TypeOK
      <3>3. QED
        BY <2>1, <3>1, <3>2, FreshKept
    <2>4. QED
      BY <2>2, <2>3 DEF FreshInv
  <1>4. ASSUME NEW t \in Ingests, Commit(t) \/ RollBack(t) PROVE FreshInv'
    <2>1. /\ UNCHANGED <<envelope, next, prev>>
          /\ pc'[t] # "upsert"
          /\ \A u \in Ingests : u # t => pc'[u] = pc[u]
          /\ \A i \in Issues : issueLock[i] # t => heap'[i] = heap[i]
      BY <1>4 DEF Commit, RollBack, Goto, TypeOK
    <2>2. Fresh(t)'
      BY <2>1 DEF Fresh
    <2>3. ASSUME NEW u \in Ingests, u # t PROVE Fresh(u)'
      <3>1. pc[u] = "upsert" => heap'[Item(u).issue] = heap[Item(u).issue]
        BY <2>1, <2>3, ItemIsOwn, IngestAssumption
      <3>2. QED
        BY <2>1, <2>3, <3>1, FreshKept
    <2>4. QED
      BY <2>2, <2>3 DEF FreshInv
  <1>5. CASE UserEdit
    <2>1. PICK i \in Issues, row \in IssueRow :
             Edit(i, row) /\ row.count = issues[i].count
      BY <1>5, EditType
    <2>2. /\ issueLock[i] = NoTx
          /\ heap' = [heap EXCEPT ![i] = row]
          /\ edits < MaxEdits
          /\ UNCHANGED <<envelope, pc, next, prev>>
      BY <2>1 DEF Edit, locks, progress
    <2>3. heap[i] = issues[i]
      BY <2>2 DEF RowInv, LockedRow
    <2>4. MaxEdits # 0
      BY <2>2, IngestAssumption DEF TypeOK
    <2>5. \A j \in Issues : heap'[j].count = heap[j].count
      BY <2>1, <2>2, <2>3 DEF TypeOK
    <2>6. \A u \in Ingests : pc[u] = "upsert" => Item(u).issue \in Issues
      BY ItemIsOwn
    <2>7. QED
      BY <2>2, <2>4, <2>5, <2>6 DEF FreshInv, Fresh, Item, Errors
  <1>6. CASE UNCHANGED vars
    BY <1>6 DEF vars, tables, progress, FreshInv, Fresh, Item, Errors
  <1>7. QED
    BY <1>1, <1>2, <1>3, <1>4, <1>5, <1>6
       DEF Next, Step, Fail, DeadlockVictim, Finished

-----------------------------------------------------------------------------
(* The calls that claim to have created an issue and have not failed: two  *)
(* never claim the same one.                                               *)
Claimed(t) ==
    {event \in events[t] : pc[t] # "failed" /\ event.kind = "new_issue"}

Apart == \A t, u \in Ingests : \A e \in Claimed(t), f \in Claimed(u) :
             e.issue = f.issue => e = f

PublishedAreClaimed ==
    \A event \in published : event.kind = "new_issue" =>
        \E t \in Ingests : ~Running(t) /\ event \in Claimed(t)

FirstInv == Apart /\ PublishedAreClaimed

(* A call that finds no row finds one nobody claims to have created.       *)
LEMMA NoneClaimed ==
    ASSUME OneReleasePerIssue, TypeOK, RowInv, EventInv, QueueInv, FreshInv,
           NEW t \in Ingests, pc[t] = "upsert", ~Exists(prev[t]),
           NEW u \in Ingests, NEW event \in Claimed(u)
    PROVE  event.issue # Item(t).issue
  <1> SUFFICES ASSUME event.issue = Item(t).issue PROVE FALSE
    OBVIOUS
  <1> DEFINE i == Item(t).issue
  <1>1. i \in Issues /\ issueLock[i] \in {NoTx, t}
    BY ItemIsOwn
  <1>2. heap[i].count = 0
    <2>1. prev[t].count \in Nat
      BY DEF TypeOK, IssueRow
    <2>2. prev[t].count = heap[i].count
      BY DEF FreshInv, Fresh
    <2>3. QED
      BY <2>1, <2>2 DEF Exists
  <1>3. event \in events[u] /\ event.issue = i /\ event.count \in Nat
    BY DEF Claimed, TypeOK, IssueEvent
  <1>4. pc[u] # "failed"
    BY DEF Claimed
  <1>5. Running(u) \/ Landed(u)
    BY <1>4 DEF Running, Landed, TypeOK
  <1> HIDE DEF i
  <1>6. CASE Running(u)
    BY <1>2, <1>3, <1>6 DEF EventInv, OpenClaims, Reached
  <1>7. CASE Landed(u)
    <2>1. 0 < event.count /\ event.count <= issues[i].count
      BY <1>3, <1>7 DEF EventInv, StoredClaims, Reached
    <2>2. LockedRow(i)
      BY <1>1 DEF RowInv
    <2>3. /\ issues[i].count \in Nat /\ items[i] \in Nat
          /\ inserted[t][i] \in Nat
      BY <1>1 DEF TypeOK, IssueRow
    <2>4. CASE issueLock[i] = NoTx
      BY <1>2, <1>3, <2>1, <2>2, <2>4 DEF LockedRow
    <2>5. CASE issueLock[i] = t
      <3>1. heap[i].count = items[i] + inserted[t][i] /\ issues[i].count = items[i]
        BY <2>2, <2>5 DEF LockedRow
      <3>2. QED
        BY <1>2, <1>3, <2>1, <2>3, <3>1
    <2>6. QED
      BY <1>1, <2>4, <2>5
  <1>8. QED
    BY <1>5, <1>6, <1>7

(* Steps that claim nothing more, and forget nothing that was announced.   *)
LEMMA FirstKept ==
    ASSUME FirstInv, \A u \in Ingests : Claimed(u)' \subseteq Claimed(u),
           \A u \in Ingests : ~Running(u) => ~Running(u)' /\ Claimed(u)' = Claimed(u),
           published' = published
    PROVE  FirstInv'
  <1>1. Apart'
    <2>1. \A u \in Ingests : \A e \in Claimed(u)' : e \in Claimed(u)
      OBVIOUS
    <2>2. QED
      BY <2>1 DEF FirstInv, Apart
  <1>2. PublishedAreClaimed'
    BY DEF FirstInv, PublishedAreClaimed
  <1>3. QED
    BY <1>1, <1>2 DEF FirstInv

LEMMA NextFirst ==
    ASSUME OneReleasePerIssue
    PROVE  /\ TypeOK /\ RowInv /\ EventInv /\ QueueInv /\ FreshInv /\ FirstInv
           /\ [Next]_vars
           => FirstInv'
  <1> SUFFICES ASSUME TypeOK, RowInv, EventInv, QueueInv, FreshInv, FirstInv, [Next]_vars
               PROVE  FirstInv'
    OBVIOUS
  <1>1. ASSUME NEW t \in Ingests,
               UpsertSession(t) \/ UpsertRelease(t) \/ SelectIssue(t) \/ Die(t)
               \/ Commit(t) \/ RollBack(t)
        PROVE  FirstInv'
    <2>1. /\ UNCHANGED <<events, published>>
          /\ pc[t] # "failed"
          /\ Running(t) \/ (pc[t] = "publish" /\ pc'[t] = "lost")
          /\ \A u \in Ingests : u # t => pc'[u] = pc[u]
      BY <1>1 DEF UpsertSession, UpsertRelease, SelectIssue, Die, Commit, RollBack,
                  Goto, Running, TypeOK
    <2>2. \A u \in Ingests : Claimed(u)' \subseteq Claimed(u)
      BY <2>1 DEF Claimed
    <2>3. \A u \in Ingests : ~Running(u) => ~Running(u)' /\ Claimed(u)' = Claimed(u)
      BY <2>1 DEF Claimed, Running
    <2>4. QED
      BY <2>1, <2>2, <2>3, FirstKept
  <1>2. ASSUME NEW t \in Ingests, Publish(t) PROVE FirstInv'
    <2>1. /\ pc[t] = "publish" /\ pc' = [pc EXCEPT ![t] = "accepted"]
          /\ published' = published \cup events[t]
          /\ events' = events
      BY <1>2 DEF Publish, Goto
    <2>2. \A u \in Ingests : Claimed(u)' = Claimed(u)
      BY <2>1 DEF Claimed, TypeOK
    <2>3. \A u \in Ingests : ~Running(u) => ~Running(u)'
      BY <2>1 DEF Running, TypeOK
    <2>4. Apart'
      BY <2>2 DEF FirstInv, Apart
    <2>5. PublishedAreClaimed'
      <3>1. ASSUME NEW event \in published', event.kind = "new_issue"
            PROVE  \E u \in Ingests : ~Running(u)' /\ event \in Claimed(u)'
        <4>1. CASE event \in published
          BY <3>1, <4>1, <2>2, <2>3 DEF FirstInv, PublishedAreClaimed
        <4>2. CASE event \in events[t]
          <5>1. event \in Claimed(t) /\ ~Running(t)
            BY <2>1, <3>1, <4>2 DEF Claimed, Running
          <5>2. QED
            BY <5>1, <2>2, <2>3
        <4>3. QED
          BY <2>1, <4>1, <4>2
      <3>2. QED
        BY <3>1 DEF PublishedAreClaimed
    <2>6. QED
      BY <2>4, <2>5 DEF FirstInv
  <1>3. ASSUME NEW t \in Ingests, UpsertIssue(t) PROVE FirstInv'
    <2> DEFINE e    == Item(t)
               kind == EventKind(prev[t], e, envelope[t].release)
               n    == heap[e.issue].count + 1
               new  == {[by |-> t, kind |-> k, issue |-> e.issue, count |-> n]
                        : k \in {kind} \ {""}}
    <2>1. /\ pc[t] = "upsert"
          /\ events' = [events EXCEPT ![t] = events[t] \cup new]
          /\ pc' = [pc EXCEPT ![t] = LoopAt(t, next[t] + 1)]
          /\ published' = published
      BY <1>3 DEF UpsertIssue, Goto
    <2>2. kind = "new_issue" => ~Exists(prev[t])
      BY DEF EventKind
    <2> HIDE DEF kind, n, e
    <2>3. \A event \in new : /\ event = [by |-> t, kind |-> kind, issue |-> e.issue, count |-> n]
                             /\ event.kind = kind /\ event.issue = e.issue
      <3>1. ASSUME NEW k \in {kind} \ {""}
            PROVE  k = kind
        OBVIOUS
      <3>2. ASSUME NEW event \in new
            PROVE  event = [by |-> t, kind |-> kind, issue |-> e.issue, count |-> n]
        <4>1. PICK k \in {kind} \ {""} :
                 event = [by |-> t, kind |-> k, issue |-> e.issue, count |-> n]
          BY <3>2
        <4>2. QED
          BY <4>1, <3>1
      <3> DEFINE event == [by |-> t, kind |-> kind, issue |-> e.issue, count |-> n]
      <3>3. event.kind = kind /\ event.issue = e.issue
        OBVIOUS
      <3> HIDE DEF new, event
      <3>4. \A f \in new : f = event
        BY <3>2 DEF event
      <3>5. \A f \in new : f = event /\ f.kind = kind /\ f.issue = e.issue
        BY <3>3, <3>4
      <3>6. QED
        BY <3>5 DEF event
    <2> HIDE DEF new
    <2>4. \A u \in Ingests : u # t => Claimed(u)' = Claimed(u)
      BY <2>1 DEF Claimed, TypeOK
    <2>5. \A f \in Claimed(t)' : f \in Claimed(t) \/ (f \in new /\ kind = "new_issue")
      BY <2>1, <2>3 DEF Claimed, TypeOK
    <2>6. ASSUME NEW u \in Ingests, NEW f \in Claimed(u), kind = "new_issue"
          PROVE  f.issue # e.issue
      BY <2>1, <2>2, <2>6, NoneClaimed DEF e
    <2>7. Apart'
      <3>1. SUFFICES ASSUME NEW u \in Ingests, NEW v \in Ingests,
                            NEW f \in Claimed(u)', NEW g \in Claimed(v)',
                            f.issue = g.issue
                     PROVE  f = g
        BY DEF Apart
      <3>2. f \in Claimed(u) \/ (f \in new /\ kind = "new_issue")
        BY <2>4, <2>5
      <3>3. g \in Claimed(v) \/ (g \in new /\ kind = "new_issue")
        BY <2>4, <2>5
      <3>4. CASE f \in Claimed(u) /\ g \in Claimed(v)
        BY <3>1, <3>4 DEF FirstInv, Apart
      <3>5. CASE f \in Claimed(u) /\ g \in new /\ kind = "new_issue"
        BY <3>1, <3>5, <2>3, <2>6
      <3>6. CASE f \in new /\ g \in Claimed(v) /\ kind = "new_issue"
        BY <3>1, <3>6, <2>3, <2>6
      <3>7. CASE f \in new /\ g \in new
        BY <3>7, <2>3
      <3>8. QED
        BY <3>2, <3>3, <3>4, <3>5, <3>6, <3>7
    <2>8. PublishedAreClaimed'
      <3>1. \A u \in Ingests : ~Running(u) => u # t /\ ~Running(u)'
        BY <2>1 DEF Running, TypeOK
      <3>2. QED
        BY <2>1, <2>4, <3>1 DEF FirstInv, PublishedAreClaimed
    <2>9. QED
      BY <2>7, <2>8 DEF FirstInv
  <1>4. CASE UserEdit
    <2>1. UNCHANGED <<pc, events, published>>
      BY <1>4, EditType DEF Edit, progress
    <2>2. QED
      BY <2>1, FirstKept DEF Claimed, Running
  <1>5. CASE UNCHANGED vars
    BY <1>5, FirstKept DEF vars, progress, Claimed, Running
  <1>6. QED
    BY <1>1, <1>2, <1>3, <1>4, <1>5 DEF Next, Step, Fail, DeadlockVictim, Finished

OneReleaseInv ==
    TypeOK /\ RowInv /\ EventInv /\ QueueInv /\ FreshInv /\ FirstInv

LEMMA OneReleaseInvariant ==
    ASSUME OneReleasePerIssue
    PROVE  Spec => []OneReleaseInv
  <1>1. Init => TypeOK /\ RowInv
    BY InitType, InitRows
  <1>2. Init => EventInv /\ FreshInv /\ FirstInv
    BY DEF Init, EventInv, OpenClaims, StoredClaims, FreshInv, Fresh, FirstInv,
           Apart, PublishedAreClaimed, Claimed
  <1>3. Init => QueueInv
    BY IngestAssumption DEF Init, QueueInv, ReleaseHeld, IssuesHeld, Looping
  <1>4. OneReleaseInv /\ [Next]_vars => OneReleaseInv'
    BY NextType, NextRows, NextEvents, NextQueue, NextFresh, NextFirst DEF OneReleaseInv
  <1>5. QED
    BY <1>1, <1>2, <1>3, <1>4, PTL DEF Spec, OneReleaseInv

(* A group is announced as new once: of the concurrent envelopes that find *)
(* no row all but one wait for the release's row, and those that waited    *)
(* find the row the first of them committed.                               *)
THEOREM NewIssuesAreAnnouncedOnce ==
    ASSUME OneReleasePerIssue
    PROVE  Spec => []NewIssueOnce
  <1>1. OneReleaseInv => NewIssueOnce
    <2> SUFFICES ASSUME FirstInv, NEW i \in Issues
                 PROVE  Cardinality({event \in published :
                            event.issue = i /\ event.kind = "new_issue"}) <= 1
      BY DEF OneReleaseInv, NewIssueOnce
    <2> DEFINE S == {event \in published : event.issue = i /\ event.kind = "new_issue"}
    <2>1. \A e, f \in S : e = f
      BY DEF FirstInv, Apart, PublishedAreClaimed
    <2>2. CASE S = {}
      BY <2>2, FS_EmptySet
    <2>3. CASE S # {}
      <3>1. PICK e \in S : TRUE
        BY <2>3
      <3> HIDE DEF S
      <3>2. S = {e}
        BY <2>1, <3>1
      <3>3. Cardinality(S) = 1
        BY <3>2, FS_Singleton
      <3>4. QED
        BY <3>3 DEF S
    <2>4. QED
      BY <2>2, <2>3
  <1>2. Spec => []OneReleaseInv
    BY OneReleaseInvariant
  <1>3. QED
    BY <1>1, <1>2, PTL

-----------------------------------------------------------------------------
(* Snoozes.                                                                *)

SnoozeRuns(row) ==
    row.status = "snoozed" /\ row.snoozeThreshold > 0 =>
        row.count < row.snoozeStart + row.snoozeThreshold

(* The rows the calls find have not reached their thresholds.              *)
InitialSnoozesRun == \A table \in InitialIssues, i \in Issues : SnoozeRuns(table[i])

(* An error decided on the row it is written over wakes it in time.        *)
LEMMA UpsertWakes ==
    ASSUME NEW row \in IssueRow, SnoozeRuns(row),
           NEW e \in ErrorItem, NEW release \in Nat
    PROVE  SnoozeRuns(UpsertRow(row, row, e, release))
  <1> DEFINE status == TargetStatus(row, e, release)
             new    == UpsertRow(row, row, e, release)
  <1>1. /\ new.status = status
        /\ new.count = row.count + 1
        /\ new.snoozeThreshold = row.snoozeThreshold
        /\ new.snoozeStart = row.snoozeStart
    <2> DEFINE last == IF release # NoRelease THEN release ELSE row.lastRelease
    <2> HIDE DEF status, last
    <2>1. new = [row EXCEPT !.count = row.count + 1, !.status = status,
                            !.resolved = (status = "resolved"),
                            !.lastRelease = IF last # NoRelease THEN last
                                            ELSE row.lastRelease]
      BY DEF UpsertRow, status, last
    <2> HIDE DEF new
    <2>2. QED
      BY <2>1 DEF IssueRow
  <1>2. /\ row.count \in Nat /\ row.snoozeThreshold \in Nat /\ row.snoozeStart \in Nat
    BY DEF IssueRow
  <1>3. ASSUME status = "snoozed", row.snoozeThreshold > 0
        PROVE  row.count + 1 < row.snoozeStart + row.snoozeThreshold
    <2>1. Exists(row) /\ row.status = "snoozed" /\ ~Reopens(row, e, release)
      BY <1>3 DEF TargetStatus
    <2>2. ~(row.count + 1 >= row.snoozeThreshold + row.snoozeStart)
      BY <2>1, <1>3 DEF Reopens, Woken
    <2>3. QED
      BY <2>2, <1>2
  <1> HIDE DEF new, status
  <1>4. SnoozeRuns(new)
    BY <1>1, <1>3 DEF SnoozeRuns
  <1>5. QED
    BY <1>4 DEF new

SnoozeInv == \A i \in Issues : SnoozeRuns(issues[i]) /\ SnoozeRuns(heap[i])

LEMMA NextSnooze ==
    ASSUME OneReleasePerIssue, MaxEdits = 0
    PROVE  OneReleaseInv /\ SnoozeInv /\ [Next]_vars => SnoozeInv'
  <1> SUFFICES ASSUME OneReleaseInv, SnoozeInv, [Next]_vars PROVE SnoozeInv'
    OBVIOUS
  <1>t. TypeOK /\ RowInv /\ QueueInv /\ FreshInv
    BY DEF OneReleaseInv
  <1>1. ASSUME NEW t \in Ingests, UpsertIssue(t) PROVE SnoozeInv'
    <2> DEFINE e       == Item(t)
               row     == heap[e.issue]
               release == envelope[t].release
    <2>1. /\ e \in ErrorItem /\ row \in IssueRow /\ release \in Nat
          /\ SnoozeRuns(row) /\ e.issue \in Issues
      BY <1>1, <1>t, EnvelopeType DEF UpsertIssue, ErrorItem, SnoozeInv, TypeOK
    <2>2. prev[t] = row
      BY <1>1, <1>t DEF UpsertIssue, FreshInv, Fresh
    <2>3. /\ heap' = [heap EXCEPT ![e.issue] = UpsertRow(row, prev[t], e, release)]
          /\ issues' = issues
      BY <1>1 DEF UpsertIssue
    <2> HIDE DEF e, row, release
    <2>4. SnoozeRuns(UpsertRow(row, row, e, release))
      BY <2>1, UpsertWakes
    <2>5. \A i \in Issues : heap'[i] = IF i = e.issue THEN UpsertRow(row, row, e, release)
                                       ELSE heap[i]
      BY <2>1, <2>2, <2>3, <1>t DEF TypeOK
    <2>6. ASSUME NEW i \in Issues PROVE SnoozeRuns(issues'[i]) /\ SnoozeRuns(heap'[i])
      <3>1. CASE i = e.issue
        BY <3>1, <2>3, <2>4, <2>5 DEF SnoozeInv
      <3>2. CASE i # e.issue
        BY <3>2, <2>3, <2>5 DEF SnoozeInv
      <3>3. QED
        BY <3>1, <3>2
    <2>7. QED
      BY <2>6 DEF SnoozeInv
  <1>2. ASSUME NEW t \in Ingests, Commit(t) \/ RollBack(t) PROVE SnoozeInv'
    <2>1. ASSUME NEW i \in Issues
          PROVE  issues'[i] \in {issues[i], heap[i]} /\ heap'[i] \in {issues[i], heap[i]}
      BY <1>2 DEF Commit, RollBack, Visible
    <2>2. QED
      BY <2>1 DEF SnoozeInv
  <1>3. ASSUME UNCHANGED <<issues, heap>> PROVE SnoozeInv'
    BY <1>3 DEF SnoozeInv
  <1>4. ASSUME NEW t \in Ingests, Quiet(t) PROVE UNCHANGED <<issues, heap>>
    BY <1>4 DEF Quiet, UpsertSession, UpsertRelease, SelectIssue, Publish, Die, tables
  <1>5. ~UserEdit
    <2>1. ASSUME NEW i \in Issues, NEW row \in IssueRow, Edit(i, row) PROVE FALSE
      BY <1>t, <2>1 DEF Edit, TypeOK
    <2>2. QED
      BY <1>t, <2>1, EditType
  <1>6. QED
    BY <1>1, <1>2, <1>3, <1>4, <1>5
       DEF Next, Step, Quiet, Fail, DeadlockVictim, Finished, vars, tables

(* A snoozed issue is woken by the error that reaches its threshold, also  *)
(* when that error waited for another envelope's: no error is judged by a  *)
(* count another envelope has overtaken.  Setting a status by hand can     *)
(* snooze an issue past its threshold, so nobody edits here.               *)
THEOREM SnoozesEndInTime ==
    ASSUME OneReleasePerIssue, MaxEdits = 0, InitialSnoozesRun
    PROVE  Spec => []SnoozeEndsAtThreshold
  <1>1. Init => SnoozeInv
    BY DEF Init, SnoozeInv, InitialSnoozesRun
  <1>2. OneReleaseInv /\ SnoozeInv /\ [Next]_vars => SnoozeInv'
    BY NextSnooze
  <1>3. SnoozeInv => SnoozeEndsAtThreshold
    BY DEF SnoozeInv, SnoozeRuns, SnoozeEndsAtThreshold
  <1>4. Spec => []OneReleaseInv
    BY OneReleaseInvariant
  <1>5. QED
    BY <1>1, <1>2, <1>3, <1>4, PTL DEF Spec

-----------------------------------------------------------------------------
(* The abstract specification: what Tracker!Replay computes.               *)

LEMMA LeastExists ==
    ASSUME NEW S, S \subseteq Nat, S # {}
    PROVE  \E x \in S : \A y \in S : x <= y
  <1>1. \E x \in S : \A y \in S : ~ (<<y, x>> \in OpToRel(<, Nat))
    BY NatLessThanWellFounded, WFMin
  <1>2. PICK x \in S : \A y \in S : ~ (<<y, x>> \in OpToRel(<, Nat))
    BY <1>1
  <1>3. \A y \in S : ~(y < x)
    <2>1. \A y \in S : y \in Nat
      OBVIOUS
    <2>2. QED
      BY <1>2, <2>1, Zenon DEF OpToRel
  <1>4. QED
    BY <1>3

(* The rows, the items and the events after some errors of an envelope.    *)
Snapshot == [issues : [Issues -> IssueRow], items : [Issues -> Nat],
             events : SUBSET IssueEvent]

ReplayStep(t, e, s, k) ==
    LET x    == e.errors[k]
        row  == s.issues[x.issue]
        kind == EventKind(row, x, e.release)
    IN  [issues |-> [s.issues EXCEPT ![x.issue] = UpsertRow(row, row, x, e.release)],
         items  |-> [s.items EXCEPT ![x.issue] = @ + 1],
         events |-> s.events \cup
             {[by |-> t, kind |-> w, issue |-> x.issue, count |-> row.count + 1]
              : w \in {kind} \ {""}}]

Before(rows, counts) == [issues |-> rows, items |-> counts, events |-> {}]

IsReplay(f, t, e, rows, counts, n) ==
    f = [k \in 0..n |-> IF k = 0 THEN Before(rows, counts)
                        ELSE ReplayStep(t, e, f[k-1], k)]

(* The function Tracker!Replay applies.                                    *)
ReplayOf(t, e, rows, counts) ==
    CHOOSE f : IsReplay(f, t, e, rows, counts, Len(e.errors))

LEMMA ReplayExists ==
    ASSUME NEW t, NEW e, NEW rows, NEW counts, NEW n \in Nat
    PROVE  \E f : IsReplay(f, t, e, rows, counts, n)
  <1> DEFINE None == {k \in Nat : ~ \E f : IsReplay(f, t, e, rows, counts, k)}
  <1> SUFFICES ASSUME None # {} PROVE FALSE
    OBVIOUS
  <1>1. PICK m \in None : \A k \in None : m <= k
    BY LeastExists
  <1>2. m # 0
    <2> DEFINE f == [k \in 0..0 |-> Before(rows, counts)]
    <2>1. IsReplay(f, t, e, rows, counts, 0)
      BY DEF IsReplay
    <2>2. QED
      BY <2>1
  <1>3. m - 1 \in Nat /\ m - 1 \notin None
    BY <1>1, <1>2
  <1>4. PICK f : IsReplay(f, t, e, rows, counts, m - 1)
    BY <1>3
  <1> DEFINE g == [k \in 0..m |-> IF k = m THEN ReplayStep(t, e, f[m-1], m) ELSE f[k]]
  <1>5. ASSUME NEW k \in 0..m
        PROVE  g[k] = IF k = 0 THEN Before(rows, counts) ELSE ReplayStep(t, e, g[k-1], k)
    <2>1. m \in Nat
      OBVIOUS
    <2>2. CASE k = m
      <3>1. g[k-1] = f[m-1] /\ g[k] = ReplayStep(t, e, f[m-1], m)
        BY <1>2, <2>1, <2>2
      <3>2. QED
        BY <1>2, <2>2, <3>1
    <2>3. CASE k # m
      <3>1. k \in 0..(m-1) /\ g[k] = f[k]
        BY <2>1, <2>3
      <3>2. f[k] = IF k = 0 THEN Before(rows, counts) ELSE ReplayStep(t, e, f[k-1], k)
        BY <3>1, <1>4 DEF IsReplay
      <3>3. k # 0 => g[k-1] = f[k-1]
        BY <2>1, <3>1
      <3>4. QED
        BY <3>1, <3>2, <3>3
    <2>4. QED
      BY <2>2, <2>3
  <1>6. IsReplay(g, t, e, rows, counts, m)
    <2>1. g = [k \in 0..m |-> g[k]]
      OBVIOUS
    <2> HIDE DEF g
    <2>2. QED
      BY <1>5, <2>1 DEF IsReplay
  <1>7. QED
    BY <1>6

LEMMA ReplayStepType ==
    ASSUME NEW t \in Ingests, NEW e \in Envelope, NEW s \in Snapshot,
           NEW k \in 1..Len(e.errors)
    PROVE  ReplayStep(t, e, s, k) \in Snapshot
  <1> DEFINE x       == e.errors[k]
             row     == s.issues[x.issue]
             release == e.release
             kind    == EventKind(row, x, release)
             n       == row.count + 1
  <1>1. x \in ErrorItem /\ x.issue \in Issues
    <2>1. e.errors \in Seq(ErrorItem)
      BY DEF Envelope
    <2>2. x \in ErrorItem
      BY <2>1
    <2> HIDE DEF x
    <2>3. QED
      BY <2>2 DEF ErrorItem
  <1>2. release \in Nat
    BY IngestAssumption DEF Envelope
  <1>3. row \in IssueRow /\ s.items[x.issue] \in Nat
    BY <1>1 DEF Snapshot
  <1>4. n \in Nat
    <2> HIDE DEF row
    <2> QED BY <1>3 DEF IssueRow
  <1>5. kind \in {"", "new_issue", "regression"}
    BY DEF EventKind
  <1>6. UpsertRow(row, row, x, release) \in IssueRow
    <2> HIDE DEF row, x, release
    <2> QED BY <1>1, <1>2, <1>3, UpsertRowType
  <1> DEFINE rows   == [s.issues EXCEPT ![x.issue] = UpsertRow(row, row, x, release)]
             counts == [s.items EXCEPT ![x.issue] = s.items[x.issue] + 1]
             new    == {[by |-> t, kind |-> w, issue |-> x.issue, count |-> n]
                        : w \in {kind} \ {""}}
  <1>7. rows \in [Issues -> IssueRow]
    <2> DEFINE up == UpsertRow(row, row, x, release)
    <2>1. up \in IssueRow
      BY <1>6
    <2> HIDE DEF up
    <2>2. [s.issues EXCEPT ![x.issue] = up] \in [Issues -> IssueRow]
      BY <2>1 DEF Snapshot
    <2>3. QED
      BY <2>2 DEF up
  <1>8. counts \in [Issues -> Nat]
    <2> DEFINE m == s.items[x.issue] + 1
    <2>1. m \in Nat
      BY <1>3
    <2> HIDE DEF m
    <2>2. [s.items EXCEPT ![x.issue] = m] \in [Issues -> Nat]
      BY <2>1 DEF Snapshot
    <2>3. QED
      BY <2>2 DEF m
  <1>9. new \subseteq IssueEvent
    <2>1. ASSUME NEW w \in {kind} \ {""}
          PROVE  [by |-> t, kind |-> w, issue |-> x.issue, count |-> n] \in IssueEvent
      <3>1. w \in {"new_issue", "regression"}
        BY <1>5, <2>1
      <3> HIDE DEF n, x, kind
      <3>2. QED
        BY <1>1, <1>4, <3>1 DEF IssueEvent
    <2>2. QED
      BY <2>1
  <1>10. s.events \cup new \subseteq IssueEvent
    BY <1>9 DEF Snapshot
  <1>11. ReplayStep(t, e, s, k) = [issues |-> rows, items |-> counts, events |-> s.events \cup new]
    BY DEF ReplayStep
  <1> HIDE DEF rows, counts, new
  <1>12. QED
    BY <1>7, <1>8, <1>10, <1>11 DEF Snapshot

(* What the replay is: its equations.                                      *)
LEMMA ReplayEquations ==
    ASSUME NEW t \in Ingests, NEW e \in Envelope,
           NEW rows \in [Issues -> IssueRow], NEW counts \in [Issues -> Nat]
    PROVE  /\ ReplayOf(t, e, rows, counts)[0] = Before(rows, counts)
           /\ \A k \in 1..Len(e.errors) :
                 ReplayOf(t, e, rows, counts)[k] =
                     ReplayStep(t, e, ReplayOf(t, e, rows, counts)[k-1], k)
           /\ \A k \in 0..Len(e.errors) : ReplayOf(t, e, rows, counts)[k] \in Snapshot
  <1> DEFINE f == ReplayOf(t, e, rows, counts)
             n == Len(e.errors)
  <1>1. n \in Nat
    BY DEF Envelope
  <1>2. IsReplay(f, t, e, rows, counts, n)
    <2>1. \E g : IsReplay(g, t, e, rows, counts, n)
      BY <1>1, ReplayExists
    <2>2. QED
      BY <2>1 DEF ReplayOf
  <1> HIDE DEF f
  <1>3. \A k \in 0..n : f[k] = IF k = 0 THEN Before(rows, counts)
                               ELSE ReplayStep(t, e, f[k-1], k)
    BY <1>2 DEF IsReplay
  <1>4. f[0] = Before(rows, counts)
    BY <1>1, <1>3
  <1>5. \A k \in 1..n : f[k] = ReplayStep(t, e, f[k-1], k)
    BY <1>1, <1>3
  <1>6. \A k \in 0..n : f[k] \in Snapshot
    <2> DEFINE Bad == {k \in 0..n : f[k] \notin Snapshot}
    <2> SUFFICES ASSUME Bad # {} PROVE FALSE
      OBVIOUS
    <2>1. Bad \subseteq Nat
      BY <1>1
    <2>2. PICK m \in Bad : \A k \in Bad : m <= k
      BY <2>1, LeastExists
    <2>3. m # 0
      BY <1>4 DEF Before, Snapshot
    <2>4. m \in 1..n /\ f[m-1] \in Snapshot
      BY <1>1, <2>2, <2>3
    <2>5. f[m] \in Snapshot
      BY <1>5, <2>4, ReplayStepType
    <2>6. QED
      BY <2>2, <2>5
  <1>7. QED
    BY <1>4, <1>5, <1>6 DEF f

(* The replay of an envelope reads no row but those it names, and writes   *)
(* no other.                                                               *)
AgreeOn(e, rows, counts, rows2, counts2) ==
    \A i \in Issues : Names(e, i) => rows[i] = rows2[i] /\ counts[i] = counts2[i]

(* s and r differ at most in the rows e does not name, which are r's own.  *)
SameEffect(e, s, r, rows, counts) ==
    /\ r.events = s.events
    /\ \A i \in Issues : IF Names(e, i)
                         THEN r.issues[i] = s.issues[i] /\ r.items[i] = s.items[i]
                         ELSE r.issues[i] = rows[i] /\ r.items[i] = counts[i]

LEMMA ReplayIsLocal ==
    ASSUME NEW t \in Ingests, NEW e \in Envelope,
           NEW rows \in [Issues -> IssueRow], NEW counts \in [Issues -> Nat],
           NEW rows2 \in [Issues -> IssueRow], NEW counts2 \in [Issues -> Nat],
           AgreeOn(e, rows, counts, rows2, counts2), NEW k \in 0..Len(e.errors)
    PROVE  SameEffect(e, ReplayOf(t, e, rows, counts)[k],
                      ReplayOf(t, e, rows2, counts2)[k], rows2, counts2)
  <1> DEFINE n == Len(e.errors)
             f == ReplayOf(t, e, rows, counts)
             g == ReplayOf(t, e, rows2, counts2)
             Like(s, r) == SameEffect(e, s, r, rows2, counts2)
  <1>1. /\ f[0] = Before(rows, counts) /\ g[0] = Before(rows2, counts2)
        /\ \A j \in 1..n : f[j] = ReplayStep(t, e, f[j-1], j)
        /\ \A j \in 1..n : g[j] = ReplayStep(t, e, g[j-1], j)
        /\ \A j \in 0..n : f[j] \in Snapshot /\ g[j] \in Snapshot
    BY ReplayEquations
  <1> HIDE DEF f, g
  <1>2. n \in Nat
    BY DEF Envelope
  <1>3. Like(f[0], g[0])
    BY <1>1 DEF Before, AgreeOn, SameEffect
  <1>4. ASSUME NEW j \in 1..n, Like(f[j-1], g[j-1]) PROVE Like(f[j], g[j])
    <2> DEFINE s == f[j-1]
               r == g[j-1]
               x == e.errors[j]
    <2>1. s \in Snapshot /\ r \in Snapshot /\ Like(s, r)
      BY <1>1, <1>2, <1>4
    <2>2. f[j] = ReplayStep(t, e, s, j) /\ g[j] = ReplayStep(t, e, r, j)
      BY <1>1
    <2>3. x.issue \in Issues /\ Names(e, x.issue)
      <3>1. e.errors \in Seq(ErrorItem)
        BY DEF Envelope
      <3>2. x \in ErrorItem
        BY <3>1
      <3>3. Names(e, x.issue)
        BY DEF Names
      <3> HIDE DEF x
      <3>4. QED
        BY <3>2, <3>3 DEF ErrorItem
    <2> HIDE DEF s, r, x
    <2>4. s.issues[x.issue] = r.issues[x.issue] /\ s.items[x.issue] = r.items[x.issue]
      BY <2>1, <2>3 DEF SameEffect
    <2> DEFINE row == s.issues[x.issue]
               up  == UpsertRow(row, row, x, e.release)
               new == {[by |-> t, kind |-> w, issue |-> x.issue, count |-> row.count + 1]
                       : w \in {EventKind(row, x, e.release)} \ {""}}
               m   == s.items[x.issue] + 1
    <2>5. /\ ReplayStep(t, e, s, j) =
                [issues |-> [s.issues EXCEPT ![x.issue] = up],
                 items  |-> [s.items EXCEPT ![x.issue] = m],
                 events |-> s.events \cup new]
          /\ ReplayStep(t, e, r, j) =
                [issues |-> [r.issues EXCEPT ![x.issue] = up],
                 items  |-> [r.items EXCEPT ![x.issue] = m],
                 events |-> r.events \cup new]
      BY <2>4 DEF ReplayStep, x
    <2> HIDE DEF up, new, m, row
    <2>6. g[j].events = f[j].events
      BY <2>1, <2>2, <2>5 DEF SameEffect
    <2>7. ASSUME NEW i \in Issues
          PROVE  IF Names(e, i)
                 THEN g[j].issues[i] = f[j].issues[i] /\ g[j].items[i] = f[j].items[i]
                 ELSE g[j].issues[i] = rows2[i] /\ g[j].items[i] = counts2[i]
      <3>1. /\ f[j].issues[i] = IF i = x.issue THEN up ELSE s.issues[i]
            /\ g[j].issues[i] = IF i = x.issue THEN up ELSE r.issues[i]
            /\ f[j].items[i] = IF i = x.issue THEN m ELSE s.items[i]
            /\ g[j].items[i] = IF i = x.issue THEN m ELSE r.items[i]
        BY <2>1, <2>2, <2>5 DEF Snapshot
      <3>2. QED
        BY <2>1, <2>3, <3>1 DEF SameEffect
    <2>8. QED
      BY <2>6, <2>7 DEF SameEffect
  <1> HIDE DEF Like
  <1>5. \A j \in 0..n : Like(f[j], g[j])
    <2> DEFINE Bad == {j \in 0..n : ~Like(f[j], g[j])}
    <2> SUFFICES ASSUME Bad # {} PROVE FALSE
      OBVIOUS
    <2>1. Bad \subseteq Nat
      BY <1>2
    <2>2. PICK j \in Bad : \A h \in Bad : j <= h
      BY <2>1, LeastExists
    <2>3. j # 0
      BY <1>3, <2>2
    <2>4. j \in 1..n /\ Like(f[j-1], g[j-1])
      BY <1>2, <2>2, <2>3
    <2>5. QED
      BY <1>4, <2>2, <2>4
  <1>6. Like(f[k], g[k])
    BY <1>5
  <1>7. QED
    BY <1>6 DEF Like, f, g

LEMMA SameRules ==
    ASSUME NEW row, NEW old, NEW e, NEW release
    PROVE  /\ Tracker!EventKind(old, e, release) = EventKind(old, e, release)
           /\ Tracker!UpsertRow(row, old, e, release) = UpsertRow(row, old, e, release)
  <1>1. Tracker!Reopens(old, e, release) <=> Reopens(old, e, release)
    BY DEF Tracker!Reopens, Reopens, Tracker!Woken, Woken, Tracker!OlderRelease,
           OlderRelease, Tracker!NoTime, NoTime, Tracker!NoRelease, NoRelease
  <1>2. Tracker!Exists(old) <=> Exists(old)
    BY DEF Tracker!Exists, Exists
  <1>3. Tracker!EventKind(old, e, release) = EventKind(old, e, release)
    BY <1>1, <1>2 DEF Tracker!EventKind, EventKind
  <1>4. Tracker!TargetStatus(old, e, release) = TargetStatus(old, e, release)
    BY <1>1, <1>2 DEF Tracker!TargetStatus, TargetStatus
  <1>5. Tracker!UpsertRow(row, old, e, release) = UpsertRow(row, old, e, release)
    BY <1>4 DEF Tracker!UpsertRow, UpsertRow, Tracker!NoRelease, NoRelease
  <1>6. QED
    BY <1>3, <1>5

LEMMA SameReplay ==
    ASSUME NEW t, NEW n
    PROVE  Tracker!Replay(t, n) = ReplayOf(t, envelope[t], issues, items)[n]
  <1> DEFINE e == envelope[t]
             TrackerStep(s, k) ==
               LET x    == e.errors[k]
                   row  == s.issues[x.issue]
                   kind == Tracker!EventKind(row, x, e.release)
               IN  [issues |-> [s.issues EXCEPT ![x.issue] =
                                    Tracker!UpsertRow(row, row, x, e.release)],
                    items  |-> [s.items EXCEPT ![x.issue] = @ + 1],
                    events |-> s.events \cup
                        {[by |-> t, kind |-> w, issue |-> x.issue, count |-> row.count + 1]
                         : w \in {kind} \ {""}}]
             IsTracker(f) ==
               f = [k \in 0..Len(e.errors) |->
                      IF k = 0 THEN Before(issues, items) ELSE TrackerStep(f[k-1], k)]
             Same(f) == IsReplay(f, t, e, issues, items, Len(e.errors))
  <1>1. Tracker!Replay(t, n) = (CHOOSE f : IsTracker(f))[n]
    BY DEF Tracker!Replay, Before
  <1>2. ASSUME NEW s, NEW k PROVE TrackerStep(s, k) = ReplayStep(t, e, s, k)
    BY SameRules DEF ReplayStep
  <1> HIDE DEF TrackerStep
  <1>3. ASSUME NEW f PROVE IsTracker(f) <=> Same(f)
    <2>1. [k \in 0..Len(e.errors) |->
              IF k = 0 THEN Before(issues, items) ELSE TrackerStep(f[k-1], k)]
          = [k \in 0..Len(e.errors) |->
              IF k = 0 THEN Before(issues, items) ELSE ReplayStep(t, e, f[k-1], k)]
      BY <1>2
    <2>2. QED
      BY <2>1 DEF IsReplay
  <1>4. ReplayOf(t, e, issues, items) = (CHOOSE f : Same(f))
    BY DEF ReplayOf
  <1> HIDE DEF IsTracker, Same
  <1>5. (CHOOSE f : IsTracker(f)) = (CHOOSE f : Same(f))
    BY <1>3, Zenon
  <1>6. QED
    BY <1>1, <1>4, <1>5

(* What a call sees of the tables, with what it has written and raised.    *)
Now(t) ==
    [issues |-> [i \in Issues |-> Visible(t, i)],
     items  |-> [i \in Issues |-> items[i] + inserted[t][i]],
     events |-> events[t]]

(* The loop of a call is as far as the replay of its envelope from the     *)
(* tables as they are by now, whatever other calls have committed since it *)
(* began.                                                                  *)
Begins(t) == pc[t] \in {"session", "release"} => next[t] = 1 /\ events[t] = {}
Ends(t)   == pc[t] = "commit" => next[t] = Len(Errors(t)) + 1
Replays(t) ==
    Looping(t) =>
        /\ next[t] <= Len(Errors(t)) + 1
        /\ Now(t) = ReplayOf(t, envelope[t], issues, items)[next[t] - 1]

ReplayInv == \A t \in Ingests : Begins(t) /\ Ends(t) /\ Replays(t)

LEMMA NowType ==
    ASSUME TypeOK, NEW t \in Ingests
    PROVE  Now(t) \in Snapshot
  <1> DEFINE rows   == [i \in Issues |-> Visible(t, i)]
             counts == [i \in Issues |-> items[i] + inserted[t][i]]
  <1>1. rows \in [Issues -> IssueRow]
    BY DEF TypeOK, Visible
  <1>2. counts \in [Issues -> Nat]
    BY DEF TypeOK
  <1>3. events[t] \subseteq IssueEvent
    BY DEF TypeOK
  <1> HIDE DEF rows, counts
  <1>4. [issues |-> rows, items |-> counts, events |-> events[t]] \in Snapshot
    BY <1>1, <1>2, <1>3 DEF Snapshot
  <1>5. QED
    BY <1>4 DEF Now, rows, counts

(* Two snapshots with the same rows, items and events are one.             *)
LEMMA SameSnapshot ==
    ASSUME NEW s \in Snapshot, NEW r \in Snapshot, s.events = r.events,
           \A i \in Issues : s.issues[i] = r.issues[i] /\ s.items[i] = r.items[i]
    PROVE  s = r
  <1>1. s.issues = r.issues
    BY DEF Snapshot
  <1>2. s.items = r.items
    BY DEF Snapshot
  <1>3. QED
    BY <1>1, <1>2 DEF Snapshot

(* A call that holds no issue sees the tables.                             *)
LEMMA NothingHeld ==
    ASSUME TypeOK, RowInv, QueueInv, NEW t \in Ingests, ~Looping(t), NEW i \in Issues
    PROVE  issueLock[i] # t /\ Visible(t, i) = issues[i] /\ inserted[t][i] = 0
  <1>1. issueLock[i] # t
    BY DEF QueueInv, IssuesHeld
  <1>2. QED
    BY <1>1 DEF Visible, RowInv, LockedRow

(* Steps of others: they touch no row this call's envelope names.          *)
LEMMA ReplayKept ==
    ASSUME TypeOK, RowInv, QueueInv, ReplayInv, TypeOK', RowInv', QueueInv',
           NEW t \in Ingests,
           pc'[t] = pc[t], envelope' = envelope, next'[t] = next[t],
           events'[t] = events[t], inserted'[t] = inserted[t],
           \A i \in Issues : Looping(t) /\ Names(envelope[t], i) =>
               /\ issues'[i] = issues[i] /\ items'[i] = items[i]
               /\ Visible(t, i)' = Visible(t, i)
    PROVE  Begins(t)' /\ Ends(t)' /\ Replays(t)'
  <1> DEFINE e == envelope[t]
             n == next[t] - 1
             f == ReplayOf(t, e, issues, items)
             g == ReplayOf(t, e, issues', items')
  <1>1. Begins(t)' /\ Ends(t)'
    BY DEF ReplayInv, Begins, Ends, Errors
  <1>2. ASSUME Looping(t)
        PROVE  next[t] <= Len(Errors(t)) + 1 /\ Now(t)' = g[n]
    <2>1. next[t] <= Len(Errors(t)) + 1 /\ Now(t) = f[n]
      BY <1>2 DEF ReplayInv, Replays
    <2>2. /\ e \in Envelope
          /\ issues \in [Issues -> IssueRow] /\ items \in [Issues -> Nat]
          /\ issues' \in [Issues -> IssueRow] /\ items' \in [Issues -> Nat]
      BY IngestAssumption DEF TypeOK
    <2>3. n \in 0..Len(e.errors)
      BY <2>1, EnvelopeType DEF Errors
    <2>4. \A i \in Issues : Names(e, i) => issues[i] = issues'[i] /\ items[i] = items'[i]
      BY <1>2
    <2>5. /\ g[n].events = f[n].events
          /\ \A i \in Issues : IF Names(e, i)
                               THEN g[n].issues[i] = f[n].issues[i] /\ g[n].items[i] = f[n].items[i]
                               ELSE g[n].issues[i] = issues'[i] /\ g[n].items[i] = items'[i]
      <3>1. AgreeOn(e, issues, items, issues', items')
        BY <2>4 DEF AgreeOn
      <3> HIDE DEF n
      <3>2. SameEffect(e, f[n], g[n], issues', items')
        BY <2>2, <2>3, <3>1, ReplayIsLocal
      <3>3. QED
        BY <3>2 DEF SameEffect
    <2>6. g[n] \in Snapshot
      BY <2>2, <2>3, ReplayEquations
    <2>7. Now(t)' \in Snapshot
      <3> DEFINE rows   == [i \in Issues |-> Visible(t, i)']
                 counts == [i \in Issues |-> items'[i] + inserted'[t][i]]
      <3>1. rows \in [Issues -> IssueRow]
        BY DEF TypeOK, Visible
      <3>2. counts \in [Issues -> Nat]
        BY DEF TypeOK
      <3>3. events'[t] \subseteq IssueEvent
        BY DEF TypeOK
      <3> HIDE DEF rows, counts
      <3>4. [issues |-> rows, items |-> counts, events |-> events'[t]] \in Snapshot
        BY <3>1, <3>2, <3>3 DEF Snapshot
      <3>5. QED
        BY <3>4 DEF Now, rows, counts
    <2> HIDE DEF e, n, f, g
    <2>8. Now(t)'.events = g[n].events
      BY <2>1, <2>5 DEF Now
    <2>9. ASSUME NEW i \in Issues
          PROVE  Now(t)'.issues[i] = g[n].issues[i] /\ Now(t)'.items[i] = g[n].items[i]
      <3>1. /\ Now(t)'.issues[i] = Visible(t, i)'
            /\ Now(t)'.items[i] = items'[i] + inserted'[t][i]
            /\ Now(t).issues[i] = Visible(t, i)
            /\ Now(t).items[i] = items[i] + inserted[t][i]
        BY DEF Now
      <3>2. CASE Names(e, i)
        BY <1>2, <2>1, <2>4, <2>5, <3>1, <3>2 DEF e
      <3>3. CASE ~Names(e, i)
        <4>1. issueLock'[i] # t
          BY <3>3 DEF QueueInv, IssuesHeld, e
        <4>2. inserted'[t][i] = 0
          BY <4>1 DEF RowInv, LockedRow
        <4>3. Visible(t, i)' = issues'[i]
          BY <4>1 DEF Visible
        <4>4. items'[i] \in Nat
          BY <2>2
        <4>5. QED
          BY <2>5, <3>1, <3>3, <4>2, <4>3, <4>4
      <3>4. QED
        BY <3>2, <3>3
    <2>10. Now(t)' = g[n]
      BY <2>6, <2>7, <2>8, <2>9, SameSnapshot
    <2>11. QED
      BY <2>1, <2>10
  <1>3. Replays(t)'
    BY <1>2 DEF Replays, Looping, Errors
  <1>4. QED
    BY <1>1, <1>3

(* The first statements have written nothing the replay knows of.          *)
LEMMA ReplayEnters ==
    ASSUME TypeOK, RowInv, QueueInv, ReplayInv, TypeOK',
           NEW t \in Ingests, pc[t] \in {"session", "release"},
           UNCHANGED <<tables, issueLock, envelope, next, inserted, events>>,
           pc'[t] \in {"release", LoopAt(t, next[t])}
    PROVE  Begins(t)' /\ Ends(t)' /\ Replays(t)'
  <1>1. ~Looping(t) /\ next[t] = 1 /\ events[t] = {}
    BY DEF ReplayInv, Begins, Looping
  <1>2. Begins(t)'
    BY <1>1 DEF Begins
  <1>3. Ends(t)'
    BY <1>1, EnvelopeType DEF Ends, LoopAt, Errors
  <1>4. Replays(t)'
    <2>1. next[t] <= Len(Errors(t)) + 1
      BY <1>1, EnvelopeType
    <2>2. Now(t) = Before(issues, items)
      <3>1. [i \in Issues |-> Visible(t, i)] = issues
        BY <1>1, NothingHeld DEF TypeOK
      <3>2. [i \in Issues |-> items[i] + inserted[t][i]] = items
        BY <1>1, NothingHeld DEF TypeOK
      <3>3. QED
        BY <1>1, <3>1, <3>2 DEF Now, Before
    <2>3. ReplayOf(t, envelope[t], issues, items)[0] = Before(issues, items)
      <3>1. /\ envelope[t] \in Envelope
            /\ issues \in [Issues -> IssueRow] /\ items \in [Issues -> Nat]
        BY IngestAssumption DEF TypeOK
      <3>2. QED
        BY <3>1, ReplayEquations
    <2>4. Now(t)' = Now(t)
      BY DEF Now, Visible, tables
    <2>5. QED
      BY <1>1, <2>1, <2>2, <2>3, <2>4 DEF Replays, Errors, tables
  <1>5. QED
    BY <1>2, <1>3, <1>4

(* One error is one step of the replay.                                    *)
LEMMA ReplayAdvances ==
    ASSUME OneReleasePerIssue, MaxEdits = 0,
           OneReleaseInv, ReplayInv, TypeOK', NEW t \in Ingests, UpsertIssue(t)
    PROVE  Begins(t)' /\ Ends(t)' /\ Replays(t)'
  <1> DEFINE e       == envelope[t]
             k       == next[t]
             x       == Item(t)
             j       == x.issue
             s       == Now(t)
             f       == ReplayOf(t, e, issues, items)
             row     == heap[j]
             up      == UpsertRow(row, row, x, e.release)
             new     == {[by |-> t, kind |-> w, issue |-> j, count |-> row.count + 1]
                         : w \in {EventKind(row, x, e.release)} \ {""}}
  <1>t. TypeOK /\ RowInv /\ QueueInv /\ FreshInv
    BY DEF OneReleaseInv
  <1>1. /\ pc[t] = "upsert"
        /\ k \in 1..Len(e.errors) /\ Len(e.errors) \in Nat
        /\ x = e.errors[k]
    <2>1. pc[t] = "upsert"
      BY DEF UpsertIssue
    <2>2. k \in Nat \ {0} /\ Len(Errors(t)) \in Nat
      BY <1>t, EnvelopeType
    <2>3. k <= Len(Errors(t))
      BY <1>t, <2>1 DEF TypeOK
    <2>4. QED
      BY <2>1, <2>2, <2>3 DEF Item, Errors
  <1>2. /\ j \in Issues /\ Names(e, j) /\ Visible(t, j) = row
    BY <1>t, <1>1, ItemIsOwn
  <1>3. prev[t] = row
    BY <1>t, <1>1 DEF FreshInv, Fresh
  <1>4. /\ issueLock' = [issueLock EXCEPT ![j] = t]
        /\ heap' = [heap EXCEPT ![j] = up]
        /\ inserted' = [inserted EXCEPT ![t][j] = inserted[t][j] + 1]
        /\ events' = [events EXCEPT ![t] = events[t] \cup new]
        /\ next' = [next EXCEPT ![t] = k + 1]
        /\ pc' = [pc EXCEPT ![t] = LoopAt(t, k + 1)]
        /\ UNCHANGED <<issues, items, envelope>>
    BY <1>3 DEF UpsertIssue, Goto
  <1>5. /\ e \in Envelope
        /\ issues \in [Issues -> IssueRow] /\ items \in [Issues -> Nat]
    BY <1>t, IngestAssumption DEF TypeOK
  <1>6. s = f[k - 1]
    BY <1>1 DEF ReplayInv, Replays, Looping
  <1>7. f[k] = ReplayStep(t, e, s, k)
    BY <1>1, <1>5, <1>6, ReplayEquations
  <1>8. s.issues[j] = row
    BY <1>2 DEF Now
  <1>9. f[k] = [issues |-> [s.issues EXCEPT ![j] = up],
                items  |-> [s.items EXCEPT ![j] = s.items[j] + 1],
                events |-> s.events \cup new]
    BY <1>1, <1>7, <1>8 DEF ReplayStep
  <1>10. s \in Snapshot /\ s.events = events[t]
    BY <1>t, NowType DEF Now
  <1>11. ASSUME NEW i \in Issues
         PROVE  /\ s.issues[i] = Visible(t, i)
                /\ s.items[i] = items[i] + inserted[t][i]
    BY DEF Now
  <1> HIDE DEF s, up, new, x, j, k, f, e, row
  <1>12. ASSUME NEW i \in Issues
         PROVE  /\ Visible(t, i)' = IF i = j THEN up ELSE Visible(t, i)
                /\ inserted'[t][i] = IF i = j THEN inserted[t][i] + 1 ELSE inserted[t][i]
    BY <1>t, <1>2, <1>4 DEF Visible, TypeOK
  <1>13. Now(t)' = f[k]
    <2>1. [i \in Issues |-> Visible(t, i)'] = [s.issues EXCEPT ![j] = up]
      BY <1>2, <1>10, <1>11, <1>12 DEF Snapshot
    <2>2. [i \in Issues |-> items'[i] + inserted'[t][i]]
             = [s.items EXCEPT ![j] = s.items[j] + 1]
      <3>1. \A i \in Issues : items'[i] = items[i] /\ items[i] \in Nat /\ inserted[t][i] \in Nat
        BY <1>t, <1>4 DEF TypeOK
      <3>2. \A i \in Issues : items'[i] + inserted'[t][i]
                                = IF i = j THEN s.items[j] + 1 ELSE s.items[i]
        BY <1>2, <1>11, <1>12, <3>1
      <3>3. QED
        BY <1>2, <1>10, <3>2 DEF Snapshot
    <2>3. events'[t] = s.events \cup new
      BY <1>t, <1>4, <1>10 DEF TypeOK
    <2>4. QED
      BY <1>9, <2>1, <2>2, <2>3 DEF Now
  <1>14. next'[t] = k + 1 /\ k + 1 <= Len(e.errors) + 1 /\ pc'[t] = LoopAt(t, k + 1)
    BY <1>t, <1>1, <1>4 DEF TypeOK
  <1>15. pc'[t] \in {"select", "commit"} /\ (pc'[t] = "commit" => k + 1 > Len(e.errors))
    BY <1>1, <1>14 DEF LoopAt, Errors, e
  <1>16. Begins(t)'
    BY <1>15 DEF Begins
  <1>17. Ends(t)'
    BY <1>1, <1>4, <1>14, <1>15 DEF Ends, Errors, e
  <1>18. Replays(t)'
    <2>1. next'[t] - 1 = k
      BY <1>1, <1>14
    <2>2. ReplayOf(t, envelope'[t], issues', items') = f
      BY <1>4 DEF f, e
    <2>3. next'[t] <= Len(envelope'[t].errors) + 1
      BY <1>4, <1>14 DEF e
    <2>4. QED
      BY <1>13, <2>1, <2>2, <2>3 DEF Replays, Errors
  <1>19. QED
    BY <1>16, <1>17, <1>18

LEMMA NextReplay ==
    ASSUME OneReleasePerIssue, MaxEdits = 0
    PROVE  OneReleaseInv /\ ReplayInv /\ OneReleaseInv' /\ [Next]_vars => ReplayInv'
  <1> SUFFICES ASSUME OneReleaseInv, ReplayInv, OneReleaseInv', [Next]_vars
               PROVE  ReplayInv'
    OBVIOUS
  <1>t. TypeOK /\ RowInv /\ QueueInv /\ FreshInv /\ TypeOK' /\ RowInv' /\ QueueInv'
    BY DEF OneReleaseInv
  <1>1. ASSUME NEW t \in Ingests, UpsertSession(t) \/ UpsertRelease(t) PROVE ReplayInv'
    <2>1. /\ pc[t] \in {"session", "release"}
          /\ UNCHANGED <<tables, issueLock, envelope, next, inserted, events>>
          /\ pc'[t] \in {"release", LoopAt(t, next[t])}
          /\ \A u \in Ingests : u # t => pc'[u] = pc[u]
      BY <1>1, <1>t DEF UpsertSession, UpsertRelease, Goto, TypeOK
    <2>2. Begins(t)' /\ Ends(t)' /\ Replays(t)'
      BY <1>t, <2>1, ReplayEnters
    <2>3. ASSUME NEW u \in Ingests, u # t PROVE Begins(u)' /\ Ends(u)' /\ Replays(u)'
      BY <1>t, <2>1, <2>3, ReplayKept DEF tables, Visible
    <2>4. QED
      BY <2>2, <2>3 DEF ReplayInv
  <1>2. ASSUME NEW t \in Ingests, SelectIssue(t) PROVE ReplayInv'
    <2>1. /\ pc[t] = "select" /\ pc'[t] = "upsert"
          /\ UNCHANGED <<tables, issueLock, envelope, next, inserted, events>>
          /\ \A u \in Ingests : u # t => pc'[u] = pc[u]
      BY <1>2, <1>t DEF SelectIssue, Goto, locks, TypeOK
    <2>2. Begins(t)' /\ Ends(t)' /\ Replays(t)'
      BY <2>1 DEF ReplayInv, Begins, Ends, Replays, Looping, Now, Visible, tables, Errors
    <2>3. ASSUME NEW u \in Ingests, u # t PROVE Begins(u)' /\ Ends(u)' /\ Replays(u)'
      BY <1>t, <2>1, <2>3, ReplayKept DEF tables, Visible
    <2>4. QED
      BY <2>2, <2>3 DEF ReplayInv
  <1>3. ASSUME NEW t \in Ingests, UpsertIssue(t) PROVE ReplayInv'
    <2> DEFINE j == Item(t).issue
    <2>1. /\ pc[t] = "upsert"
          /\ \E up : heap' = [heap EXCEPT ![j] = up]
          /\ issueLock' = [issueLock EXCEPT ![j] = t]
          /\ \A u \in Ingests : u # t => /\ pc'[u] = pc[u] /\ next'[u] = next[u]
                                         /\ events'[u] = events[u]
                                         /\ inserted'[u] = inserted[u]
          /\ UNCHANGED <<issues, items, envelope>>
      BY <1>3, <1>t DEF UpsertIssue, Goto, TypeOK
    <2>2. j \in Issues /\ Names(envelope[t], j)
      BY <1>t, <2>1, ItemIsOwn
    <2> HIDE DEF j
    <2>3. Begins(t)' /\ Ends(t)' /\ Replays(t)'
      BY <1>3, <1>t, ReplayAdvances
    <2>4. ASSUME NEW u \in Ingests, u # t PROVE Begins(u)' /\ Ends(u)' /\ Replays(u)'
      <3>1. ASSUME NEW i \in Issues, Looping(u), Names(envelope[u], i)
            PROVE  Visible(u, i)' = Visible(u, i)
        <4>1. Looping(t)
          BY <2>1 DEF Looping
        <4>2. i # j
          BY <1>t, <2>2, <2>4, <3>1, <4>1, AloneOnIssue
        <4>3. heap'[i] = heap[i] /\ issueLock'[i] = issueLock[i]
          BY <1>t, <2>1, <4>2 DEF TypeOK
        <4>4. QED
          BY <2>1, <4>3 DEF Visible
      <3>2. QED
        BY <1>t, <2>1, <2>4, <3>1, ReplayKept
    <2>5. QED
      BY <2>3, <2>4 DEF ReplayInv
  <1>4. ASSUME NEW t \in Ingests, Commit(t) \/ RollBack(t) PROVE ReplayInv'
    <2>1. /\ pc'[t] \in {"accepted", "publish", "failed"}
          /\ \A u \in Ingests : u # t => pc'[u] = pc[u] /\ inserted'[u] = inserted[u]
          /\ UNCHANGED <<envelope, next, events>>
          /\ \A i \in Issues : issueLock'[i] = IF issueLock[i] = t THEN NoTx ELSE issueLock[i]
      BY <1>4, <1>t DEF Commit, RollBack, Goto, ReleaseLocks, Unlocked, TypeOK
    <2>2. ASSUME NEW i \in Issues, issueLock[i] # t
          PROVE  issues'[i] = issues[i] /\ items'[i] = items[i] /\ heap'[i] = heap[i]
      <3>1. inserted[t][i] = 0 /\ items[i] \in Nat
        BY <1>t, <2>2 DEF RowInv, LockedRow, TypeOK
      <3>2. QED
        BY <1>4, <2>2, <3>1 DEF Commit, RollBack, Visible
    <2>3. Begins(t)' /\ Ends(t)' /\ Replays(t)'
      BY <2>1 DEF Begins, Ends, Replays, Looping
    <2>4. Running(t)
      BY <1>4 DEF Commit, RollBack, Running
    <2>5. ASSUME NEW u \in Ingests, u # t PROVE Begins(u)' /\ Ends(u)' /\ Replays(u)'
      <3>1. ASSUME NEW i \in Issues, Looping(u), Names(envelope[u], i)
            PROVE  /\ issues'[i] = issues[i] /\ items'[i] = items[i]
                   /\ Visible(u, i)' = Visible(u, i)
        <4>1. issueLock[i] # t
          <5>1. SUFFICES ASSUME issueLock[i] = t PROVE FALSE
            OBVIOUS
          <5>2. Looping(t) /\ Names(envelope[t], i)
            BY <1>t, <5>1 DEF QueueInv, IssuesHeld
          <5>3. QED
            BY <1>t, <2>5, <3>1, <5>2, AloneOnIssue
        <4>2. QED
          BY <2>1, <2>2, <4>1 DEF Visible
      <3>2. QED
        BY <1>t, <2>1, <2>5, <3>1, ReplayKept
    <2>6. QED
      BY <2>3, <2>5 DEF ReplayInv
  <1>5. ASSUME NEW t \in Ingests, Publish(t) \/ Die(t) PROVE ReplayInv'
    <2>1. /\ UNCHANGED <<tables, issueLock, envelope, next, inserted, events>>
          /\ pc'[t] \in {"accepted", "lost"}
          /\ \A u \in Ingests : u # t => pc'[u] = pc[u]
      BY <1>5, <1>t DEF Publish, Die, Goto, locks, TypeOK
    <2>2. Begins(t)' /\ Ends(t)' /\ Replays(t)'
      BY <2>1 DEF Begins, Ends, Replays, Looping
    <2>3. ASSUME NEW u \in Ingests, u # t PROVE Begins(u)' /\ Ends(u)' /\ Replays(u)'
      BY <1>t, <2>1, <2>3, ReplayKept DEF tables, Visible
    <2>4. QED
      BY <2>2, <2>3 DEF ReplayInv
  <1>6. ~UserEdit
    <2>1. ASSUME NEW i \in Issues, NEW row \in IssueRow, Edit(i, row) PROVE FALSE
      BY <1>t, <2>1 DEF Edit, TypeOK
    <2>2. QED
      BY <1>t, <2>1, EditType
  <1>7. CASE UNCHANGED vars
    BY <1>7 DEF vars, tables, locks, progress, ReplayInv, Begins, Ends, Replays,
                Looping, Now, Visible, Errors
  <1>8. QED
    BY <1>1, <1>2, <1>3, <1>4, <1>5, <1>6, <1>7
       DEF Next, Step, Fail, DeadlockVictim, Finished

-----------------------------------------------------------------------------
(* The refinement mapping, step by step.                                   *)


(* A statement before the commit is no step of the tracker.                *)
LEMMA StatementsStutter ==
    ASSUME TypeOK, NEW t \in Ingests,
           UpsertSession(t) \/ UpsertRelease(t) \/ SelectIssue(t) \/ UpsertIssue(t)
    PROVE  UNCHANGED Tracker!vars
  <1>1. /\ pc[t] \in {"session", "release", "select", "upsert"}
        /\ pc'[t] \in {"release", "select", "upsert", "commit"}
        /\ \A u \in Ingests : u # t => pc'[u] = pc[u] /\ events'[u] = events[u]
        /\ UNCHANGED <<issues, items, errorCount, envelope, published>>
    BY DEF UpsertSession, UpsertRelease, SelectIssue, UpsertIssue, Goto, LoopAt,
           tables, TypeOK
  <1>2. \A u \in Ingests : /\ Running(u)' <=> Running(u)
                           /\ pc'[u] = "publish" <=> pc[u] = "publish"
                           /\ pc[u] = "publish" => events'[u] = events[u]
    BY <1>1 DEF Running
  <1>3. QED
    BY <1>1, <1>2 DEF Tracker!vars

LEMMA CommitLands ==
    ASSUME TypeOK, ReplayInv, NEW t \in Ingests, Commit(t)
    PROVE  Tracker!Land(t)
  <1> DEFINE n   == Len(envelope[t].errors)
             end == Tracker!Replay(t, n)
  <1>1. /\ pc[t] = "commit"
        /\ pc' = [pc EXCEPT ![t] = IF events[t] = {} THEN "accepted" ELSE "publish"]
        /\ issues' = [i \in Issues |-> Visible(t, i)]
        /\ items' = [i \in Issues |-> items[i] + inserted[t][i]]
        /\ errorCount' = [errorCount EXCEPT ![envelope[t].session] =
                             errorCount[envelope[t].session] + Len(envelope[t].errors)]
        /\ UNCHANGED <<envelope, events, published>>
    BY DEF Commit, Goto, Billed, Errors
  <1>2. end = Now(t)
    <2>1. /\ next[t] = n + 1
          /\ Now(t) = ReplayOf(t, envelope[t], issues, items)[next[t] - 1]
      BY <1>1 DEF ReplayInv, Ends, Replays, Looping, Errors
    <2>2. n \in Nat
      BY EnvelopeType DEF Errors
    <2>3. next[t] - 1 = n
      BY <2>1, <2>2
    <2>4. QED
      BY <2>1, <2>3, SameReplay
  <1>3. /\ end.issues = issues' /\ end.items = items' /\ end.events = events[t]
    BY <1>1, <1>2 DEF Now
  <1> HIDE DEF end
  <1>4. [u \in Ingests |-> IF Running(u)' THEN "pending"
                           ELSE IF pc'[u] = "publish" THEN "owing" ELSE "answered"]
        = [[u \in Ingests |-> IF Running(u) THEN "pending"
                              ELSE IF pc[u] = "publish" THEN "owing" ELSE "answered"]
           EXCEPT ![t] = IF end.events = {} THEN "answered" ELSE "owing"]
    BY <1>1, <1>3 DEF Running, TypeOK
  <1>5. [u \in Ingests |-> IF pc'[u] = "publish" THEN events'[u] ELSE {}]
        = [[u \in Ingests |-> IF pc[u] = "publish" THEN events[u] ELSE {}]
           EXCEPT ![t] = end.events]
    BY <1>1, <1>3 DEF TypeOK
  <1>6. Running(t)
    BY <1>1 DEF Running
  <1>7. QED
    BY <1>1, <1>3, <1>4, <1>5, <1>6 DEF Tracker!Land, end

LEMMA RollBackRefuses ==
    ASSUME TypeOK, NEW t \in Ingests, RollBack(t)
    PROVE  Tracker!Refuse(t)
  <1>1. /\ Running(t)
        /\ pc' = [pc EXCEPT ![t] = "failed"]
        /\ UNCHANGED <<issues, items, errorCount, envelope, events, published>>
    BY DEF RollBack, Goto
  <1>2. [u \in Ingests |-> IF Running(u)' THEN "pending"
                           ELSE IF pc'[u] = "publish" THEN "owing" ELSE "answered"]
        = [[u \in Ingests |-> IF Running(u) THEN "pending"
                              ELSE IF pc[u] = "publish" THEN "owing" ELSE "answered"]
           EXCEPT ![t] = "answered"]
    BY <1>1 DEF Running, TypeOK
  <1>3. [u \in Ingests |-> IF pc'[u] = "publish" THEN events'[u] ELSE {}]
        = [u \in Ingests |-> IF pc[u] = "publish" THEN events[u] ELSE {}]
    BY <1>1 DEF Running, TypeOK
  <1>4. QED
    BY <1>1, <1>2, <1>3 DEF Tracker!Refuse

LEMMA PublishSettles ==
    ASSUME TypeOK, NEW t \in Ingests, Publish(t) \/ Die(t)
    PROVE  Tracker!Announce(t) \/ Tracker!Lose(t)
  <1>1. /\ pc[t] = "publish"
        /\ \/ published' = published \cup events[t] /\ pc' = [pc EXCEPT ![t] = "accepted"]
           \/ published' = published /\ pc' = [pc EXCEPT ![t] = "lost"]
        /\ UNCHANGED <<issues, items, errorCount, envelope, events>>
    BY DEF Publish, Die, Goto, tables
  <1>2. [u \in Ingests |-> IF Running(u)' THEN "pending"
                           ELSE IF pc'[u] = "publish" THEN "owing" ELSE "answered"]
        = [[u \in Ingests |-> IF Running(u) THEN "pending"
                              ELSE IF pc[u] = "publish" THEN "owing" ELSE "answered"]
           EXCEPT ![t] = "answered"]
    BY <1>1 DEF Running, TypeOK
  <1>3. [u \in Ingests |-> IF pc'[u] = "publish" THEN events'[u] ELSE {}]
        = [[u \in Ingests |-> IF pc[u] = "publish" THEN events[u] ELSE {}]
           EXCEPT ![t] = {}]
    BY <1>1 DEF TypeOK
  <1>4. ~Running(t)
    BY <1>1 DEF Running
  <1>5. CASE published' = published \cup events[t]
    BY <1>1, <1>2, <1>3, <1>4, <1>5 DEF Tracker!Announce, Tracker!Settle
  <1>6. CASE published' = published
    BY <1>1, <1>2, <1>3, <1>4, <1>6 DEF Tracker!Lose, Tracker!Settle
  <1>7. QED
    BY <1>1, <1>5, <1>6

LEMMA StepsImplement ==
    ASSUME MaxEdits = 0
    PROVE  TypeOK /\ ReplayInv /\ [Next]_vars => [Tracker!Next]_(Tracker!vars)
  <1> SUFFICES ASSUME TypeOK, ReplayInv, [Next]_vars
               PROVE  [Tracker!Next]_(Tracker!vars)
    OBVIOUS
  <1>1. ASSUME NEW t \in Ingests, Step(t) \/ RollBack(t) \/ Die(t)
        PROVE  Tracker!Next \/ UNCHANGED Tracker!vars
    BY <1>1, StatementsStutter, CommitLands, RollBackRefuses, PublishSettles
       DEF Step, Tracker!Next
  <1>2. ~UserEdit
    <2>1. ASSUME NEW i \in Issues, NEW row \in IssueRow, Edit(i, row) PROVE FALSE
      BY <2>1 DEF Edit, TypeOK
    <2>2. QED
      BY <2>1, EditType
  <1>3. CASE UNCHANGED vars
    BY <1>3 DEF vars, tables, progress, Running, Tracker!vars
  <1>4. QED
    BY <1>1, <1>2, <1>3 DEF Next, Fail, DeadlockVictim, Finished

LEMMA InitImplements == Init => Tracker!Init
  <1> SUFFICES ASSUME Init PROVE Tracker!Init
    OBVIOUS
  <1>1. [t \in Ingests |-> IF Running(t) THEN "pending"
                           ELSE IF pc[t] = "publish" THEN "owing" ELSE "answered"]
        = [t \in Ingests |-> "pending"]
    BY DEF Init, Running
  <1>2. [t \in Ingests |-> IF pc[t] = "publish" THEN events[t] ELSE {}]
        = [t \in Ingests |-> {}]
    BY DEF Init
  <1>3. QED
    BY <1>1, <1>2 DEF Init, Tracker!Init

(* The statements of any number of concurrent envelopes that queue for     *)
(* their release add up to envelopes judged and stored one after another,  *)
(* the failed ones not at all: every commit is one Land of the tracker.    *)
THEOREM IngestImplementsTracker ==
    ASSUME OneReleasePerIssue, MaxEdits = 0
    PROVE  Spec => ImplementsTracker
  <1>1. Init => ReplayInv
    BY EnvelopeType, InitType DEF Init, ReplayInv, Begins, Ends, Replays, Looping
  <1>2. OneReleaseInv /\ ReplayInv /\ OneReleaseInv' /\ [Next]_vars => ReplayInv'
    BY NextReplay
  <1>3. OneReleaseInv /\ ReplayInv /\ [Next]_vars => [Tracker!Next]_(Tracker!vars)
    BY StepsImplement DEF OneReleaseInv
  <1>4. Spec => []OneReleaseInv
    BY OneReleaseInvariant
  <1>5. Init => Tracker!Init
    BY InitImplements
  <1>6. QED
    BY <1>1, <1>2, <1>3, <1>4, <1>5, PTL DEF Spec, ImplementsTracker, Tracker!Spec

-----------------------------------------------------------------------------
(* Sums over a finite table: Total chooses the order in which it adds, and *)
(* the order does not matter.                                              *)

Removable(D, Good) == \A S \in SUBSET D : (\A x \in S : S \ {x} \in Good) => S \in Good

(* What holds of a set when it holds of the set less any element of it     *)
(* holds of every part of a finite set.                                    *)
LEMMA ByRemoval ==
    ASSUME NEW D, IsFiniteSet(D), NEW Good, Removable(D, Good)
    PROVE  SUBSET D \subseteq Good
<1> DEFINE Sizes == {Cardinality(S) : S \in (SUBSET D) \ Good}
<1> SUFFICES ASSUME (SUBSET D) \ Good # {} PROVE FALSE
  OBVIOUS
<1>1. \A S \in SUBSET D : IsFiniteSet(S) /\ Cardinality(S) \in Nat
  BY FS_Subset, FS_CardinalityType
<1>2. PICK n \in Sizes : \A m \in Sizes : n <= m
  <2>1. Sizes \subseteq Nat /\ Sizes # {}
    BY <1>1
  <2> HIDE DEF Sizes
  <2> QED  BY <2>1, LeastExists
<1>3. PICK S \in (SUBSET D) \ Good : n = Cardinality(S)
  BY <1>2
<1>4. ASSUME NEW x \in S PROVE S \ {x} \in Good
  <2>1. Cardinality(S \ {x}) = n - 1 /\ n \in Nat
    BY <1>1, <1>3, FS_RemoveElement
  <2>2. ~(n <= n - 1)
    BY <2>1
  <2>3. Cardinality(S \ {x}) \notin Sizes
    BY <1>2, <2>1, <2>2
  <2>4. S \ {x} \in SUBSET D
    BY <1>3
  <2> QED  BY <2>3, <2>4
<1> QED  BY <1>3, <1>4 DEF Removable

(* The table from which a sum over D is read.                              *)
AnyOf(S) == CHOOSE x \in S : TRUE
IsSumTable(g, D, f) ==
    g = [S \in SUBSET D |-> IF S = {} THEN 0 ELSE f[AnyOf(S)] + g[S \ {AnyOf(S)}]]

LEMMA SumTableExists ==
    ASSUME NEW D, IsFiniteSet(D), NEW f, f \in [D -> Nat]
    PROVE  \E g \in [SUBSET D -> Nat] : IsSumTable(g, D, f)
<1> DEFINE Small(k) == {S \in SUBSET D : Cardinality(S) <= k}
           Rule(g, S) == IF S = {} THEN 0 ELSE f[AnyOf(S)] + g[S \ {AnyOf(S)}]
           Has(k) == \E g \in [Small(k) -> Nat] : \A S \in Small(k) : g[S] = Rule(g, S)
           Lacking == {k \in Nat : ~Has(k)}
<1>1. \A S \in SUBSET D : IsFiniteSet(S) /\ Cardinality(S) \in Nat
  BY FS_Subset, FS_CardinalityType
<1>2. \A S \in SUBSET D : S # {} => AnyOf(S) \in S /\ f[AnyOf(S)] \in Nat
  BY DEF AnyOf
<1>3. \A S \in SUBSET D : S # {} => Cardinality(S \ {AnyOf(S)}) = Cardinality(S) - 1
  BY <1>1, <1>2, FS_RemoveElement
<1>4. Has(0)
  <2>1. \A S \in Small(0) : S = {}
    BY <1>1, FS_EmptySet
  <2>2. [S \in Small(0) |-> 0] \in [Small(0) -> Nat]
    OBVIOUS
  <2> QED  BY <2>1, <2>2
<1>5. ASSUME NEW k \in Nat, Has(k) PROVE Has(k + 1)
  <2>1. PICK g \in [Small(k) -> Nat] : \A S \in Small(k) : g[S] = Rule(g, S)
    BY <1>5
  <2> DEFINE h == [S \in Small(k + 1) |-> Rule(g, S)]
  <2>2. \A S \in Small(k + 1) : S # {} => S \ {AnyOf(S)} \in Small(k)
    BY <1>1, <1>3
  <2>3. \A S \in Small(k + 1) : Rule(g, S) \in Nat
    BY <1>2, <2>2
  <2>4. \A S \in Small(k) : S \in Small(k + 1) /\ h[S] = g[S]
    BY <1>1, <2>1
  <2>5. \A S \in Small(k + 1) : h[S] = Rule(h, S)
    BY <2>2, <2>4
  <2>6. h \in [Small(k + 1) -> Nat]
    BY <2>3
  <2> HIDE DEF h
  <2> QED  BY <2>5, <2>6
<1> HIDE DEF Has
<1>6. Lacking = {}
  <2> SUFFICES ASSUME Lacking # {} PROVE FALSE
    OBVIOUS
  <2>1. PICK m \in Lacking : \A k \in Lacking : m <= k
    BY LeastExists
  <2>2. m \in Nat /\ m # 0 /\ ~Has(m)
    BY <1>4, <2>1
  <2>3. m - 1 \in Nat /\ (m - 1) + 1 = m /\ ~(m <= m - 1)
    BY <2>2
  <2>4. Has(m - 1)
    BY <2>1, <2>3
  <2> QED  BY <1>5, <2>2, <2>3, <2>4
<1>7. Has(Cardinality(D)) /\ Small(Cardinality(D)) = SUBSET D
  BY <1>6, FS_CardinalityType, FS_Subset
<1>8. PICK g : g \in [SUBSET D -> Nat] /\ \A S \in SUBSET D : g[S] = Rule(g, S)
  BY <1>7 DEF Has
<1>9. g = [S \in SUBSET D |-> g[S]]
  BY <1>8
<1> HIDE DEF Small
<1>10. [S \in SUBSET D |-> g[S]] = [S \in SUBSET D |-> Rule(g, S)]
  BY <1>8
<1> QED  BY <1>8, <1>9, <1>10, Zenon DEF IsSumTable

(* The order of the elements does not matter.                              *)
Sums(g, D, f) ==
    /\ g \in [SUBSET D -> Nat]
    /\ g[{}] = 0
    /\ \A S \in SUBSET D : \A x \in S : g[S] = f[x] + g[S \ {x}]

LEMMA TableSums ==
    ASSUME NEW D, IsFiniteSet(D), NEW f, f \in [D -> Nat],
           NEW g, g \in [SUBSET D -> Nat], IsSumTable(g, D, f)
    PROVE  Sums(g, D, f)
<1> DEFINE Holds == {S \in SUBSET D : \A x \in S : g[S] = f[x] + g[S \ {x}]}
<1>1. \A S \in SUBSET D : g[S] = IF S = {} THEN 0 ELSE f[AnyOf(S)] + g[S \ {AnyOf(S)}]
  BY DEF IsSumTable
<1>2. ASSUME NEW S \in SUBSET D, \A x \in S : S \ {x} \in Holds PROVE S \in Holds
  <2> SUFFICES ASSUME NEW x \in S PROVE g[S] = f[x] + g[S \ {x}]
    OBVIOUS
  <2> DEFINE y == AnyOf(S)
  <2>1. y \in S
    BY DEF AnyOf
  <2>2. g[S] = f[y] + g[S \ {y}]
    BY <1>1
  <2> HIDE DEF y
  <2>3. CASE x = y
    BY <2>2, <2>3
  <2>4. CASE x # y
    <3>1. g[S \ {y}] = f[x] + g[(S \ {y}) \ {x}]
      BY <1>2, <2>1, <2>4
    <3>2. g[S \ {x}] = f[y] + g[(S \ {x}) \ {y}]
      BY <1>2, <2>1, <2>4
    <3>3. (S \ {y}) \ {x} = (S \ {x}) \ {y} /\ (S \ {x}) \ {y} \in SUBSET D
      OBVIOUS
    <3>4. f[x] \in Nat /\ f[y] \in Nat /\ g[(S \ {x}) \ {y}] \in Nat
      BY <2>1, <3>3
    <3>5. g[(S \ {y}) \ {x}] = g[(S \ {x}) \ {y}]
      BY <3>3
    <3> HIDE DEF Holds
    <3>6. g[S] = f[y] + (f[x] + g[(S \ {x}) \ {y}])
      BY <2>2, <3>1, <3>5
    <3>7. f[x] + g[S \ {x}] = f[x] + (f[y] + g[(S \ {x}) \ {y}])
      BY <3>2
    <3>8. \A a, b, c \in Nat : a + (b + c) = b + (a + c)
      OBVIOUS
    <3> QED  BY <3>4, <3>6, <3>7, <3>8
  <2> QED  BY <2>3, <2>4
<1>3. SUBSET D \subseteq Holds
  <2>1. Removable(D, Holds)
    BY <1>2, Zenon DEF Removable
  <2> HIDE DEF Holds
  <2> QED  BY <2>1, ByRemoval
<1>4. g[{}] = 0
  BY <1>1
<1> QED  BY <1>3, <1>4 DEF Sums

LEMMA TotalIsSum ==
    ASSUME NEW D, IsFiniteSet(D), NEW f, f \in [D -> Nat]
    PROVE  \E g : Sums(g, D, f) /\ Total(f) = g[D]
<1> DEFINE T == CHOOSE g : IsSumTable(g, D, f)
<1>1. \E g : IsSumTable(g, D, f)
  BY SumTableExists
<1>2. IsSumTable(T, D, f)
  BY <1>1, Zenon
<1>3. DOMAIN f = D
  OBVIOUS
<1>4. Total(f) = T[D]
  BY <1>3, Zenon DEF Total, FoldFunction, FoldFunctionOnSet, MapThenFoldSet, IsSumTable, AnyOf
<1> HIDE DEF T
<1>5. T \in [SUBSET D -> Nat]
  <2> DEFINE Holds == {S \in SUBSET D : T[S] \in Nat}
  <2>1. T = [S \in SUBSET D |-> IF S = {} THEN 0 ELSE f[AnyOf(S)] + T[S \ {AnyOf(S)}]]
    BY <1>2 DEF IsSumTable
  <2>2. ASSUME NEW S \in SUBSET D, \A x \in S : S \ {x} \in Holds PROVE S \in Holds
    <3>1. T[S] = IF S = {} THEN 0 ELSE f[AnyOf(S)] + T[S \ {AnyOf(S)}]
      BY <2>1
    <3>2. S # {} => AnyOf(S) \in S
      BY DEF AnyOf
    <3>3. S # {} => f[AnyOf(S)] \in Nat /\ T[S \ {AnyOf(S)}] \in Nat
      BY <2>2, <3>2
    <3>4. T[S] \in Nat
      BY <3>1, <3>3
    <3> QED  BY <3>4
  <2>3. SUBSET D \subseteq Holds
    <3>1. Removable(D, Holds)
      BY <2>2, Zenon DEF Removable
    <3> HIDE DEF Holds
    <3> QED  BY <3>1, ByRemoval
  <2>4. \A S \in SUBSET D : T[S] \in Nat
    BY <2>3
  <2>5. T = [S \in SUBSET D |-> T[S]]
    BY <2>1
  <2> QED  BY <2>4, <2>5
<1> QED  BY <1>2, <1>4, <1>5, TableSums

AddsUp(D, f, h, sum) ==
    f \in [D -> Nat] /\ h \in [D -> Nat] /\ sum = [x \in D |-> f[x] + h[x]]

LEMMA TotalsAdd ==
    ASSUME NEW D, IsFiniteSet(D), NEW f, NEW h, NEW sum, AddsUp(D, f, h, sum)
    PROVE  /\ Total(f) \in Nat /\ Total(h) \in Nat
           /\ Total(sum) = Total(f) + Total(h)
<1>1. /\ f \in [D -> Nat] /\ h \in [D -> Nat] /\ sum \in [D -> Nat]
      /\ \A x \in D : sum[x] = f[x] + h[x] /\ f[x] \in Nat /\ h[x] \in Nat
  BY DEF AddsUp
<1>2. PICK p : Sums(p, D, f) /\ Total(f) = p[D]
  BY <1>1, TotalIsSum
<1>3. PICK q : Sums(q, D, h) /\ Total(h) = q[D]
  BY <1>1, TotalIsSum
<1>4. PICK r : Sums(r, D, sum) /\ Total(sum) = r[D]
  BY <1>1, TotalIsSum
<1> DEFINE Holds == {S \in SUBSET D : r[S] = p[S] + q[S]}
<1>5. ASSUME NEW S \in SUBSET D, \A x \in S : S \ {x} \in Holds PROVE S \in Holds
  <2>1. CASE S = {}
    BY <1>2, <1>3, <1>4, <2>1 DEF Sums
  <2>2. ASSUME NEW x \in S PROVE r[S] = p[S] + q[S]
    <3>1. r[S \ {x}] = p[S \ {x}] + q[S \ {x}] /\ S \ {x} \in SUBSET D
      BY <1>5
    <3>2. p[S \ {x}] \in Nat /\ q[S \ {x}] \in Nat
      BY <1>2, <1>3, <3>1 DEF Sums
    <3>3. r[S] = sum[x] + r[S \ {x}] /\ p[S] = f[x] + p[S \ {x}] /\ q[S] = h[x] + q[S \ {x}]
      BY <1>2, <1>3, <1>4 DEF Sums
    <3>4. sum[x] = f[x] + h[x] /\ f[x] \in Nat /\ h[x] \in Nat
      BY <1>1
    <3> QED  BY <3>1, <3>2, <3>3, <3>4
  <2> QED  BY <2>1, <2>2
<1>6. D \in Holds
  <2>1. Removable(D, Holds)
    BY <1>5, Zenon DEF Removable
  <2> HIDE DEF Holds
  <2>2. SUBSET D \subseteq Holds
    BY <2>1, ByRemoval
  <2> QED  BY <2>2
<1>7. p[D] \in Nat /\ q[D] \in Nat
  BY <1>2, <1>3 DEF Sums
<1> QED  BY <1>2, <1>3, <1>4, <1>6, <1>7

LEMMA TotalOfNone ==
    ASSUME NEW D, IsFiniteSet(D)
    PROVE  Total([x \in D |-> 0]) = 0
<1> DEFINE z == [x \in D |-> 0]
<1>1. AddsUp(D, z, z, z)
  BY DEF AddsUp
<1> HIDE DEF z
<1>2. Total(z) \in Nat /\ Total(z) = Total(z) + Total(z)
  BY <1>1, TotalsAdd
<1>3. \A n \in Nat : n = n + n => n = 0
  OBVIOUS
<1>4. Total(z) = 0
  BY <1>2, <1>3, Zenon
<1> QED  BY <1>4, Zenon DEF z

LEMMA TotalOfOne ==
    ASSUME NEW D, IsFiniteSet(D), NEW d, d \in D, NEW n, n \in Nat
    PROVE  Total([x \in D |-> IF x = d THEN n ELSE 0]) = n
<1> DEFINE f == [x \in D |-> IF x = d THEN n ELSE 0]
<1>1. f \in [D -> Nat] /\ f[d] = n /\ \A x \in D : x # d => f[x] = 0
  OBVIOUS
<1> HIDE DEF f
<1>2. PICK p : Sums(p, D, f) /\ Total(f) = p[D]
  BY <1>1, TotalIsSum
<1> DEFINE Holds == {S \in SUBSET D : d \notin S => p[S] = 0}
<1>3. ASSUME NEW S \in SUBSET D, \A x \in S : S \ {x} \in Holds PROVE S \in Holds
  <2>1. CASE S = {}
    BY <1>2, <2>1 DEF Sums
  <2>2. ASSUME NEW x \in S, d \notin S PROVE p[S] = 0
    <3>1. p[S \ {x}] = 0 /\ f[x] = 0
      BY <1>1, <1>3, <2>2
    <3>2. p[S] = f[x] + p[S \ {x}]
      BY <1>2 DEF Sums
    <3> QED  BY <3>1, <3>2
  <2> QED  BY <2>1, <2>2
<1>4. D \ {d} \in Holds
  <2>1. Removable(D, Holds)
    BY <1>3, Zenon DEF Removable
  <2> HIDE DEF Holds
  <2>2. SUBSET D \subseteq Holds
    BY <2>1, ByRemoval
  <2> QED  BY <2>2
<1>5. p[D] = f[d] + p[D \ {d}]
  BY <1>2 DEF Sums
<1> QED  BY <1>1, <1>2, <1>4, <1>5 DEF f

Raised(D, f, d, n, sum) ==
    f \in [D -> Nat] /\ d \in D /\ n \in Nat /\ sum = [f EXCEPT ![d] = @ + n]

LEMMA TotalRaised ==
    ASSUME NEW D, IsFiniteSet(D), NEW f, NEW d, NEW n, NEW sum, Raised(D, f, d, n, sum)
    PROVE  Total(f) \in Nat /\ Total(sum) = Total(f) + n
<1> DEFINE one == [x \in D |-> IF x = d THEN n ELSE 0]
<1>1. f \in [D -> Nat] /\ d \in D /\ n \in Nat /\ sum = [f EXCEPT ![d] = @ + n]
  BY DEF Raised
<1>2. sum = [x \in D |-> f[x] + one[x]]
  <2>1. \A x \in D : sum[x] = f[x] + one[x]
    BY <1>1
  <2>2. sum = [x \in D |-> sum[x]]
    BY <1>1
  <2> QED  BY <2>1, <2>2
<1>3. one \in [D -> Nat]
  BY <1>1
<1>4. AddsUp(D, f, one, sum)
  BY <1>1, <1>2, <1>3, Zenon DEF AddsUp
<1>5. Total(one) = n
  BY <1>1, TotalOfOne
<1> HIDE DEF one
<1>6. Total(sum) = Total(f) + Total(one) /\ Total(f) \in Nat
  BY <1>4, TotalsAdd
<1> QED  BY <1>5, <1>6

-----------------------------------------------------------------------------
(* The bills: what an open transaction has inserted is what its loop has   *)
(* gone through, so a commit adds as many errors to the items of all       *)
(* issues as to its session.                                               *)

Billing(t) ==
    /\ pc[t] \in {"session", "release"} => next[t] = 1
    /\ pc[t] = "commit" => next[t] = Len(Errors(t)) + 1
    /\ Running(t) => Total(inserted[t]) + 1 = next[t]

BillInv == SessionsBillEveryError /\ \A t \in Ingests : Billing(t)

FiniteTables == IsFiniteSet(Issues) /\ IsFiniteSet(Sessions)

LEMMA BillingKept ==
    ASSUME NEW t \in Ingests, Billing(t),
           pc'[t] = pc[t], next'[t] = next[t], inserted'[t] = inserted[t], Errors(t)' = Errors(t)
    PROVE  Billing(t)'
  BY DEF Billing, Running

LEMMA StatementBills ==
    ASSUME FiniteTables, TypeOK, BillInv, NEW t \in Ingests,
           UpsertSession(t) \/ UpsertRelease(t) \/ SelectIssue(t) \/ UpsertIssue(t)
    PROVE  BillInv'
<1>1. UNCHANGED <<items, errorCount, envelope>>
  BY DEF UpsertSession, UpsertRelease, SelectIssue, UpsertIssue, tables
<1>2. ASSUME NEW u \in Ingests, u # t PROVE Billing(u)'
  <2>1. pc'[u] = pc[u] /\ next'[u] = next[u] /\ inserted'[u] = inserted[u]
    BY <1>2 DEF UpsertSession, UpsertRelease, SelectIssue, UpsertIssue, Goto, TypeOK
  <2> QED  BY <1>1, <2>1, BillingKept DEF BillInv, Errors
<1>3. Len(Errors(t)) \in Nat /\ next[t] \in Nat \ {0} /\ Errors(t)' = Errors(t)
  BY <1>1, EnvelopeType DEF Errors
<1>4. Billing(t)'
  <2>1. CASE UpsertIssue(t)
    <3>1. Item(t).issue \in Issues /\ next[t] <= Len(Errors(t)) /\ Total(inserted[t]) + 1 = next[t]
      BY <2>1, EnvelopeType DEF UpsertIssue, ErrorItem, TypeOK, BillInv, Billing, Running
    <3>2. /\ next'[t] = next[t] + 1 /\ pc'[t] = LoopAt(t, next[t] + 1)
          /\ inserted'[t] = [inserted[t] EXCEPT ![Item(t).issue] = @ + 1]
      BY <2>1 DEF UpsertIssue, Goto, TypeOK
    <3>3. inserted[t] \in [Issues -> Nat]
      BY DEF TypeOK
    <3>4. Total(inserted'[t]) = Total(inserted[t]) + 1 /\ Total(inserted[t]) \in Nat
      <4>1. IsFiniteSet(Issues) /\ 1 \in Nat
        BY DEF FiniteTables
      <4> DEFINE d == Item(t).issue
                 old == inserted[t]
                 new == inserted'[t]
      <4>2. Raised(Issues, old, d, 1, new)
        BY <3>1, <3>2, <3>3 DEF Raised
      <4> HIDE DEF d, old, new
      <4>3. Total(new) = Total(old) + 1 /\ Total(old) \in Nat
        BY <4>1, <4>2, TotalRaised
      <4> QED  BY <4>3 DEF old, new
    <3>5. next'[t] = Total(inserted'[t]) + 1
      BY <1>3, <3>1, <3>2, <3>4
    <3>6. pc'[t] \in {"select", "commit"} /\ (pc'[t] = "commit" => next'[t] = Len(Errors(t)) + 1)
      BY <1>3, <3>1, <3>2 DEF LoopAt
    <3> QED  BY <1>3, <3>5, <3>6 DEF Billing
  <2>2. CASE ~UpsertIssue(t)
    <3>1. next'[t] = next[t] /\ inserted'[t] = inserted[t] /\ Running(t)
      BY <2>2 DEF UpsertSession, UpsertRelease, SelectIssue, Running
    <3>2. \/ pc'[t] \in {"release", "upsert"} /\ (pc'[t] = "release" => pc[t] = "session")
          \/ pc[t] \in {"session", "release"} /\ pc'[t] = LoopAt(t, next[t])
      BY <2>2 DEF UpsertSession, UpsertRelease, SelectIssue, Goto, TypeOK
    <3>3. pc'[t] = "commit" => next[t] = 1 /\ 1 > Len(Errors(t))
      BY <1>3, <3>2 DEF LoopAt, BillInv, Billing
    <3>4. pc'[t] \in {"session", "release"} => next[t] = 1
      BY <3>2 DEF LoopAt, BillInv, Billing
    <3>5. pc'[t] = "commit" => next'[t] = Len(Errors(t)) + 1
      BY <1>3, <3>1, <3>3
    <3> QED  BY <1>3, <3>1, <3>4, <3>5 DEF Billing, BillInv
  <2> QED  BY <2>1, <2>2
<1> QED  BY <1>1, <1>2, <1>4 DEF BillInv, SessionsBillEveryError

LEMMA CommitBills ==
    ASSUME FiniteTables, TypeOK, BillInv, NEW t \in Ingests, Commit(t)
    PROVE  BillInv'
<1>1. envelope[t].session \in Sessions /\ Len(Errors(t)) \in Nat /\ inserted[t] \in [Issues -> Nat]
      /\ items \in [Issues -> Nat] /\ errorCount \in [Sessions -> Nat]
  BY EnvelopeType DEF TypeOK
<1>2. /\ Total(items') = Total(items) + Total(inserted[t])
      /\ Total(inserted[t]) \in Nat /\ Total(items) \in Nat
  <2>1. items' = [i \in Issues |-> items[i] + inserted[t][i]] /\ IsFiniteSet(Issues)
    BY DEF Commit, FiniteTables
  <2> DEFINE mine == inserted[t]
             new  == items'
  <2> HIDE DEF mine, new
  <2>2. AddsUp(Issues, items, mine, new)
    BY <1>1, <2>1, Zenon DEF mine, new, AddsUp
  <2>3. Total(new) = Total(items) + Total(mine) /\ Total(mine) \in Nat /\ Total(items) \in Nat
    BY <2>1, <2>2, TotalsAdd
  <2> QED  BY <2>3 DEF mine, new
<1>3. Total(errorCount') = Total(errorCount) + Len(Errors(t))
  <2>1. /\ errorCount' = [errorCount EXCEPT ![envelope[t].session] = @ + Len(Errors(t))]
        /\ IsFiniteSet(Sessions)
    BY DEF Commit, Billed, FiniteTables
  <2> DEFINE mine == envelope[t].session
             bill == Len(Errors(t))
             new  == errorCount'
  <2> HIDE DEF mine, bill, new
  <2>2. Raised(Sessions, errorCount, mine, bill, new)
    BY <1>1, <2>1, Zenon DEF mine, bill, new, Raised
  <2>3. Total(new) = Total(errorCount) + bill
    BY <2>1, <2>2, TotalRaised
  <2> QED  BY <2>3 DEF bill, new
<1>4. Total(inserted[t]) = Len(Errors(t))
  <2>1. Total(inserted[t]) + 1 = Len(Errors(t)) + 1
    BY DEF Commit, BillInv, Billing, Running
  <2> QED  BY <1>1, <1>2, <2>1
<1>5. SessionsBillEveryError'
  BY <1>2, <1>3, <1>4 DEF BillInv, SessionsBillEveryError
<1>6. ASSUME NEW u \in Ingests PROVE Billing(u)'
  <2>1. CASE u = t
    BY <2>1 DEF Commit, Goto, TypeOK, Billing, Running
  <2>2. CASE u # t
    <3>1. pc'[u] = pc[u] /\ next'[u] = next[u] /\ inserted'[u] = inserted[u] /\ Errors(u)' = Errors(u)
      BY <2>2 DEF Commit, Goto, TypeOK, Errors
    <3> QED  BY <3>1, BillingKept DEF BillInv
  <2> QED  BY <2>1, <2>2
<1> QED  BY <1>5, <1>6 DEF BillInv

LEMMA NextBills == FiniteTables /\ TypeOK /\ BillInv /\ [Next]_vars => BillInv'
<1> SUFFICES ASSUME FiniteTables, TypeOK, BillInv, [Next]_vars PROVE BillInv'
  OBVIOUS
<1>1. ASSUME UNCHANGED <<items, errorCount, next, envelope>>,
             \A u \in Ingests : (pc'[u] = pc[u] /\ inserted'[u] = inserted[u]) \/ ~Running(u)'
      PROVE  BillInv'
  <2>1. SessionsBillEveryError'
    BY <1>1 DEF BillInv, SessionsBillEveryError
  <2>2. ASSUME NEW u \in Ingests PROVE Billing(u)'
    <3>1. CASE ~Running(u)'
      BY <3>1 DEF Billing, Running
    <3>2. CASE pc'[u] = pc[u] /\ inserted'[u] = inserted[u]
      BY <1>1, <3>2, BillingKept DEF BillInv, Errors
    <3> QED  BY <1>1, <3>1, <3>2
  <2> QED  BY <2>1, <2>2 DEF BillInv
<1>2. ASSUME NEW t \in Ingests, Publish(t) \/ Die(t) \/ RollBack(t) PROVE BillInv'
  <2>1. UNCHANGED <<items, errorCount, next, envelope>>
    BY <1>2 DEF Publish, Die, RollBack, tables
  <2>2. ASSUME NEW u \in Ingests PROVE (pc'[u] = pc[u] /\ inserted'[u] = inserted[u]) \/ ~Running(u)'
    BY <1>2 DEF Publish, Die, RollBack, Goto, TypeOK, Running
  <2> QED  BY <1>1, <2>1, <2>2
<1>3. CASE UserEdit
  <2>1. UNCHANGED <<items, errorCount, progress>>
    BY <1>3 DEF UserEdit, SetIssueStatus, SnoozeIssue, ResolveIssue, Edit
  <2> QED  BY <1>1, <2>1 DEF progress
<1>4. CASE UNCHANGED vars
  BY <1>1, <1>4 DEF vars, tables, progress
<1> QED
  BY <1>2, <1>3, <1>4, StatementBills, CommitBills DEF Next, Step, Fail, DeadlockVictim, Finished

(* Every stored error is on the bill of one session and on one issue:      *)
(* whatever was rolled back, and in whatever order envelopes committed.    *)
THEOREM EveryErrorIsBilled ==
    ASSUME FiniteTables
    PROVE  Spec => []SessionsBillEveryError
<1>1. Init => BillInv
  <2> SUFFICES ASSUME Init PROVE BillInv
    OBVIOUS
  <2>1. Total(NoItems) = 0
    BY TotalOfNone DEF FiniteTables, NoItems
  <2> QED  BY <2>1 DEF Init, BillInv, Billing, SessionsBillEveryError
<1>2. TypeOK /\ BillInv /\ [Next]_vars => BillInv'
  BY NextBills
<1>3. BillInv => SessionsBillEveryError
  BY DEF BillInv
<1> QED  BY <1>1, <1>2, <1>3, TypeCorrect, PTL DEF Spec
=============================================================================
