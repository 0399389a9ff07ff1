----------------------------- MODULE IssueMerge -----------------------------
(***************************************************************************)
(* store.MergeIssue beside store.Ingest: a transaction that reads two      *)
(* issues without locking them, checks what it read, and then writes both  *)
(* rows and moves the items.  It shares the tables and the issues' locks   *)
(* of IssueIngest.                                                         *)
(***************************************************************************)
EXTENDS IssueIngest

LOCAL INSTANCE Functions

CONSTANTS
    ProjectOf,      \* the project of each issue
    MergesOverlap   \* whether a merge may start while another runs

ASSUME MergeAssumption ==
    /\ ProjectOf \in [Issues -> Projects]
    /\ Ingests \cap Merges = {}
    /\ MergesOverlap \in BOOLEAN

VARIABLES
    mpc,         \* the next statement of each call of MergeIssue
    pair,        \* its arguments: [source, target]
    readSource   \* the source row it read

mergeVars == <<mpc, pair, readSource>>
allVars   == <<vars, mergeVars>>

Pairs == {q \in Issues \X Issues : q[1] # q[2]}
Source(m) == pair[m][1]
Target(m) == pair[m][2]

MergeInit ==
    /\ Init
    /\ mpc = [m \in Merges |-> "idle"]
    /\ pair \in [Merges -> Pairs]
    /\ readSource = [m \in Merges |-> NoRow]

Merging(m)   == mpc[m] \in {"readTarget", "updateSource", "updateTarget", "moveItems"}
MGoto(m, label) == mpc' = [mpc EXCEPT ![m] = label]

(* The arguments come from the request; a source without a row is refused. *)
ReadSource(m) ==
    /\ mpc[m] = "idle"
    /\ MergesOverlap \/ \A n \in Merges : ~Merging(n)
    /\ readSource' = [readSource EXCEPT ![m] = issues[Source(m)]]
    /\ MGoto(m, IF Exists(issues[Source(m)]) THEN "readTarget" ELSE "refused")
    /\ UNCHANGED <<vars, pair>>

(* Variants of MergeAllowed: without the check of either row.              *)
MergeIntoAny(m, source, target) ==
    /\ Exists(target)
    /\ ProjectOf[Source(m)] = ProjectOf[Target(m)]
    /\ source.mergedInto = NoIssue

MergeFromAny(m, source, target) ==
    /\ Exists(target)
    /\ ProjectOf[Source(m)] = ProjectOf[Target(m)]
    /\ target.mergedInto = NoIssue

MergeAllowed(m, source, target) ==
    /\ Exists(target)
    /\ ProjectOf[Source(m)] = ProjectOf[Target(m)]
    /\ source.mergedInto = NoIssue
    /\ target.mergedInto = NoIssue

(* The last the checks see of either row.                                  *)
ReadTarget(m) ==
    /\ mpc[m] = "readTarget"
    /\ MGoto(m, IF MergeAllowed(m, readSource[m], issues[Target(m)])
                THEN "updateSource" ELSE "refused")
    /\ UNCHANGED <<vars, pair, readSource>>

WriteRow(m, i, row) ==
    /\ issueLock[i] = NoTx
    /\ issueLock' = [issueLock EXCEPT ![i] = m]
    /\ heap' = [heap EXCEPT ![i] = row]
    /\ UNCHANGED <<issues, items, errorCount, sessionLock, releaseLock,
                   progress, published, edits>>

(* Variant: the source starts counting again.                              *)
EmptySource(m) ==
    /\ mpc[m] = "updateSource"
    /\ WriteRow(m, Source(m), [heap[Source(m)] EXCEPT !.mergedInto = Target(m),
                                                      !.status = "ignored",
                                                      !.count = 0])
    /\ MGoto(m, "updateTarget")
    /\ UNCHANGED <<pair, readSource>>

UpdateSource(m) ==
    /\ mpc[m] = "updateSource"
    /\ WriteRow(m, Source(m), [heap[Source(m)] EXCEPT !.mergedInto = Target(m),
                                                      !.status = "ignored"])
    /\ MGoto(m, "updateTarget")
    /\ UNCHANGED <<pair, readSource>>

(* count + the source's count as it was read.                              *)
UpdateTarget(m) ==
    /\ mpc[m] = "updateTarget"
    /\ WriteRow(m, Target(m), [heap[Target(m)] EXCEPT !.count = @ + readSource[m].count])
    /\ MGoto(m, "moveItems")
    /\ UNCHANGED <<pair, readSource>>

(* Variant: the source's items do not arrive.                              *)
DroppedItems(m) == [items EXCEPT ![Source(m)] = 0]

(* UPDATE items: the committed ones.                                       *)
MovedItems(m) ==
    [items EXCEPT ![Target(m)] = @ + items[Source(m)], ![Source(m)] = 0]

(* UPDATE items .. and the commit.                                         *)
MoveItems(m) ==
    /\ mpc[m] = "moveItems"
    /\ items' = MovedItems(m)
    /\ issues' = [i \in Issues |-> Visible(m, i)]
    /\ issueLock' = Unlocked(issueLock, m)
    /\ MGoto(m, "merged")
    /\ UNCHANGED <<errorCount, heap, sessionLock, releaseLock, progress,
                   published, edits, pair, readSource>>

(* Variant: rolled back and tried again.                                   *)
MergeRetry(m) ==
    /\ Merging(m)
    /\ heap' = [i \in Issues |-> IF issueLock[i] = m THEN issues[i] ELSE heap[i]]
    /\ issueLock' = Unlocked(issueLock, m)
    /\ MGoto(m, "idle")
    /\ UNCHANGED <<issues, items, errorCount, sessionLock, releaseLock,
                   progress, published, edits, pair, readSource>>

MergeRollBack(m) ==
    /\ Merging(m)
    /\ heap' = [i \in Issues |-> IF issueLock[i] = m THEN issues[i] ELSE heap[i]]
    /\ issueLock' = Unlocked(issueLock, m)
    /\ MGoto(m, "refused")
    /\ UNCHANGED <<issues, items, errorCount, sessionLock, releaseLock,
                   progress, published, edits, pair, readSource>>

MergeFail(m) == StatementsMayFail /\ MergeRollBack(m)

MergeAwaited(m) ==
    CASE mpc[m] = "updateSource" -> {issueLock[Source(m)]}
      [] mpc[m] = "updateTarget" -> {issueLock[Target(m)]}
      [] OTHER -> {}

AllAwaited ==
    [x \in Transactions |-> IF x \in Ingests THEN Awaited(x) ELSE MergeAwaited(x)]

MergeStep(m) == \/ ReadSource(m) \/ ReadTarget(m)
                \/ UpdateSource(m) \/ UpdateTarget(m) \/ MoveItems(m)

(* A deadlock among envelopes and merges fails one of either.              *)
Victim(x) ==
    /\ InCycle(x, AllAwaited)
    /\ \/ x \in Merges  /\ MergeRollBack(x)
       \/ x \in Ingests /\ RollBack(x) /\ UNCHANGED mergeVars

AllFinished ==
    /\ \A m \in Merges : mpc[m] \in {"refused", "merged"}
    /\ Finished
    /\ UNCHANGED mergeVars

MergeNext ==
    \/ \E m \in Merges : MergeStep(m) \/ MergeFail(m)
    \/ \E t \in Ingests : (Step(t) \/ Fail(t) \/ Die(t)) /\ UNCHANGED mergeVars
    \/ \E x \in Transactions : Victim(x)
    \/ UserEdit /\ UNCHANGED mergeVars
    \/ AllFinished

MergeSpec == MergeInit /\ [][MergeNext]_allVars

FairMergeSpec ==
    /\ MergeSpec
    /\ \A m \in Merges : WF_allVars(MergeStep(m))
    /\ \A t \in Ingests : WF_allVars(Step(t) /\ UNCHANGED mergeVars)
    /\ \A x \in Transactions : WF_allVars(Victim(x))
=============================================================================
