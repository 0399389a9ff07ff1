-------------------------- MODULE IssueMergeProofs --------------------------
(***************************************************************************)
(* Theorems about IssueMerge while merges follow one another, beside any   *)
(* number of envelopes and edits.                                          *)
(***************************************************************************)
EXTENDS IssueMergeProps, IssueIngestProofs

(* The tables the calls find hold no group merged away into itself.        *)
InitialMergesEnd ==
    \A table \in InitialIssues : \A S \in (SUBSET Issues) \ {{}} :
        \E i \in S : table[i].mergedInto \notin S

(* What the envelopes and the dashboard do in a step.                      *)
Other == UserEdit \/ \E t \in Ingests : Step(t) \/ RollBack(t) \/ Die(t)

MLabels == {"idle", "readTarget", "updateSource", "updateTarget",
            "moveItems", "merged", "refused"}

LEMMA MergeCases ==
    ASSUME MergeNext
    PROVE  \/ Other /\ UNCHANGED mergeVars
           \/ \E m \in Merges : MergeStep(m) \/ MergeRollBack(m)
           \/ UNCHANGED allVars
  BY DEF MergeNext, Other, MergeFail, Fail, Victim, AllFinished, Finished, allVars

-----------------------------------------------------------------------------
(* Types.                                                                  *)

LEMMA MergeInitType == MergeInit => MergeTypeOK
  BY InitType, NoRowType DEF MergeInit, MergeTypeOK

LEMMA OtherType == TypeOK /\ Other => TypeOK'
  <1>1. TypeOK /\ UserEdit => TypeOK'
    BY NextType DEF Next
  <1>2. ASSUME TypeOK, NEW t \in Ingests, Die(t) PROVE TypeOK'
    BY <1>2, NextType DEF Next
  <1>3. QED
    BY <1>1, <1>2, StepType, RollBackType DEF Other

(* The pair of a merge is two issues.                                      *)
LEMMA PairType ==
    ASSUME MergeTypeOK, NEW m \in Merges
    PROVE  /\ Source(m) \in Issues /\ Target(m) \in Issues /\ Source(m) # Target(m)
           /\ m # NoTx /\ m \notin Ingests
  BY IngestAssumption, MergeAssumption DEF MergeTypeOK, Pairs, Source, Target

(* One row, locked and written by a merge.                                 *)
LEMMA WriteRowType ==
    ASSUME TypeOK, NEW m \in Merges, NEW i \in Issues, NEW row \in IssueRow,
           WriteRow(m, i, row)
    PROVE  TypeOK'
  <1>1. heap' \in [Issues -> IssueRow]
    BY DEF WriteRow, TypeOK
  <1>2. issueLock' \in [Issues -> Transactions \cup {NoTx}]
    BY DEF WriteRow, TypeOK, Transactions
  <1>3. QED
    BY <1>1, <1>2 DEF WriteRow, progress, TypeOK, Errors

SourceRow(m) == [heap[Source(m)] EXCEPT !.mergedInto = Target(m), !.status = "ignored"]
TargetRow(m) == [heap[Target(m)] EXCEPT !.count = heap[Target(m)].count + readSource[m].count]

LEMMA MergedRowTypes ==
    ASSUME MergeTypeOK, NEW m \in Merges
    PROVE  /\ SourceRow(m) \in IssueRow
           /\ SourceRow(m).mergedInto = Target(m)
           /\ TargetRow(m) \in IssueRow
           /\ TargetRow(m).mergedInto = heap[Target(m)].mergedInto
           /\ TargetRow(m).count = heap[Target(m)].count + readSource[m].count
  <1> DEFINE source == heap[Source(m)]
             target == heap[Target(m)]
             into   == Target(m)
             n      == readSource[m].count
  <1>1. source \in IssueRow /\ target \in IssueRow /\ into \in Issues
    BY PairType DEF MergeTypeOK, TypeOK
  <1>2. n \in Nat
    <2>1. readSource[m] \in IssueRow
      BY DEF MergeTypeOK
    <2>2. QED
      BY <2>1 DEF IssueRow
  <1> HIDE DEF source, target, into, n
  <1>3. /\ [source EXCEPT !.mergedInto = into, !.status = "ignored"] \in IssueRow
        /\ [source EXCEPT !.mergedInto = into, !.status = "ignored"].mergedInto = into
    BY <1>1 DEF IssueRow, Statuses
  <1>4. target.count + n \in Nat
    BY <1>1, <1>2 DEF IssueRow
  <1>5. /\ [target EXCEPT !.count = target.count + n] \in IssueRow
        /\ [target EXCEPT !.count = target.count + n].mergedInto = target.mergedInto
        /\ [target EXCEPT !.count = target.count + n].count = target.count + n
    BY <1>1, <1>4 DEF IssueRow
  <1>6. QED
    BY <1>3, <1>5 DEF SourceRow, TargetRow, source, target, into, n

(* What a merge's statement, or its rollback, keeps.                       *)
LEMMA MergeStepType ==
    ASSUME MergeTypeOK, NEW m \in Merges, MergeStep(m) \/ MergeRollBack(m)
    PROVE  MergeTypeOK'
  <1>0. TypeOK
    BY DEF MergeTypeOK
  <1>3. CASE ReadSource(m)
    <2>1. TypeOK'
      BY <1>0, <1>3, NextType DEF ReadSource
    <2>2. readSource' \in [Merges -> IssueRow]
      BY <1>0, <1>3, PairType DEF ReadSource, MergeTypeOK, TypeOK
    <2>3. QED
      BY <1>3, <2>1, <2>2 DEF ReadSource, MGoto, MergeTypeOK
  <1>4. CASE ReadTarget(m)
    <2>1. TypeOK'
      BY <1>0, <1>4, NextType DEF ReadTarget
    <2>2. QED
      BY <1>4, <2>1 DEF ReadTarget, MGoto, MergeTypeOK
  <1>5. CASE UpdateSource(m)
    <2>1. WriteRow(m, Source(m), SourceRow(m))
      BY <1>5 DEF UpdateSource, SourceRow
    <2>2. TypeOK'
      BY <1>0, <2>1, PairType, MergedRowTypes, WriteRowType
    <2>3. QED
      BY <1>5, <2>2 DEF UpdateSource, MGoto, MergeTypeOK
  <1>6. CASE UpdateTarget(m)
    <2>1. WriteRow(m, Target(m), TargetRow(m))
      BY <1>6 DEF UpdateTarget, TargetRow
    <2>2. TypeOK'
      BY <1>0, <2>1, PairType, MergedRowTypes, WriteRowType
    <2>3. QED
      BY <1>6, <2>2 DEF UpdateTarget, MGoto, MergeTypeOK
  <1>7. CASE MoveItems(m)
    <2>1. issues' \in [Issues -> IssueRow]
      BY <1>0, <1>7 DEF MoveItems, Visible, TypeOK
    <2>2. items' \in [Issues -> Nat]
      <3>1. items[Target(m)] + items[Source(m)] \in Nat
        BY <1>0, PairType DEF TypeOK
      <3>2. QED
        BY <1>0, <1>7, <3>1 DEF MoveItems, MovedItems, TypeOK
    <2>3. issueLock' \in [Issues -> Transactions \cup {NoTx}]
      BY <1>0, <1>7, UnlockedType DEF MoveItems, TypeOK
    <2>4. TypeOK'
      BY <1>0, <1>7, <2>1, <2>2, <2>3 DEF MoveItems, progress, TypeOK, Errors
    <2>5. QED
      BY <1>7, <2>4 DEF MoveItems, MGoto, MergeTypeOK
  <1>8. CASE MergeRollBack(m)
    <2>1. heap' \in [Issues -> IssueRow]
      BY <1>0, <1>8 DEF MergeRollBack, TypeOK
    <2>2. issueLock' \in [Issues -> Transactions \cup {NoTx}]
      BY <1>0, <1>8, UnlockedType DEF MergeRollBack, TypeOK
    <2>3. TypeOK'
      BY <1>0, <1>8, <2>1, <2>2 DEF MergeRollBack, progress, TypeOK, Errors
    <2>4. QED
      BY <1>8, <2>3 DEF MergeRollBack, MGoto, MergeTypeOK
  <1>9. QED
    BY <1>3, <1>4, <1>5, <1>6, <1>7, <1>8 DEF MergeStep

LEMMA MergeNextType == MergeTypeOK /\ [MergeNext]_allVars => MergeTypeOK'
  <1> SUFFICES ASSUME MergeTypeOK, [MergeNext]_allVars PROVE MergeTypeOK'
    OBVIOUS
  <1>0. TypeOK
    BY DEF MergeTypeOK
  <1>1. CASE Other /\ UNCHANGED mergeVars
    BY <1>1, OtherType DEF MergeTypeOK, mergeVars
  <1>2. CASE UNCHANGED allVars
    <2>1. TypeOK'
      BY <1>0, <1>2, NextType DEF allVars
    <2>2. QED
      BY <1>2, <2>1 DEF MergeTypeOK, allVars, mergeVars
  <1>3. QED
    BY <1>1, <1>2, MergeStepType, MergeCases

(* Types hold beside merges too, overlapping or not.                       *)
THEOREM MergeTypeCorrect == MergeSpec => []MergeTypeOK
  BY MergeInitType, MergeNextType, PTL DEF MergeSpec

-----------------------------------------------------------------------------
(* Locks.                                                                  *)

Alone == \A m, n \in Merges : Merging(m) /\ Merging(n) => m = n

(* The rows a merge has written and not committed.                         *)
Holds(m, i) ==
    \/ mpc[m] \in {"updateTarget", "moveItems"} /\ i = Source(m)
    \/ mpc[m] = "moveItems" /\ i = Target(m)

(* Only the row of its source shows a merge before it commits.             *)
MergedRow(i) ==
    /\ issueLock[i] = NoTx => heap[i] = issues[i]
    /\ \A m \in Merges : issueLock[i] = m <=> Holds(m, i)
    /\ heap[i].mergedInto = issues[i].mergedInto
       \/ \E m \in Merges : /\ issueLock[i] = m /\ i = Source(m)
                            /\ heap[i].mergedInto = Target(m)

Shown(i) == issues[i].mergedInto = NoIssue

(* While merges follow one another, what a merge has checked stays true.   *)
Checked(m) ==
    /\ mpc[m] = "readTarget" =>
          readSource[m].mergedInto = issues[Source(m)].mergedInto
    /\ mpc[m] \in {"updateSource", "updateTarget", "moveItems"} =>
          Shown(Source(m)) /\ Shown(Target(m))

MergeInv ==
    /\ MergeTypeOK
    /\ Alone
    /\ \A i \in Issues : MergedRow(i)
    /\ \A m \in Merges : Checked(m)
    /\ MergeAcyclic

(* Beside a merge: its rows are left alone, and no row changes the issue   *)
(* it is merged into.                                                      *)
OtherEffect(i) ==
    /\ issueLock[i] \in Merges =>
          issueLock'[i] = issueLock[i] /\ heap'[i] = heap[i] /\ issues'[i] = issues[i]
    /\ issueLock[i] \notin Merges =>
          issueLock'[i] \notin Merges /\ heap'[i].mergedInto = issues'[i].mergedInto
    /\ issues'[i].mergedInto = issues[i].mergedInto
    /\ issueLock'[i] = NoTx => heap'[i] = issues'[i]

LEMMA OtherEffects ==
    ASSUME MergeTypeOK, \A i \in Issues : MergedRow(i), Other, NEW i \in Issues
    PROVE  OtherEffect(i)
  <1>0. TypeOK
    BY DEF MergeTypeOK
  <1>m. /\ \A m \in Merges : m # NoTx /\ m \notin Ingests
        /\ NoTx \notin Merges /\ NoTx \notin Ingests
    BY IngestAssumption, MergeAssumption
  <1>r. MergedRow(i)
    OBVIOUS
  <1>s. issueLock[i] \notin Merges => heap[i].mergedInto = issues[i].mergedInto
    BY <1>r DEF MergedRow
  <1>1. ASSUME UNCHANGED <<issues, heap, issueLock>> PROVE OtherEffect(i)
    BY <1>1, <1>r, <1>s DEF OtherEffect, MergedRow
  <1>2. ASSUME NEW t \in Ingests, UpsertIssue(t) PROVE OtherEffect(i)
    <2> DEFINE e   == Item(t)
               row == UpsertRow(heap[e.issue], prev[t], e, envelope[t].release)
    <2>1. e \in ErrorItem /\ e.issue \in Issues
      BY <1>0, <1>2, EnvelopeType DEF UpsertIssue, ErrorItem
    <2>2. /\ issueLock[e.issue] \in {NoTx, t}
          /\ heap' = [heap EXCEPT ![e.issue] = row]
          /\ issueLock' = [issueLock EXCEPT ![e.issue] = t]
          /\ issues' = issues
      BY <1>2 DEF UpsertIssue
    <2>3. row.mergedInto = heap[e.issue].mergedInto
      <3> DEFINE found == heap[e.issue]
                 old   == prev[t]
                 release == envelope[t].release
      <3>1. found \in IssueRow /\ old \in IssueRow /\ release \in Nat
        BY <1>0, <2>1, EnvelopeType DEF TypeOK
      <3> HIDE DEF found, old, release, e
      <3>2. UpsertRow(found, old, e, release).mergedInto = found.mergedInto
        BY <2>1, <3>1, UpsertRowType
      <3>3. QED
        BY <3>2 DEF found, old, release
    <2> HIDE DEF e, row
    <2>4. CASE i = e.issue
      <3>1. issueLock[i] \notin Merges /\ issueLock'[i] = t /\ heap'[i] = row
        BY <1>0, <1>m, <2>2, <2>4 DEF TypeOK
      <3>2. QED
        BY <1>m, <1>s, <2>2, <2>3, <2>4, <3>1 DEF OtherEffect
    <2>5. CASE i # e.issue
      <3>1. UNCHANGED <<issueLock[i], heap[i], issues[i]>>
        BY <1>0, <2>2, <2>5 DEF TypeOK
      <3>2. QED
        BY <3>1, <1>r, <1>s DEF OtherEffect, MergedRow
    <2>6. QED
      BY <2>4, <2>5
  <1>3. ASSUME NEW t \in Ingests, Commit(t) \/ RollBack(t) PROVE OtherEffect(i)
    <2>1. issueLock'[i] = IF issueLock[i] = t THEN NoTx ELSE issueLock[i]
      BY <1>0, <1>3 DEF Commit, RollBack, ReleaseLocks, Unlocked, TypeOK
    <2>2. CASE issueLock[i] = t
      <3>1. heap'[i] = issues'[i]
        BY <1>3, <2>2 DEF Commit, RollBack, Visible
      <3>2. issues'[i] = issues[i] \/ issues'[i] = heap[i]
        BY <1>3, <2>2 DEF Commit, RollBack, Visible
      <3>3. QED
        BY <1>m, <1>s, <2>1, <2>2, <3>1, <3>2 DEF OtherEffect
    <2>3. CASE issueLock[i] # t
      <3>1. UNCHANGED <<heap[i], issues[i]>>
        BY <1>3, <2>3 DEF Commit, RollBack, Visible
      <3>2. QED
        BY <2>1, <2>3, <3>1, <1>r, <1>s DEF OtherEffect, MergedRow
    <2>4. QED
      BY <2>2, <2>3
  <1>4. CASE UserEdit
    <2>1. PICK j \in Issues, row \in IssueRow :
             Edit(j, row) /\ row.mergedInto = issues[j].mergedInto
      BY <1>0, <1>4, EditType
    <2>2. /\ issueLock[j] = NoTx
          /\ issues' = [issues EXCEPT ![j] = row]
          /\ heap' = [heap EXCEPT ![j] = row]
          /\ issueLock' = issueLock
      BY <2>1 DEF Edit, locks
    <2>3. CASE i = j
      <3>1. issues'[i] = row /\ heap'[i] = row
        BY <1>0, <2>2, <2>3 DEF TypeOK
      <3>2. QED
        BY <1>m, <2>1, <2>2, <2>3, <3>1 DEF OtherEffect
    <2>4. CASE i # j
      <3>1. UNCHANGED <<issueLock[i], heap[i], issues[i]>>
        BY <1>0, <2>2, <2>4 DEF TypeOK
      <3>2. QED
        BY <3>1, <1>r, <1>s DEF OtherEffect, MergedRow
    <2>5. QED
      BY <2>3, <2>4
  <1>5. ASSUME NEW t \in Ingests, Quiet(t) PROVE OtherEffect(i)
    BY <1>5, <1>1 DEF Quiet, UpsertSession, UpsertRelease, SelectIssue, Publish, Die,
                      tables, locks
  <1>6. QED
    BY <1>2, <1>3, <1>4, <1>5 DEF Other, Step, Quiet

(* A step that changes no merge and has only such effects keeps it all.    *)
LEMMA OtherMerges ==
    ASSUME MergeInv, Other, UNCHANGED mergeVars
    PROVE  MergeInv'
  <1>0. MergeTypeOK /\ MergeTypeOK'
    BY MergeNextType, OtherType DEF MergeInv, MergeTypeOK, mergeVars
  <1>1. \A i \in Issues : OtherEffect(i)
    BY OtherEffects DEF MergeInv
  <1>2. Alone'
    BY DEF MergeInv, Alone, Merging, mergeVars
  <1>3. ASSUME NEW i \in Issues PROVE MergedRow(i)'
    <2>1. \A m \in Merges : Holds(m, i)' <=> Holds(m, i)
      BY DEF Holds, mergeVars, Source, Target
    <2>2. MergedRow(i) /\ OtherEffect(i)
      BY <1>1 DEF MergeInv
    <2>3. \A m \in Merges : issueLock'[i] = m <=> issueLock[i] = m
      BY <2>2 DEF OtherEffect
    <2>4. \/ heap'[i].mergedInto = issues'[i].mergedInto
          \/ \E m \in Merges : /\ issueLock'[i] = m /\ i = Source(m)
                               /\ heap'[i].mergedInto = Target(m)
      BY <2>2 DEF MergedRow, OtherEffect
    <2>5. QED
      BY <2>1, <2>2, <2>3, <2>4 DEF MergedRow, OtherEffect, mergeVars, Source, Target
  <1>4. ASSUME NEW m \in Merges PROVE Checked(m)'
    <2>1. Source(m) \in Issues /\ Target(m) \in Issues
      BY <1>0, PairType
    <2>2. QED
      BY <1>1, <2>1 DEF MergeInv, Checked, Shown, OtherEffect, mergeVars, Source, Target
  <1>5. MergeAcyclic'
    BY <1>1 DEF MergeInv, MergeAcyclic, OtherEffect
  <1>6. QED
    BY <1>0, <1>2, <1>3, <1>4, <1>5 DEF MergeInv

(* Reading locks nothing.                                                  *)
LEMMA ReadMerges ==
    ASSUME MergesOverlap = FALSE, MergeInv, NEW m \in Merges,
           ReadSource(m) \/ ReadTarget(m)
    PROVE  MergeInv'
  <1>0. MergeTypeOK /\ MergeTypeOK'
    BY MergeStepType DEF MergeInv, MergeStep
  <1>1. /\ UNCHANGED <<issues, heap, issueLock, pair>>
        /\ \A n \in Merges : n # m => mpc'[n] = mpc[n] /\ readSource'[n] = readSource[n]
    BY <1>0 DEF ReadSource, ReadTarget, MGoto, vars, tables, locks, MergeTypeOK
  <1>2. /\ mpc[m] \in {"idle", "readTarget"}
        /\ mpc'[m] \in {"readTarget", "updateSource", "refused"}
    BY <1>0 DEF ReadSource, ReadTarget, MGoto, MergeTypeOK
  <1>3. ASSUME NEW n \in Merges, n # m, Merging(n) PROVE ~Merging(m)'
    <2>1. ~ReadSource(m)
      BY <1>3 DEF ReadSource
    <2>2. mpc[m] = "readTarget"
      BY <2>1 DEF ReadTarget
    <2>3. QED
      BY <1>3, <2>2 DEF MergeInv, Alone, Merging
  <1>4. Alone'
    BY <1>1, <1>3 DEF MergeInv, Alone, Merging
  <1>5. ASSUME NEW i \in Issues PROVE MergedRow(i)'
    <2>1. \A n \in Merges : Holds(n, i)' <=> Holds(n, i)
      BY <1>1, <1>2 DEF Holds, Source, Target
    <2>2. QED
      BY <1>1, <2>1 DEF MergeInv, MergedRow, Source, Target
  <1>6. ASSUME NEW n \in Merges PROVE Checked(n)'
    <2>1. CASE n # m
      BY <1>1, <2>1 DEF MergeInv, Checked, Shown, Source, Target
    <2>2. CASE n = m /\ ReadSource(m)
      <3>1. readSource'[m] = issues[Source(m)] /\ mpc'[m] \in {"readTarget", "refused"}
        BY <1>0, <2>2 DEF ReadSource, MGoto, MergeTypeOK
      <3>2. QED
        BY <1>1, <2>2, <3>1 DEF Checked, Source, Target
    <2>3. CASE n = m /\ ReadTarget(m)
      <3>1. /\ readSource[m].mergedInto = issues[Source(m)].mergedInto
            /\ mpc'[m] = IF MergeAllowed(m, readSource[m], issues[Target(m)])
                         THEN "updateSource" ELSE "refused"
        BY <1>0, <2>3 DEF ReadTarget, MGoto, MergeTypeOK, MergeInv, Checked
      <3>2. QED
        BY <1>1, <2>3, <3>1 DEF Checked, Shown, MergeAllowed, Source, Target
    <2>4. QED
      BY <2>1, <2>2, <2>3
  <1>7. MergeAcyclic'
    BY <1>1 DEF MergeInv, MergeAcyclic
  <1>8. QED
    BY <1>0, <1>4, <1>5, <1>6, <1>7 DEF MergeInv

(* Steps of the one merge under way.                                       *)
LEMMA OthersWait ==
    ASSUME MergeInv, NEW m \in Merges, Merging(m),
           \A n \in Merges : n # m => mpc'[n] = mpc[n] /\ readSource'[n] = readSource[n],
           pair' = pair
    PROVE  /\ Alone'
           /\ \A n \in Merges : n # m => Checked(n)'
           /\ \A n \in Merges, i \in Issues : n # m => ~Holds(n, i) /\ ~Holds(n, i)'
  <1>1. \A n \in Merges : n # m => ~Merging(n)
    BY DEF MergeInv, Alone
  <1>2. Alone'
    BY <1>1 DEF Alone, Merging
  <1>3. \A n \in Merges : n # m => Checked(n)'
    BY <1>1 DEF Checked, Merging
  <1>4. \A n \in Merges, i \in Issues : n # m => ~Holds(n, i) /\ ~Holds(n, i)'
    BY <1>1 DEF Holds, Merging
  <1>5. QED
    BY <1>2, <1>3, <1>4

LEMMA WriteMerges ==
    ASSUME MergeInv, NEW m \in Merges, UpdateSource(m) \/ UpdateTarget(m)
    PROVE  MergeInv'
  <1> DEFINE i   == IF mpc[m] = "updateSource" THEN Source(m) ELSE Target(m)
             row == IF mpc[m] = "updateSource" THEN SourceRow(m) ELSE TargetRow(m)
  <1>0. MergeTypeOK /\ MergeTypeOK' /\ TypeOK
    BY MergeStepType DEF MergeInv, MergeStep, MergeTypeOK
  <1>p. /\ Source(m) \in Issues /\ Target(m) \in Issues /\ Source(m) # Target(m)
        /\ m # NoTx /\ m \notin Ingests
    BY <1>0, PairType
  <1>1. /\ mpc[m] \in {"updateSource", "updateTarget"} /\ Merging(m)
        /\ WriteRow(m, i, row)
        /\ mpc' = [mpc EXCEPT ![m] = IF mpc[m] = "updateSource"
                                     THEN "updateTarget" ELSE "moveItems"]
        /\ UNCHANGED <<pair, readSource>>
    BY DEF UpdateSource, UpdateTarget, MGoto, SourceRow, TargetRow, Merging
  <1>2. /\ issueLock[i] = NoTx
        /\ issueLock' = [issueLock EXCEPT ![i] = m]
        /\ heap' = [heap EXCEPT ![i] = row]
        /\ issues' = issues
    BY <1>1 DEF WriteRow
  <1>3. i \in Issues
    BY <1>p
  <1>4. /\ row.mergedInto = IF i = Source(m) THEN Target(m) ELSE heap[i].mergedInto
        /\ i = IF mpc[m] = "updateSource" THEN Source(m) ELSE Target(m)
    BY <1>0, <1>p, MergedRowTypes
  <1>5. \A n \in Merges : n # m => mpc'[n] = mpc[n]
    BY <1>0, <1>1 DEF MergeTypeOK
  <1>6. mpc'[m] = IF mpc[m] = "updateSource" THEN "updateTarget" ELSE "moveItems"
    BY <1>0, <1>1 DEF MergeTypeOK
  <1>7. /\ Alone'
        /\ \A n \in Merges : n # m => Checked(n)'
        /\ \A n \in Merges, j \in Issues : n # m => ~Holds(n, j) /\ ~Holds(n, j)'
    BY <1>1, <1>5, OthersWait
  <1>8. Checked(m)'
    BY <1>1, <1>2, <1>6 DEF MergeInv, Checked, Shown, Source, Target
  <1> HIDE DEF i, row
  <1>9. ASSUME NEW j \in Issues PROVE MergedRow(j)'
    <2>1. MergedRow(j)
      BY DEF MergeInv
    <2>2. Holds(m, j)' <=> (Holds(m, j) \/ j = i)
      BY <1>1, <1>4, <1>6, <1>p DEF Holds, Source, Target
    <2>3. CASE j = i
      <3>1. issueLock'[j] = m /\ heap'[j] = row
        BY <1>0, <1>2, <1>3, <2>3 DEF TypeOK
      <3>2. \A n \in Merges : issueLock'[j] = n <=> Holds(n, j)'
        BY <1>7, <2>2, <2>3, <3>1
      <3>3. heap[j] = issues[j]
        BY <1>2, <2>1, <2>3 DEF MergedRow
      <3>4. \/ heap'[j].mergedInto = issues'[j].mergedInto
            \/ j = Source(m)' /\ heap'[j].mergedInto = Target(m)'
        BY <1>1, <1>2, <1>4, <2>3, <3>1, <3>3 DEF Source, Target
      <3>5. QED
        BY <1>p, <3>1, <3>2, <3>4 DEF MergedRow
    <2>4. CASE j # i
      <3>1. issueLock'[j] = issueLock[j] /\ heap'[j] = heap[j]
        BY <1>0, <1>2, <2>4 DEF TypeOK
      <3>2. \A n \in Merges : Holds(n, j)' <=> Holds(n, j)
        BY <1>7, <2>2, <2>4
      <3>3. QED
        BY <1>1, <1>2, <2>1, <3>1, <3>2 DEF MergedRow, Source, Target
    <2>5. QED
      BY <2>3, <2>4
  <1>10. MergeAcyclic'
    BY <1>2 DEF MergeInv, MergeAcyclic
  <1>11. QED
    BY <1>0, <1>7, <1>8, <1>9, <1>10 DEF MergeInv

LEMMA EndMerges ==
    ASSUME MergeInv, NEW m \in Merges, MoveItems(m) \/ MergeRollBack(m)
    PROVE  MergeInv'
  <1>0. MergeTypeOK /\ MergeTypeOK' /\ TypeOK
    BY MergeStepType DEF MergeInv, MergeStep, MergeTypeOK
  <1>p. /\ Source(m) \in Issues /\ Target(m) \in Issues /\ Source(m) # Target(m)
        /\ m # NoTx /\ m \notin Ingests
    BY <1>0, PairType
  <1>1. /\ Merging(m)
        /\ mpc'[m] \in {"merged", "refused"}
        /\ \A n \in Merges : n # m => mpc'[n] = mpc[n]
        /\ UNCHANGED <<pair, readSource>>
        /\ \A i \in Issues : issueLock'[i] = IF issueLock[i] = m THEN NoTx ELSE issueLock[i]
    BY <1>0 DEF MoveItems, MergeRollBack, MGoto, Merging, MergeTypeOK, TypeOK, Unlocked
  <1>2. /\ Alone'
        /\ \A n \in Merges : n # m => Checked(n)'
        /\ \A n \in Merges, j \in Issues : n # m => ~Holds(n, j) /\ ~Holds(n, j)'
    BY <1>1, OthersWait
  <1>3. Checked(m)'
    BY <1>1 DEF Checked
  <1>4. ASSUME NEW j \in Issues
        PROVE  /\ issueLock[j] # m => heap'[j] = heap[j] /\ issues'[j] = issues[j]
               /\ issueLock[j] = m => heap'[j] = issues'[j]
    BY DEF MoveItems, MergeRollBack, Visible
  <1>5. ASSUME NEW j \in Issues PROVE MergedRow(j)'
    <2>1. MergedRow(j)
      BY DEF MergeInv
    <2>2. ~Holds(m, j)'
      BY <1>1 DEF Holds
    <2>3. \A n \in Merges : ~Holds(n, j)'
      BY <1>2, <2>2
    <2>4. \A n \in Merges : issueLock'[j] # n
      BY <1>1, <1>2, <2>1, IngestAssumption DEF MergedRow
    <2>5. issueLock'[j] = NoTx => heap'[j] = issues'[j]
      BY <1>1, <1>4, <2>1 DEF MergedRow
    <2>6. heap'[j].mergedInto = issues'[j].mergedInto
      BY <1>1, <1>2, <1>4, <2>1 DEF MergedRow
    <2>7. QED
      BY <2>3, <2>4, <2>5, <2>6 DEF MergedRow
  <1>6. MergeAcyclic'
    <2>1. CASE MergeRollBack(m)
      BY <2>1 DEF MergeRollBack, MergeInv, MergeAcyclic
    <2>2. CASE MoveItems(m)
      <3> DEFINE s == Source(m)
                 g == Target(m)
      <3>1. /\ mpc[m] = "moveItems"
            /\ \A j \in Issues : issues'[j] = IF issueLock[j] = m THEN heap[j] ELSE issues[j]
        BY <2>2 DEF MoveItems, Visible
      <3>2. /\ issues[s].mergedInto = NoIssue /\ issues[g].mergedInto = NoIssue
        BY <3>1 DEF MergeInv, Checked, Shown
      <3>3. \A j \in Issues : j # s => issues'[j].mergedInto = issues[j].mergedInto
        BY <1>2, <3>1 DEF MergeInv, MergedRow
      <3>4. issues'[s].mergedInto \in {g, NoIssue}
        <4>1. MergedRow(s)
          BY <1>p DEF MergeInv
        <4>2. heap[s].mergedInto = issues[s].mergedInto \/ heap[s].mergedInto \in {g} \/ issueLock[s] # m
          BY <4>1 DEF MergedRow
        <4>3. QED
          BY <1>p, <3>1, <3>2, <4>2
      <3> HIDE DEF s, g
      <3>5. ASSUME NEW S \in (SUBSET Issues) \ {{}}
            PROVE  \E i \in S : issues'[i].mergedInto \notin S
        <4>1. CASE s \notin S
          BY <3>3, <4>1 DEF MergeInv, MergeAcyclic
        <4>2. CASE s \in S /\ g \notin S
          BY <3>4, <4>2, NoIssueAssumption
        <4>3. CASE s \in S /\ g \in S
          <5>1. issues'[g].mergedInto = NoIssue
            BY <1>p, <3>2, <3>3 DEF s, g
          <5>2. QED
            BY <4>3, <5>1, NoIssueAssumption
        <4>4. QED
          BY <4>1, <4>2, <4>3
      <3>6. QED
        BY <3>5 DEF MergeAcyclic
    <2>3. QED
      BY <2>1, <2>2
  <1>7. QED
    BY <1>0, <1>2, <1>3, <1>5, <1>6 DEF MergeInv

LEMMA NextMerges ==
    ASSUME MergesOverlap = FALSE
    PROVE  MergeInv /\ [MergeNext]_allVars => MergeInv'
  <1> SUFFICES ASSUME MergeInv, [MergeNext]_allVars PROVE MergeInv'
    OBVIOUS
  <1>1. CASE UNCHANGED allVars
    <2>1. MergeTypeOK'
      BY MergeNextType DEF MergeInv
    <2>2. QED
      BY <1>1, <2>1 DEF allVars, vars, tables, locks, mergeVars, MergeInv, Alone, Merging,
                        MergedRow, Holds, Checked, Shown, Source, Target, MergeAcyclic
  <1>2. QED
    BY <1>1, MergeCases, OtherMerges, ReadMerges, WriteMerges, EndMerges DEF MergeStep

LEMMA InitMerges ==
    ASSUME InitialMergesEnd
    PROVE  MergeInit => MergeInv
  <1> SUFFICES ASSUME MergeInit PROVE MergeInv
    OBVIOUS
  <1>1. MergeTypeOK
    BY MergeInitType
  <1>2. \A m \in Merges : mpc[m] = "idle"
    BY DEF MergeInit
  <1>3. ASSUME NEW i \in Issues PROVE MergedRow(i)
    BY <1>2, IngestAssumption DEF MergeInit, Init, MergedRow, Holds
  <1>4. MergeAcyclic
    BY DEF MergeInit, Init, InitialMergesEnd, MergeAcyclic
  <1>5. QED
    BY <1>1, <1>2, <1>3, <1>4 DEF MergeInv, Alone, Merging, Checked

(* No group of issues is merged away into itself, although a merge checks  *)
(* its rows before it locks them: with no other merge in between, the rows *)
(* still are as it read them.                                              *)
THEOREM MergesNeverCycle ==
    ASSUME MergesOverlap = FALSE, InitialMergesEnd
    PROVE  MergeSpec => []MergeAcyclic
  <1>1. MergeInit => MergeInv
    BY InitMerges
  <1>2. MergeInv /\ [MergeNext]_allVars => MergeInv'
    BY NextMerges
  <1>3. MergeInv => MergeAcyclic
    BY DEF MergeInv
  <1>4. QED
    BY <1>1, <1>2, <1>3, PTL DEF MergeSpec

-----------------------------------------------------------------------------
(* Counts.                                                                 *)

(* A shown issue counts no error that is not stored for it, or about to be *)
(* by the call that holds its row.                                         *)
CountedRow(i) ==
    Shown(i) =>
        /\ issues[i].count <= items[i]
        /\ \A t \in Ingests : issueLock[i] = t => heap[i].count <= items[i] + inserted[t][i]

(* What a merge has read of its source, it will move.                      *)
CountedMerge(m) ==
    /\ mpc[m] \in {"readTarget", "updateSource", "updateTarget"} /\ Shown(Source(m)) =>
          readSource[m].count <= items[Source(m)]
    /\ mpc[m] \in {"updateTarget", "moveItems"} =>
          heap[Source(m)].mergedInto = Target(m)
    /\ mpc[m] = "moveItems" =>
          heap[Target(m)].count <= items[Target(m)] + items[Source(m)]

CountInv ==
    /\ \A i \in Issues : CountedRow(i)
    /\ \A m \in Merges : CountedMerge(m)

(* Rows and items are numbers.                                             *)
LEMMA CountTypes ==
    ASSUME TypeOK, NEW i \in Issues
    PROVE  /\ issues[i].count \in Nat /\ heap[i].count \in Nat /\ items[i] \in Nat
           /\ \A t \in Ingests : inserted[t][i] \in Nat
  BY DEF TypeOK, IssueRow

(* An envelope adds items with the counts, or before them.                 *)
LEMMA OtherCountedRow ==
    ASSUME MergeInv, CountInv, Other, TypeOK', NEW i \in Issues
    PROVE  CountedRow(i)' /\ items'[i] >= items[i]
  <1>0. TypeOK
    BY DEF MergeInv, MergeTypeOK
  <1>t. /\ issues[i].count \in Nat /\ heap[i].count \in Nat /\ items[i] \in Nat
        /\ \A t \in Ingests : inserted[t][i] \in Nat
    BY <1>0, CountTypes
  <1>e. OtherEffect(i)
    BY OtherEffects DEF MergeInv
  <1>s. Shown(i)' <=> Shown(i)
    BY <1>e DEF OtherEffect, Shown
  <1>c. CountedRow(i) /\ MergedRow(i)
    BY DEF CountInv, MergeInv
  <1>n. NoTx \notin Ingests /\ \A m \in Merges : m \notin Ingests
    BY IngestAssumption, MergeAssumption
  <1>1. ASSUME UNCHANGED <<issues, heap, issueLock, items, inserted>>
        PROVE  CountedRow(i)' /\ items'[i] >= items[i]
    BY <1>1, <1>c, <1>t DEF CountedRow, Shown
  <1>2. ASSUME NEW t \in Ingests, UpsertIssue(t)
        PROVE  CountedRow(i)' /\ items'[i] >= items[i]
    <2> DEFINE e   == Item(t)
               row == UpsertRow(heap[e.issue], prev[t], e, envelope[t].release)
    <2>1. e \in ErrorItem /\ e.issue \in Issues
      BY <1>0, <1>2, EnvelopeType DEF UpsertIssue, ErrorItem
    <2>2. /\ issueLock[e.issue] \in {NoTx, t}
          /\ heap' = [heap EXCEPT ![e.issue] = row]
          /\ issueLock' = [issueLock EXCEPT ![e.issue] = t]
          /\ inserted' = [inserted EXCEPT ![t][e.issue] = inserted[t][e.issue] + 1]
          /\ issues' = issues /\ items' = items
      BY <1>2 DEF UpsertIssue
    <2>3. row.count = heap[e.issue].count + 1
      <3> DEFINE found == heap[e.issue]
                 old   == prev[t]
                 release == envelope[t].release
      <3>1. found \in IssueRow /\ old \in IssueRow /\ release \in Nat
        BY <1>0, <2>1, EnvelopeType DEF TypeOK
      <3> HIDE DEF found, old, release, e
      <3>2. UpsertRow(found, old, e, release).count = found.count + 1
        BY <2>1, <3>1, UpsertRowType
      <3>3. QED
        BY <3>2 DEF found, old, release
    <2> HIDE DEF e, row
    <2>4. CASE i = e.issue
      <3>1. issueLock'[i] = t /\ heap'[i] = row /\ inserted'[t][i] = inserted[t][i] + 1
        BY <1>0, <2>1, <2>2, <2>4 DEF TypeOK
      <3>2. Shown(i) => heap[i].count <= items[i] + inserted[t][i]
        <4>1. CASE issueLock[i] = t
          BY <4>1, <1>c DEF CountedRow
        <4>2. CASE issueLock[i] = NoTx
          BY <4>2, <1>c, <1>t DEF CountedRow, MergedRow
        <4>3. QED
          BY <2>2, <2>4, <4>1, <4>2
      <3>3. heap'[i].count = heap[i].count + 1
        BY <2>3, <2>4, <3>1
      <3>4. QED
        BY <1>c, <1>s, <1>t, <2>2, <3>1, <3>2, <3>3 DEF CountedRow
    <2>5. CASE i # e.issue
      <3>1. UNCHANGED <<issueLock[i], heap[i], issues[i], items[i]>>
        BY <1>0, <2>2, <2>5 DEF TypeOK
      <3>2. \A u \in Ingests : inserted'[u][i] = inserted[u][i]
        BY <1>0, <2>2, <2>5 DEF TypeOK
      <3>3. QED
        BY <1>c, <1>s, <1>t, <3>1, <3>2 DEF CountedRow
    <2>6. QED
      BY <2>4, <2>5
  <1>3. ASSUME NEW t \in Ingests, Commit(t) \/ RollBack(t)
        PROVE  CountedRow(i)' /\ items'[i] >= items[i]
    <2>1. issueLock'[i] = IF issueLock[i] = t THEN NoTx ELSE issueLock[i]
      BY <1>0, <1>3 DEF Commit, RollBack, ReleaseLocks, Unlocked, TypeOK
    <2>2. \A u \in Ingests : u # t => inserted'[u][i] = inserted[u][i]
      BY <1>0, <1>3 DEF Commit, RollBack, TypeOK
    <2>3. items'[i] = items[i] \/ items'[i] = items[i] + inserted[t][i]
      BY <1>3 DEF Commit, RollBack
    <2>4. items'[i] >= items[i] /\ items'[i] \in Nat
      BY <1>t, <2>3
    <2>5. CASE issueLock[i] = t
      <3>1. \/ issues'[i] = heap[i] /\ items'[i] = items[i] + inserted[t][i]
            \/ issues'[i] = issues[i]
        BY <1>3, <2>5 DEF Commit, RollBack, Visible
      <3>2. QED
        BY <1>c, <1>n, <1>s, <1>t, <2>1, <2>4, <2>5, <3>1 DEF CountedRow
    <2>6. CASE issueLock[i] # t
      <3>1. UNCHANGED <<heap[i], issues[i]>>
        BY <1>3, <2>6 DEF Commit, RollBack, Visible
      <3>2. QED
        BY <1>c, <1>s, <1>t, <2>1, <2>2, <2>4, <2>6, <3>1 DEF CountedRow
    <2>7. QED
      BY <2>5, <2>6
  <1>4. CASE UserEdit
    <2>1. PICK j \in Issues, row \in IssueRow :
             Edit(j, row) /\ row.count = issues[j].count
      BY <1>0, <1>4, EditType
    <2>2. /\ issueLock[j] = NoTx
          /\ issues' = [issues EXCEPT ![j] = row]
          /\ heap' = [heap EXCEPT ![j] = row]
          /\ UNCHANGED <<issueLock, items, inserted>>
      BY <2>1 DEF Edit, locks, progress
    <2>3. issues'[i].count = issues[i].count
      BY <1>0, <2>1, <2>2 DEF TypeOK
    <2>4. CASE i = j
      BY <1>c, <1>n, <1>s, <1>t, <2>2, <2>3, <2>4 DEF CountedRow
    <2>5. CASE i # j
      <3>1. heap'[i] = heap[i]
        BY <1>0, <2>2, <2>5 DEF TypeOK
      <3>2. QED
        BY <1>c, <1>s, <1>t, <2>2, <2>3, <3>1 DEF CountedRow
    <2>6. QED
      BY <2>4, <2>5
  <1>5. ASSUME NEW t \in Ingests, Quiet(t)
        PROVE  CountedRow(i)' /\ items'[i] >= items[i]
    BY <1>5, <1>1 DEF Quiet, UpsertSession, UpsertRelease, SelectIssue, Publish, Die,
                      tables, locks
  <1>6. QED
    BY <1>2, <1>3, <1>4, <1>5 DEF Other, Step, Quiet

LEMMA OtherCounted ==
    ASSUME MergeInv, CountInv, Other, UNCHANGED mergeVars
    PROVE  CountInv'
  <1>0. MergeTypeOK /\ TypeOK /\ TypeOK'
    BY OtherType DEF MergeInv, MergeTypeOK
  <1>1. \A i \in Issues : CountedRow(i)' /\ items'[i] >= items[i]
    BY <1>0, OtherCountedRow
  <1>2. ASSUME NEW m \in Merges PROVE CountedMerge(m)'
    <2> DEFINE s == Source(m)
               g == Target(m)
    <2>1. s \in Issues /\ g \in Issues
      BY <1>0, PairType
    <2>2. s = Source(m)' /\ g = Target(m)' /\ mpc'[m] = mpc[m] /\ readSource'[m] = readSource[m]
      BY DEF mergeVars, Source, Target
    <2>3. OtherEffect(s) /\ OtherEffect(g) /\ MergedRow(s) /\ MergedRow(g)
      BY <2>1, OtherEffects DEF MergeInv
    <2>4. /\ mpc[m] \in {"updateTarget", "moveItems"} => heap'[s] = heap[s]
          /\ mpc[m] = "moveItems" => heap'[g] = heap[g]
      BY <2>3 DEF MergedRow, Holds, OtherEffect
    <2>5. issues'[s].mergedInto = issues[s].mergedInto
      BY <2>3 DEF OtherEffect
    <2>6. /\ items[s] \in Nat /\ items[g] \in Nat /\ items'[s] \in Nat /\ items'[g] \in Nat
          /\ items'[s] >= items[s] /\ items'[g] >= items[g]
          /\ readSource[m].count \in Nat /\ heap[g].count \in Nat
      BY <1>0, <1>1, <2>1 DEF TypeOK, MergeTypeOK, IssueRow
    <2>7. CountedMerge(m)
      BY DEF CountInv
    <2> HIDE DEF s, g
    <2>8. /\ mpc[m] \in {"readTarget", "updateSource", "updateTarget"}
                /\ issues'[s].mergedInto = NoIssue => readSource[m].count <= items'[s]
          /\ mpc[m] \in {"updateTarget", "moveItems"} => heap'[s].mergedInto = g
          /\ mpc[m] = "moveItems" => heap'[g].count <= items'[g] + items'[s]
      BY <2>4, <2>5, <2>6, <2>7 DEF CountedMerge, Shown, s, g
    <2>9. QED
      BY <2>2, <2>8 DEF CountedMerge, Shown, s, g
  <1>3. QED
    BY <1>1, <1>2 DEF CountInv

LEMMA MergeCounted ==
    ASSUME MergesOverlap = FALSE, MergeInv, CountInv, MergeTypeOK',
           NEW m \in Merges, MergeStep(m) \/ MergeRollBack(m)
    PROVE  CountInv'
  <1> DEFINE s == Source(m)
             g == Target(m)
  <1>0. MergeTypeOK /\ TypeOK
    BY DEF MergeInv, MergeTypeOK
  <1>p. /\ s \in Issues /\ g \in Issues /\ s # g /\ m # NoTx /\ m \notin Ingests
    BY <1>0, PairType
  <1>t. /\ \A i \in Issues : /\ issues[i].count \in Nat /\ heap[i].count \in Nat
                             /\ items[i] \in Nat
        /\ readSource[m].count \in Nat
    BY <1>0, CountTypes DEF MergeTypeOK, IssueRow
  <1>n. NoTx \notin Ingests
    BY IngestAssumption
  <1>c. CountedMerge(m) /\ Checked(m) /\ CountedRow(s) /\ CountedRow(g) /\ MergedRow(s)
        /\ MergedRow(g)
    BY <1>p DEF CountInv, MergeInv
  <1>u. /\ pair' = pair /\ s = Source(m)' /\ g = Target(m)' /\ inserted' = inserted
        /\ \A n \in Merges : n # m => mpc'[n] = mpc[n] /\ readSource'[n] = readSource[n]
    BY <1>0 DEF MergeStep, ReadSource, ReadTarget, UpdateSource, UpdateTarget, MoveItems,
                MergeRollBack, MGoto, WriteRow, vars, progress, Source, Target, MergeTypeOK
  <1>1. CASE ReadSource(m) \/ ReadTarget(m)
    <2>1. UNCHANGED <<issues, heap, issueLock, items, inserted>>
      BY <1>1 DEF ReadSource, ReadTarget, vars, tables, locks, progress
    <2>2. \A i \in Issues : CountedRow(i)'
      BY <2>1 DEF CountInv, CountedRow, Shown
    <2>3. \A n \in Merges : n # m => CountedMerge(n)'
      BY <1>u, <2>1 DEF CountInv, CountedMerge, Shown, Source, Target
    <2>4. CountedMerge(m)'
      <3>1. CASE ReadSource(m)
        <4>1. readSource'[m] = issues[s] /\ mpc'[m] \in {"readTarget", "refused"}
          BY <1>0, <3>1 DEF ReadSource, MGoto, MergeTypeOK
        <4>2. QED
          BY <1>c, <1>u, <2>1, <4>1 DEF CountedMerge, CountedRow, Shown
      <3>2. CASE ReadTarget(m)
        <4>1. /\ mpc[m] = "readTarget" /\ mpc'[m] \in {"updateSource", "refused"}
              /\ readSource' = readSource
          BY <1>0, <3>2 DEF ReadTarget, MGoto, MergeTypeOK
        <4>2. QED
          BY <1>c, <1>u, <2>1, <4>1 DEF CountedMerge, Shown
      <3>3. QED
        BY <1>1, <3>1, <3>2
    <2>5. QED
      BY <2>2, <2>3, <2>4 DEF CountInv
  <1>2. ASSUME ~(ReadSource(m) \/ ReadTarget(m)), NEW n \in Merges, n # m
        PROVE  CountedMerge(n)'
    <2>1. Merging(m)
      BY <1>2 DEF MergeStep, UpdateSource, UpdateTarget, MoveItems, MergeRollBack, Merging
    <2>2. ~Merging(n)
      BY <1>2, <2>1 DEF MergeInv, Alone
    <2>3. ~Merging(n)'
      BY <1>2, <1>u, <2>2 DEF Merging
    <2>4. QED
      BY <2>3 DEF CountedMerge, Merging
  <1>3. CASE UpdateSource(m)
    <2>1. /\ mpc[m] = "updateSource" /\ mpc'[m] = "updateTarget"
          /\ issueLock' = [issueLock EXCEPT ![s] = m]
          /\ heap' = [heap EXCEPT ![s] = SourceRow(m)]
          /\ UNCHANGED <<issues, items, readSource>>
      BY <1>0, <1>3 DEF UpdateSource, WriteRow, SourceRow, MGoto, MergeTypeOK
    <2>2. \A i \in Issues : i # s => UNCHANGED <<heap[i], issueLock[i]>>
      BY <1>0, <2>1 DEF TypeOK
    <2>3. heap'[s] = SourceRow(m) /\ issueLock'[s] = m
      BY <1>0, <1>p, <2>1 DEF TypeOK
    <2>4. \A i \in Issues : CountedRow(i)'
      BY <1>p, <1>u, <2>1, <2>2, <2>3 DEF CountInv, CountedRow, Shown
    <2>5. CountedMerge(m)'
      BY <1>0, <1>c, <1>u, <2>1, <2>3, MergedRowTypes DEF CountedMerge, Shown
    <2>6. QED
      BY <1>2, <1>3, <2>1, <2>4, <2>5 DEF CountInv, ReadSource, ReadTarget
  <1>4. CASE UpdateTarget(m)
    <2>1. /\ mpc[m] = "updateTarget" /\ mpc'[m] = "moveItems"
          /\ issueLock[g] = NoTx
          /\ issueLock' = [issueLock EXCEPT ![g] = m]
          /\ heap' = [heap EXCEPT ![g] = TargetRow(m)]
          /\ UNCHANGED <<issues, items, readSource>>
      BY <1>0, <1>4 DEF UpdateTarget, WriteRow, TargetRow, MGoto, MergeTypeOK
    <2>2. \A i \in Issues : i # g => UNCHANGED <<heap[i], issueLock[i]>>
      BY <1>0, <2>1 DEF TypeOK
    <2>3. heap'[g] = TargetRow(m) /\ issueLock'[g] = m
      BY <1>0, <1>p, <2>1 DEF TypeOK
    <2>4. \A i \in Issues : CountedRow(i)'
      BY <1>p, <1>u, <2>1, <2>2, <2>3 DEF CountInv, CountedRow, Shown
    <2>5. heap'[g].count = heap[g].count + readSource[m].count
      BY <1>0, <2>3, MergedRowTypes
    <2>6. heap[g].count <= items[g] /\ readSource[m].count <= items[s]
      BY <1>c, <2>1 DEF CountedMerge, Checked, CountedRow, MergedRow
    <2>7. heap'[s].mergedInto = g
      BY <1>c, <1>p, <2>1, <2>2 DEF CountedMerge
    <2>8. CountedMerge(m)'
      BY <1>p, <1>t, <1>u, <2>1, <2>5, <2>6, <2>7 DEF CountedMerge
    <2>9. QED
      BY <1>2, <1>4, <2>1, <2>4, <2>8 DEF CountInv, ReadSource, ReadTarget
  <1>5. CASE MoveItems(m)
    <2>1. /\ mpc[m] = "moveItems" /\ mpc'[m] = "merged"
          /\ items' = [items EXCEPT ![g] = items[g] + items[s], ![s] = 0]
          /\ \A i \in Issues : issues'[i] = IF issueLock[i] = m THEN heap[i] ELSE issues[i]
          /\ \A i \in Issues : issueLock'[i] = IF issueLock[i] = m THEN NoTx ELSE issueLock[i]
          /\ heap' = heap
      BY <1>0, <1>5 DEF MoveItems, MovedItems, Visible, Unlocked, MGoto, TypeOK, MergeTypeOK
    <2>2. /\ issueLock[s] = m /\ issueLock[g] = m
          /\ \A i \in Issues : issueLock[i] = m => i \in {s, g}
      BY <1>p, <2>1 DEF MergeInv, MergedRow, Holds
    <2>3. /\ items'[g] = items[g] + items[s]
          /\ \A i \in Issues : i \notin {s, g} => items'[i] = items[i]
      BY <1>0, <1>p, <2>1 DEF TypeOK
    <2>4. heap[s].mergedInto = g /\ heap[g].count <= items[g] + items[s]
      BY <1>c, <2>1 DEF CountedMerge
    <2>5. ASSUME NEW i \in Issues, i = s PROVE CountedRow(i)'
      <3>1. issues'[i].mergedInto = g /\ issueLock'[i] = NoTx
        BY <1>p, <2>1, <2>2, <2>4, <2>5
      <3>2. QED
        BY <1>n, <1>p, <3>1, NoIssueAssumption DEF CountedRow, Shown
    <2>6. ASSUME NEW i \in Issues, i = g PROVE CountedRow(i)'
      <3>1. issues'[i].count <= items'[i] /\ issueLock'[i] = NoTx
        BY <1>p, <2>1, <2>2, <2>3, <2>4, <2>6
      <3>2. QED
        BY <1>n, <3>1 DEF CountedRow, Shown
    <2>7. ASSUME NEW i \in Issues, i \notin {s, g} PROVE CountedRow(i)'
      BY <1>u, <2>1, <2>2, <2>3, <2>7 DEF CountInv, CountedRow, Shown
    <2>8. CountedMerge(m)'
      BY <2>1 DEF CountedMerge
    <2>9. QED
      BY <1>2, <1>5, <2>1, <2>5, <2>6, <2>7, <2>8 DEF CountInv, ReadSource, ReadTarget
  <1>6. CASE MergeRollBack(m)
    <2>1. /\ mpc'[m] = "refused"
          /\ UNCHANGED <<issues, items>>
          /\ \A i \in Issues : issueLock[i] # m => heap'[i] = heap[i]
          /\ \A i \in Issues : issueLock'[i] = IF issueLock[i] = m THEN NoTx ELSE issueLock[i]
      BY <1>0, <1>6 DEF MergeRollBack, Unlocked, MGoto, TypeOK, MergeTypeOK
    <2>2. ASSUME NEW i \in Issues PROVE CountedRow(i)'
      BY <1>n, <1>p, <1>u, <2>1 DEF CountInv, CountedRow, Shown
    <2>3. CountedMerge(m)'
      BY <2>1 DEF CountedMerge
    <2>4. ASSUME NEW n \in Merges, n # m PROVE CountedMerge(n)'
      <3>1. ~Merging(n) /\ mpc'[n] = mpc[n]
        BY <1>6, <1>u, <2>4 DEF MergeInv, Alone, MergeRollBack
      <3>2. QED
        BY <3>1 DEF CountedMerge, Merging
    <2>5. QED
      BY <2>2, <2>3, <2>4 DEF CountInv
  <1>7. QED
    BY <1>1, <1>3, <1>4, <1>5, <1>6 DEF MergeStep

(* An issue still shown counts no error it does not have, although a merge *)
(* adds a count it read before it locked the row it came from: errors that *)
(* arrive in between are moved and not counted, never the other way round. *)
THEOREM MergedErrorsCountOnce ==
    ASSUME MergesOverlap = FALSE, InitialMergesEnd
    PROVE  MergeSpec => []NoErrorCountedTwice
  <1>1. MergeInit => MergeInv
    BY InitMerges
  <1>2. MergeInit => CountInv
    <2> SUFFICES ASSUME MergeInit PROVE CountInv
      OBVIOUS
    <2>1. TypeOK /\ \A m \in Merges : mpc[m] = "idle"
      BY MergeInitType DEF MergeTypeOK, MergeInit
    <2>2. ASSUME NEW i \in Issues PROVE CountedRow(i)
      <3>1. items[i] = issues[i].count /\ issueLock[i] = NoTx /\ items[i] \in Nat
        BY <2>1 DEF MergeInit, Init, TypeOK
      <3>2. QED
        BY <3>1, IngestAssumption DEF CountedRow
    <2>3. QED
      BY <2>1, <2>2 DEF CountInv, CountedMerge
  <1>3. MergeInv /\ [MergeNext]_allVars => MergeInv'
    BY NextMerges
  <1>4. MergeInv /\ CountInv /\ MergeInv' /\ [MergeNext]_allVars => CountInv'
    <2> SUFFICES ASSUME MergeInv, CountInv, MergeInv', [MergeNext]_allVars PROVE CountInv'
      OBVIOUS
    <2>1. CASE UNCHANGED allVars
      BY <2>1 DEF allVars, vars, tables, locks, progress, mergeVars, CountInv, CountedRow,
                  CountedMerge, Shown, Source, Target
    <2>2. MergeTypeOK'
      BY DEF MergeInv
    <2>3. QED
      BY <2>1, <2>2, MergeCases, OtherCounted, MergeCounted
  <1>5. CountInv => NoErrorCountedTwice
    BY DEF CountInv, CountedRow, Shown, NoErrorCountedTwice
  <1>6. QED
    BY <1>1, <1>2, <1>3, <1>4, <1>5, PTL DEF MergeSpec
=============================================================================
