----------------------------- MODULE IssueRules -----------------------------
(***************************************************************************)
(* The rules by which one error changes one issue: what store.Ingest       *)
(* decides from the row it read, and what its upsert writes into the row   *)
(* it finds.  The two rows are the same row only when nobody wrote between *)
(* the SELECT and the INSERT .. ON CONFLICT; IssueIngest separates them,   *)
(* IssueTracker (the abstract specification) does not.                     *)
(*                                                                         *)
(* An issue is its (project, fingerprint) pair, so a member of Issues; the *)
(* fingerprint, after any group_as rule, is an input.  A release is a      *)
(* number, 0 for the empty string, ordered as CompareVersions orders the   *)
(* strings.  A time is a number, 0 for SQL NULL.                           *)
(***************************************************************************)
EXTENDS Naturals

CONSTANTS
    Issues,     \* (project, fingerprint) pairs the errors are grouped under
    NoIssue     \* merged_into IS NULL

ASSUME NoIssueAssumption == NoIssue \notin Issues

NoTime    == 0
NoRelease == 0

Statuses == {"open", "resolved", "ignored", "snoozed"}

IssueRow ==
    [status : Statuses, resolved : BOOLEAN, count : Nat,
     mergedInto : Issues \cup {NoIssue},
     snoozeUntil : Nat, snoozeThreshold : Nat, snoozeStart : Nat,
     lastRelease : Nat, resolvedInRelease : Nat]

(* No row yet, with the columns' defaults: a stored issue counts at least  *)
(* the error that created it.                                              *)
NoRow ==
    [status |-> "open", resolved |-> FALSE, count |-> 0,
     mergedInto |-> NoIssue,
     snoozeUntil |-> NoTime, snoozeThreshold |-> 0, snoozeStart |-> 0,
     lastRelease |-> NoRelease, resolvedInRelease |-> NoRelease]

Exists(row) == row.count > 0

(* An item of type "error": its issue, its timestamp and whether the       *)
(* project's fingerprint rule it matched has the action "ignore".          *)
ErrorItem == [issue : Issues, ts : Nat, ignoreRule : BOOLEAN]

(* Variant: wakes one error late.                                          *)
WokenLate(prev, e) ==
    \/ prev.snoozeUntil # NoTime /\ e.ts >= prev.snoozeUntil
    \/ /\ prev.snoozeThreshold > 0
       /\ prev.count + 1 > prev.snoozeThreshold + prev.snoozeStart

(* A snoozed issue wakes when its date has passed, or when this error is   *)
(* the one that reaches the threshold.                                     *)
Woken(prev, e) ==
    \/ prev.snoozeUntil # NoTime /\ e.ts >= prev.snoozeUntil
    \/ /\ prev.snoozeThreshold > 0
       /\ prev.count + 1 >= prev.snoozeThreshold + prev.snoozeStart

OlderRelease(prev, release) ==
    /\ prev.resolvedInRelease # NoRelease
    /\ release # NoRelease
    /\ release < prev.resolvedInRelease

(* Variants: without the case of ignored issues, without the comparison of *)
(* releases.                                                               *)
ReopensIgnored(prev, e, release) ==
    \/ prev.status \in {"snoozed", "ignored"} /\ Woken(prev, e)
    \/ prev.status \in {"resolved", "ignored"} /\ ~OlderRelease(prev, release)

ReopensForAnyRelease(prev, e, release) ==
    \/ prev.status = "snoozed" /\ Woken(prev, e)
    \/ prev.status = "resolved"

Reopens(prev, e, release) ==
    \/ prev.status = "snoozed"  /\ Woken(prev, e)
    \/ prev.status = "resolved" /\ ~OlderRelease(prev, release)

TargetStatus(prev, e, release) ==
    IF ~Exists(prev)
    THEN IF e.ignoreRule THEN "ignored" ELSE "open"
    ELSE IF Reopens(prev, e, release) THEN "open" ELSE prev.status

(* The kind of issue event the error raises; "" raises none.               *)
EventKind(prev, e, release) ==
    IF ~Exists(prev)
    THEN IF e.ignoreRule THEN "" ELSE "new_issue"
    ELSE IF Reopens(prev, e, release) THEN "regression" ELSE ""

(* Variant: the count too comes from the row that was read.                *)
StaleUpsertRow(row, prev, e, release) ==
    LET status == TargetStatus(prev, e, release)
    IN  [row EXCEPT !.count = prev.count + 1,
                    !.status = status,
                    !.resolved = (status = "resolved")]

(* INSERT .. ON CONFLICT DO UPDATE: status and last release come from the  *)
(* row that was read, the count from the row that is there.                *)
UpsertRow(row, prev, e, release) ==
    LET status == TargetStatus(prev, e, release)
        last   == IF release # NoRelease THEN release ELSE prev.lastRelease
    IN  [row EXCEPT !.count = @ + 1,
                    !.status = status,
                    !.resolved = (status = "resolved"),
                    !.lastRelease = IF last # NoRelease THEN last ELSE @]
=============================================================================
