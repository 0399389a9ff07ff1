-------------------------- MODULE IssueIngestProps --------------------------
(***************************************************************************)
(* What store.Ingest promises about issues, and what IssueIngest says of   *)
(* it.  The runs that check each property are listed in README.md.         *)
(***************************************************************************)
EXTENDS IssueIngest

TypeOK ==
    /\ issues \in [Issues -> IssueRow] /\ heap \in [Issues -> IssueRow]
    /\ items \in [Issues -> Nat] /\ errorCount \in [Sessions -> Nat]
    /\ issueLock \in [Issues -> Transactions \cup {NoTx}]
    /\ sessionLock \in [Sessions -> Ingests \cup {NoTx}]
    /\ releaseLock \in [Projects \X Releases -> Ingests \cup {NoTx}]
    /\ envelope \in [Ingests -> Envelopes]
    /\ pc \in [Ingests -> {"session", "release", "select", "upsert", "commit",
                           "publish", "accepted", "lost", "failed"}]
    /\ next \in [Ingests -> Nat \ {0}]
    /\ \A t \in Ingests : pc[t] \in {"select", "upsert"} => next[t] <= Len(Errors(t))
    /\ prev \in [Ingests -> IssueRow]
    /\ inserted \in [Ingests -> [Issues -> Nat]]
    /\ events \in [Ingests -> SUBSET IssueEvent]
    /\ published \in SUBSET IssueEvent
    /\ edits \in 0..MaxEdits

-----------------------------------------------------------------------------
(* Invariants *)

(* The count shown for an issue is the number of its stored errors: the    *)
(* increment is on the stored row, so it survives a stale read, and it is  *)
(* committed with the items or not at all.                                 *)
CountIsItems == \A i \in Issues : issues[i].count = items[i]

(* Every stored error is on its session's bill and on one issue: the two   *)
(* counters are written by different statements of the transaction.        *)
SessionsBillEveryError == Total(errorCount) = Total(items)

(* The boolean of the old API never contradicts the status, whoever wrote  *)
(* the row last and from whatever row it decided (IssueMerge keeps the     *)
(* first half only).                                                       *)
ResolvedFlagAgrees ==
    \A i \in Issues : (issues[i].status = "resolved") <=> issues[i].resolved

(* A notification is about an error that is in the database: events leave  *)
(* only after the commit.                                                  *)
AnnouncedIsStored ==
    \A event \in published :
        Exists(issues[event.issue]) /\ event.count <= issues[event.issue].count

(* A group is announced as new once.  Holds while the envelopes carry the  *)
(* same release, because the upsert of the release's row makes them queue. *)
NewIssueOnce ==
    \A i \in Issues :
        Cardinality({event \in published : event.issue = i /\ event.kind = "new_issue"}) <= 1

(* A snoozed issue has not reached its threshold: the error that reaches   *)
(* it wakes it.                                                            *)
SnoozeEndsAtThreshold ==
    \A i \in Issues :
        issues[i].status = "snoozed" /\ issues[i].snoozeThreshold > 0 =>
            issues[i].count < issues[i].snoozeStart + issues[i].snoozeThreshold

-----------------------------------------------------------------------------
(* Action properties *)

(* Errors of the envelope of t that belong to i.                           *)
ErrorsOf(t, i) == Cardinality({k \in 1..Len(Errors(t)) : Errors(t)[k].issue = i})

(* "A batch either lands whole or not at all": what becomes visible in one *)
(* step is every error of one envelope, in its items and in its session's  *)
(* counter.                                                                *)
LandsWhole ==
    [][ <<items, errorCount>>' # <<items, errorCount>> =>
          \E t \in Ingests :
             /\ Running(t) /\ Landed(t)'
             /\ \A i \in Issues : items'[i] = items[i] + ErrorsOf(t, i)
             /\ errorCount' = [errorCount EXCEPT ![envelope[t].session] =
                                                     @ + Len(Errors(t))] ]_vars

(* An error does not bring an ignored issue back: it is counted and that   *)
(* is all.                                                                 *)
IgnoredStaysIgnored ==
    [][ \A i \in Issues :
          issues[i].status = "ignored" /\ items'[i] > items[i] =>
              issues'[i].status = "ignored" ]_vars

(* An error of an older release does not reopen an issue resolved in a     *)
(* newer one.                                                              *)
OlderReleaseNeverReopens ==
    [][ \A t \in Ingests, i \in Issues :
          /\ Running(t) /\ Landed(t)'
          /\ issues[i].status = "resolved"
          /\ OlderRelease(issues[i], envelope[t].release)
          => issues'[i].status = "resolved" ]_vars

-----------------------------------------------------------------------------
(* Refinement *)

Tracker == INSTANCE IssueTracker WITH
    state <- [t \in Ingests |-> IF Running(t) THEN "pending"
                                ELSE IF pc[t] = "publish" THEN "owing"
                                ELSE "answered"],
    owed  <- [t \in Ingests |-> IF pc[t] = "publish" THEN events[t] ELSE {}]

(* The statements of concurrent envelopes add up to envelopes stored one   *)
(* after another: while they carry one release, no decision is made on a   *)
(* row that is stale when it is written.                                   *)
ImplementsTracker == Tracker!Spec

-----------------------------------------------------------------------------
(* Liveness *)

(* Every call returns, deadlocks between envelopes that name the same      *)
(* issues in opposite orders included.                                     *)
EnvelopeAnswered == \A t \in Ingests : <>(pc[t] \in {"accepted", "lost", "failed"})
=============================================================================
