-------------------------- MODULE IssueMergeProps --------------------------
(***************************************************************************)
(* What merging promises.  The row checks of MergeIssue are made on rows   *)
(* it has not locked: what two merges, or a merge and an envelope, do to   *)
(* the same issue is the subject here.                                     *)
(***************************************************************************)
EXTENDS IssueMerge, IssueIngestProps

MergeTypeOK ==
    /\ TypeOK
    /\ mpc \in [Merges -> {"idle", "readTarget", "updateSource", "updateTarget",
                           "moveItems", "merged", "refused"}]
    /\ pair \in [Merges -> Pairs]
    /\ readSource \in [Merges -> IssueRow]

(* A resolved issue has the old API's boolean set.  (The converse fails    *)
(* for the source of a merge, whose boolean stays.)                        *)
ResolvedHasFlag ==
    \A i \in Issues :
        /\ issues[i].status = "resolved" => issues[i].resolved
        /\ issues[i].resolved /\ issues[i].status # "resolved" =>
               issues[i].status = "ignored" /\ issues[i].mergedInto # NoIssue

(* Following merged_into ends at an issue that shows its occurrences: no   *)
(* group of issues is merged away into itself.                             *)
MergeAcyclic ==
    \A S \in (SUBSET Issues) \ {{}} :
        \E i \in S : issues[i].mergedInto \notin S

(* An issue still shown never counts an error it does not have.            *)
NoErrorCountedTwice ==
    \A i \in Issues :
        issues[i].mergedInto = NoIssue => issues[i].count <= items[i]

Merged(m) == mpc[m] = "moveItems" /\ mpc'[m] = "merged"

(* "Merging an already merged source issue must fail".                     *)
MergedOnce ==
    [][ \A m \in Merges : Merged(m) => issues[Source(m)].mergedInto = NoIssue ]_allVars

(* The target's count becomes the sum of the two.                          *)
MergeAddsTheCounts ==
    [][ \A m \in Merges : Merged(m) =>
          issues'[Target(m)].count =
              issues[Target(m)].count + issues[Source(m)].count ]_allVars

(* Every merge returns, whatever envelopes and merges it meets.            *)
MergeAnswered == \A m \in Merges : <>(mpc[m] \in {"merged", "refused"})
=============================================================================
