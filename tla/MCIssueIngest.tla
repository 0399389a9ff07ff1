--------------------------- MODULE MCIssueIngest ---------------------------
(* Small instances of IssueIngest for TLC.                                 *)
EXTENDS IssueIngestProps

CONSTANTS t1, t2, t3, a, b, s1, s2, p

MCProjects == {p}

Error(i, ts)   == [issue |-> i, ts |-> ts, ignoreRule |-> FALSE]
Ignored(i, ts) == [issue |-> i, ts |-> ts, ignoreRule |-> TRUE]
Post(s, release, errors) ==
    [project |-> p, session |-> s, release |-> release, errors |-> errors]

(* Rows an earlier history may have left.                                  *)
Row(status) ==
    [NoRow EXCEPT !.status = status, !.resolved = (status = "resolved"),
                  !.count = 1, !.lastRelease = 1]
Resolved(release) == [Row("resolved") EXCEPT !.resolvedInRelease = release]
Snoozed(until, n) == [Row("snoozed") EXCEPT !.snoozeUntil = until,
                                            !.snoozeThreshold = n,
                                            !.snoozeStart = 1]
Rows == {NoRow, Row("open"), Row("ignored"), Resolved(1), Resolved(2),
         Snoozed(0, 2), Snoozed(2, 0)}

AnyTables   == [Issues -> Rows]
OneFound    == {[i \in Issues |-> IF i = a THEN row ELSE NoRow] : row \in Rows}
Empty       == {[i \in Issues |-> NoRow]}
ErrorCounts == {f \in [Sessions -> 0..2] : f[s2] = 0}

(* One release: sessions shared and not, both issues in both orders, one   *)
(* issue twice, no error at all, a rule that ignores.                      *)
SameRelease ==
    {Post(s1, 1, <<Error(a, 1), Error(a, 2)>>),
     Post(s1, 1, <<Error(a, 1), Error(b, 1)>>),
     Post(s2, 1, <<Error(b, 2), Error(a, 1)>>),
     Post(s2, 1, <<Error(b, 1), Ignored(b, 2)>>),
     Post(s2, 1, <<Ignored(a, 1)>>),
     Post(s1, 1, <<>>)}

(* Releases 1 and 2, and none.                                             *)
MixedReleases ==
    {Post(s1, 1, <<Error(a, 1), Error(b, 2)>>),
     Post(s2, 2, <<Error(b, 1), Error(a, 1)>>),
     Post(s1, 0, <<Error(a, 2)>>),
     Post(s2, 0, <<Ignored(b, 1), Error(a, 1)>>)}

(* The first errors of one issue, in two releases.                         *)
OneEach ==
    {Post(s1, 1, <<Error(a, 1)>>), Post(s2, 2, <<Error(a, 1)>>)}
=============================================================================
