---------------------------- MODULE MCIssueMerge ----------------------------
(* Small instances of IssueMerge for TLC.                                  *)
EXTENDS IssueMergeProps

CONSTANTS t1, t2, m1, m2, a, b, c, s1, s2, p

MCProjects  == {p}
MCProjectOf == [i \in Issues |-> p]

Error(i) == [issue |-> i, ts |-> 1, ignoreRule |-> FALSE]
Post(s, release, errors) ==
    [project |-> p, session |-> s, release |-> release, errors |-> errors]

Seen(status) ==
    [NoRow EXCEPT !.status = status, !.resolved = (status = "resolved"), !.count = 1]

(* All issues seen, one of them open or resolved, or one never seen.       *)
Tables == {[i \in Issues |-> IF i = a THEN row ELSE Seen("open")] :
              row \in {NoRow, Seen("open"), Seen("resolved")}}
ErrorCounts == {f \in [Sessions -> 0..3] : f[s2] = 0}

OneError  == {Post(s1, 1, <<Error(a)>>), Post(s2, 1, <<Error(b)>>)}
BothWays  == {Post(s1, 1, <<Error(a), Error(b)>>), Post(s2, 0, <<Error(b), Error(a)>>)}
=============================================================================
