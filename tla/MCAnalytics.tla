---------------------------- MODULE MCAnalytics ----------------------------
(* Instances of Analytics: four items over two sessions of two users; one     *)
(* cohort, two requests and two people; one flag, one experiment, two judges. *)
EXTENDS Analytics

\* No report tells one session, or one user, from another.
MCSymmetry == Permutations(SessionIds) \cup Permutations(LogUsers)

MCShapes == {[type |-> "event", name |-> "view"], [type |-> "event", name |-> "buy"]}
MCStepLists == {<<"view", "buy", "view">>, <<>>}
MCLastPeriod == [p \in {"day", "week"} |-> IF p = "day" THEN 2 ELSE 1]
MCPathDefaults == [steps |-> 4, days |-> 14, threshold |-> 1]

MCRules == {[event |-> "pay", op |-> "gte", count |-> 1]}
MCRuleLists == {<<r>> : r \in MCRules} \cup {<<>>}
MCInitials == {<<>>, <<"", "ann", "ann">>}

\* Ids a, b and c fall at the start, the middle and the end of the buckets.
MCHash == [p \in FlagKeys \X Ids |-> CASE p[2] = "a" -> 0 [] p[2] = "b" -> 2 [] OTHER -> 3]
MCVariantHash == [p \in FlagKeys \X (Ids \cup {NoId}) |-> CASE p[2] = "a" -> 1 [] p[2] = "b" -> 3 [] OTHER -> 0]
MCFlagVariants == {<<>>, <<[key |-> "control", rollout |-> 2], [key |-> "green", rollout |-> 2]>>,
                   <<[key |-> "green", rollout |-> 1]>>}
MCFlagFilters == {{}, {[property |-> "distinct_id", operator |-> "not_exact", value |-> "a"]}}
MCExperimentVariants == {<<"control", "green">>}

\* A click on any link of a diagram, with a root and exclusions of its own or
\* without, shows replays of sessions that took that step (GetPathSessions).
ReplaysTookTheStep == SessionsTookTheStep({"", "view"}, {"forward", "reverse"}, {{}, {"buy"}})
=============================================================================
