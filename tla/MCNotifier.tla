---------------------------- MODULE MCNotifier ----------------------------
(* Instances of Notifier: one issue announced as new and twice as regressed,  *)
(* a rule with two channels, a rate rule.  The rule "new" is left out of the  *)
(* listed instance: there an event of its kind finds no rule.                 *)
EXTENDS Notifier, TLC

CONSTANTS n1, n2, x1, x2, c1, c2, new, back, spike

E(k, kind, x) == [id |-> k, kind |-> kind, issue |-> x]

MCEvents == {E(1, "new_issue", x1), E(2, "regression", x1), E(3, "regression", x1)}
MCKindOf == [r \in Rules |-> IF r = new THEN "new_issue"
                             ELSE IF r = back THEN "regression" ELSE "rate_spike"]
MCChannelsOf == [r \in Rules |-> IF r = new THEN <<c1>> ELSE IF r = back THEN <<c1, c2>> ELSE <<c2>>]
=============================================================================
