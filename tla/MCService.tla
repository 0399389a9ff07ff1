----------------------------- MODULE MCService -----------------------------
(* Instances of Service: one survey, two devices of one or two people; one    *)
(* project and two senders; two replicas and two files; two frames.           *)
EXTENDS Service

MCShapes == {[type |-> "event", name |-> "buy"]}
MCSessionOf == [d \in {"phone", "laptop"} |-> IF d = "phone" THEN "s1" ELSE "s2"]

Targeted(server, trigger, delay) == [server |-> server, trigger |-> trigger, delay |-> delay]
MCDrafts ==
  {[active |-> TRUE, kind |-> "nps", targeting |-> Targeted(TRUE, "buy", delay)] : delay \in {0, 1}}
MCChanges == {[active |-> FALSE], [targeting |-> Targeted(TRUE, "buy", 0), kind |-> "csat"],
              [targeting |-> Targeted(TRUE, "", 0)]}

MCFiles == <<2, 3>>
MCMayFail == {<<1, 2>>}
MCLength == [k \in 1..2 |-> k + 1]
=============================================================================
