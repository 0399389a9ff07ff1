---------------------------- MODULE MCScheduler ----------------------------
(* Instances of Scheduler: two evaluators and one check-in; one runner, an    *)
(* endpoint that fails once and a second one that is added; one worker, a     *)
(* threshold rule and a spike rule over a metric that changes three times.    *)
EXTENDS Scheduler

MCKinds == {[metric |-> "error_rate", filtered |-> TRUE, op |-> "gt", critical |-> 100, warning |-> 50],
            [metric |-> "error_count", filtered |-> TRUE, op |-> "spike_multiplier", critical |-> 3, warning |-> 0]}
MCWindows == {[errors |-> 0, matching |-> 0, sessions |-> 0], [errors |-> 2, matching |-> 2, sessions |-> 2],
              [errors |-> 8, matching |-> 6, sessions |-> 4]}
MCPasts == {[day7 |-> 0, day14 |-> 0, day |-> 0, windows |-> 2], [day7 |-> 2, day14 |-> 0, day |-> 9, windows |-> 2]}

\* The metric matters to one part only.
MCInit == SchedInit /\ (part # "metrics" => <<recent, past>> = CHOOSE x \in Windows \X Pasts : TRUE)
MCSpec == MCInit /\ [][SchedNext]_schedVars /\ SchedFairness
=============================================================================
