----------------------------- MODULE Experiment -----------------------------
(* A/B experiments on a feature flag (store/experiments.go,                   *)
(* server/experiment_handlers.go).  Declaring a winner reads the experiment,  *)
(* opens a transaction, updates the experiment's row, reads the flag by       *)
(* another connection of the pool and writes it.  Statistics (p-values,       *)
(* intervals, lift) are left out; who is counted where is not.                *)
EXTENDS FeatureFlag

CONSTANTS
  ExperimentIds, NoExperiment,
  ExperimentVariants,   \* lists of variant keys a request may carry
  Judges,               \* requests that declare a winner
  FlagPool,             \* connections of the pool
  MaxFlagCalls          \* bound: requests that edit a flag or an experiment
ASSUME ExperimentAssumption == FlagPool \in Nat \ {0} /\ MaxFlagCalls \in Nat

VARIABLES
  experiments,  \* [flag, status, winner, variants]
  judge,        \* the winner requests: [pc, exp, winner, key, read]
  rolledOut,    \* per flag the winner last rolled out on it, if nobody has edited it since
  flagCalls

experimentVars == <<flags, experiments, judge, rolledOut, flagCalls>>

Waiting == [pc |-> "idle"]

ExperimentInit ==
  /\ FlagInit
  /\ experiments = [x \in ExperimentIds |-> NoExperiment]
  /\ judge = [j \in Judges |-> Waiting]
  /\ rolledOut = [k \in FlagKeys |-> "none"]
  /\ flagCalls = 0

Counted == flagCalls < MaxFlagCalls /\ flagCalls' = flagCalls + 1

\* The transactions that have updated row x of experiments, or key k of flags,
\* and not committed.
HoldsExperiment(x) == {j \in Judges : judge[j].pc \in {"read", "write", "commit"} /\ judge[j].exp = x}
HoldsFlag(k) == {j \in Judges : judge[j].pc = "commit" /\ judge[j].key = k}
FreeConns == FlagPool - Cardinality({j \in Judges : judge[j].pc \in {"begin", "read", "write", "commit"}})

EditFlag(k) ==
  /\ Counted
  /\ HoldsFlag(k) = {}
  /\ FlagRequest(k)
  /\ rolledOut' = [rolledOut EXCEPT ![k] = "none"]
  /\ UNCHANGED <<experiments, judge>>

\* It runs from the start, with or without a flag of that key.
CreateExperiment(x, k, variants) ==
  /\ Counted
  /\ experiments[x] = NoExperiment
  /\ experiments' = [experiments EXCEPT ![x] = [flag |-> k, status |-> "running", winner |-> "none", variants |-> variants]]
  /\ UNCHANGED <<flags, judge, rolledOut>>

\* Any status, of any other: a concluded experiment can be set running again.
UpdateExperiment(x, status) ==
  /\ Counted
  /\ experiments[x] # NoExperiment /\ HoldsExperiment(x) = {}
  /\ experiments' = [experiments EXCEPT ![x].status = status]
  /\ UNCHANGED <<flags, judge, rolledOut>>

DeleteExperiment(x) ==
  /\ Counted
  /\ experiments[x] # NoExperiment /\ HoldsExperiment(x) = {}
  /\ experiments' = [experiments EXCEPT ![x] = NoExperiment]
  /\ UNCHANGED <<flags, judge, rolledOut>>

-----------------------------------------------------------------------------
(* declareExperimentWinner.  Nothing requires the winner to be a variant.     *)

DeclareWinner(j, x, winner) ==
  /\ Counted
  /\ judge[j] = Waiting
  /\ experiments[x] # NoExperiment /\ FreeConns > 0
  /\ judge' = [judge EXCEPT ![j] = [pc |-> "open", exp |-> x, winner |-> winner, key |-> experiments[x].flag, read |-> NoFlag]]
  /\ UNCHANGED <<flags, experiments, rolledOut>>

At(j, from, to) == judge[j].pc = from /\ judge' = [judge EXCEPT ![j].pc = to]

OpenConclusion(j) ==
  /\ FreeConns > 0
  /\ At(j, "open", "begin")
  /\ UNCHANGED <<flags, experiments, rolledOut, flagCalls>>

\* UPDATE experiments: the transaction keeps the row until it commits.
ConcludeExperiment(j) ==
  /\ At(j, "begin", "read")
  /\ HoldsExperiment(judge[j].exp) = {}
  /\ UNCHANGED <<flags, experiments, rolledOut, flagCalls>>

\* GetFeatureFlag asks the pool, not the transaction; that it failed is taken
\* for a flag that does not exist.
ReadLinkedFlag(j) ==
  /\ judge[j].pc = "read" /\ FreeConns > 0
  /\ \E read \in {flags[judge[j].key], NoFlag} :
       judge' = [judge EXCEPT ![j].pc = "write", ![j].read = read]
  /\ UNCHANGED <<flags, experiments, rolledOut, flagCalls>>

\* Mutant of WinnerTakesAll: the losers keep their shares.
WinnerOnTop(variants, winner) ==
  [i \in DOMAIN variants |-> [key |-> variants[i].key, rollout |-> IF variants[i].key = winner THEN Buckets ELSE variants[i].rollout]]

WinnerTakesAll(variants, winner) ==
  [i \in DOMAIN variants |-> [key |-> variants[i].key, rollout |-> IF variants[i].key = winner THEN Buckets ELSE 0]]

\* UPDATE feature_flags.
RollOutWinner(j) ==
  /\ At(j, "write", "commit")
  /\ HoldsFlag(judge[j].key) = {}
  /\ UNCHANGED <<flags, experiments, rolledOut, flagCalls>>

\* What the two statements wrote.  The variants are those read: whoever has
\* edited them since is overwritten.  The filters stay.
CommitConclusion(j) ==
  LET k == judge[j].key
      x == judge[j].exp
      winner == judge[j].winner
      read == judge[j].read
      variants == IF read = NoFlag THEN flags[k].variants ELSE WinnerTakesAll(read.variants, winner)
  IN  /\ judge[j].pc = "commit"
      /\ experiments' = IF experiments[x] = NoExperiment THEN experiments
                        ELSE [experiments EXCEPT ![x].status = "concluded", ![x].winner = winner]
      /\ flags' = IF flags[k] = NoFlag THEN flags
                  ELSE [flags EXCEPT ![k] = FlagRow(TRUE, Buckets, @.filters, variants)]
      /\ rolledOut' = [rolledOut EXCEPT ![k] =
           IF NoFlag \notin {flags[k], read} /\ \E i \in DOMAIN read.variants : read.variants[i].key = winner
           THEN winner ELSE "none"]
      /\ judge' = [judge EXCEPT ![j] = Waiting]
      /\ UNCHANGED flagCalls

\* A statement fails and the deferred rollback runs.
ConclusionFails(j) ==
  /\ judge[j].pc \in {"begin", "write", "commit"}
  /\ judge' = [judge EXCEPT ![j] = Waiting]
  /\ UNCHANGED <<flags, experiments, rolledOut, flagCalls>>

JudgeStep(j) ==
  OpenConclusion(j) \/ ConcludeExperiment(j) \/ ReadLinkedFlag(j) \/ RollOutWinner(j) \/ CommitConclusion(j)

ExperimentNext ==
  \/ \E k \in FlagKeys : EditFlag(k)
  \/ \E x \in ExperimentIds :
       \/ \E k \in FlagKeys, vs \in ExperimentVariants : CreateExperiment(x, k, vs)
       \/ \E status \in {"draft", "running", "concluded"} : UpdateExperiment(x, status)
       \/ DeleteExperiment(x)
       \/ \E j \in Judges, w \in UNION {Range(vs) : vs \in ExperimentVariants} : DeclareWinner(j, x, w)
  \/ \E j \in Judges : JudgeStep(j) \/ ConclusionFails(j)

-----------------------------------------------------------------------------
\* CalculateExperimentResults: where each of `participants` is counted.  The
\* variant is evaluated anew, with no properties, under the flag as it is now;
\* who is off, or has a variant the experiment does not know, is the control's.
CountedAs(e, id) ==
  LET mock == FlagRow(TRUE, Buckets, {}, [i \in DOMAIN e.variants |-> [key |-> e.variants[i], rollout |-> Buckets \div Len(e.variants)]])
      row == IF flags[e.flag] = NoFlag THEN mock ELSE flags[e.flag]
      value == EvaluateFlag(e.flag, row, id, <<>>)
  IN  IF value \in Range(e.variants) THEN value ELSE e.variants[1]

ExperimentResults(e, participants, converted) ==
  [v \in Range(e.variants) |->
     [participants |-> Cardinality({id \in participants : CountedAs(e, id) = v}),
      conversions |-> Cardinality({id \in participants \cap converted : CountedAs(e, id) = v})]]

\* Raising the percentage of an enabled flag, and nothing else, takes the flag
\* from nobody and moves nobody to another variant.
RaisingKeepsVariants ==
  [][\A k \in FlagKeys :
       LET old == flags[k] new == flags'[k] IN
       (old # NoFlag /\ new # NoFlag /\ new = [old EXCEPT !.rollout = new.rollout] /\ new.rollout > old.rollout)
         => \A id \in Ids \cup {NoId} :
              EvaluateFlag(k, old, id, <<>>) # "off" => EvaluateFlag(k, new, id, <<>>) = EvaluateFlag(k, old, id, <<>>)]_experimentVars

\* Once a winner has been rolled out, everybody the filters let through is
\* served the winner, until somebody edits the flag.
WinnerIsServed ==
  \A k \in FlagKeys : rolledOut[k] # "none" =>
    \A id \in Ids \cup {NoId} :
      (\A x \in flags[k].filters : MatchesFilter(x, id, <<>>)) => EvaluateFlag(k, flags[k], id, <<>>) = rolledOut[k]

\* Every declaration of a winner is answered.  With no more connections than
\* declarations at once, each may hold one and wait for another.
WinnersAreAnswered == \A j \in Judges : (judge[j] # Waiting) ~> (judge[j] = Waiting)

\* What an experiment's page says of its participants does not change when its
\* winner is rolled out.  It does: everybody is counted as the winner's.
ConclusionKeepsResults ==
  [][\A j \in Judges, x \in ExperimentIds :
       (judge[j] # Waiting /\ experiments[x] # NoExperiment /\ experiments'[x] = [experiments[x] EXCEPT !.status = "concluded", !.winner = judge[j].winner])
         => ExperimentResults(experiments[x], Ids, {})' = ExperimentResults(experiments[x], Ids, {})]_experimentVars
=============================================================================
