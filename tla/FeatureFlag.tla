---------------------------- MODULE FeatureFlag ----------------------------
(* Feature flags and their evaluation (store/feature_flags.go,                *)
(* server/flag_handlers.go).  The two hashes of a distinct id, SHA-256 of     *)
(* "key:id" and of "key:variant:id" modulo 100, are any two functions into    *)
(* 0..Buckets-1; a filter is any predicate on the properties sent along, so   *)
(* that the operators of matchesFilter are the filters of an instance.        *)
EXTENDS Integers, FiniteSets, SequencesExt

CONSTANTS
  FlagKeys, NoFlag,
  Ids, NoId,            \* distinct ids, and none sent
  Buckets,              \* 100
  Hash, VariantHash,    \* hashDistinctID(key, id) and hashDistinctID(key + ":variant", id)
  FlagFilters,          \* sets of [property, operator, value] a request may carry
  FlagPercents,         \* percentages a request may carry
  FlagVariants          \* variant lists a request may carry
ASSUME FlagAssumption ==
  /\ Buckets \in Nat \ {0} /\ NoId \notin Ids
  /\ Hash \in [FlagKeys \X Ids -> 0..(Buckets - 1)]
  /\ VariantHash \in [FlagKeys \X (Ids \cup {NoId}) -> 0..(Buckets - 1)]
  /\ FlagPercents \subseteq Int
  /\ \A vs \in FlagVariants : vs \in Seq(Range(vs))

VARIABLE flags

Clamp(n) == IF n < 0 THEN 0 ELSE IF n > Buckets THEN Buckets ELSE n

FlagRow(enabled, percent, filters, variants) ==
  [enabled |-> enabled, rollout |-> Clamp(percent), filters |-> filters, variants |-> variants]

\* UNIQUE(project_id, key).
CreateFeatureFlag(k, row) == flags[k] = NoFlag /\ flags' = [flags EXCEPT ![k] = row]
UpdateFeatureFlag(k, row) == flags[k] # NoFlag /\ flags' = [flags EXCEPT ![k] = row]
DeleteFeatureFlag(k) == flags[k] # NoFlag /\ flags' = [flags EXCEPT ![k] = NoFlag]

\* props: property |-> value; a property that was not sent matches no filter.
MatchesFilter(x, id, props) ==
  LET sent == x.property = "distinct_id" \/ x.property \in DOMAIN props
      val == IF x.property = "distinct_id" THEN id ELSE props[x.property]
  IN  sent /\ CASE x.operator = "exact" -> val = x.value
                [] x.operator = "not_exact" -> val # x.value
                [] x.operator = "in" -> val \in x.value
                [] x.operator = "gte" -> val >= x.value
                [] OTHER -> FALSE

TotalOf(vs) == FoldLeft(LAMBDA n, v : n + v.rollout, 0, vs)
UpTo(vs, i) == TotalOf(SubSeq(vs, 1, i))

\* Mutant of VariantOf: the share of the rollout instead of the variants'.
VariantOfRollout(k, row, id) ==
  LET target == (VariantHash[k, id] * TotalOf(row.variants)) \div row.rollout
      under == {i \in DOMAIN row.variants : target < UpTo(row.variants, i)}
  IN  row.variants[IF under = {} THEN Len(row.variants) ELSE Min(under)].key

\* The first variant whose share reaches past the id's place among the shares.
VariantOf(k, row, id) ==
  LET target == (VariantHash[k, id] * TotalOf(row.variants)) \div Buckets
      under == {i \in DOMAIN row.variants : target < UpTo(row.variants, i)}
  IN  row.variants[IF under = {} THEN Len(row.variants) ELSE Min(under)].key

\* What an SDK is told: the value, FALSE when the flag is off for it.
EvaluateFlag(k, row, id, props) ==
  LET place == IF id = NoId THEN 0 ELSE Hash[k, id]
      on == /\ row.enabled
            /\ \A x \in row.filters : MatchesFilter(x, id, props)
            /\ place < row.rollout
  IN  IF ~on THEN "off"
      ELSE IF row.variants # <<>> /\ TotalOf(row.variants) > 0 THEN VariantOf(k, row, id) ELSE "on"

EvaluateProjectFlags(id, props) ==
  [k \in {j \in FlagKeys : flags[j] # NoFlag} |-> EvaluateFlag(k, flags[k], id, props)]

FlagInit == flags = [k \in FlagKeys |-> NoFlag]

\* A request, whose missing fields the handler has filled in.
FlagRequest(k) ==
  \/ \E enabled \in BOOLEAN, p \in FlagPercents, fs \in FlagFilters, vs \in FlagVariants :
       LET row == FlagRow(enabled, p, fs, vs) IN CreateFeatureFlag(k, row) \/ UpdateFeatureFlag(k, row)
  \/ DeleteFeatureFlag(k)
=============================================================================
