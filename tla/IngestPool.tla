---------------------------- MODULE IngestPool ----------------------------
(* The connection pool under ingest.  database/sql opens at most Size        *)
(* connections (store/store.go); a caller that finds none free waits without *)
(* a timeout.  Ingest holds one for its transaction and, for every error in  *)
(* the envelope, takes a second one for the source map's row and another for *)
(* the fingerprint rules; the cron evaluator holds one for the rows it reads *)
(* and takes a second one for every monitor it updates.                      *)
(*                                                                           *)
(* Postgres adds one more wait: envelopes of one release queue on its row,   *)
(* each holding its connection.                                              *)
EXTENDS Naturals, FiniteSets

CONSTANTS
  Requests,     \* calls of Ingest
  Evaluators,   \* rounds of the cron evaluator
  Releases, NoRelease,
  ReleaseOf,    \* the release an envelope names, or NoRelease
  Work,         \* errors in the envelope, monitors to update
  Size          \* SetMaxOpenConns

Users == Requests \cup Evaluators

ASSUME PoolAssumption ==
  /\ IsFiniteSet(Requests)
  /\ IsFiniteSet(Evaluators)
  /\ Requests \cap Evaluators = {}
  /\ NoRelease \notin Releases
  /\ ReleaseOf \in [Requests -> Releases \cup {NoRelease}]
  /\ Work \in [Users -> Nat]
  /\ Size \in Nat \ {0}

VARIABLES
  pc,       \* where each user of the pool is
  left,     \* errors or monitors still to do
  holding,  \* users whose transaction or open rows hold a connection
  second,   \* users that hold a second one
  locked    \* releases whose row some transaction has locked

vars == <<pc, left, holding, second, locked>>

Free == Size - (Cardinality(holding) + Cardinality(second))

Init ==
  /\ pc = [u \in Users |-> "idle"]
  /\ left = Work
  /\ holding = {}
  /\ second = {}
  /\ locked = {}

Goto(u, label) == pc' = [pc EXCEPT ![u] = label]

-----------------------------------------------------------------------------
(* Ingest.                                                                   *)

\* The project's privacy settings, on a connection returned at once.
ReadSettings(r) ==
  /\ pc[r] = "idle"
  /\ Free > 0
  /\ Goto(r, "begin")
  /\ UNCHANGED <<left, holding, second, locked>>

\* Mutant of Begin: SetMaxOpenConns is not called.
BeginAnyway(r) ==
  /\ pc[r] = "begin"
  /\ holding' = holding \cup {r}
  /\ Goto(r, "release")
  /\ UNCHANGED <<left, second, locked>>

Begin(r) ==
  /\ pc[r] = "begin"
  /\ Free > 0
  /\ holding' = holding \cup {r}
  /\ Goto(r, "release")
  /\ UNCHANGED <<left, second, locked>>

\* The upsert of the release's row waits for the transaction that has locked it.
UpsertRelease(r) ==
  /\ pc[r] = "release"
  /\ ReleaseOf[r] \notin locked
  /\ locked' = locked \cup ({ReleaseOf[r]} \ {NoRelease})
  /\ Goto(r, "item")
  /\ UNCHANGED <<left, holding, second>>

\* Resolve finds the map cached, or looks for its row; there may be none.
ResolveFrames(r) ==
  /\ pc[r] = "item"
  /\ left[r] > 0
  /\ \/ Goto(r, "rules")
     \/ Free > 0 /\ \E to \in {"get", "rules"} : Goto(r, to)
  /\ UNCHANGED <<left, holding, second, locked>>

\* External: the object store answers.
GetMap(r) ==
  /\ pc[r] = "get"
  /\ Goto(r, "rules")
  /\ UNCHANGED <<left, holding, second, locked>>

QueryRules(r) ==
  /\ pc[r] = "rules"
  /\ Free > 0
  /\ second' = second \cup {r}
  /\ Goto(r, "rows")
  /\ UNCHANGED <<left, holding, locked>>

\* Mutant of CloseRules: rows.Close is forgotten.
LeaveRulesOpen(r) ==
  /\ pc[r] = "rows"
  /\ left' = [left EXCEPT ![r] = @ - 1]
  /\ Goto(r, "item")
  /\ UNCHANGED <<holding, second, locked>>

\* The rules are read and their connection returned; the error is stored.
CloseRules(r) ==
  /\ pc[r] = "rows"
  /\ second' = second \ {r}
  /\ left' = [left EXCEPT ![r] = @ - 1]
  /\ Goto(r, "item")
  /\ UNCHANGED <<holding, locked>>

Release(r) ==
  /\ holding' = holding \ {r}
  /\ locked' = locked \ {ReleaseOf[r]}

Commit(r) ==
  /\ pc[r] = "item"
  /\ left[r] = 0
  /\ Release(r)
  /\ Goto(r, "done")
  /\ UNCHANGED <<left, second>>

\* Mutant of Fail: no deferred rollback.
FailOpen(r) ==
  /\ pc[r] \in {"release", "item"}
  /\ Goto(r, "failed")
  /\ UNCHANGED <<left, holding, second, locked>>

\* A statement of the transaction fails: the deferred rollback runs.
Fail(r) ==
  /\ pc[r] = "item"
  /\ Release(r)
  /\ Goto(r, "failed")
  /\ UNCHANGED <<left, second>>

-----------------------------------------------------------------------------
(* EvaluateCronDeadlines.                                                    *)

QueryMonitors(e) ==
  /\ pc[e] = "idle"
  /\ Free > 0
  /\ holding' = holding \cup {e}
  /\ Goto(e, "scan")
  /\ UNCHANGED <<left, second, locked>>

ExecUpdate(e) ==
  /\ pc[e] = "scan"
  /\ left[e] > 0
  /\ Free > 0
  /\ left' = [left EXCEPT ![e] = @ - 1]
  /\ UNCHANGED <<pc, holding, second, locked>>

CloseMonitors(e) ==
  /\ pc[e] = "scan"
  /\ left[e] = 0
  /\ holding' = holding \ {e}
  /\ Goto(e, "done")
  /\ UNCHANGED <<left, second, locked>>

-----------------------------------------------------------------------------
GoOn(r) ==
  \/ ReadSettings(r) \/ Begin(r) \/ UpsertRelease(r) \/ ResolveFrames(r)
  \/ GetMap(r) \/ QueryRules(r) \/ CloseRules(r) \/ Commit(r)

Evaluate(e) == QueryMonitors(e) \/ ExecUpdate(e) \/ CloseMonitors(e)

Next ==
  \/ \E r \in Requests : GoOn(r) \/ Fail(r)
  \/ \E e \in Evaluators : Evaluate(e)

Spec == Init /\ [][Next]_vars

\* A goroutine that can go on does; one that waits for a connection or a row is
\* not enabled.
Fairness ==
  /\ \A r \in Requests : WF_vars(GoOn(r))
  /\ \A e \in Evaluators : WF_vars(Evaluate(e))

FairSpec == Spec /\ Fairness

-----------------------------------------------------------------------------
PoolTypeOK ==
  /\ pc \in [Users -> {"idle", "begin", "release", "item", "get", "rules", "rows", "scan",
                       "done", "failed"}]
  /\ left \in [Users -> Nat]
  /\ second \subseteq holding
  /\ holding \subseteq Users
  /\ locked \subseteq Releases
  /\ Free \in 0..Size

\* Whatever a call did and however it ended, it has given back its connections,
\* and the release it locked can be upserted again.
ReturnedHoldsNothing ==
  /\ \A u \in holding : pc[u] \notin {"idle", "begin", "done", "failed"}
  /\ \A u \in second : pc[u] = "rows"
  /\ \A v \in locked : \E r \in holding : ReleaseOf[r] = v

\* Every envelope is answered and every round of the evaluator ends.
AllAnswered == \A u \in Users : (u \in holding) ~> (u \notin holding)

\* No connection is held while the object store is asked.
NoConnectionDuringGet == \A r \in Requests : pc[r] = "get" => r \notin holding

=============================================================================
