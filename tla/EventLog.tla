------------------------------ MODULE EventLog ------------------------------
(* What the reports read: the rows ingest stores.  An envelope upserts its    *)
(* session (user_id is replaced, started_at is not) and adds its items.  The  *)
(* time of an item is the client's: envelopes arrive late and out of order.   *)
(* Only the columns the reports use are kept, and one item per envelope.      *)
EXTENDS Naturals, FiniteSets, SequencesExt

CONSTANTS
  SessionIds,
  LogUsers, Anonymous,  \* user_id, and the empty one
  Shapes,               \* [type, name] of the items of an instance
  Today,                \* the instant every report is made; times are 0..Today
  Starts,               \* started_at of new sessions
  MaxItems              \* bound

ASSUME EventLogAssumption ==
  /\ Today \in Nat /\ MaxItems \in Nat /\ Starts \subseteq 0..Today
  /\ Anonymous \notin LogUsers

VARIABLES sessions, items

logVars == <<sessions, items>>

Envelope(s, u, at, its) ==
  /\ Cardinality(items \cup its) <= MaxItems
  /\ sessions' = [sessions EXCEPT ![s] = [user |-> u, started |-> IF @.user = "none" THEN at ELSE @.started]]
  /\ items' = items \cup its

ItemsOf(s) ==
  {{}} \cup {{[session |-> s, type |-> k.type, name |-> k.name, ts |-> t]} : k \in Shapes, t \in 0..Today}

LogInit ==
  /\ sessions = [s \in SessionIds |-> [user |-> "none", started |-> 0]]   \* no row
  /\ items = {}

LogNext ==
  \E s \in SessionIds, u \in LogUsers \cup {Anonymous}, at \in Starts :
    \E its \in ItemsOf(s) : Envelope(s, u, at, its)

Rows == {s \in SessionIds : sessions[s].user # "none"}

\* ORDER BY ts leaves rows of one instant in any order.
OrdersOf(I) ==
  {q \in SetToSeqs(I) : \A i, j \in DOMAIN q : i < j => q[i].ts <= q[j].ts}

\* "Since" of a report over the last `days` (0 or less takes the default).
Since(days) == IF days > Today THEN 0 ELSE Today - days
=============================================================================
