--------------------------- MODULE IngestLimiter ---------------------------
(* The ingest quota (server/limiter.go and its use in ingest): a bucket of    *)
(* tokens per project, in memory, refilled continuously.  The clock ticks     *)
(* Fine times a second, so that elapsed times are fractions of a second;      *)
(* tokens are counted in units of an item over a minute's ticks, which makes  *)
(* the refill of a tick, limit/60 per second, a whole number.                 *)
EXTENDS Integers, SequencesExt, WallClock

CONSTANTS
  Projects,
  Quotas,         \* values of quota_items_per_minute; 0 for the default
  DefaultLimit,   \* SIGHTPANE_INGEST_RATE; 0 for no limit
  Senders, ItemCounts,
  Minute, Fine,   \* seconds in a minute (60), ticks in a second
  MaxRequests     \* bound

ASSUME LimiterAssumption ==
  /\ Quotas \subseteq Nat /\ IsFiniteSet(Quotas) /\ DefaultLimit \in Nat /\ ItemCounts \subseteq Nat
  /\ Minute \in Nat \ {0} /\ Fine \in Nat \ {0} /\ MaxRequests \in Nat

VARIABLES
  quota,      \* project |-> quota_items_per_minute
  buckets,    \* project |-> [tokens, lastUpdate], NoBucket before its first request
  requests,   \* sender |-> the request under way, with the limit it has read
  served,     \* requests so far
  dropped,    \* project |-> items refused (droppedQuota)
  admitted,   \* history: project |-> instant |-> items let through at it or later
  waits       \* history: sender |-> what it was told to wait for, or NoRequest

limiterVars == <<quota, buckets, requests, served, dropped, admitted, waits>>

NoBucket == [tokens |-> 0, lastUpdate |-> -1]
NoRequest == [project |-> "none"]
Unit == Minute * Fine

LimiterInit ==
  /\ quota = [p \in Projects |-> 0] /\ buckets = [p \in Projects |-> NoBucket]
  /\ requests = [x \in Senders |-> NoRequest] /\ served = 0
  /\ dropped = [p \in Projects |-> 0]
  /\ admitted = [p \in Projects |-> [t \in 0..(Horizon + 1) |-> 0]]
  /\ waits = [x \in Senders |-> NoRequest]

\* The dashboard changes the quota.
UpdateProject(p, q) ==
  /\ quota[p] # q /\ quota' = [quota EXCEPT ![p] = q]
  /\ UNCHANGED <<buckets, requests, served, dropped, admitted, waits>>

\* The project, with its quota, is read before the bucket is locked.
Ingest(x, p, n) ==
  /\ requests[x] = NoRequest /\ served < MaxRequests
  /\ requests' = [requests EXCEPT ![x] =
       [project |-> p, items |-> Max({n, 1}), limit |-> IF quota[p] <= 0 THEN DefaultLimit ELSE quota[p]]]
  /\ served' = served + 1
  /\ UNCHANGED <<quota, buckets, dropped, admitted, waits>>

\* Mutant of Refilled: an idle project saves up more than its limit.
RefilledWithoutCap(b, limit) ==
  IF b = NoBucket THEN limit * Unit ELSE b.tokens + (now - b.lastUpdate) * limit

Refilled(b, limit) ==
  IF b = NoBucket THEN limit * Unit ELSE Min({limit * Unit, b.tokens + (now - b.lastUpdate) * limit})

\* Mutant of RetryAfter: rounded down.
RetryAfterFloor(limit, missing) == Max({1, Min({Minute, missing \div (limit * Fine)})})

\* Whole seconds, rounded up, a minute at most.
RetryAfter(limit, missing) ==
  Max({1, Min({Minute, (missing + limit * Fine - 1) \div (limit * Fine)})})

Answer(x) == requests' = [requests EXCEPT ![x] = NoRequest] /\ UNCHANGED <<quota, served>>

Unlimited(x) ==
  /\ requests[x] # NoRequest /\ requests[x].limit = 0
  /\ Answer(x) /\ UNCHANGED <<buckets, dropped, admitted, waits>>

\* Whoever is let through takes what the others of the project wait for.
Admit(x) ==
  LET r == requests[x]
      tokens == Refilled(buckets[r.project], r.limit)
  IN  /\ r # NoRequest /\ r.limit > 0 /\ tokens >= r.items * Unit
      /\ buckets' = [buckets EXCEPT ![r.project] = [tokens |-> tokens - r.items * Unit, lastUpdate |-> now]]
      /\ admitted' = [admitted EXCEPT ![r.project] =
           [t \in DOMAIN @ |-> @[t] + IF t <= now THEN r.items ELSE 0]]
      /\ waits' = [y \in Senders |-> IF waits[y].project = r.project THEN NoRequest ELSE waits[y]]
      /\ UNCHANGED dropped /\ Answer(x)

\* A refused request takes nothing, and is told when to come back.  One held
\* to another limit, read before the quota changed, refills at another rate.
Refuse(x) ==
  LET r == requests[x]
      tokens == Refilled(buckets[r.project], r.limit)
      missing == r.items * Unit - tokens
  IN  /\ r # NoRequest /\ r.limit > 0 /\ missing > 0
      /\ buckets' = [buckets EXCEPT ![r.project] = [tokens |-> tokens, lastUpdate |-> now]]
      /\ waits' = [y \in Senders |->
           IF y = x THEN [project |-> r.project, items |-> r.items, limit |-> r.limit,
                          until |-> now + RetryAfter(r.limit, missing) * Fine]
           ELSE IF waits[y].project = r.project /\ waits[y].limit # r.limit THEN NoRequest ELSE waits[y]]
      /\ dropped' = [dropped EXCEPT ![r.project] = @ + r.items]
      /\ UNCHANGED admitted /\ Answer(x)

LimiterNext ==
  \/ \E p \in Projects, q \in Quotas : UpdateProject(p, q)
  \/ \E x \in Senders : (\E p \in Projects, n \in ItemCounts : Ingest(x, p, n))
                          \/ Unlimited(x) \/ Admit(x) \/ Refuse(x)

---------------------------------------------------------------------------
\* The quota over time: whatever arrives, a project is let through no more in
\* any span than a full bucket and what the span refills.
AdmittedIn(p, from, to) == admitted[p][from] - admitted[p][to + 1]

QuotaKept ==
  LET most == Max(Quotas \cup {DefaultLimit}) IN
  \A p \in Projects, from, to \in 0..now :
    from <= to => AdmittedIn(p, from, to) * Unit <= most * (Unit + (to - from))

\* Retry-After is long enough: a sender who waits as told is not refused again,
\* if the request fits into its quota, and meanwhile nobody else of the project
\* was let through and nobody was held to another quota.
Waited(x) ==
  LET w == waits[x]
      r == requests[x]
  IN  /\ w # NoRequest /\ r # NoRequest
      /\ r.project = w.project /\ r.items = w.items /\ r.limit = w.limit /\ now >= w.until

RetryIsEnough ==
  [][\A x \in Senders : Waited(x) /\ requests[x].items <= requests[x].limit => ~Refuse(x)]_limiterVars

\* Of a request larger than the quota it is not: it can never pass.
RetryIsEnoughForAll == [][\A x \in Senders : Waited(x) => ~Refuse(x)]_limiterVars
=============================================================================
