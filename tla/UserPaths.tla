----------------------------- MODULE UserPaths -----------------------------
(* Journey flows (store/paths.go, server/path_handlers.go): the diagram of    *)
(* CalculateUserPaths, and the sessions GetPathSessions lists for one of its  *)
(* links.  The queries are modelled as their chains of common table           *)
(* expressions; sorting for display is left out.                              *)
EXTENDS EventLog

CONSTANT PathDefaults   \* [steps, days, threshold]: what 0 stands for
ASSUME PathAssumption == PathDefaults.steps \in 1..5 /\ PathDefaults.days \in Nat

\* The route of a navigation and the type of an error are abstracted to one each.
EventName(i) ==
  CASE i.type = "event" -> i.name
    [] i.type = "breadcrumb" /\ i.name = "navigation" -> "route"
    [] i.type = "error" -> "error"
    [] OTHER -> ""

\* The request, its defaults filled in.
PathOptions(root, direction, limit, days, exclude, threshold) ==
  [root |-> root, direction |-> IF direction = "reverse" THEN "reverse" ELSE "forward",
   limit |-> IF limit \in 1..5 THEN limit ELSE PathDefaults.steps,
   since |-> Since(IF days > 0 THEN days ELSE PathDefaults.days),
   exclude |-> exclude,
   threshold |-> IF threshold > 0 THEN threshold ELSE PathDefaults.threshold]

FilteredEvents(s, since, exclude) ==
  {i \in items : i.session = s /\ i.ts >= since /\ EventName(i) \notin exclude \cup {""}}

\* A forward flow starts at the first root event of the session and a reverse
\* one ends at the last; a session without one is left out.
AnchoredEvents(s, o) ==
  LET all == FilteredEvents(s, o.since, o.exclude)
      roots == {i.ts : i \in {j \in all : EventName(j) = o.root}}
  IN  CASE o.root = "" -> all
        [] o.root # "" /\ roots = {} -> {}
        [] o.root # "" /\ roots # {} /\ o.direction = "forward" -> {i \in all : i.ts >= Min(roots)}
        [] OTHER -> {i \in all : i.ts <= Max(roots)}

\* Mutant of Windowed: one row too few.
WindowedShort(q, o) ==
  IF o.root = "" \/ o.direction = "forward"
  THEN [k \in {j - 1 : j \in {i \in DOMAIN q : i - 1 < o.limit}} |-> EventName(q[k + 1])]
  ELSE [k \in {o.limit - (Len(q) - j) : j \in {i \in DOMAIN q : Len(q) - i <= o.limit}}
          |-> EventName(q[k - o.limit + Len(q)])]

\* The steps of a session whose anchored events come in the order q, by index;
\* a reverse flow counts them back from its last event, which is step `limit`.
Windowed(q, o) ==
  IF o.root = "" \/ o.direction = "forward"
  THEN [k \in {j - 1 : j \in {i \in DOMAIN q : i - 1 <= o.limit}} |-> EventName(q[k + 1])]
  ELSE [k \in {o.limit - (Len(q) - j) : j \in {i \in DOMAIN q : Len(q) - i <= o.limit}}
          |-> EventName(q[k - o.limit + Len(q)])]

\* LEAD over the window: a step and the next, or the exit.
Consecutive(q, o) ==
  LET w == Windowed(q, o) IN
  {[step |-> k, source |-> w[k], target |-> IF k + 1 \in DOMAIN w THEN w[k + 1] ELSE "Exit"] :
     k \in {j \in DOMAIN w : j < o.limit}}

\* The rows of the query, `read` being the order each session was read in.
Traversing(l, read, o) == {s \in DOMAIN read : l \in Consecutive(read[s], o)}
LinkRows(read, o) == UNION {Consecutive(read[s], o) : s \in DOMAIN read}

\* The diagram.  A node counts the rows it is the source of and the rows it is
\* the target of; a link below the threshold is dropped, unless it is an exit.
CalculateUserPaths(read, o) ==
  LET Count(l) == Cardinality(Traversing(l, read, o))
      rows == LinkRows(read, o)
      total == MapThenSumSet(Count, {l \in rows : l.step = 0})
      share == (total * o.threshold) \div 100
      least == IF share < 1 THEN 1 ELSE share
      kept == {l \in rows : Count(l) >= least \/ l.target = "Exit"}
      nodes == {<<l.step, l.source>> : l \in kept} \cup {<<l.step + 1, l.target>> : l \in kept}
  IN  [links |-> {<<l, Count(l)>> : l \in kept},
       nodes |-> {<<n, MapThenSumSet(Count, {l \in rows : <<l.step, l.source>> = n})
                       + MapThenSumSet(Count, {l \in rows : <<l.step + 1, l.target>> = n})>> : n \in nodes}]

\* The sessions a link stands for in the list: counted from the session's first
\* event, whatever the diagram's root, direction and exclusions were, and any
\* session that has the source when the target is "Exit".
Took(read, l) ==
  {s \in DOMAIN read :
     /\ l.step + 1 \in DOMAIN read[s]
     /\ EventName(read[s][l.step + 1]) = l.source
     /\ l.target = "Exit" \/ (l.step + 2 \in DOMAIN read[s] /\ EventName(read[s][l.step + 2]) = l.target)}

ListLength(limit) == IF limit \in 1..100 THEN limit ELSE 50

\* The answers SELECT DISTINCT .. LIMIT may give: all of them, or as many as the
\* list is long.  `read` is the order this query read each session in: it is a
\* request of its own, and need not find rows of one instant as the diagram did.
GetPathSessions(read, l, limit) ==
  LET took == Took(read, l) IN
  {S \in SUBSET took : IF Cardinality(took) <= ListLength(limit) THEN S = took
                       ELSE Cardinality(S) = ListLength(limit)}

-----------------------------------------------------------------------------
ReadingsOf(E(_)) ==
  {r \in [Rows -> UNION {OrdersOf(E(s)) : s \in Rows}] : \A s \in Rows : Range(r[s]) = E(s)}

\* Sessions with two events of one instant.
Tied(E(_)) == {s \in Rows : \E i, j \in E(s) : i # j /\ i.ts = j.ts}

\* In a plain diagram (no root event, nothing excluded) a link that is not an
\* exit counts the sessions whose replays a click on it lists, up to the last
\* step, where the diagram's window ends and the list's does not.  The two are
\* separate queries over the same items: they may differ about a session with
\* two events of one instant, and the list may stop at its length.
LinkCountsItsSessions ==
  \A limit \in {1, 2} :
    LET o == PathOptions("", "forward", limit, Today, {}, 1)
        Events(s) == FilteredEvents(s, o.since, {})
        readings == ReadingsOf(Events) IN
    \A read \in readings :
      /\ \A row \in CalculateUserPaths(read, o).links :
           LET counted == Traversing(row[1], read, o) IN
           row[1].target # "Exit" =>
             \A again \in readings, most \in {0, 1} :
               \A listed \in GetPathSessions(again, row[1], most) :
                 /\ row[2] = Cardinality(counted)
                 /\ listed \subseteq counted \cup Tied(Events)
                 /\ Cardinality(listed) = ListLength(most) \/ counted \subseteq listed \cup Tied(Events)
      /\ \A l \in LinkRows(read, o) : l.target = "Exit" =>
           \A s \in Traversing(l, read, o) : Len(read[s]) = l.step + 1

\* What a click on a link shows: replays of sessions that took that step.  It
\* does not hold of an exit, nor of a diagram with a root, a direction or an
\* exclusion of its own.
SessionsTookTheStep(roots, directions, exclusions) ==
  \A root \in roots, direction \in directions, exclude \in exclusions :
    LET o == PathOptions(root, direction, 2, Today, exclude, 1) IN
    \A read \in ReadingsOf(LAMBDA s : AnchoredEvents(s, o)),
       all \in ReadingsOf(LAMBDA s : FilteredEvents(s, o.since, {})) :
      \A row \in CalculateUserPaths(read, o).links :
        \A listed \in GetPathSessions(all, row[1], 0) : listed \subseteq Traversing(row[1], read, o)
=============================================================================
