------------------------------- MODULE Funnel -------------------------------
(* Conversion funnels (store/funnels.go, server/funnel_handlers.go).          *)
(* CalculateFunnelResults and GetFunnelDropoffs each walk the events of every *)
(* session once; rates, which are quotients of the counts, are left out.      *)
EXTENDS EventLog

CONSTANTS
  FunnelIds, NoFunnel,
  StepLists,            \* step lists a request may carry; an update takes any
  FunnelWindows,        \* conversion windows, 0 for "not given"
  DefaultWindow         \* 86400 s
ASSUME FunnelAssumption ==
  /\ FunnelWindows \subseteq Nat /\ DefaultWindow \in Nat \ {0}
  /\ \A steps \in StepLists : steps \in Seq(Range(steps))

VARIABLE funnels

FunnelRow(steps, w) == [steps |-> steps, window |-> IF w = 0 THEN DefaultWindow ELSE w]

\* A funnel is created with two steps or more ...
CreateFunnel(f, steps, w) ==
  /\ funnels[f] = NoFunnel
  /\ Len(steps) >= 2
  /\ funnels' = [funnels EXCEPT ![f] = FunnelRow(steps, w)]

\* ... and may be left with none by an update.
UpdateFunnel(f, steps, w) ==
  /\ funnels[f] # NoFunnel
  /\ funnels' = [funnels EXCEPT ![f] = FunnelRow(steps, w)]

DeleteFunnel(f) == funnels[f] # NoFunnel /\ funnels' = [funnels EXCEPT ![f] = NoFunnel]

FunnelInit == funnels = [f \in FunnelIds |-> NoFunnel]

FunnelNext ==
  \E f \in FunnelIds :
    \/ \E steps \in StepLists, w \in FunnelWindows : CreateFunnel(f, steps, w) \/ UpdateFunnel(f, steps, w)
    \/ DeleteFunnel(f)

-----------------------------------------------------------------------------
\* The events of a session a funnel looks at.
FunnelEvents(s, f, since) ==
  {i \in items : i.session = s /\ i.type = "event" /\ i.ts >= since /\ i.name \in Range(f.steps)}

\* Mutant of Advance: the window is measured from the step before.
AdvanceSliding(f, w, e) ==
  IF w.reached = Len(f.steps) \/ e.name # f.steps[w.reached + 1] \/ (w.reached > 0 /\ e.ts - w.last > f.window)
  THEN w
  ELSE [reached |-> w.reached + 1, start |-> IF w.reached = 0 THEN e.ts ELSE w.start, last |-> e.ts]

\* An event moves a session to its next step if it has that step's name and,
\* after the first, lies within the window that the first one opened.
Advance(f, w, e) ==
  IF w.reached = Len(f.steps) \/ e.name # f.steps[w.reached + 1] \/ (w.reached > 0 /\ e.ts - w.start > f.window)
  THEN w
  ELSE [reached |-> w.reached + 1, start |-> IF w.reached = 0 THEN e.ts ELSE w.start, last |-> e.ts]

Walk(f, events) ==
  FoldLeft(LAMBDA w, e : Advance(f, w, e), [reached |-> 0, start |-> 0, last |-> 0], events)

\* What the report says when it reads the sessions' events in the orders `o`.
FunnelResults(f, o) ==
  LET At(k) == {s \in Rows : Walk(f, o[s]).reached >= k}
      n == Len(f.steps)
      times == SetToSortSeq({<<Walk(f, o[s]).last - Walk(f, o[s]).start, s>> : s \in At(n)}, LAMBDA a, b : a[1] <= b[1])
  IN  IF n = 0 THEN [entered |-> 0, converted |-> 0, median |-> 0, steps |-> <<>>]
      ELSE [entered |-> Cardinality(At(1)), converted |-> Cardinality(At(n)),
            median |-> IF times = <<>> THEN 0 ELSE times[(Len(times) \div 2) + 1][1],
            steps |-> [k \in 1..n |-> [count |-> Cardinality(At(k)),
                                       dropOff |-> IF k < n THEN Cardinality(At(k)) - Cardinality(At(k + 1)) ELSE 0]]]

\* The sessions that stopped at step k: `limit` of them, in the map's order.
FunnelDropoffs(f, o, k, limit) ==
  LET stopped == {s \in Rows : Walk(f, o[s]).reached = k}
      want == IF Cardinality(stopped) < limit THEN Cardinality(stopped) ELSE limit
  IN  IF k \in 1..(Len(f.steps) - 1) THEN {D \in SUBSET stopped : Cardinality(D) = want} ELSE {{}}

-----------------------------------------------------------------------------
\* A session passes k steps if it has events of their names, one after another,
\* the first of them its first event of step 1 and the last within the window.
Passes(f, q, k) ==
  \E p \in [1..k -> DOMAIN q] :
    /\ \A i \in 1..k : q[p[i]].name = f.steps[i] /\ (i > 1 => p[i - 1] < p[i])
    /\ k > 0 => /\ \A j \in 1..(p[1] - 1) : q[j].name # f.steps[1]
                /\ q[p[k]].ts - q[p[1]].ts <= f.window

\* The walk, which never looks back, finds the longest passage through the
\* funnel, and a step's drop-off count is the number of replays listed for it.
FunnelFollowsPassages ==
  \A id \in FunnelIds, since \in {0, 1} :
    funnels[id] # NoFunnel =>
      LET f == funnels[id]
          read == {o \in [Rows -> UNION {OrdersOf(FunnelEvents(s, f, since)) : s \in Rows}] :
                     \A s \in Rows : Range(o[s]) = FunnelEvents(s, f, since)}
      IN  \A o \in read :
            /\ \A s \in Rows : \A k \in 1..Len(f.steps) : Walk(f, o[s]).reached >= k <=> Passes(f, o[s], k)
            /\ \A k \in 1..(Len(f.steps) - 1) : \A D \in FunnelDropoffs(f, o, k, Cardinality(Rows)) :
                 Cardinality(D) = FunnelResults(f, o).steps[k].dropOff

\* A session that has converted stays converted while funnels are left alone.
\* It does not: an event of the first step that arrives late, from before the
\* conversion, moves the start of the window.
ConversionStays ==
  [][\A id \in FunnelIds, s \in SessionIds :
       LET f == funnels[id] IN
       (f # NoFunnel /\ funnels'[id] = f /\ (\A o \in OrdersOf(FunnelEvents(s, f, 0)) : Walk(f, o).reached = Len(f.steps)))
         => \A o \in OrdersOf(FunnelEvents(s, f, 0))' : Walk(f, o).reached = Len(f.steps)]_<<logVars, funnels>>
=============================================================================
