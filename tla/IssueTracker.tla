---------------------------- MODULE IssueTracker ----------------------------
(***************************************************************************)
(* What ingest promises about issues, without its statements: an envelope  *)
(* is judged and stored in one step, error by error in the order it        *)
(* carries them, each against the rows the errors before it left; what     *)
(* that raises is announced afterwards, or lost with the process.          *)
(***************************************************************************)
EXTENDS IssueRules, Sequences

CONSTANTS Ingests, Sessions, Envelopes, InitialIssues, InitialErrorCounts

VARIABLES
    issues, items, errorCount,
    envelope,   \* the envelope of each call
    state,      \* how far each call is: "pending", "owing", "answered"
    owed,       \* the events of a stored envelope, not announced yet
    published   \* the announced ones

vars == <<issues, items, errorCount, envelope, state, owed, published>>

Init ==
    /\ issues \in InitialIssues
    /\ items = [i \in Issues |-> issues[i].count]
    /\ errorCount \in InitialErrorCounts
    /\ envelope \in [Ingests -> Envelopes]
    /\ state = [t \in Ingests |-> "pending"]
    /\ owed = [t \in Ingests |-> {}]
    /\ published = {}

(* The issues and the events after the first n errors of t's envelope.     *)
Replay(t, n) ==
    LET errors  == envelope[t].errors
        release == envelope[t].release
        after[k \in 0..Len(errors)] ==
          IF k = 0 THEN [issues |-> issues, items |-> items, events |-> {}]
          ELSE LET e    == errors[k]
                   row  == after[k-1].issues[e.issue]
                   kind == EventKind(row, e, release)
               IN [issues |-> [after[k-1].issues EXCEPT ![e.issue] =
                                   UpsertRow(row, row, e, release)],
                   items  |-> [after[k-1].items EXCEPT ![e.issue] = @ + 1],
                   events |-> after[k-1].events \cup
                       {[by |-> t, kind |-> w, issue |-> e.issue,
                         count |-> row.count + 1] : w \in {kind} \ {""}}]
    IN after[n]

Land(t) ==
    LET end == Replay(t, Len(envelope[t].errors)) IN
    /\ state[t] = "pending"
    /\ issues' = end.issues
    /\ items' = end.items
    /\ errorCount' = [errorCount EXCEPT ![envelope[t].session] =
                                            @ + Len(envelope[t].errors)]
    /\ owed' = [owed EXCEPT ![t] = end.events]
    /\ state' = [state EXCEPT ![t] = IF end.events = {} THEN "answered" ELSE "owing"]
    /\ UNCHANGED <<envelope, published>>

Refuse(t) ==
    /\ state[t] = "pending"
    /\ state' = [state EXCEPT ![t] = "answered"]
    /\ UNCHANGED <<issues, items, errorCount, envelope, owed, published>>

Settle(t, announced) ==
    /\ state[t] = "owing"
    /\ published' = published \cup announced
    /\ owed' = [owed EXCEPT ![t] = {}]
    /\ state' = [state EXCEPT ![t] = "answered"]
    /\ UNCHANGED <<issues, items, errorCount, envelope>>

Announce(t) == Settle(t, owed[t])
Lose(t)     == Settle(t, {})

Next == \E t \in Ingests : Land(t) \/ Refuse(t) \/ Announce(t) \/ Lose(t)

Spec == Init /\ [][Next]_vars
=============================================================================
