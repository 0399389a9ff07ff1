------------------------------- MODULE Cohort -------------------------------
(* Behavioural cohorts (store/cohorts.go, server/cohort_handlers.go).  A      *)
(* refresh reads the cohort, evaluates each rule by a query of its own, and   *)
(* then replaces the members in one transaction: DELETE, an INSERT per user   *)
(* in map order ON CONFLICT DO NOTHING, UPDATE of the count.  Refreshes of    *)
(* one cohort are not serialised.                                             *)
(*                                                                            *)
(* External: Postgres at READ COMMITTED.  A statement sees what was committed *)
(* when it began; it waits for a row, or a key, that another transaction has  *)
(* written, and of two that wait for each other one is aborted.               *)
EXTENDS Naturals, FiniteSets, Sequences

CONSTANTS
  CohortIds, NoCohort, Gone,   \* an id not given out yet, and one whose row was deleted
  People,               \* user ids
  Callers,              \* requests
  Rules,                \* [event, op, count]
  RuleLists, Initials,  \* rule lists and initial_members a request may carry
  MostSeen,             \* bound: rows a rule's query counts for a user
  MaxCohortCalls        \* bound: requests that write

CohortRow == [static : BOOLEAN, rules : RuleLists, count : Nat, calculated : BOOLEAN]

ASSUME CohortAssumption ==
  /\ MostSeen \in Nat /\ MaxCohortCalls \in Nat
  /\ \A rs \in RuleLists : rs \in Seq(Rules)
  /\ \A initial \in Initials : Len(initial) \in Nat
  /\ IsFiniteSet(People)
  /\ NoCohort # Gone /\ NoCohort \notin CohortRow /\ Gone \notin CohortRow

VARIABLES
  cohorts,   \* committed rows of cohorts, CohortRow
  members,   \* committed rows of cohort_members
  seen,      \* rows in the window that a rule's query counts, by person and event
  caller,    \* the requests: [pc, id, todo, matched, targets, left, alone]
  deleted, inserted,  \* rows a transaction has deleted and inserted
  cohortCalls

cohortVars == <<cohorts, members, seen, caller, deleted, inserted, cohortCalls>>

Idle == [pc |-> "idle"]
Finish(c) == caller' = [caller EXCEPT ![c] = Idle]

CohortInit ==
  /\ cohorts = [k \in CohortIds |-> NoCohort]
  /\ members = [k \in CohortIds |-> {}]
  /\ seen = [p \in People |-> [e \in {r.event : r \in Rules} |-> 0]]
  /\ caller = [c \in Callers |-> Idle]
  /\ deleted = [c \in Callers |-> {}]
  /\ inserted = [c \in Callers |-> {}]
  /\ cohortCalls = 0

\* External: people come back, and what they did leaves the window.
Behave(p, e) ==
  /\ \E n \in 0..MostSeen : seen' = [seen EXCEPT ![p][e] = n]
  /\ UNCHANGED <<cohorts, members, caller, deleted, inserted, cohortCalls>>

Exists(k) == cohorts[k] \notin {NoCohort, Gone}

EvalCount(actual, op, target) ==
  CASE op = "gt" -> actual > target
    [] op = "lte" -> actual <= target
    [] op = "lt" -> actual < target
    [] op = "eq" -> actual = target
    [] OTHER -> actual >= target

\* A person with no row at all is in no group of the query.
RuleUsers(r) == {p \in People : seen[p][r.event] > 0 /\ EvalCount(seen[p][r.event], r.op, r.count)}

-----------------------------------------------------------------------------
(* The requests.                                                             *)

Accept == cohortCalls < MaxCohortCalls /\ cohortCalls' = cohortCalls + 1
RefreshOf(c, k) == caller' = [caller EXCEPT ![c] = [pc |-> "read", id |-> k]]

\* The row and its initial members, some of them empty or twice, in one
\* transaction; a dynamic cohort with rules is then refreshed.
CreateCohort(c, k, static, rules, initial) ==
  /\ Accept
  /\ caller[c] = Idle /\ cohorts[k] = NoCohort
  /\ cohorts' = [cohorts EXCEPT ![k] = [static |-> static, rules |-> rules, count |-> Len(initial), calculated |-> FALSE]]
  /\ members' = [members EXCEPT ![k] = IF static THEN {initial[i] : i \in DOMAIN initial} \ {""} ELSE {}]
  /\ IF static \/ rules = <<>> THEN UNCHANGED caller ELSE RefreshOf(c, k)
  /\ UNCHANGED <<seen, deleted, inserted>>

\* A refresh that has updated the row and not committed holds it.
RowLocked(k) == \E c \in Callers : caller[c].pc = "commit" /\ caller[c].id = k

UpdateCohort(c, k, rules) ==
  /\ Accept
  /\ caller[c] = Idle /\ Exists(k) /\ ~RowLocked(k)
  /\ cohorts' = [cohorts EXCEPT ![k].rules = rules]
  /\ IF cohorts[k].static THEN UNCHANGED caller ELSE RefreshOf(c, k)
  /\ UNCHANGED <<members, seen, deleted, inserted>>

\* The foreign key of a member that is being inserted holds the row too.
DeleteCohort(c, k) ==
  /\ Accept
  /\ caller[c] = Idle /\ Exists(k) /\ ~RowLocked(k)
  /\ \A d \in Callers : caller[d].pc = "insert" /\ caller[d].id = k => inserted[d] = {} /\ deleted[d] = {}
  /\ cohorts' = [cohorts EXCEPT ![k] = Gone]
  /\ members' = [members EXCEPT ![k] = {}]
  /\ UNCHANGED <<seen, caller, deleted, inserted>>

RefreshCohort(c, k) ==
  /\ Accept
  /\ caller[c] = Idle /\ Exists(k)
  /\ RefreshOf(c, k)
  /\ UNCHANGED <<cohorts, members, seen, deleted, inserted>>

-----------------------------------------------------------------------------
(* RefreshCohortMembers, a statement at a time.                              *)

RefreshRead(c) ==
  /\ caller[c].pc = "read"
  /\ LET k == caller[c].id IN
     IF ~Exists(k) \/ cohorts[k].static \/ cohorts[k].rules = <<>> THEN Finish(c)
     ELSE caller' = [caller EXCEPT ![c] = [pc |-> "rules", id |-> k, todo |-> cohorts[k].rules,
                                           matched |-> People]]
  /\ UNCHANGED <<cohorts, members, seen, deleted, inserted, cohortCalls>>

\* The users that meet every rule.
RefreshRule(c) ==
  /\ caller[c].pc = "rules" /\ caller[c].todo # <<>>
  /\ caller' = [caller EXCEPT ![c].matched = @ \cap RuleUsers(Head(caller[c].todo)), ![c].todo = Tail(@)]
  /\ UNCHANGED <<cohorts, members, seen, deleted, inserted, cohortCalls>>

\* The refreshes of cohort k whose transaction is open.
Open(k) == {c \in Callers : caller[c].pc \in {"delete", "insert", "commit"} /\ caller[c].id = k}

\* DELETE picks the rows it sees.  (alone: no other refresh of the cohort has
\* had its transaction open at the same time as this one.)
RefreshBegin(c) ==
  /\ caller[c].pc = "rules" /\ caller[c].todo = <<>>
  /\ LET k == caller[c].id IN
     caller' = [d \in Callers |->
       IF d = c THEN [pc |-> "delete", id |-> k, matched |-> caller[c].matched, targets |-> members[k],
                      left |-> caller[c].matched, alone |-> Open(k) = {}]
       ELSE IF d \in Open(k) THEN [caller[d] EXCEPT !.alone = FALSE] ELSE caller[d]]
  /\ UNCHANGED <<cohorts, members, seen, deleted, inserted, cohortCalls>>

\* Mutant of RefreshDelete: nothing is deleted when nobody matches.
DeleteIfAny(c) ==
  /\ caller[c].pc = "delete"
  /\ \A d \in Open(caller[c].id) \ {c} : caller[c].targets \cap deleted[d] = {}
  /\ deleted' = [deleted EXCEPT ![c] = IF caller[c].matched = {} THEN {} ELSE caller[c].targets \cap members[caller[c].id]]
  /\ caller' = [caller EXCEPT ![c].pc = "insert"]
  /\ UNCHANGED <<cohorts, members, seen, inserted, cohortCalls>>

\* The rows picked that are still there, once no other transaction has deleted
\* one and not committed.
RefreshDelete(c) ==
  /\ caller[c].pc = "delete"
  /\ \A d \in Open(caller[c].id) \ {c} : caller[c].targets \cap deleted[d] = {}
  /\ deleted' = [deleted EXCEPT ![c] = caller[c].targets \cap members[caller[c].id]]
  /\ caller' = [caller EXCEPT ![c].pc = "insert"]
  /\ UNCHANGED <<cohorts, members, seen, inserted, cohortCalls>>

Abort(c) ==
  /\ Finish(c)
  /\ deleted' = [deleted EXCEPT ![c] = {}]
  /\ inserted' = [inserted EXCEPT ![c] = {}]
  /\ UNCHANGED <<cohorts, members, seen, cohortCalls>>

\* The transactions that have written the key of p.
Blocking(c, p) == {d \in Open(caller[c].id) \ {c} : p \in deleted[d] \cup inserted[d]}

\* ON CONFLICT DO NOTHING takes no lock on the row it finds.
RefreshInsert(c, p) ==
  /\ caller[c].pc = "insert" /\ Exists(caller[c].id)
  /\ p \in caller[c].left /\ Blocking(c, p) = {}
  /\ inserted' = [inserted EXCEPT ![c] = IF p \in members[caller[c].id] \ deleted[c] THEN @ ELSE @ \cup {p}]
  /\ caller' = [caller EXCEPT ![c].left = @ \ {p}]
  /\ UNCHANGED <<cohorts, members, seen, deleted, cohortCalls>>

\* The foreign key fails: the cohort is gone.
RefreshOrphaned(c) ==
  /\ caller[c].pc = "insert" /\ ~Exists(caller[c].id) /\ caller[c].left # {}
  /\ Abort(c)

\* Two that wait for a key of each other: Postgres aborts one, either one.
RefreshDeadlock(c) ==
  /\ caller[c].pc = "insert"
  /\ \E p \in caller[c].left : \E d \in Blocking(c, p) :
       caller[d].pc = "insert" /\ \E q \in caller[d].left : c \in Blocking(d, q)
  /\ Abort(c)

\* A statement fails, or the process dies: the transaction is undone.
RefreshFails(c) == caller[c] # Idle /\ Abort(c)

RefreshUpdate(c) ==
  /\ caller[c].pc = "insert" /\ caller[c].left = {} /\ ~RowLocked(caller[c].id)
  /\ caller' = [caller EXCEPT ![c].pc = "commit"]
  /\ UNCHANGED <<cohorts, members, seen, deleted, inserted, cohortCalls>>

RefreshCommit(c) ==
  LET k == caller[c].id IN
  /\ caller[c].pc = "commit"
  /\ members' = [members EXCEPT ![k] = (@ \ deleted[c]) \cup inserted[c]]
  /\ cohorts' = IF ~Exists(k) THEN cohorts
                ELSE [cohorts EXCEPT ![k].count = Cardinality(caller[c].matched), ![k].calculated = TRUE]
  /\ Finish(c)
  /\ deleted' = [deleted EXCEPT ![c] = {}]
  /\ inserted' = [inserted EXCEPT ![c] = {}]
  /\ UNCHANGED <<seen, cohortCalls>>

-----------------------------------------------------------------------------
CohortRequest(c) ==
  \E k \in CohortIds :
    \/ \E static \in BOOLEAN, rules \in RuleLists, initial \in Initials : CreateCohort(c, k, static, rules, initial)
    \/ \E rules \in RuleLists : UpdateCohort(c, k, rules)
    \/ DeleteCohort(c, k)
    \/ RefreshCohort(c, k)

RefreshStep(c) ==
  \/ RefreshRead(c) \/ RefreshRule(c) \/ RefreshBegin(c) \/ RefreshDelete(c)
  \/ \E p \in People : RefreshInsert(c, p)
  \/ RefreshOrphaned(c) \/ RefreshDeadlock(c) \/ RefreshUpdate(c) \/ RefreshCommit(c)

CohortNext ==
  \/ \E p \in People, r \in Rules : Behave(p, r.event)
  \/ \E c \in Callers : CohortRequest(c) \/ RefreshStep(c) \/ RefreshFails(c)

-----------------------------------------------------------------------------
\* A refresh whose transaction overlaps no other's leaves the members it counts
\* and nobody else, whatever earlier refreshes made of the list.
LoneRefreshIsExact ==
  [][\A c \in Callers :
       LET k == caller[c].id IN
       (RefreshCommit(c) /\ caller[c].alone /\ Exists(k))
         => /\ members'[k] = caller[c].matched
            /\ cohorts'[k].count = Cardinality(members'[k])]_cohortVars

\* The count is the number of members.  It is while refreshes run one at a
\* time; two at once leave the union of what both found and the count of one.
CountIsMembers ==
  \A k \in CohortIds :
    Exists(k) /\ cohorts[k].calculated => cohorts[k].count = Cardinality(members[k])

\* The count of a cohort of given members.  The empty string and a member given
\* twice are counted and not stored.
InitialCountIsMembers ==
  \A k \in CohortIds : Exists(k) /\ cohorts[k].static => cohorts[k].count = Cardinality(members[k])

\* Every refresh ends, one way or the other.
RefreshEnds == \A c \in Callers : (caller[c] # Idle) ~> (caller[c] = Idle)
=============================================================================
