-------------------------- MODULE AnalyticsProofs --------------------------
(***************************************************************************)
(* Theorems about Analytics: what a lone refresh leaves of a cohort, that  *)
(* the links of the paths count their sessions, the funnels follow the     *)
(* passages and the retention matrix the calendar, and which variant of an *)
(* experiment a person is served.  They hold for any people, cohorts,      *)
(* rules, flags, experiments, sessions and calendars.                      *)
(***************************************************************************)
EXTENDS Analytics, FiniteSetTheorems, SequenceTheorems, WellFoundedInduction,
        TLAPS

(* A step of the whole is a step of each area, or leaves it alone.         *)
LEMMA AreaSteps ==
    ASSUME [AnalyticsNext]_analyticsVars
    PROVE  [LogNext]_logVars /\ [CohortNext]_cohortVars /\ [ExperimentNext]_experimentVars
  BY DEF AnalyticsNext, analyticsVars, Reports, Cohorts, Experiments

-----------------------------------------------------------------------------
(* Cohorts. *)

Persons == People \cup UNION {Range(initial) : initial \in Initials}

Writes == {"delete", "insert", "commit"}

Reading == [pc : {"read"}, id : CohortIds]
Ruling  == [pc : {"rules"}, id : CohortIds, todo : Seq(Rules), matched : SUBSET People]
Writing == [pc : Writes, id : CohortIds, matched : SUBSET People,
            targets : SUBSET Persons, left : SUBSET People, alone : BOOLEAN]

CohortType ==
    /\ cohorts \in [CohortIds -> CohortRow \cup {NoCohort, Gone}]
    /\ members \in [CohortIds -> SUBSET Persons]
    /\ caller \in [Callers -> {Idle} \cup Reading \cup Ruling \cup Writing]
    /\ deleted \in [Callers -> SUBSET Persons]
    /\ inserted \in [Callers -> SUBSET People]

(* A transaction that is not open has written nothing, and whoever asks to *)
(* refresh a cohort has found its row.                                     *)
Clean(cl, de, in, c) == cl[c].pc \notin {"insert", "commit"} => de[c] = {} /\ in[c] = {}
Known(cl, co, c) == cl[c].pc # "idle" => co[cl[c].id] # NoCohort

Busy(cl, c, k) == cl[c].pc \in Writes /\ cl[c].id = k

(* A transaction that is alone has picked all the members, has deleted all *)
(* it has picked, and has inserted all it has left behind.                 *)
Alone(cl, co, me, de, in, c) ==
    cl[c].pc \in Writes /\ cl[c].alone =>
        /\ \A d \in Callers \ {c} : ~Busy(cl, d, cl[c].id)
        /\ co[cl[c].id] \notin {NoCohort, Gone} =>
             /\ cl[c].pc = "delete" => cl[c].targets = me[cl[c].id] /\ cl[c].left = cl[c].matched
             /\ cl[c].pc # "delete" =>
                  de[c] = me[cl[c].id] /\ in[c] \cup cl[c].left = cl[c].matched
             /\ cl[c].pc = "commit" => cl[c].left = {}

CohortInv ==
    /\ CohortType
    /\ \A c \in Callers : /\ Clean(caller, deleted, inserted, c)
                          /\ Known(caller, cohorts, c)
                          /\ Alone(caller, cohorts, members, deleted, inserted, c)

LEMMA CohortStarts == CohortInit => CohortInv
  BY DEF CohortInit, CohortInv, CohortType, Clean, Known, Alone, Idle, Writes, Reading, Ruling, Writing

(* What a step of another request leaves of a transaction that is alone.   *)
LEMMA OthersStayAlone ==
    ASSUME NEW cl, NEW co, NEW me, NEW de, NEW in,
           NEW cl2, NEW co2, NEW me2, NEW de2, NEW in2,
           NEW d \in Callers, Alone(cl, co, me, de, in, d),
           cl2[d] = cl[d], de2[d] = de[d], in2[d] = in[d],
           \A e \in Callers \ {d} : Busy(cl2, e, cl[d].id) => Busy(cl, e, cl[d].id),
           cl[d].pc \in Writes /\ cl[d].alone /\ co2[cl[d].id] \notin {NoCohort, Gone} =>
             co[cl[d].id] \notin {NoCohort, Gone} /\ me2[cl[d].id] = me[cl[d].id]
    PROVE  Alone(cl2, co2, me2, de2, in2, d)
  BY DEF Alone

(* The forms a request takes, by where it is. *)
LEMMA CallerForms ==
    ASSUME CohortType, NEW c \in Callers
    PROVE  /\ caller[c].pc = "read" => caller[c] \in Reading
           /\ caller[c].pc = "rules" => caller[c] \in Ruling
           /\ caller[c].pc \in Writes => caller[c] \in Writing
           /\ caller[c].pc = "idle" => caller[c] = Idle
           /\ caller[c].pc \in {"idle", "read", "rules"} \cup Writes
           /\ caller[c].pc # "idle" => caller[c].id \in CohortIds
  BY DEF CohortType, Reading, Ruling, Writing, Writes, Idle

(* A request of caller c: no other request is touched, and what becomes of *)
(* c itself is typed and has written nothing.                              *)
LEMMA RequestsKeepCohortInv ==
    ASSUME CohortInv, NEW c \in Callers, CohortRequest(c)
    PROVE  CohortInv'
<1> USE DEF CohortInv
<1>a. CohortAssumption
  BY CohortAssumption
<1>1. PICK k \in CohortIds :
        \/ \E static \in BOOLEAN, rules \in RuleLists, initial \in Initials : CreateCohort(c, k, static, rules, initial)
        \/ \E rules \in RuleLists : UpdateCohort(c, k, rules)
        \/ DeleteCohort(c, k)
        \/ RefreshCohort(c, k)
  BY DEF CohortRequest
<1>2. /\ caller[c] = Idle /\ UNCHANGED <<deleted, inserted>>
      /\ caller' = caller \/ RefreshOf(c, k)
  BY <1>1 DEF CreateCohort, UpdateCohort, DeleteCohort, RefreshCohort
<1>3. /\ caller' \in [Callers -> {Idle} \cup Reading \cup Ruling \cup Writing]
      /\ \A d \in Callers \ {c} : caller'[d] = caller[d]
      /\ caller'[c] = Idle \/ (caller'[c] = [pc |-> "read", id |-> k])
  BY <1>2 DEF CohortType, RefreshOf, Reading
<1>4. \A d \in Callers : Clean(caller, deleted, inserted, d)'
  BY <1>2, <1>3 DEF Clean, Idle
<1> DEFINE RowsChange ==
         /\ cohorts' \in [CohortIds -> CohortRow \cup {NoCohort, Gone}]
         /\ members' \in [CohortIds -> SUBSET Persons]
         /\ \A j \in CohortIds \ {k} : cohorts'[j] = cohorts[j] /\ members'[j] = members[j]
         /\ \/ cohorts[k] = NoCohort /\ cohorts'[k] # NoCohort
            \/ cohorts[k] # NoCohort /\ cohorts'[k] = Gone
            \/ cohorts[k] \notin {NoCohort, Gone} /\ cohorts'[k] # NoCohort /\ members'[k] = members[k]
<1>5. RowsChange
  <2>1. ASSUME NEW static \in BOOLEAN, NEW rules \in RuleLists, NEW initial \in Initials,
               CreateCohort(c, k, static, rules, initial)
        PROVE  RowsChange
    <3>1. [static |-> static, rules |-> rules, count |-> Len(initial), calculated |-> FALSE] \in CohortRow
      BY <1>a DEF CohortAssumption, CohortRow
    <3>2. (IF static THEN {initial[i] : i \in DOMAIN initial} \ {""} ELSE {}) \in SUBSET Persons
      BY DEF Persons, Range
    <3> QED  BY <2>1, <3>1, <3>2, <1>a DEF CreateCohort, CohortType, CohortAssumption
  <2>2. ASSUME NEW rules \in RuleLists, UpdateCohort(c, k, rules) PROVE RowsChange
    <3>1. cohorts[k] \in CohortRow
      BY <2>2 DEF UpdateCohort, Exists, CohortType
    <3>2. [cohorts[k] EXCEPT !.rules = rules] \in CohortRow
      BY <3>1 DEF CohortRow
    <3> QED  BY <2>2, <3>2, <1>a DEF UpdateCohort, Exists, CohortType, CohortAssumption
  <2>3. ASSUME DeleteCohort(c, k) PROVE RowsChange
    BY <2>3, <1>a DEF DeleteCohort, Exists, CohortType, CohortAssumption
  <2>4. ASSUME RefreshCohort(c, k) PROVE RowsChange
    BY <2>4 DEF RefreshCohort, Exists, CohortType
  <2> QED  BY <1>1, <2>1, <2>2, <2>3, <2>4
<1>6. \A d \in Callers : Known(caller, cohorts, d)'
  <2>1. ASSUME NEW d \in Callers \ {c} PROVE Known(caller, cohorts, d)'
    BY <1>3, <1>5, <1>a, CallerForms DEF Known, CohortAssumption
  <2>2. Known(caller, cohorts, c)'
    BY <1>3, <1>5, <1>a DEF Known, Idle, CohortAssumption
  <2> QED  BY <2>1, <2>2
<1>7. \A d \in Callers : Alone(caller, cohorts, members, deleted, inserted, d)'
  <2>1. ASSUME NEW d \in Callers \ {c} PROVE Alone(caller', cohorts', members', deleted', inserted', d)
    <3>1. Alone(caller, cohorts, members, deleted, inserted, d) /\ Known(caller, cohorts, d)
      OBVIOUS
    <3>2. \A e \in Callers \ {d} : Busy(caller', e, caller[d].id) => Busy(caller, e, caller[d].id)
      BY <1>3 DEF Busy, Writes, Idle
    <3>3. caller[d].pc \in Writes /\ caller[d].alone /\ cohorts'[caller[d].id] \notin {NoCohort, Gone} =>
            cohorts[caller[d].id] \notin {NoCohort, Gone} /\ members'[caller[d].id] = members[caller[d].id]
      BY <3>1, <1>5, CallerForms DEF Known, Writes
    <3> QED  BY <1>2, <1>3, <3>1, <3>2, <3>3, OthersStayAlone
  <2>2. Alone(caller', cohorts', members', deleted', inserted', c)
    BY <1>3 DEF Alone, Idle, Writes
  <2> QED  BY <2>1, <2>2
<1> QED  BY <1>2, <1>3, <1>4, <1>5, <1>6, <1>7 DEF CohortType

(* A step of a refresh that leaves the committed rows alone and opens no   *)
(* transaction: it is enough to look at the request itself.                *)
LEMMA OwnStepsKeepCohortInv ==
    ASSUME CohortInv, NEW c \in Callers,
           cohorts' = cohorts, members' = members,
           caller' \in [Callers -> {Idle} \cup Reading \cup Ruling \cup Writing],
           deleted' \in [Callers -> SUBSET Persons],
           inserted' \in [Callers -> SUBSET People],
           \A d \in Callers \ {c} :
             caller'[d] = caller[d] /\ deleted'[d] = deleted[d] /\ inserted'[d] = inserted[d],
           caller'[c].pc # "idle" => caller'[c].id = caller[c].id /\ caller[c].pc # "idle",
           caller'[c].pc \in Writes => caller[c].pc \in Writes,
           Clean(caller', deleted', inserted', c),
           Alone(caller', cohorts, members, deleted', inserted', c)
    PROVE  CohortInv'
<1> USE DEF CohortInv
<1>1. CohortType'
  BY DEF CohortType
<1>2. \A d \in Callers : Clean(caller, deleted, inserted, d)'
  BY DEF Clean
<1>3. \A d \in Callers : Known(caller, cohorts, d)'
  BY DEF Known
<1>4. ASSUME NEW d \in Callers \ {c} PROVE Alone(caller', cohorts', members', deleted', inserted', d)
  <2>1. \A e \in Callers \ {d} : Busy(caller', e, caller[d].id) => Busy(caller, e, caller[d].id)
    <3>1. Busy(caller', c, caller[d].id) => Busy(caller, c, caller[d].id)
      BY DEF Busy, Writes
    <3> QED  BY <3>1 DEF Busy
  <2>2. Alone(caller, cohorts, members, deleted, inserted, d)
    OBVIOUS
  <2> QED  BY <2>1, <2>2, OthersStayAlone
<1>5. \A d \in Callers : Alone(caller, cohorts, members, deleted, inserted, d)'
  BY <1>4
<1> QED  BY <1>1, <1>2, <1>3, <1>5

LEMMA AbortsKeepCohortInv ==
    ASSUME CohortInv, NEW c \in Callers, Abort(c)
    PROVE  CohortInv'
<1>1. /\ caller' = [caller EXCEPT ![c] = Idle]
      /\ deleted' = [deleted EXCEPT ![c] = {}] /\ inserted' = [inserted EXCEPT ![c] = {}]
      /\ UNCHANGED <<cohorts, members>>
  BY DEF Abort, Finish
<1>2. caller'[c] = Idle /\ deleted'[c] = {} /\ inserted'[c] = {}
  BY <1>1 DEF CohortInv, CohortType
<1>3. Clean(caller', deleted', inserted', c) /\ Alone(caller', cohorts, members, deleted', inserted', c)
  BY <1>2 DEF Clean, Alone, Idle, Writes
<1>4. caller'[c].pc = "idle"
  BY <1>2 DEF Idle
<1> QED  BY <1>1, <1>2, <1>3, <1>4, OwnStepsKeepCohortInv DEF CohortInv, CohortType, Writes

(* The steps before the transaction. *)
LEMMA ReadingKeepsCohortInv ==
    ASSUME CohortInv, NEW c \in Callers, RefreshRead(c) \/ RefreshRule(c)
    PROVE  CohortInv'
<1> USE DEF CohortInv
<1>1. CASE RefreshRead(c)
  <2> DEFINE k == caller[c].id
             reading == [pc |-> "rules", id |-> k, todo |-> cohorts[k].rules, matched |-> People]
  <2>1. caller[c].pc = "read" /\ k \in CohortIds /\ UNCHANGED <<cohorts, members, deleted, inserted>>
    BY <1>1, CallerForms DEF RefreshRead
  <2>2. \/ caller' = [caller EXCEPT ![c] = Idle]
        \/ caller' = [caller EXCEPT ![c] = reading] /\ Exists(k)
    BY <1>1 DEF RefreshRead, Finish
  <2>3. Exists(k) => reading \in Ruling
    <3>1. Exists(k) => cohorts[k].rules \in RuleLists
      BY <2>1 DEF Exists, CohortType, CohortRow
    <3> QED  BY <2>1, <3>1, CohortAssumption DEF CohortAssumption, Ruling
  <2>4. /\ caller' \in [Callers -> {Idle} \cup Reading \cup Ruling \cup Writing]
        /\ caller'[c] = Idle \/ (caller'[c] = reading)
        /\ \A d \in Callers \ {c} : caller'[d] = caller[d]
    BY <2>2, <2>3 DEF CohortType
  <2>5. /\ caller'[c].pc \in {"idle", "rules"}
        /\ caller'[c].pc # "idle" => caller'[c].id = k
    BY <2>4 DEF Idle
  <2> HIDE DEF k, reading
  <2>6. Clean(caller, deleted, inserted, c)
    OBVIOUS
  <2>7. Clean(caller', deleted', inserted', c) /\ Alone(caller', cohorts, members, deleted', inserted', c)
    BY <2>1, <2>5, <2>6 DEF Clean, Alone, Writes
  <2> QED  BY <2>1, <2>4, <2>5, <2>7, OwnStepsKeepCohortInv DEF CohortType, Writes, k
<1>2. CASE RefreshRule(c)
  <2> DEFINE next == [caller[c] EXCEPT !.matched = @ \cap RuleUsers(Head(caller[c].todo)), !.todo = Tail(@)]
  <2>1. caller[c].pc = "rules" /\ caller[c].todo # <<>> /\ UNCHANGED <<cohorts, members, deleted, inserted>>
    BY <1>2 DEF RefreshRule
  <2>2. caller' = [caller EXCEPT ![c] = next]
    BY <1>2 DEF RefreshRule
  <2>3. caller[c] \in Ruling
    BY <2>1, CallerForms
  <2>4. Tail(caller[c].todo) \in Seq(Rules)
    BY <2>1, <2>3 DEF Ruling
  <2>5. next \in Ruling /\ next.pc = "rules" /\ next.id = caller[c].id
    BY <2>1, <2>3, <2>4 DEF Ruling
  <2> HIDE DEF next
  <2>6. /\ caller' \in [Callers -> {Idle} \cup Reading \cup Ruling \cup Writing]
        /\ caller'[c] = next
        /\ \A d \in Callers \ {c} : caller'[d] = caller[d]
    BY <2>2, <2>5 DEF CohortType
  <2>7. Clean(caller, deleted, inserted, c)
    OBVIOUS
  <2>8. Clean(caller', deleted', inserted', c) /\ Alone(caller', cohorts, members, deleted', inserted', c)
    BY <2>1, <2>5, <2>6, <2>7 DEF Clean, Alone, Writes
  <2> QED  BY <2>1, <2>5, <2>6, <2>8, OwnStepsKeepCohortInv DEF CohortType, Writes
<1> QED  BY <1>1, <1>2

(* Where the transaction begins, it is alone when no other is open, and    *)
(* those that are open no longer are.                                      *)
LEMMA BeginKeepsCohortInv ==
    ASSUME CohortInv, NEW c \in Callers, RefreshBegin(c)
    PROVE  CohortInv'
<1> USE DEF CohortInv
<1> DEFINE k == caller[c].id
           opened == [pc |-> "delete", id |-> k, matched |-> caller[c].matched, targets |-> members[k],
                      left |-> caller[c].matched, alone |-> Open(k) = {}]
<1>1. caller[c].pc = "rules" /\ UNCHANGED <<cohorts, members, deleted, inserted>>
  BY DEF RefreshBegin
<1>2. caller[c] \in Ruling
  BY <1>1, CallerForms
<1>3. opened \in Writing
  BY <1>2 DEF Ruling, Writing, Writes, CohortType
<1>4. /\ caller'[c] = opened
      /\ \A d \in Callers \ {c} :
           caller'[d] = IF Busy(caller, d, k) THEN [caller[d] EXCEPT !.alone = FALSE] ELSE caller[d]
      /\ caller' = [d \in Callers |-> caller'[d]]
  BY DEF RefreshBegin, Open, Busy, Writes
<1>5. \A d \in Callers : Busy(caller, d, k) <=> d \in Open(k)
  BY DEF Busy, Open, Writes
<1>6. opened.pc = "delete" /\ opened.id = k /\ opened.targets = members[k] /\ opened.left = opened.matched
      /\ (opened.alone <=> (Open(k) = {}))
  OBVIOUS
<1> HIDE DEF opened
<1>7. ASSUME NEW d \in Callers \ {c}
      PROVE  /\ caller'[d] \in {Idle} \cup Reading \cup Ruling \cup Writing
             /\ caller'[d].pc = caller[d].pc
             /\ caller[d].pc # "idle" => caller'[d].id = caller[d].id
             /\ Alone(caller', cohorts, members, deleted, inserted, d)
  <2>1. CASE Busy(caller, d, k)
    <3>1. caller[d] \in Writing
      BY <2>1, CallerForms DEF Busy
    <3>2. caller'[d] \in Writing /\ caller'[d].alone = FALSE /\ caller'[d].pc = caller[d].pc
          /\ caller'[d].id = caller[d].id
      BY <2>1, <1>4, <3>1 DEF Writing
    <3> QED  BY <3>2 DEF Alone
  <2>2. CASE ~Busy(caller, d, k)
    <3>1. caller'[d] = caller[d] /\ caller[d] \in {Idle} \cup Reading \cup Ruling \cup Writing
      BY <2>2, <1>4 DEF CohortType
    <3>2. \A e \in Callers \ {c, d} : Busy(caller', e, caller[d].id) => Busy(caller, e, caller[d].id)
      <4> SUFFICES ASSUME NEW e \in Callers \ {c, d}, Busy(caller', e, caller[d].id)
                   PROVE  Busy(caller, e, caller[d].id)
        OBVIOUS
      <4>1. CASE Busy(caller, e, k)
        <5>1. caller[e] \in Writing
          BY <4>1, CallerForms DEF Busy
        <5> QED  BY <4>1, <5>1, <1>4 DEF Busy, Writing
      <4>2. CASE ~Busy(caller, e, k)
        BY <4>2, <1>4 DEF Busy
      <4> QED  BY <4>1, <4>2
    <3>3. caller[d].pc \in Writes => caller[d].id # k
      BY <2>2 DEF Busy
    <3>4. Alone(caller, cohorts, members, deleted, inserted, d)
      OBVIOUS
    <3>5. Alone(caller', cohorts, members, deleted, inserted, d)
      BY <3>1, <3>2, <3>3, <3>4, <1>4, <1>6 DEF Alone, Busy
    <3> QED  BY <3>1, <3>5
  <2> QED  BY <2>1, <2>2
<1>8. CohortType'
  BY <1>1, <1>3, <1>4, <1>7 DEF CohortType
<1>9. Clean(caller', deleted, inserted, c) /\ Known(caller', cohorts, c)
  BY <1>1, <1>4, <1>6 DEF Clean, Known
<1>10. Alone(caller', cohorts, members, deleted, inserted, c)
  <2>1. opened.alone => \A d \in Callers \ {c} : ~Busy(caller', d, k)
    <3> SUFFICES ASSUME Open(k) = {}, NEW d \in Callers \ {c} PROVE ~Busy(caller', d, k)
      BY <1>6
    <3>1. ~Busy(caller, d, k)
      BY <1>5
    <3> QED  BY <3>1, <1>4 DEF Busy
  <2> QED  BY <2>1, <1>4, <1>6 DEF Alone
<1>11. \A d \in Callers \ {c} : Clean(caller', deleted, inserted, d) /\ Known(caller', cohorts, d)
  BY <1>7 DEF Clean, Known
<1> QED  BY <1>1, <1>7, <1>8, <1>9, <1>10, <1>11

(* A transaction that is alone deletes every row it picked, and inserts    *)
(* everybody it was to insert.                                             *)
LEMMA WritingKeepsCohortInv ==
    ASSUME CohortInv, NEW c \in Callers,
           RefreshDelete(c) \/ (\E p \in People : RefreshInsert(c, p)) \/ RefreshUpdate(c)
    PROVE  CohortInv'
<1> USE DEF CohortInv
<1> DEFINE k == caller[c].id
<1>a. Clean(caller, deleted, inserted, c) /\ Alone(caller, cohorts, members, deleted, inserted, c)
  OBVIOUS
<1>b. caller[c].pc \in Writes => \A d \in Callers \ {c} : Busy(caller, d, k) => caller[d].pc \in Writes
  BY DEF Busy
<1>1. CASE RefreshDelete(c)
  <2> DEFINE next == [caller[c] EXCEPT !.pc = "insert"]
  <2>1. /\ caller[c].pc = "delete" /\ UNCHANGED <<cohorts, members, inserted>>
        /\ deleted' = [deleted EXCEPT ![c] = caller[c].targets \cap members[k]]
        /\ caller' = [caller EXCEPT ![c] = next]
    BY <1>1 DEF RefreshDelete
  <2>2. caller[c] \in Writing
    BY <2>1, CallerForms DEF Writes
  <2>3. /\ next \in Writing /\ next.pc = "insert" /\ next.id = k /\ next.alone = caller[c].alone
        /\ next.left = caller[c].left /\ next.matched = caller[c].matched
    BY <2>2 DEF Writing, Writes
  <2> HIDE DEF next
  <2>4. /\ caller'[c] = next /\ deleted'[c] = caller[c].targets \cap members[k] /\ inserted'[c] = inserted[c]
        /\ inserted[c] = {}
        /\ \A d \in Callers \ {c} : caller'[d] = caller[d] /\ deleted'[d] = deleted[d]
        /\ caller' \in [Callers -> {Idle} \cup Reading \cup Ruling \cup Writing]
        /\ deleted' \in [Callers -> SUBSET Persons]
    BY <2>1, <2>2, <2>3, <1>a DEF CohortType, Writing, Clean
  <2>5. Clean(caller', deleted', inserted', c)
    BY <2>3, <2>4 DEF Clean
  <2>6. Alone(caller', cohorts, members, deleted', inserted', c)
    BY <2>1, <2>3, <2>4, <1>a DEF Alone, Busy, Writes
  <2> QED  BY <2>1, <2>3, <2>4, <2>5, <2>6, OwnStepsKeepCohortInv DEF CohortType, Writes
<1>2. ASSUME NEW p \in People, RefreshInsert(c, p) PROVE CohortInv'
  <2> DEFINE next == [caller[c] EXCEPT !.left = @ \ {p}]
             rows == IF p \in members[k] \ deleted[c] THEN inserted[c] ELSE inserted[c] \cup {p}
  <2>1. /\ caller[c].pc = "insert" /\ p \in caller[c].left /\ UNCHANGED <<cohorts, members, deleted>>
        /\ inserted' = [inserted EXCEPT ![c] = rows]
        /\ caller' = [caller EXCEPT ![c] = next]
    BY <1>2 DEF RefreshInsert
  <2>2. caller[c] \in Writing
    BY <2>1, CallerForms DEF Writes
  <2>3. /\ next \in Writing /\ next.pc = "insert" /\ next.id = k /\ next.alone = caller[c].alone
        /\ next.left = caller[c].left \ {p} /\ next.matched = caller[c].matched
    BY <2>1, <2>2 DEF Writing, Writes
  <2> HIDE DEF next
  <2>4. rows \in SUBSET People
    BY DEF CohortType
  <2>5. deleted[c] = members[k] => rows = inserted[c] \cup {p}
    OBVIOUS
  <2> HIDE DEF rows
  <2>6. /\ caller'[c] = next /\ inserted'[c] = rows /\ deleted'[c] = deleted[c]
        /\ \A d \in Callers \ {c} : caller'[d] = caller[d] /\ inserted'[d] = inserted[d]
        /\ caller' \in [Callers -> {Idle} \cup Reading \cup Ruling \cup Writing]
        /\ inserted' \in [Callers -> SUBSET People]
    BY <2>1, <2>3, <2>4 DEF CohortType
  <2>7. Clean(caller', deleted', inserted', c)
    BY <2>3, <2>6 DEF Clean
  <2>8. Alone(caller', cohorts, members, deleted', inserted', c)
    BY <2>1, <2>3, <2>5, <2>6, <1>a DEF Alone, Busy, Writes
  <2> QED  BY <2>1, <2>3, <2>6, <2>7, <2>8, OwnStepsKeepCohortInv DEF CohortType, Writes
<1>3. CASE RefreshUpdate(c)
  <2> DEFINE next == [caller[c] EXCEPT !.pc = "commit"]
  <2>1. /\ caller[c].pc = "insert" /\ caller[c].left = {} /\ UNCHANGED <<cohorts, members, deleted, inserted>>
        /\ caller' = [caller EXCEPT ![c] = next]
    BY <1>3 DEF RefreshUpdate
  <2>2. caller[c] \in Writing
    BY <2>1, CallerForms DEF Writes
  <2>3. /\ next \in Writing /\ next.pc = "commit" /\ next.id = k /\ next.alone = caller[c].alone
        /\ next.left = caller[c].left /\ next.matched = caller[c].matched
    BY <2>2 DEF Writing, Writes
  <2> HIDE DEF next
  <2>4. /\ caller'[c] = next /\ deleted'[c] = deleted[c] /\ inserted'[c] = inserted[c]
        /\ \A d \in Callers \ {c} : caller'[d] = caller[d]
        /\ caller' \in [Callers -> {Idle} \cup Reading \cup Ruling \cup Writing]
    BY <2>1, <2>3 DEF CohortType
  <2>5. Clean(caller', deleted', inserted', c)
    BY <2>3, <2>4 DEF Clean
  <2>6. Alone(caller', cohorts, members, deleted', inserted', c)
    BY <2>1, <2>3, <2>4, <1>a DEF Alone, Busy, Writes
  <2> QED  BY <2>1, <2>3, <2>4, <2>5, <2>6, OwnStepsKeepCohortInv DEF CohortType, Writes
<1> QED  BY <1>1, <1>2, <1>3

(* The rows and the count change together, for a cohort with which no      *)
(* other transaction that is alone is busy.                                *)
LEMMA CommitKeepsCohortInv ==
    ASSUME CohortInv, NEW c \in Callers, RefreshCommit(c)
    PROVE  CohortInv'
<1> USE DEF CohortInv
<1> DEFINE k == caller[c].id
           row == [cohorts[k] EXCEPT !.count = Cardinality(caller[c].matched), !.calculated = TRUE]
<1>1. /\ caller[c].pc = "commit"
      /\ members' = [members EXCEPT ![k] = (@ \ deleted[c]) \cup inserted[c]]
      /\ cohorts' = IF ~Exists(k) THEN cohorts ELSE [cohorts EXCEPT ![k] = row]
      /\ caller' = [caller EXCEPT ![c] = Idle]
      /\ deleted' = [deleted EXCEPT ![c] = {}] /\ inserted' = [inserted EXCEPT ![c] = {}]
  BY DEF RefreshCommit, Finish
<1>2. caller[c] \in Writing /\ k \in CohortIds /\ Busy(caller, c, k)
  BY <1>1, CallerForms DEF Writes, Busy
<1>3. Exists(k) => row \in CohortRow
  <2>1. Exists(k) => cohorts[k] \in CohortRow
    BY <1>2 DEF Exists, CohortType
  <2>2. Cardinality(caller[c].matched) \in Nat
    BY <1>2, CohortAssumption, FS_Subset, FS_CardinalityType DEF CohortAssumption, Writing
  <2> QED  BY <2>1, <2>2 DEF CohortRow
<1> HIDE DEF row
<1>4. /\ \A j \in CohortIds : cohorts'[j] \in {NoCohort, Gone} <=> cohorts[j] \in {NoCohort, Gone}
      /\ \A j \in CohortIds : cohorts'[j] = NoCohort <=> cohorts[j] = NoCohort
      /\ \A j \in CohortIds \ {k} : members'[j] = members[j]
      /\ cohorts' \in [CohortIds -> CohortRow \cup {NoCohort, Gone}]
  BY <1>1, <1>2, <1>3, CohortAssumption DEF CohortType, CohortAssumption, Exists
<1>5. People \subseteq Persons
  BY DEF Persons
<1>6. CohortType'
  BY <1>1, <1>2, <1>4, <1>5 DEF CohortType
<1>7. /\ caller'[c] = Idle /\ deleted'[c] = {} /\ inserted'[c] = {}
      /\ \A d \in Callers \ {c} : caller'[d] = caller[d] /\ deleted'[d] = deleted[d] /\ inserted'[d] = inserted[d]
  BY <1>1 DEF CohortType
<1>8. Clean(caller', deleted', inserted', c) /\ Known(caller', cohorts', c)
      /\ Alone(caller', cohorts', members', deleted', inserted', c)
  BY <1>7 DEF Clean, Known, Alone, Idle, Writes
<1>9. ASSUME NEW d \in Callers \ {c}
      PROVE  /\ Clean(caller', deleted', inserted', d) /\ Known(caller', cohorts', d)
             /\ Alone(caller', cohorts', members', deleted', inserted', d)
  <2>1. Clean(caller, deleted, inserted, d) /\ Known(caller, cohorts, d)
        /\ Alone(caller, cohorts, members, deleted, inserted, d)
    OBVIOUS
  <2>2. Clean(caller', deleted', inserted', d) /\ Known(caller', cohorts', d)
    BY <2>1, <1>4, <1>7, CallerForms DEF Clean, Known
  <2>3. \A e \in Callers \ {d} : Busy(caller', e, caller[d].id) => Busy(caller, e, caller[d].id)
    BY <1>7 DEF Busy, Idle, Writes
  <2>4. caller[d].pc \in Writes /\ caller[d].alone => caller[d].id \in CohortIds \ {k}
    BY <2>1, <1>2, CallerForms DEF Alone, Busy, Writes
  <2> QED  BY <2>1, <2>2, <2>3, <2>4, <1>4, <1>7, OthersStayAlone
<1> QED  BY <1>6, <1>8, <1>9

LEMMA CohortStepsKeepInv ==
    ASSUME CohortInv, [CohortNext]_cohortVars
    PROVE  CohortInv'
<1>1. CASE UNCHANGED cohortVars
  BY <1>1 DEF cohortVars, CohortInv, CohortType, Clean, Known, Alone, Busy
<1>2. ASSUME NEW p \in People, NEW r \in Rules, Behave(p, r.event) PROVE CohortInv'
  BY <1>2 DEF Behave, CohortInv, CohortType, Clean, Known, Alone, Busy
<1>3. ASSUME NEW c \in Callers, RefreshOrphaned(c) \/ RefreshDeadlock(c) \/ RefreshFails(c)
      PROVE  CohortInv'
  BY <1>3, AbortsKeepCohortInv DEF RefreshOrphaned, RefreshDeadlock, RefreshFails
<1>4. ASSUME NEW c \in Callers, RefreshStep(c) PROVE CohortInv'
  BY <1>3, <1>4, ReadingKeepsCohortInv, BeginKeepsCohortInv, WritingKeepsCohortInv, CommitKeepsCohortInv
  DEF RefreshStep
<1> QED  BY <1>1, <1>2, <1>3, <1>4, RequestsKeepCohortInv DEF CohortNext

(* A refresh whose transaction is alone leaves exactly the people it found *)
(* as members, and counts them, whatever rows earlier refreshes have left, *)
(* and however the cohort is changed or deleted meanwhile                  *)
(* (RefreshCohortMembers).                                                 *)
THEOREM LoneRefreshesAreExact == AnalyticsSpec => LoneRefreshIsExact
<1>1. AnalyticsInit => CohortInv
  BY CohortStarts DEF AnalyticsInit
<1>2. CohortInv /\ [AnalyticsNext]_analyticsVars => CohortInv'
  BY AreaSteps, CohortStepsKeepInv
<1>3. ASSUME CohortInv, NEW c \in Callers, RefreshCommit(c), caller[c].alone, Exists(caller[c].id)
      PROVE  /\ members'[caller[c].id] = caller[c].matched
             /\ cohorts'[caller[c].id].count = Cardinality(members'[caller[c].id])
  <2> DEFINE k == caller[c].id
  <2>1. caller[c].pc = "commit" /\ k \in CohortIds /\ cohorts[k] \in CohortRow
    BY <1>3, CallerForms DEF RefreshCommit, CohortInv, CohortType, Exists
  <2>2. deleted[c] = members[k] /\ inserted[c] = caller[c].matched
    BY <1>3, <2>1 DEF CohortInv, Alone, Exists, Writes
  <2>3. members'[k] = caller[c].matched
    BY <1>3, <2>1, <2>2 DEF RefreshCommit, CohortInv, CohortType
  <2>4. cohorts'[k].count = Cardinality(caller[c].matched)
    BY <1>3, <2>1 DEF RefreshCommit, CohortInv, CohortType, CohortRow
  <2> QED  BY <2>3, <2>4
<1>4. CohortInv => [\A c \in Callers :
         LET k == caller[c].id IN
         (RefreshCommit(c) /\ caller[c].alone /\ Exists(k))
           => /\ members'[k] = caller[c].matched
              /\ cohorts'[k].count = Cardinality(members'[k])]_cohortVars
  BY <1>3
<1> QED  BY <1>1, <1>2, <1>4, PTL DEF AnalyticsSpec, LoneRefreshIsExact

-----------------------------------------------------------------------------
(* Folds: a sequence is folded along its prefixes. *)

LEMMA LeastNatural ==
    ASSUME NEW S, S \subseteq Nat, S # {}
    PROVE  \E x \in S : \A y \in S : x <= y
  <1>1. \E x \in S : \A y \in S : ~ (<<y, x>> \in OpToRel(<, Nat))
    BY NatLessThanWellFounded, WFMin
  <1>2. PICK x \in S : \A y \in S : ~ (<<y, x>> \in OpToRel(<, Nat))
    BY <1>1
  <1>3. \A y \in S : ~(y < x)
    <2>1. \A y \in S : y \in Nat
      OBVIOUS
    <2>2. QED
      BY <1>2, <2>1, Zenon DEF OpToRel
  <1>4. QED
    BY <1>3

IsFold(f, n, base, step) ==
    f = [s \in SUBSET (1..n) |->
            IF s = {} THEN base ELSE step[<<f[s \ {Max(s)}], Max(s)>>]]

LEMMA MaxOfPrefix ==
    ASSUME NEW k \in Nat, NEW s \in SUBSET (1..(k+1)), k + 1 \in s
    PROVE  Max(s) = k + 1
  <1>1. \A y \in s : k + 1 >= y /\ y \in Nat
    OBVIOUS
  <1>2. \A x \in s : (\A y \in s : x >= y) => x = k + 1
    BY <1>1
  <1>3. QED
    BY <1>1, <1>2 DEF Max

LEMMA FoldStep ==
    ASSUME NEW Acc, NEW base \in Acc, NEW n \in Nat,
           NEW step \in [Acc \X (1..n) -> Acc],
           NEW k \in Nat, k + 1 <= n,
           NEW f \in [SUBSET (1..k) -> Acc], IsFold(f, k, base, step)
    PROVE  \E g \in [SUBSET (1..(k+1)) -> Acc] : IsFold(g, k + 1, base, step)
  <1> DEFINE g == [s \in SUBSET (1..(k+1)) |->
                     IF k + 1 \in s THEN step[<<f[s \ {k + 1}], k + 1>>] ELSE f[s]]
  <1>1. \A s \in SUBSET (1..(k+1)) : s \ {k + 1} \in SUBSET (1..k)
    OBVIOUS
  <1>2. \A s \in SUBSET (1..(k+1)) : k + 1 \notin s => s \in SUBSET (1..k)
    OBVIOUS
  <1>3. \A s \in SUBSET (1..(k+1)) : g[s] \in Acc
    <2> TAKE s \in SUBSET (1..(k+1))
    <2>1. CASE k + 1 \in s
      <3>1. f[s \ {k + 1}] \in Acc
        BY <1>1
      <3>2. <<f[s \ {k + 1}], k + 1>> \in Acc \X (1..n)
        BY <3>1
      <3>3. QED
        BY <2>1, <3>2
    <2>2. CASE k + 1 \notin s
      BY <1>2, <2>2
    <2>3. QED
      BY <2>1, <2>2
  <1>4. ASSUME NEW s \in SUBSET (1..(k+1))
        PROVE  g[s] = IF s = {} THEN base ELSE step[<<g[s \ {Max(s)}], Max(s)>>]
    <2>1. CASE k + 1 \in s
      <3>1. Max(s) = k + 1 /\ s # {}
        BY <2>1, MaxOfPrefix
      <3>2. g[s \ {k + 1}] = f[s \ {k + 1}]
        BY <1>1
      <3>3. QED
        BY <2>1, <3>1, <3>2
    <2>2. CASE k + 1 \notin s
      <3>1. s \in SUBSET (1..k) /\ g[s] = f[s]
        BY <1>2, <2>2
      <3>2. f[s] = IF s = {} THEN base ELSE step[<<f[s \ {Max(s)}], Max(s)>>]
        BY <3>1 DEF IsFold
      <3>3. g[s \ {Max(s)}] = f[s \ {Max(s)}]
        BY <2>2
      <3>4. QED
        BY <3>1, <3>2, <3>3
    <2>3. QED
      BY <2>1, <2>2
  <1>5. g \in [SUBSET (1..(k+1)) -> Acc]
    BY <1>3
  <1>6. IsFold(g, k + 1, base, step)
    <2>1. g = [s \in SUBSET (1..(k+1)) |-> g[s]]
      OBVIOUS
    <2> HIDE DEF g
    <2>2. QED
      BY <1>4, <2>1 DEF IsFold
  <1>7. QED
    BY <1>5, <1>6

LEMMA FoldExists ==
    ASSUME NEW Acc, NEW base \in Acc, NEW n \in Nat,
           NEW step \in [Acc \X (1..n) -> Acc]
    PROVE  \E f \in [SUBSET (1..n) -> Acc] : IsFold(f, n, base, step)
  <1> DEFINE Has(k) == \E f \in [SUBSET (1..k) -> Acc] : IsFold(f, k, base, step)
  <1> DEFINE None == {k \in Nat : k <= n /\ ~Has(k)}
  <1>1. Has(0)
    <2> DEFINE f == [s \in SUBSET (1..0) |-> base]
    <2>1. \A s \in SUBSET (1..0) : s = {}
      OBVIOUS
    <2>2. f \in [SUBSET (1..0) -> Acc]
      OBVIOUS
    <2>3. IsFold(f, 0, base, step)
      BY <2>1 DEF IsFold
    <2>4. QED
      BY <2>2, <2>3
  <1>2. ASSUME NEW k \in Nat, k + 1 <= n, Has(k)
        PROVE  Has(k + 1)
    <2>1. PICK f \in [SUBSET (1..k) -> Acc] : IsFold(f, k, base, step)
      BY <1>2
    <2>2. QED
      BY <1>2, <2>1, FoldStep
  <1> HIDE DEF Has
  <1>3. None = {}
    <2> SUFFICES ASSUME None # {} PROVE FALSE
      OBVIOUS
    <2>1. PICK m \in None : \A k \in None : m <= k
      BY LeastNatural
    <2>2. m \in Nat /\ m # 0 /\ m <= n /\ ~Has(m)
      BY <1>1, <2>1
    <2>3. m - 1 \in Nat /\ (m - 1) + 1 = m /\ ~(m <= m - 1) /\ m - 1 <= n
      BY <2>2
    <2>4. Has(m - 1)
      BY <2>1, <2>3
    <2>5. Has((m - 1) + 1)
      BY <1>2, <2>2, <2>3, <2>4
    <2>6. QED
      BY <2>2, <2>3, <2>5
  <1>4. Has(n)
    BY <1>3
  <1>5. QED
    BY <1>4 DEF Has

LEMMA MaxIsIn ==
    ASSUME NEW n \in Nat, NEW s \in SUBSET (1..n), s # {}
    PROVE  Max(s) \in s
  <1> DEFINE Room == {n - x : x \in s}
  <1>1. Room \subseteq Nat /\ Room # {}
    <2>1. \A x \in s : x \in Nat /\ x <= n
      OBVIOUS
    <2>2. \A x \in s : n - x \in Nat
      BY <2>1
    <2>3. PICK x \in s : TRUE
      OBVIOUS
    <2>4. n - x \in Room
      OBVIOUS
    <2>5. QED
      BY <2>2, <2>4
  <1>2. PICK d \in Room : \A y \in Room : d <= y
    BY <1>1, LeastNatural
  <1>3. PICK x \in s : d = n - x
    BY <1>2
  <1>4. \A y \in s : x >= y
    <2> TAKE y \in s
    <2>1. n - y \in Room /\ x \in Nat /\ y \in Nat
      OBVIOUS
    <2>2. n - x <= n - y
      BY <1>2, <1>3, <2>1
    <2>3. QED
      BY <2>1, <2>2
  <1>5. QED
    BY <1>3, <1>4 DEF Max

LEMMA MaxOfInitial ==
    ASSUME NEW n \in Nat, NEW k \in 1..n
    PROVE  /\ 1..k \in SUBSET (1..n) /\ 1..k # {}
           /\ Max(1..k) = k /\ (1..k) \ {k} = 1..(k-1)
  <1>1. k - 1 \in Nat /\ (k - 1) + 1 = k
    OBVIOUS
  <1>2. 1..k \in SUBSET (1..n) /\ k \in 1..k /\ 1..k # {}
    OBVIOUS
  <1>3. Max(1..k) = k
    BY <1>1, <1>2, MaxOfPrefix
  <1>4. (1..k) \ {k} = 1..(k-1)
    OBVIOUS
  <1>5. QED
    BY <1>2, <1>3, <1>4

(* What holds of 0 and of k + 1 whenever of k, holds up to n. *)
LEMMA CountsUp ==
    ASSUME NEW n \in Nat, NEW Holds, 0 \in Holds, \A k \in 0..(n - 1) : k \in Holds => k + 1 \in Holds
    PROVE  \A k \in 0..n : k \in Holds
<1> SUFFICES ASSUME (0..n) \ Holds # {} PROVE FALSE
  OBVIOUS
<1>1. PICK m \in (0..n) \ Holds : \A k \in (0..n) \ Holds : m <= k
  <2>1. (0..n) \ Holds \subseteq Nat
    OBVIOUS
  <2> QED  BY <2>1, LeastNatural
<1>2. m - 1 \in 0..(n - 1) /\ m - 1 \in 0..n /\ (m - 1) + 1 = m /\ ~(m <= m - 1)
  BY <1>1
<1> QED  BY <1>1, <1>2

-----------------------------------------------------------------------------
(* The event log and what is read from it. *)

LoggedItems ==
  {[session |-> s, type |-> k.type, name |-> k.name, ts |-> t] : s \in SessionIds, k \in Shapes, t \in 0..Today}

LogInv == items \subseteq LoggedItems /\ IsFiniteSet(items)

LEMMA LogKeepsInv ==
    /\ LogInit => LogInv
    /\ LogInv /\ [LogNext]_logVars => LogInv'
<1>1. LogInit => LogInv
  BY FS_EmptySet DEF LogInit, LogInv
<1>2. ASSUME LogInv, NEW s \in SessionIds, NEW its \in ItemsOf(s), items' = items \cup its
      PROVE  LogInv'
  <2>1. its \subseteq LoggedItems
    BY <1>2 DEF ItemsOf, LoggedItems
  <2>2. IsFiniteSet(its)
    <3>1. its = {} \/ \E i : its = {i}
      BY DEF ItemsOf
    <3> QED  BY <3>1, FS_EmptySet, FS_Singleton
  <2> QED  BY <1>2, <2>1, <2>2, FS_Union DEF LogInv
<1>3. ASSUME LogInv, LogNext PROVE LogInv'
  BY <1>2, <1>3 DEF LogNext, Envelope
<1> QED  BY <1>1, <1>3 DEF LogInv, logVars

(* The rows of a query, in the order it returned them. *)
Ordering(q, I) ==
  /\ Len(q) \in Nat /\ DOMAIN q = 1..Len(q)
  /\ \A i \in DOMAIN q : q[i] \in I
  /\ \A i, j \in DOMAIN q : i < j => q[i].ts <= q[j].ts

LEMMA OrdersAreOrderings ==
    ASSUME LogInv, NEW I \in SUBSET items, NEW q \in OrdersOf(I)
    PROVE  Ordering(q, I)
<1>1. Cardinality(I) \in Nat
  BY FS_Subset, FS_CardinalityType DEF LogInv
<1>2. q \in [1..Cardinality(I) -> I]
  BY Zenon DEF OrdersOf, SetToSeqs
<1>3. Len(q) = Cardinality(I) /\ DOMAIN q = 1..Len(q)
  BY <1>1, <1>2
<1>4. \A i, j \in DOMAIN q : i < j => q[i].ts <= q[j].ts
  BY DEF OrdersOf
<1> QED  BY <1>1, <1>2, <1>3, <1>4 DEF Ordering

(* The order of one session may be that of another: its rows are its own.  *)
LEMMA ReadingsAreOrderings ==
    ASSUME LogInv, NEW Own \in [Rows -> SUBSET items],
           NEW read \in [Rows -> UNION {OrdersOf(Own[s]) : s \in Rows}],
           \A s \in Rows : Range(read[s]) = Own[s], NEW s \in Rows
    PROVE  Ordering(read[s], Own[s])
<1>1. PICK t \in Rows : read[s] \in OrdersOf(Own[t])
  OBVIOUS
<1>2. Ordering(read[s], Own[t])
  BY <1>1, OrdersAreOrderings
<1>3. \A i \in DOMAIN read[s] : read[s][i] \in Range(read[s])
  BY DEF Range
<1> QED  BY <1>2, <1>3 DEF Ordering

(* An order is of all the rows, each once. *)
Arrangement(q, I) ==
  /\ Ordering(q, I)
  /\ q \in [1..Len(q) -> I]
  /\ \A i, j \in DOMAIN q : i # j => q[i] # q[j]
  /\ \A x \in I : \E i \in DOMAIN q : q[i] = x

LEMMA ReadingsAreArrangements ==
    ASSUME LogInv, NEW Own \in [Rows -> SUBSET items],
           NEW read \in [Rows -> UNION {OrdersOf(Own[s]) : s \in Rows}],
           \A s \in Rows : Range(read[s]) = Own[s], NEW s \in Rows
    PROVE  Arrangement(read[s], Own[s])
<1>1. PICK t \in Rows : read[s] \in OrdersOf(Own[t])
  OBVIOUS
<1>2. Ordering(read[s], Own[s])
  BY ReadingsAreOrderings
<1>3. read[s] \in [1..Cardinality(Own[t]) -> Own[t]]
      /\ \A i, j \in 1..Cardinality(Own[t]) : i # j => read[s][i] # read[s][j]
  BY <1>1, Zenon DEF OrdersOf, SetToSeqs
<1>4. DOMAIN read[s] = 1..Cardinality(Own[t])
  BY <1>3
<1>5. read[s] = [i \in DOMAIN read[s] |-> read[s][i]]
  BY <1>3
<1>6. read[s] \in [1..Len(read[s]) -> Own[s]]
  BY <1>2, <1>5 DEF Ordering
<1>7. \A x \in Own[s] : \E i \in DOMAIN read[s] : read[s][i] = x
  BY DEF Range
<1> QED  BY <1>2, <1>3, <1>4, <1>6, <1>7 DEF Arrangement

(* Where two orders agree so far, neither is ahead of the other. *)
LEMMA NeitherIsAhead ==
    ASSUME NEW I, \A x \in I : x.ts \in Nat, NEW q, NEW r, Arrangement(q, I), Arrangement(r, I),
           NEW k \in DOMAIN r, \A j \in DOMAIN r : j < k => j \in DOMAIN q /\ q[j] = r[j]
    PROVE  k \in DOMAIN q /\ q[k].ts <= r[k].ts
<1>1. /\ Len(q) \in Nat /\ DOMAIN q = 1..Len(q)
      /\ Len(r) \in Nat /\ DOMAIN r = 1..Len(r)
      /\ \A i \in DOMAIN q : q[i] \in I
      /\ \A i, j \in DOMAIN q : i < j => q[i].ts <= q[j].ts
      /\ \A i, j \in DOMAIN r : i # j => r[i] # r[j]
      /\ r[k] \in I
  BY DEF Arrangement, Ordering
<1>2. PICK j \in DOMAIN q : q[j] = r[k]
  BY <1>1 DEF Arrangement
<1>3. ~(j < k)
  <2> SUFFICES ASSUME j < k PROVE FALSE
    OBVIOUS
  <2>1. j \in DOMAIN r
    BY <1>1
  <2>2. q[j] = r[j] /\ j # k
    BY <1>1, <2>1
  <2> QED  BY <1>1, <1>2, <2>1, <2>2
<1>4. k \in DOMAIN q
  BY <1>1, <1>3
<1>5. CASE j = k
  <2>1. r[k].ts \in Nat
    BY <1>1
  <2> QED  BY <1>2, <1>4, <1>5, <2>1
<1>6. CASE j # k
  <2>1. k < j
    BY <1>1, <1>3, <1>6
  <2> QED  BY <1>1, <1>2, <1>4, <2>1
<1> QED  BY <1>5, <1>6

(* Rows of different instants have one order. *)
LEMMA TimesOrderTheRows ==
    ASSUME NEW I, \A x \in I : x.ts \in Nat, \A x, y \in I : x.ts = y.ts => x = y,
           NEW q, NEW r, Arrangement(q, I), Arrangement(r, I)
    PROVE  q = r
<1> DEFINE Differ == {k \in Nat : k \in DOMAIN q \cup DOMAIN r /\ ~(k \in DOMAIN q /\ k \in DOMAIN r /\ q[k] = r[k])}
<1>1. /\ Len(q) \in Nat /\ DOMAIN q = 1..Len(q) /\ q \in [1..Len(q) -> I]
      /\ Len(r) \in Nat /\ DOMAIN r = 1..Len(r) /\ r \in [1..Len(r) -> I]
  BY DEF Arrangement, Ordering
<1>2. Differ = {}
  <2> SUFFICES ASSUME Differ # {} PROVE FALSE
    OBVIOUS
  <2>1. PICK k \in Differ : \A j \in Differ : k <= j
    <3>1. Differ \subseteq Nat
      OBVIOUS
    <3> HIDE DEF Differ
    <3> QED  BY <3>1, LeastNatural
  <2>2. \A j \in Nat : j < k => j \notin Differ
    <3>1. k \in Nat
      OBVIOUS
    <3> HIDE DEF Differ
    <3> QED  BY <2>1, <3>1
  <2>3. \A j \in DOMAIN q \cup DOMAIN r : j \in Nat
    BY <1>1
  <2>4. \A j \in DOMAIN q \cup DOMAIN r : j < k => j \in DOMAIN q /\ j \in DOMAIN r /\ q[j] = r[j]
    BY <2>2, <2>3
  <2>5. k \in DOMAIN r => k \in DOMAIN q /\ q[k].ts <= r[k].ts
    BY <2>4, NeitherIsAhead
  <2>6. k \in DOMAIN q => k \in DOMAIN r /\ r[k].ts <= q[k].ts
    BY <2>4, NeitherIsAhead
  <2>7. k \in DOMAIN q /\ k \in DOMAIN r
    BY <2>5, <2>6
  <2>8. q[k] \in I /\ r[k] \in I
    BY <1>1, <2>7
  <2>9. q[k].ts = r[k].ts
    BY <2>5, <2>6, <2>7, <2>8
  <2>10. q[k] = r[k]
    BY <2>8, <2>9
  <2> QED  BY <2>7, <2>10
<1>3. \A k \in DOMAIN q \cup DOMAIN r : k \in DOMAIN q /\ k \in DOMAIN r /\ q[k] = r[k]
  <2>1. \A k \in DOMAIN q \cup DOMAIN r : k \in Nat
    BY <1>1
  <2> QED  BY <1>2, <2>1
<1>4. DOMAIN q = DOMAIN r /\ \A k \in DOMAIN q : q[k] = r[k]
  BY <1>3
<1> QED  BY <1>1, <1>4

-----------------------------------------------------------------------------
(* Paths. *)

(* An event is not called by the name of the links that end a session.     *)
NoneNamedExit == \A k \in Shapes : k.type = "event" => k.name # "Exit"

Indexed(q) == Len(q) \in Nat /\ DOMAIN q = 1..Len(q)

LinkAt(q, k) ==
  [step |-> k, source |-> EventName(q[k + 1]),
   target |-> IF k + 2 <= Len(q) THEN EventName(q[k + 2]) ELSE "Exit"]

(* A diagram that starts with the first event of each session. *)
Rootless(o) == o.root = ""

LEMMA ShiftedDown ==
    ASSUME NEW n \in Nat, NEW limit \in Nat
    PROVE  {j - 1 : j \in {i \in 1..n : i - 1 <= limit}} = {k \in Nat : k + 1 <= n /\ k <= limit}
<1>1. ASSUME NEW k \in Nat, k + 1 <= n, k <= limit
      PROVE  k \in {j - 1 : j \in {i \in 1..n : i - 1 <= limit}}
  <2>1. k + 1 \in 1..n /\ (k + 1) - 1 = k
    BY <1>1
  <2>2. k + 1 \in {i \in 1..n : i - 1 <= limit}
    BY <1>1, <2>1
  <2> QED  BY <2>1, <2>2
<1> QED  BY <1>1

LEMMA Windows ==
    ASSUME NEW q, Indexed(q), NEW o, Rootless(o), o.limit \in Nat
    PROVE  Consecutive(q, o) = {LinkAt(q, k) : k \in {j \in Nat : j < o.limit /\ j + 1 <= Len(q)}}
<1> DEFINE w == Windowed(q, o)
           n == Len(q)
           limit == o.limit
           D == {j - 1 : j \in {i \in DOMAIN q : i - 1 <= o.limit}}
<1>1. w = [k \in D |-> EventName(q[k + 1])]
  BY Zenon DEF Windowed, Rootless
<1>2. n \in Nat /\ limit \in Nat
  BY DEF Indexed
<1>3. D = {k \in Nat : k + 1 <= n /\ k <= limit}
  BY <1>2, ShiftedDown DEF Indexed
<1>4. Consecutive(q, o) =
        {[step |-> k, source |-> w[k], target |-> IF k + 1 \in DOMAIN w THEN w[k + 1] ELSE "Exit"] :
           k \in {j \in DOMAIN w : j < limit}}
  BY DEF Consecutive
<1>5. DOMAIN w = D /\ \A k \in D : w[k] = EventName(q[k + 1])
  <2> HIDE DEF w, D
  <2> QED  BY <1>1
<1> HIDE DEF w, D, limit, n
<1>6. {j \in DOMAIN w : j < limit} = {j \in Nat : j < limit /\ j + 1 <= n}
  BY <1>2, <1>3, <1>5
<1>7. ASSUME NEW k \in {j \in Nat : j < limit /\ j + 1 <= n}
      PROVE  [step |-> k, source |-> w[k], target |-> IF k + 1 \in DOMAIN w THEN w[k + 1] ELSE "Exit"]
               = LinkAt(q, k)
  <2>1. k \in D /\ (k + 1 \in D <=> k + 2 <= n) /\ (k + 1) + 1 = k + 2
    BY <1>2, <1>3
  <2>2. w[k] = EventName(q[k + 1]) /\ (k + 1 \in D => w[k + 1] = EventName(q[k + 2]))
    BY <2>1, <1>5
  <2> QED  BY <2>1, <2>2, <1>5 DEF LinkAt, n
<1> QED  BY <1>4, <1>6, <1>7 DEF limit, n

LEMMA LinksListTheirSessions ==
    ASSUME NEW read, NEW o, Rootless(o), o.limit \in Nat,
           \A s \in DOMAIN read : Indexed(read[s]),
           NEW l \in LinkRows(read, o), l.target # "Exit"
    PROVE  Took(read, l) = Traversing(l, read, o)
<1>1. \A s \in DOMAIN read :
        Consecutive(read[s], o) = {LinkAt(read[s], k) : k \in {j \in Nat : j < o.limit /\ j + 1 <= Len(read[s])}}
  BY Windows
<1>2. PICK t \in DOMAIN read : l \in Consecutive(read[t], o)
  BY DEF LinkRows
<1>3. PICK k \in Nat : k < o.limit /\ l = LinkAt(read[t], k)
  BY <1>1, <1>2
<1>4. l.step = k /\ l = [step |-> k, source |-> l.source, target |-> l.target]
  BY <1>3 DEF LinkAt
<1>5. ASSUME NEW s \in DOMAIN read
      PROVE  l \in Consecutive(read[s], o) <=> s \in Took(read, l)
  <2> DEFINE n == Len(read[s])
  <2>1. n \in Nat /\ DOMAIN read[s] = 1..n
    BY DEF Indexed
  <2> HIDE DEF n
  <2>2. s \in Took(read, l) <=>
          k + 2 <= n /\ EventName(read[s][k + 1]) = l.source /\ EventName(read[s][k + 2]) = l.target
    <3>1. s \in Took(read, l) <=>
            /\ k + 1 \in 1..n /\ EventName(read[s][k + 1]) = l.source
            /\ k + 2 \in 1..n /\ EventName(read[s][k + 2]) = l.target
      BY <1>4, <2>1 DEF Took
    <3>a. n \in Nat /\ k \in Nat
      BY <1>3, <2>1
    <3>2. (k + 2 \in 1..n <=> k + 2 <= n) /\ (k + 2 <= n => k + 1 \in 1..n)
      BY <3>a
    <3> QED  BY <3>1, <3>2
  <2>3. LinkAt(read[s], k).source = EventName(read[s][k + 1])
        /\ LinkAt(read[s], k).target = IF k + 2 <= n THEN EventName(read[s][k + 2]) ELSE "Exit"
    BY DEF LinkAt, n
  <2>4. l = LinkAt(read[s], k) <=> l.source = LinkAt(read[s], k).source /\ l.target = LinkAt(read[s], k).target
    BY <1>4 DEF LinkAt
  <2>5. l \in Consecutive(read[s], o) <=> k + 1 <= n /\ l = LinkAt(read[s], k)
    <3>1. \A j \in Nat : LinkAt(read[s], j).step = j
      BY DEF LinkAt
    <3>2. \A j \in Nat : l = LinkAt(read[s], j) => j = k
      BY <1>4, <3>1
    <3> HIDE DEF n
    <3> QED  BY <1>1, <1>3, <3>2 DEF n
  <2>6. k + 2 <= n => k + 1 <= n
    BY <1>3, <2>1
  <2> QED  BY <2>2, <2>3, <2>4, <2>5, <2>6
<1> QED  BY <1>5 DEF Took, Traversing

(* In a plain diagram a link counts the sessions whose replays it lists,   *)
(* but for those with two events of one instant, as far as the list goes;  *)
(* and one that ends in an exit is of a session that ended there, if no    *)
(* event is called Exit (CalculateUserPaths, GetPathSessions).             *)
THEOREM LinksCountTheirSessions ==
    ASSUME NoneNamedExit
    PROVE  AnalyticsSpec => []LinkCountsItsSessions
<1>1. AnalyticsInit => LogInv
  BY LogKeepsInv DEF AnalyticsInit
<1>2. LogInv /\ [AnalyticsNext]_analyticsVars => LogInv'
  BY AreaSteps, LogKeepsInv
<1>3. ASSUME LogInv PROVE LinkCountsItsSessions
  <2> SUFFICES ASSUME NEW limit \in {1, 2}
               PROVE  LET o == PathOptions("", "forward", limit, Today, {}, 1)
                          Events(s) == FilteredEvents(s, o.since, {})
                          readings == ReadingsOf(Events) IN
                      \A read \in readings :
                        /\ \A row \in CalculateUserPaths(read, o).links :
                             LET counted == Traversing(row[1], read, o) IN
                             row[1].target # "Exit" =>
                               \A again \in readings, most \in {0, 1} :
                                 \A listed \in GetPathSessions(again, row[1], most) :
                                   /\ row[2] = Cardinality(counted)
                                   /\ listed \subseteq counted \cup Tied(Events)
                                   /\ Cardinality(listed) = ListLength(most) \/ counted \subseteq listed \cup Tied(Events)
                        /\ \A l \in LinkRows(read, o) : l.target = "Exit" =>
                             \A s \in Traversing(l, read, o) : Len(read[s]) = l.step + 1
    BY DEF LinkCountsItsSessions
  <2> DEFINE o == PathOptions("", "forward", limit, Today, {}, 1)
             Events(s) == FilteredEvents(s, o.since, {})
             Own == [s \in Rows |-> Events(s)]
  <2>1. Rootless(o) /\ o.limit = limit /\ o.limit \in Nat
    <3>1. Rootless(o)
      BY Zenon DEF PathOptions, Rootless
    <3>2. o.limit = limit
      BY DEF PathOptions
    <3> HIDE DEF o
    <3> QED  BY <3>1, <3>2
  <2> HIDE DEF o
  <2> SUFFICES ASSUME NEW read \in ReadingsOf(Events)
               PROVE  /\ \A row \in CalculateUserPaths(read, o).links :
                           row[1].target # "Exit" =>
                             \A again \in ReadingsOf(Events), most \in {0, 1} :
                               \A listed \in GetPathSessions(again, row[1], most) :
                                 /\ row[2] = Cardinality(Traversing(row[1], read, o))
                                 /\ listed \subseteq Traversing(row[1], read, o) \cup Tied(Events)
                                 /\ \/ Cardinality(listed) = ListLength(most)
                                    \/ Traversing(row[1], read, o) \subseteq listed \cup Tied(Events)
                      /\ \A l \in LinkRows(read, o) : l.target = "Exit" =>
                           \A s \in Traversing(l, read, o) : Len(read[s]) = l.step + 1
    BY DEF o
  <2>2. Own \in [Rows -> SUBSET items]
    BY DEF FilteredEvents
  <2>3. /\ read \in [Rows -> UNION {OrdersOf(Own[s]) : s \in Rows}]
        /\ \A s \in Rows : Range(read[s]) = Own[s]
    BY DEF ReadingsOf
  <2>4. \A s \in Rows : Ordering(read[s], Own[s])
    BY <1>3, <2>2, <2>3, ReadingsAreOrderings
  <2>5. DOMAIN read = Rows /\ \A s \in DOMAIN read : Indexed(read[s])
    BY <2>3, <2>4 DEF Ordering, Indexed
  <2>6. ASSUME NEW row \in CalculateUserPaths(read, o).links, row[1].target # "Exit",
               NEW again \in ReadingsOf(Events), NEW most \in {0, 1},
               NEW listed \in GetPathSessions(again, row[1], most)
        PROVE  /\ row[2] = Cardinality(Traversing(row[1], read, o))
               /\ listed \subseteq Traversing(row[1], read, o) \cup Tied(Events)
               /\ \/ Cardinality(listed) = ListLength(most)
                  \/ Traversing(row[1], read, o) \subseteq listed \cup Tied(Events)
    <3>1. PICK l \in LinkRows(read, o) : row = <<l, Cardinality(Traversing(l, read, o))>>
      BY DEF CalculateUserPaths
    <3>2. row[1] = l /\ row[2] = Cardinality(Traversing(l, read, o)) /\ l.target # "Exit"
      BY <2>6, <3>1
    <3>3. Took(read, l) = Traversing(l, read, o)
      BY <2>1, <2>5, <3>2, LinksListTheirSessions
    <3>4. /\ again \in [Rows -> UNION {OrdersOf(Own[s]) : s \in Rows}]
          /\ \A s \in Rows : Range(again[s]) = Own[s]
      BY DEF ReadingsOf
    <3>5. ASSUME NEW s \in Rows, s \notin Tied(Events)
          PROVE  again[s] = read[s]
      <4>1. Arrangement(read[s], Own[s])
        BY <1>3, <2>2, <2>3, ReadingsAreArrangements
      <4>2. Arrangement(again[s], Own[s])
        BY <1>3, <2>2, <3>4, ReadingsAreArrangements
      <4>3. \A x \in Own[s] : x.ts \in Nat
        BY <1>3, <2>2 DEF LogInv, LoggedItems
      <4>4. Own[s] = Events(s)
        OBVIOUS
      <4>5. \A x, y \in Own[s] : x.ts = y.ts => x = y
        BY <3>5, <4>4 DEF Tied
      <4> HIDE DEF Own
      <4> QED  BY <4>1, <4>2, <4>3, <4>5, TimesOrderTheRows
    <3>6. \A s \in Rows : s \notin Tied(Events) => (s \in Took(again, l) <=> s \in Took(read, l))
      BY <2>5, <3>4, <3>5 DEF Took
    <3>7. Took(again, l) \subseteq Rows /\ Took(read, l) \subseteq Rows
      BY <2>5, <3>4 DEF Took
    <3>8. listed \subseteq Took(again, l) /\ (Cardinality(listed) = ListLength(most) \/ listed = Took(again, l))
      BY <3>2 DEF GetPathSessions
    <3> HIDE DEF o, Own, Events
    <3> QED  BY <3>2, <3>3, <3>6, <3>7, <3>8
  <2>7. ASSUME NEW l \in LinkRows(read, o), l.target = "Exit", NEW s \in Traversing(l, read, o)
        PROVE  Len(read[s]) = l.step + 1
    <3>1. s \in Rows /\ l \in Consecutive(read[s], o)
      BY <2>5 DEF Traversing
    <3>2. PICK k \in Nat : k < o.limit /\ k + 1 <= Len(read[s]) /\ l = LinkAt(read[s], k)
      <4>1. Indexed(read[s])
        BY <2>5, <3>1
      <4>2. Consecutive(read[s], o) = {LinkAt(read[s], k) : k \in {j \in Nat : j < o.limit /\ j + 1 <= Len(read[s])}}
        BY <2>1, <4>1, Windows
      <4> QED  BY <3>1, <4>2
    <3>3. \A i \in DOMAIN read[s] : EventName(read[s][i]) # "Exit"
      <4> SUFFICES ASSUME NEW i \in DOMAIN read[s] PROVE EventName(read[s][i]) # "Exit"
        OBVIOUS
      <4>1. read[s][i] \in LoggedItems
        BY <1>3, <2>2, <2>4, <3>1 DEF Ordering, LogInv
      <4>2. PICK k1 \in Shapes : read[s][i].type = k1.type /\ read[s][i].name = k1.name
        BY <4>1 DEF LoggedItems
      <4> QED  BY <4>2 DEF EventName, NoneNamedExit
    <3>4. Len(read[s]) \in Nat /\ DOMAIN read[s] = 1..Len(read[s])
      BY <2>5, <3>1 DEF Indexed
    <3>5. ~(k + 2 <= Len(read[s]))
      <4> SUFFICES ASSUME k + 2 <= Len(read[s]) PROVE FALSE
        OBVIOUS
      <4>1. k + 2 \in DOMAIN read[s]
        BY <3>4
      <4>2. l.target = EventName(read[s][k + 2])
        BY <3>2 DEF LinkAt
      <4> QED  BY <2>7, <3>3, <4>1, <4>2
    <3>6. l.step = k
      BY <3>2 DEF LinkAt
    <3> QED  BY <3>2, <3>4, <3>5, <3>6
  <2> QED  BY <2>6, <2>7
<1> QED  BY <1>1, <1>2, <1>3, PTL DEF AnalyticsSpec

-----------------------------------------------------------------------------
(* Funnels. *)

(* The events of a session, in an order of their times. *)
Timeline(q) ==
  /\ Indexed(q)
  /\ \A i \in 1..Len(q) : q[i].ts \in Nat
  /\ \A i, j \in 1..Len(q) : i < j => q[i].ts <= q[j].ts

FunnelOf(f) == Len(f.steps) \in Nat /\ f.window \in Nat

Standing(f) == [reached : 0..Len(f.steps), start : Nat, last : Nat]
AtTheGate == [reached |-> 0, start |-> 0, last |-> 0]

LEMMA AdvanceIsStanding ==
    ASSUME NEW f, FunnelOf(f), NEW w \in Standing(f), NEW e, e.ts \in Nat
    PROVE  /\ Advance(f, w, e) \in Standing(f)
           /\ Advance(f, w, e).reached >= w.reached
<1>1. CASE Advance(f, w, e) = w
  BY <1>1 DEF FunnelOf, Standing
<1>2. CASE w.reached # Len(f.steps) /\
           Advance(f, w, e) = [reached |-> w.reached + 1, start |-> IF w.reached = 0 THEN e.ts ELSE w.start, last |-> e.ts]
  BY <1>2 DEF FunnelOf, Standing
<1> QED  BY <1>1, <1>2 DEF Advance

(* The walk, an event at a time. *)
IsWalk(W, f, q) ==
  /\ W \in [0..Len(q) -> Standing(f)]
  /\ W[0] = AtTheGate
  /\ \A k \in 0..(Len(q) - 1) : W[k + 1] = Advance(f, W[k], q[k + 1])

WalkTable(t, f, q) ==
    t = [s \in SUBSET (DOMAIN q) |->
            IF s = {} THEN AtTheGate ELSE Advance(f, t[s \ {Max(s)}], q[Max(s)])]

LEMMA WalkTableExists ==
    ASSUME NEW f, FunnelOf(f), NEW q, Timeline(q)
    PROVE  \E t : WalkTable(t, f, q)
<1> DEFINE n == Len(q)
           step == [p \in Standing(f) \X (1..n) |-> Advance(f, p[1], q[p[2]])]
<1>1. n \in Nat /\ DOMAIN q = 1..n /\ \A i \in 1..n : q[i].ts \in Nat
  BY DEF Timeline, Indexed
<1>2. step \in [Standing(f) \X (1..n) -> Standing(f)]
  BY <1>1, AdvanceIsStanding
<1>3. AtTheGate \in Standing(f)
  BY DEF AtTheGate, Standing, FunnelOf
<1>4. PICK t \in [SUBSET (1..n) -> Standing(f)] : IsFold(t, n, AtTheGate, step)
  <2> HIDE DEF step
  <2> QED  BY <1>1, <1>2, <1>3, FoldExists
<1>5. ASSUME NEW s \in SUBSET (1..n), s # {}
      PROVE  t[s] = Advance(f, t[s \ {Max(s)}], q[Max(s)])
  <2>1. Max(s) \in s
    BY <1>1, <1>5, MaxIsIn
  <2>2. t[s] = step[<<t[s \ {Max(s)}], Max(s)>>]
    <3> HIDE DEF step
    <3> QED  BY <1>4, <1>5, Zenon DEF IsFold
  <2>3. t[s \ {Max(s)}] \in Standing(f)
    BY <1>4
  <2>4. <<t[s \ {Max(s)}], Max(s)>> \in Standing(f) \X (1..n)
    BY <2>1, <2>3
  <2> QED  BY <2>2, <2>4
<1>6. t[{}] = AtTheGate
  <2> HIDE DEF step
  <2>1. {} \in SUBSET (1..n)
    OBVIOUS
  <2> QED  BY <1>4, <2>1, Zenon DEF IsFold
<1>7. WalkTable(t, f, q)
  <2>1. t = [s \in SUBSET (1..n) |-> t[s]]
    BY <1>4
  <2> HIDE DEF step
  <2> QED  BY <1>1, <1>5, <1>6, <2>1 DEF WalkTable
<1> QED  BY <1>7

LEMMA WalkRuns ==
    ASSUME NEW f, FunnelOf(f), NEW q, Timeline(q)
    PROVE  \E W : IsWalk(W, f, q) /\ Walk(f, q) = W[Len(q)]
<1> DEFINE n == Len(q)
           t == CHOOSE t : WalkTable(t, f, q)
<1>1. n \in Nat /\ DOMAIN q = 1..n /\ \A i \in 1..n : q[i].ts \in Nat
  BY DEF Timeline, Indexed
<1>2. Walk(f, q) = t[1..n]
  BY <1>1, Zenon DEF Walk, FoldLeft, MapThenFoldSet, WalkTable, AtTheGate
<1>3. WalkTable(t, f, q)
  BY WalkTableExists
<1> HIDE DEF t
<1>4. \A s \in SUBSET (1..n) :
        t[s] = IF s = {} THEN AtTheGate ELSE Advance(f, t[s \ {Max(s)}], q[Max(s)])
  BY <1>1, <1>3, Zenon DEF WalkTable
<1>5. t[1..0] = AtTheGate
  <2>1. 1..0 = {} /\ {} \in SUBSET (1..n)
    OBVIOUS
  <2> QED  BY <1>4, <2>1
<1>6. \A k \in 1..n : t[1..k] = Advance(f, t[1..(k-1)], q[k])
  <2> TAKE k \in 1..n
  <2>1. t[1..k] = Advance(f, t[(1..k) \ {Max(1..k)}], q[Max(1..k)])
    BY <1>1, <1>4, MaxOfInitial, Zenon
  <2> QED  BY <1>1, <2>1, MaxOfInitial, Zenon
<1> DEFINE W == [k \in 0..n |-> t[1..k]]
           Typed == {k \in 0..n : t[1..k] \in Standing(f)}
<1>7. \A k \in 0..(n - 1) : t[1..(k + 1)] = Advance(f, t[1..k], q[k + 1])
  <2> TAKE k \in 0..(n - 1)
  <2>1. k + 1 \in 1..n /\ (k + 1) - 1 = k
    BY <1>1
  <2> QED  BY <1>6, <2>1
<1>8. \A k \in 0..n : k \in Typed
  <2>1. 0 \in Typed
    BY <1>1, <1>5 DEF AtTheGate, Standing, FunnelOf
  <2>2. ASSUME NEW k \in 0..(n - 1), k \in Typed PROVE k + 1 \in Typed
    <3>1. k + 1 \in 1..n /\ k + 1 \in 0..n
      BY <1>1
    <3>2. q[k + 1].ts \in Nat
      BY <1>1, <3>1
    <3> QED  BY <1>7, <2>2, <3>1, <3>2, AdvanceIsStanding
  <2> HIDE DEF Typed
  <2> QED  BY <1>1, <2>1, <2>2, CountsUp
<1>9. IsWalk(W, f, q)
  <2>1. W \in [0..n -> Standing(f)]
    BY <1>8
  <2>2. W[0] = AtTheGate
    BY <1>1, <1>5
  <2>3. \A k \in 0..(n - 1) : W[k + 1] = Advance(f, W[k], q[k + 1])
    <3> TAKE k \in 0..(n - 1)
    <3>1. k \in 0..n /\ k + 1 \in 0..n
      BY <1>1
    <3> QED  BY <1>7, <3>1
  <2> QED  BY <2>1, <2>2, <2>3 DEF IsWalk
<1>10. Walk(f, q) = W[n]
  BY <1>1, <1>2
<1> QED  BY <1>9, <1>10

(* Events in the first j that take the first k steps one after another, and *)
(* whether an event is the first of the first step.                         *)
Climbs(f, q, j, k, p) ==
  /\ p \in [1..k -> 1..j]
  /\ \A i \in 1..k : q[p[i]].name = f.steps[i] /\ (i > 1 => p[i - 1] < p[i])

Enters(f, q, i) == q[i].name = f.steps[1] /\ \A j \in 1..(i - 1) : q[j].name # f.steps[1]

LEMMA ClimbsRise ==
    ASSUME NEW k \in Nat, NEW j \in Nat, NEW p \in [1..k -> 1..j],
           \A i \in 1..k : i > 1 => p[i - 1] < p[i], NEW i \in 1..k
    PROVE  p[i] <= p[k]
<1> DEFINE Holds == {d \in 0..(k - 1) : p[k - d] <= p[k]}
<1>1. k - 1 \in Nat /\ k >= 1
  OBVIOUS
<1>2. 0 \in Holds
  BY <1>1
<1>3. ASSUME NEW d \in 0..((k - 1) - 1), d \in Holds PROVE d + 1 \in Holds
  <2>1. k - d \in 1..k /\ k - d > 1 /\ (k - d) - 1 = k - (d + 1) /\ k - (d + 1) \in 1..k /\ d + 1 \in 0..(k - 1)
    OBVIOUS
  <2>2. p[k - (d + 1)] < p[k - d] /\ p[k - d] <= p[k]
    BY <1>3, <2>1
  <2>3. p[k - (d + 1)] \in Nat /\ p[k - d] \in Nat /\ p[k] \in Nat
    BY <1>1, <2>1
  <2> QED  BY <2>1, <2>2, <2>3
<1> HIDE DEF Holds
<1>4. \A d \in 0..(k - 1) : d \in Holds
  BY <1>1, <1>2, <1>3, CountsUp
<1>5. k - i \in 0..(k - 1) /\ k - (k - i) = i
  OBVIOUS
<1> QED  BY <1>4, <1>5 DEF Holds

(* The walk stands where a passage through the first j events led it ...   *)
Led(f, q, j, w) ==
  /\ w.reached = 0 => \A i \in 1..j : q[i].name # f.steps[1]
  /\ w.reached > 0 => \E p :
       /\ Climbs(f, q, j, w.reached, p) /\ Enters(f, q, p[1])
       /\ w.start = q[p[1]].ts
       /\ \A i \in 1..w.reached : q[p[i]].ts - w.start <= f.window

(* ... and no passage leads further.                                       *)
Leading(f, q, j, w) ==
  \A k \in 1..Len(f.steps) : \A p :
    Climbs(f, q, j, k, p) /\ Enters(f, q, p[1]) /\ q[p[k]].ts - q[p[1]].ts <= f.window => w.reached >= k

LEMMA AdvanceIsLed ==
    ASSUME NEW f, FunnelOf(f), Len(f.steps) > 0, NEW q, Timeline(q),
           NEW j \in 0..(Len(q) - 1), NEW w \in Standing(f), Led(f, q, j, w)
    PROVE  Led(f, q, j + 1, Advance(f, w, q[j + 1]))
<1> DEFINE r == w.reached
           e == q[j + 1]
           next == [reached |-> r + 1, start |-> IF r = 0 THEN e.ts ELSE w.start, last |-> e.ts]
<1>a. j \in Nat /\ j + 1 \in 1..Len(q) /\ e.ts \in Nat
  BY DEF Timeline, Indexed
<1>b. r \in Nat /\ Len(f.steps) \in Nat /\ f.window \in Nat /\ w.start \in Nat
  BY DEF Standing, FunnelOf
<1>1. CASE r = 0 /\ e.name # f.steps[1]
  <2>1. Advance(f, w, e) = w
    BY <1>1, <1>b DEF Advance
  <2>2. \A i \in 1..(j + 1) : i \in 1..j \/ i = j + 1
    BY <1>a
  <2>3. \A i \in 1..(j + 1) : q[i].name # f.steps[1]
    BY <1>1, <2>2 DEF Led
  <2>4. Led(f, q, j + 1, w)
    BY <1>1, <1>b, <2>3 DEF Led
  <2> QED  BY <2>1, <2>4
<1>2. CASE r > 0 /\ Advance(f, w, e) = w
  <2>1. PICK p : /\ Climbs(f, q, j, r, p) /\ Enters(f, q, p[1]) /\ w.start = q[p[1]].ts
                 /\ \A i \in 1..r : q[p[i]].ts - w.start <= f.window
    BY <1>2 DEF Led
  <2>2. Climbs(f, q, j + 1, r, p)
    BY <2>1, <1>a, <1>b, SMTT(30) DEF Climbs
  <2> QED  BY <1>2, <2>1, <2>2 DEF Led
<1>3. CASE r = 0 /\ e.name = f.steps[1]
  <2> DEFINE p == [i \in 1..1 |-> j + 1]
  <2>1. Advance(f, w, e) = next /\ next.reached = 1 /\ next.start = e.ts
    BY <1>3, <1>b DEF Advance
  <2>2. p[1] = j + 1 /\ p \in [1..1 -> 1..(j + 1)]
    BY <1>a
  <2>3. Climbs(f, q, j + 1, 1, p)
    BY <1>3, <2>2 DEF Climbs
  <2>4. Enters(f, q, j + 1)
    <3>1. (j + 1) - 1 = j
      BY <1>a
    <3> QED  BY <1>3, <3>1 DEF Led, Enters
  <2>5. \A i \in 1..1 : q[p[i]].ts - e.ts <= f.window
    BY <2>2, <1>a, <1>b
  <2> HIDE DEF p, next
  <2> QED  BY <2>1, <2>2, <2>3, <2>4, <2>5 DEF Led
<1>4. CASE r > 0 /\ Advance(f, w, e) # w
  <2>1. r # Len(f.steps) /\ e.name = f.steps[r + 1] /\ ~(e.ts - w.start > f.window) /\ Advance(f, w, e) = next
    BY <1>4, <1>b DEF Advance
  <2>2. PICK p : /\ Climbs(f, q, j, r, p) /\ Enters(f, q, p[1]) /\ w.start = q[p[1]].ts
                 /\ \A i \in 1..r : q[p[i]].ts - w.start <= f.window
    BY <1>4 DEF Led
  <2> DEFINE p2 == [i \in 1..(r + 1) |-> IF i <= r THEN p[i] ELSE j + 1]
  <2>3. \A i \in 1..r : p[i] \in 1..j /\ p2[i] = p[i] /\ i \in 1..(r + 1)
    <3> TAKE i \in 1..r
    <3>1. i \in 1..(r + 1) /\ i <= r
      BY <1>b
    <3>2. p[i] \in 1..j
      BY <2>2 DEF Climbs
    <3> QED  BY <3>1, <3>2
  <2>4. p2[r + 1] = j + 1 /\ (\A i \in 1..(r + 1) : i \in 1..r \/ i = r + 1) /\ r \in 1..r /\ 1 \in 1..r
    BY <1>4, <1>b
  <2>5. p2 \in [1..(r + 1) -> 1..(j + 1)]
    <3>1. \A i \in 1..(r + 1) : p2[i] \in 1..(j + 1)
      <4>1. 1..j \subseteq 1..(j + 1) /\ j + 1 \in 1..(j + 1)
        BY <1>a
      <4> HIDE DEF p2
      <4> QED  BY <2>3, <2>4, <4>1
    <3> QED  BY <3>1
  <2> HIDE DEF p2
  <2>6. \A i \in 1..(r + 1) : q[p2[i]].name = f.steps[i] /\ (i > 1 => p2[i - 1] < p2[i])
    <3> TAKE i \in 1..(r + 1)
    <3>1. CASE i \in 1..r
      <4>1. i > 1 => i - 1 \in 1..r
        BY <3>1, <1>b
      <4> QED  BY <3>1, <4>1, <2>2, <2>3 DEF Climbs
    <3>2. CASE i = r + 1
      <4>1. i - 1 = r
        BY <3>2, <1>b
      <4>2. p[r] < j + 1
        BY <2>3, <2>4, <1>a
      <4> QED  BY <3>2, <4>1, <4>2, <2>1, <2>3, <2>4
    <3> QED  BY <3>1, <3>2, <2>4
  <2>7. Climbs(f, q, j + 1, r + 1, p2)
    BY <2>5, <2>6 DEF Climbs
  <2>8. p2[1] = p[1]
    BY <2>3, <2>4
  <2>9. \A i \in 1..(r + 1) : q[p2[i]].ts - w.start <= f.window
    <3>1. q[p2[r + 1]].ts - w.start <= f.window
      BY <2>1, <2>4, <1>a, <1>b
    <3> QED  BY <3>1, <2>2, <2>3, <2>4
  <2>10. next.reached = r + 1 /\ next.start = w.start
    BY <1>4
  <2> HIDE DEF next
  <2> QED  BY <1>b, <2>1, <2>2, <2>7, <2>8, <2>9, <2>10 DEF Led
<1> QED  BY <1>1, <1>2, <1>3, <1>4, <1>b

LEMMA AdvanceIsLeading ==
    ASSUME NEW f, FunnelOf(f), NEW q, Timeline(q),
           NEW j \in 0..(Len(q) - 1), NEW w \in Standing(f), Led(f, q, j, w), Leading(f, q, j, w)
    PROVE  Leading(f, q, j + 1, Advance(f, w, q[j + 1]))
<1> SUFFICES ASSUME NEW k \in 1..Len(f.steps), NEW p,
                    Climbs(f, q, j + 1, k, p), Enters(f, q, p[1]), q[p[k]].ts - q[p[1]].ts <= f.window
             PROVE  Advance(f, w, q[j + 1]).reached >= k
  BY DEF Leading
<1> DEFINE e == q[j + 1]
           r == w.reached
<1>a. j \in Nat /\ j + 1 \in Nat /\ j + 1 \in 1..Len(q) /\ e.ts \in Nat /\ Len(q) \in Nat
  BY DEF Timeline, Indexed
<1>b. r \in 0..Len(f.steps) /\ Len(f.steps) \in Nat /\ k \in Nat /\ r \in Nat /\ k >= 1
  BY DEF Standing, FunnelOf
<1>c. Advance(f, w, e) \in Standing(f) /\ Advance(f, w, e).reached >= r
  BY <1>a, AdvanceIsStanding
<1>d. Advance(f, w, e).reached \in Nat
  BY <1>b, <1>c DEF Standing
<1>e. /\ p \in [1..k -> 1..(j + 1)]
      /\ \A i \in 1..k : q[p[i]].name = f.steps[i] /\ (i > 1 => p[i - 1] < p[i])
  BY DEF Climbs
<1>f. r >= k => Advance(f, w, e).reached >= k
  BY <1>b, <1>c, <1>d
<1>g. k \in 1..k /\ 1 \in 1..k /\ p[k] \in 1..(j + 1) /\ p[1] \in 1..(j + 1)
  BY <1>b, <1>e
<1>1. CASE p[k] <= j
  <2>1. \A i \in 1..k : p[i] <= p[k]
    <3>1. \A i \in 1..k : i > 1 => p[i - 1] < p[i]
      BY <1>e
    <3> QED  BY <1>a, <1>b, <1>e, <3>1, ClimbsRise
  <2>2. \A i \in 1..k : p[i] \in 1..j
    <3> TAKE i \in 1..k
    <3>1. p[i] \in 1..(j + 1) /\ p[i] <= p[k]
      BY <1>e, <2>1
    <3> QED  BY <3>1, <1>1, <1>a, <1>g
  <2>3. Climbs(f, q, j, k, p)
    BY <1>e, <2>2 DEF Climbs
  <2>4. r >= k
    BY <2>3 DEF Leading
  <2> QED  BY <2>4, <1>f
<1>2. CASE p[k] = j + 1 /\ k = 1
  <2>1. e.name = f.steps[1]
    BY <1>2, <1>e, <1>g
  <2>2. CASE r = 0
    <3>1. Advance(f, w, e).reached = r + 1
      BY <2>1, <2>2, <1>b DEF Advance
    <3> QED  BY <3>1, <2>2, <1>2
  <2>3. CASE r > 0
    BY <2>3, <1>2, <1>b, <1>f
  <2> QED  BY <2>2, <2>3, <1>b
<1>3. CASE p[k] = j + 1 /\ k > 1
  <2> DEFINE m == k - 1
             p2 == [i \in 1..m |-> p[i]]
  <2>1. m \in Nat /\ m >= 1 /\ m + 1 = k /\ m \in 1..Len(f.steps) /\ m \in 1..k /\ m \in 1..m /\ 1 \in 1..m
    BY <1>3, <1>b
  <2>2. \A i \in 1..m : i \in 1..k /\ p2[i] = p[i]
    BY <1>b
  <2>3. p[m] < p[k]
    BY <1>3, <1>e, <1>g
  <2> HIDE DEF m, p2
  <2>4. p[m] \in 1..j
    BY <2>1, <2>3, <1>3, <1>a, <1>e
  <2>5. \A i \in 1..m : p[i] <= p[m]
    <3>1. p2 \in [1..m -> 1..(j + 1)]
      BY <1>e, <2>2 DEF p2
    <3>2. \A i \in 1..m : i > 1 => i - 1 \in 1..m
      BY <2>1
    <3>3. \A i \in 1..m : i > 1 => p2[i - 1] < p2[i]
      BY <1>e, <2>2, <3>2
    <3>4. \A i \in 1..m : p2[i] <= p2[m]
      BY <1>a, <2>1, <3>1, <3>3, ClimbsRise
    <3> QED  BY <3>4, <2>1, <2>2
  <2>6. \A i \in 1..m : p[i] \in 1..j
    <3> TAKE i \in 1..m
    <3>1. p[i] \in 1..(j + 1) /\ p[i] <= p[m]
      BY <1>e, <2>2, <2>5
    <3> QED  BY <3>1, <2>4, <1>a
  <2>7. Climbs(f, q, j, m, p2)
    <3>1. p2 \in [1..m -> 1..j]
      BY <2>2, <2>6 DEF p2
    <3>2. \A i \in 1..m : i > 1 => i - 1 \in 1..m
      BY <2>1
    <3> QED  BY <1>e, <2>2, <3>1, <3>2 DEF Climbs
  <2>8. q[p[m]].ts <= q[p[k]].ts /\ q[p[m]].ts \in Nat /\ q[p[k]].ts \in Nat /\ q[p[1]].ts \in Nat
    <3>1. p[m] \in 1..Len(q) /\ p[k] \in 1..Len(q) /\ p[1] \in 1..Len(q)
      BY <1>a, <1>g, <2>4
    <3> QED  BY <2>3, <3>1 DEF Timeline
  <2>9. q[p2[m]].ts - q[p2[1]].ts <= f.window /\ Enters(f, q, p2[1])
    <3>1. q[p[m]].ts - q[p[1]].ts <= f.window
      BY <2>8 DEF FunnelOf
    <3> QED  BY <3>1, <2>1, <2>2
  <2>10. r >= m
    BY <2>1, <2>7, <2>9 DEF Leading
  <2>11. CASE r >= k
    BY <2>11, <1>f
  <2>12. CASE r = m
    <3>1. r > 0 /\ r # Len(f.steps) /\ e.name = f.steps[r + 1]
      BY <2>1, <2>12, <1>3, <1>b, <1>e, <1>g
    <3>2. PICK p0 : Climbs(f, q, j, r, p0) /\ Enters(f, q, p0[1]) /\ w.start = q[p0[1]].ts
      BY <3>1 DEF Led
    <3>3. p0[1] = p[1]
      <4>1. p0[1] \in 1..j /\ p[1] \in 1..(j + 1)
        BY <3>1, <3>2, <2>1, <2>12, <1>g DEF Climbs
      <4>2. p0[1] < p[1] => p0[1] \in 1..(p[1] - 1)
        BY <4>1, <1>a
      <4>3. p[1] < p0[1] => p[1] \in 1..(p0[1] - 1)
        BY <4>1, <1>a
      <4>4. ~(p0[1] < p[1]) /\ ~(p[1] < p0[1])
        BY <3>2, <4>2, <4>3 DEF Enters
      <4> QED  BY <4>1, <4>4, <1>a
    <3>4. e.ts - w.start <= f.window
      BY <3>2, <3>3, <1>3
    <3>5. ~(e.ts - w.start > f.window)
      BY <3>2, <3>3, <3>4, <2>8, <1>a, SMTT(30) DEF FunnelOf
    <3>6. Advance(f, w, e).reached = r + 1
      BY <3>1, <3>5 DEF Advance
    <3>7. r + 1 >= k
      BY <2>1, <2>12, <1>b
    <3> QED  BY <3>6, <3>7
  <2> QED  BY <2>1, <2>10, <2>11, <2>12, <1>b
<1> QED  BY <1>1, <1>2, <1>3, <1>a, <1>b, <1>g

LEMMA WalkIsLed ==
    ASSUME NEW f, FunnelOf(f), Len(f.steps) > 0, NEW q, Timeline(q)
    PROVE  /\ Walk(f, q) \in Standing(f)
           /\ Led(f, q, Len(q), Walk(f, q)) /\ Leading(f, q, Len(q), Walk(f, q))
<1> DEFINE n == Len(q)
<1>1. PICK W : IsWalk(W, f, q) /\ Walk(f, q) = W[n]
  BY WalkRuns
<1>2. n \in Nat /\ Len(f.steps) \in Nat
  BY DEF Timeline, Indexed, FunnelOf
<1>3. \A j \in 0..n : W[j] \in Standing(f)
  BY <1>1 DEF IsWalk
<1> DEFINE Holds == {j \in 0..n : Led(f, q, j, W[j]) /\ Leading(f, q, j, W[j])}
<1>4. 0 \in Holds
  <2>1. W[0].reached = 0
    BY <1>1 DEF IsWalk, AtTheGate
  <2>2. Led(f, q, 0, W[0])
    BY <2>1 DEF Led
  <2>3. \A k \in 1..Len(f.steps) : \A p : ~Climbs(f, q, 0, k, p)
    BY <1>2 DEF Climbs
  <2>4. Leading(f, q, 0, W[0])
    BY <2>3 DEF Leading
  <2> QED  BY <1>2, <2>2, <2>4
<1>5. ASSUME NEW j \in 0..(n - 1), j \in Holds PROVE j + 1 \in Holds
  <2>1. W[j + 1] = Advance(f, W[j], q[j + 1]) /\ W[j] \in Standing(f)
    BY <1>1, <1>3, <1>5 DEF IsWalk
  <2>2. j + 1 \in 0..n
    BY <1>2
  <2> QED  BY <1>5, <2>1, <2>2, AdvanceIsLed, AdvanceIsLeading
<1> HIDE DEF Holds
<1>6. \A j \in 0..n : j \in Holds
  BY <1>2, <1>4, <1>5, CountsUp
<1>7. n \in 0..n
  BY <1>2
<1> QED  BY <1>1, <1>3, <1>6, <1>7 DEF Holds

(* One pass over the events, that never looks back, finds whether there is *)
(* a passage.                                                              *)
LEMMA WalkFindsPassages ==
    ASSUME NEW f, FunnelOf(f), NEW q, Timeline(q), NEW k \in 1..Len(f.steps)
    PROVE  Walk(f, q).reached >= k <=> Passes(f, q, k)
<1> DEFINE n == Len(q)
           w == Walk(f, q)
<1>1. n \in Nat /\ DOMAIN q = 1..n /\ Len(f.steps) \in Nat /\ Len(f.steps) > 0 /\ k \in Nat /\ k > 0 /\ f.window \in Nat
  BY DEF Timeline, Indexed, FunnelOf
<1>2. w \in Standing(f) /\ Led(f, q, n, w) /\ Leading(f, q, n, w)
  BY <1>1, WalkIsLed
<1>3. w.reached \in Nat /\ w.start \in Nat
  BY <1>1, <1>2 DEF Standing
<1> HIDE DEF w
<1>4. Passes(f, q, k) <=>
        \E p : Climbs(f, q, n, k, p) /\ Enters(f, q, p[1]) /\ q[p[k]].ts - q[p[1]].ts <= f.window
  <2> DEFINE Body(p) == /\ \A i \in 1..k : q[p[i]].name = f.steps[i] /\ (i > 1 => p[i - 1] < p[i])
                        /\ k > 0 => /\ \A j \in 1..(p[1] - 1) : q[j].name # f.steps[1]
                                    /\ q[p[k]].ts - q[p[1]].ts <= f.window
  <2>1. Passes(f, q, k) <=> \E p \in [1..k -> 1..n] : Body(p)
    BY <1>1 DEF Passes
  <2>2. ASSUME NEW p \in [1..k -> 1..n]
        PROVE  Body(p) <=> Climbs(f, q, n, k, p) /\ Enters(f, q, p[1]) /\ q[p[k]].ts - q[p[1]].ts <= f.window
    <3>1. 1 \in 1..k
      BY <1>1
    <3> QED  BY <1>1, <3>1 DEF Climbs, Enters
  <2>3. \A p : Climbs(f, q, n, k, p) => p \in [1..k -> 1..n]
    BY DEF Climbs
  <2> HIDE DEF Body
  <2> QED  BY <2>1, <2>2, <2>3
<1>5. Passes(f, q, k) => w.reached >= k
  BY <1>2, <1>4 DEF Leading
<1>6. ASSUME w.reached >= k PROVE Passes(f, q, k)
  <2>1. PICK p : /\ Climbs(f, q, n, w.reached, p) /\ Enters(f, q, p[1]) /\ w.start = q[p[1]].ts
                 /\ \A i \in 1..w.reached : q[p[i]].ts - w.start <= f.window
    BY <1>1, <1>2, <1>3, <1>6 DEF Led
  <2> DEFINE p2 == [i \in 1..k |-> p[i]]
  <2>2. \A i \in 1..k : i \in 1..w.reached /\ p2[i] = p[i] /\ (i > 1 => i - 1 \in 1..k)
    BY <1>1, <1>3, <1>6
  <2>3. p2 \in [1..k -> 1..n]
    <3>1. \A i \in 1..k : p[i] \in 1..n
      BY <2>1, <2>2 DEF Climbs
    <3> QED  BY <3>1
  <2> HIDE DEF p2
  <2>4. Climbs(f, q, n, k, p2)
    BY <2>1, <2>2, <2>3 DEF Climbs
  <2>5. p2[1] = p[1] /\ p2[k] = p[k] /\ k \in 1..w.reached
    <3>1. 1 \in 1..k /\ k \in 1..k
      BY <1>1
    <3> QED  BY <2>2, <3>1
  <2> QED  BY <1>4, <2>1, <2>4, <2>5
<1> QED  BY <1>5, <1>6 DEF w

FunnelInv ==
  \A id \in FunnelIds : funnels[id] # NoFunnel =>
    \E steps \in StepLists, w \in FunnelWindows : funnels[id] = FunnelRow(steps, w)

FunnelType == funnels = [id \in FunnelIds |-> funnels[id]] /\ FunnelInv

LEMMA FunnelKeepsInv ==
    /\ FunnelInit => FunnelType
    /\ FunnelType /\ [FunnelNext]_funnels => FunnelType'
<1>1. FunnelInit => FunnelType
  BY DEF FunnelInit, FunnelType, FunnelInv
<1>2. ASSUME FunnelType, NEW f \in FunnelIds, NEW row, funnels' = [funnels EXCEPT ![f] = row],
             row = NoFunnel \/ \E steps \in StepLists, w \in FunnelWindows : row = FunnelRow(steps, w)
      PROVE  FunnelType'
  BY <1>2 DEF FunnelType, FunnelInv
<1>3. ASSUME FunnelType, FunnelNext PROVE FunnelType'
  BY <1>2, <1>3 DEF FunnelNext, CreateFunnel, UpdateFunnel, DeleteFunnel
<1> QED  BY <1>1, <1>3 DEF FunnelType, FunnelInv

(* Only sessions that an envelope has named have a row. *)
RowsInv == sessions = [s \in SessionIds |-> sessions[s]] /\ IsFiniteSet(Rows)

LEMMA RowsStayFinite ==
    /\ LogInit => RowsInv
    /\ RowsInv /\ [LogNext]_logVars => RowsInv'
<1>1. LogInit => RowsInv
  <2> SUFFICES ASSUME LogInit PROVE RowsInv
    OBVIOUS
  <2>1. Rows = {}
    BY DEF LogInit, Rows
  <2> QED  BY <2>1, FS_EmptySet DEF LogInit, RowsInv
<1>2. ASSUME RowsInv, NEW s \in SessionIds, NEW row, sessions' = [sessions EXCEPT ![s] = row] PROVE RowsInv'
  <2>1. Rows' \subseteq Rows \cup {s}
    BY <1>2 DEF Rows, RowsInv
  <2>2. IsFiniteSet(Rows \cup {s})
    BY <1>2, FS_Union, FS_Singleton DEF RowsInv
  <2> QED  BY <1>2, <2>1, <2>2, FS_Subset DEF RowsInv
<1>3. ASSUME RowsInv, LogNext PROVE RowsInv'
  BY <1>2, <1>3 DEF LogNext, Envelope
<1> QED  BY <1>1, <1>3 DEF RowsInv, Rows, logVars

(* The drop-off of a step is what the counts of two steps differ by. *)
LEMMA DropOffIsDifference ==
    ASSUME NEW f, NEW o, Len(f.steps) \in Nat, NEW k \in 1..(Len(f.steps) - 1)
    PROVE  FunnelResults(f, o).steps[k].dropOff =
             Cardinality({s \in Rows : Walk(f, o[s]).reached >= k})
               - Cardinality({s \in Rows : Walk(f, o[s]).reached >= k + 1})
<1> DEFINE Past(j) == {s \in Rows : Walk(f, o[s]).reached >= j}
           n == Len(f.steps)
<1>1. n # 0 /\ k \in 1..n /\ k < n
  OBVIOUS
<1>2. FunnelResults(f, o).steps =
        [j \in 1..n |-> [count |-> Cardinality(Past(j)),
                        dropOff |-> IF j < n THEN Cardinality(Past(j)) - Cardinality(Past(j + 1)) ELSE 0]]
  BY <1>1, Zenon DEF FunnelResults
<1> HIDE DEF Past
<1>3. FunnelResults(f, o).steps[k].dropOff = Cardinality(Past(k)) - Cardinality(Past(k + 1))
  BY <1>1, <1>2
<1> QED  BY <1>3 DEF Past

(* The walk finds the longest passage through the funnel, and the drop-off *)
(* of a step counts the replays that are listed for it, whatever events    *)
(* arrive in whatever order and however the funnel is edited               *)
(* (CalculateFunnelResults, GetFunnelDropoffs).                            *)
THEOREM FunnelsFollowPassages == AnalyticsSpec => []FunnelFollowsPassages
<1> DEFINE Inv == LogInv /\ RowsInv /\ FunnelType
<1>1. AnalyticsInit => Inv
  BY LogKeepsInv, RowsStayFinite, FunnelKeepsInv DEF AnalyticsInit
<1>2. Inv /\ [AnalyticsNext]_analyticsVars => Inv'
  <2>1. [AnalyticsNext]_analyticsVars => [FunnelNext]_funnels
    BY DEF AnalyticsNext, analyticsVars, Reports, Cohorts, Experiments
  <2> QED  BY <2>1, AreaSteps, LogKeepsInv, RowsStayFinite, FunnelKeepsInv
<1>3. ASSUME Inv PROVE FunnelFollowsPassages
  <2> SUFFICES ASSUME NEW id \in FunnelIds, NEW since \in {0, 1}, funnels[id] # NoFunnel,
                      NEW o \in [Rows -> UNION {OrdersOf(FunnelEvents(s, funnels[id], since)) : s \in Rows}],
                      \A s \in Rows : Range(o[s]) = FunnelEvents(s, funnels[id], since)
               PROVE  /\ \A s \in Rows : \A k \in 1..Len(funnels[id].steps) :
                           Walk(funnels[id], o[s]).reached >= k <=> Passes(funnels[id], o[s], k)
                      /\ \A k \in 1..(Len(funnels[id].steps) - 1) :
                           \A D \in FunnelDropoffs(funnels[id], o, k, Cardinality(Rows)) :
                             Cardinality(D) = FunnelResults(funnels[id], o).steps[k].dropOff
    BY DEF FunnelFollowsPassages
  <2> DEFINE f == funnels[id]
             Own == [s \in Rows |-> FunnelEvents(s, f, since)]
             Past(j) == {s \in Rows : Walk(f, o[s]).reached >= j}
  <2>1. FunnelOf(f)
    <3>1. PICK steps \in StepLists, w \in FunnelWindows : f = FunnelRow(steps, w)
      BY <1>3 DEF FunnelType, FunnelInv
    <3>2. Len(steps) \in Nat
      BY FunnelAssumption, LenProperties DEF FunnelAssumption
    <3>3. f.steps = steps /\ f.window \in Nat
      BY <3>1, FunnelAssumption DEF FunnelRow, FunnelAssumption
    <3> QED  BY <3>2, <3>3 DEF FunnelOf
  <2>2. \A s \in Rows : Timeline(o[s])
    <3> SUFFICES ASSUME NEW s \in Rows PROVE Timeline(o[s])
      OBVIOUS
    <3>1. Own \in [Rows -> SUBSET items]
      BY DEF FunnelEvents
    <3>2. Ordering(o[s], Own[s])
      BY <1>3, <3>1, ReadingsAreOrderings
    <3>3. \A i \in items : i.ts \in Nat
      BY <1>3, EventLogAssumption DEF LogInv, LoggedItems, EventLogAssumption
    <3> QED  BY <3>1, <3>2, <3>3 DEF Ordering, Timeline, Indexed
  <2> HIDE DEF f, Own
  <2>3. ASSUME NEW s \in Rows, NEW k \in 1..Len(f.steps)
        PROVE  Walk(f, o[s]).reached >= k <=> Passes(f, o[s], k)
    BY <2>1, <2>2, WalkFindsPassages
  <2>4. ASSUME NEW k \in 1..(Len(f.steps) - 1), NEW D \in FunnelDropoffs(f, o, k, Cardinality(Rows))
        PROVE  Cardinality(D) = FunnelResults(f, o).steps[k].dropOff
    <3> DEFINE stopped == {s \in Rows : Walk(f, o[s]).reached = k}
    <3>1. Len(f.steps) \in Nat /\ Len(f.steps) > 0 /\ k \in Nat
      BY <2>1 DEF FunnelOf
    <3>2. \A s \in Rows : Walk(f, o[s]).reached \in Nat
      BY <2>1, <2>2, <3>1, WalkIsLed DEF Standing
    <3>3. /\ IsFiniteSet(Rows) /\ IsFiniteSet(Past(k)) /\ IsFiniteSet(Past(k + 1))
          /\ IsFiniteSet(stopped) /\ Cardinality(stopped) <= Cardinality(Rows)
          /\ Cardinality(stopped) \in Nat /\ Cardinality(Rows) \in Nat
      <4>1. Past(k) \subseteq Rows /\ Past(k + 1) \subseteq Rows /\ stopped \subseteq Rows
        OBVIOUS
      <4> HIDE DEF Past, stopped
      <4> QED  BY <1>3, <4>1, FS_Subset, FS_CardinalityType DEF RowsInv
    <3>4. stopped = Past(k) \ Past(k + 1) /\ Past(k) \cap Past(k + 1) = Past(k + 1)
      BY <3>1, <3>2
    <3>5. Cardinality(D) = Cardinality(stopped)
      <4> DEFINE want == IF Cardinality(stopped) < Cardinality(Rows) THEN Cardinality(stopped) ELSE Cardinality(Rows)
      <4>1. D \in {E \in SUBSET stopped : Cardinality(E) = want}
        BY Zenon, <2>4 DEF FunnelDropoffs
      <4>2. Cardinality(D) = want
        BY <4>1
      <4> HIDE DEF stopped
      <4>3. want = Cardinality(stopped)
        BY <3>3
      <4> QED  BY <4>2, <4>3
    <3> HIDE DEF Past, stopped
    <3>6. Cardinality(stopped) = Cardinality(Past(k)) - Cardinality(Past(k + 1))
      BY <3>3, <3>4, FS_Difference
    <3>7. FunnelResults(f, o).steps[k].dropOff = Cardinality(Past(k)) - Cardinality(Past(k + 1))
      BY <3>1, DropOffIsDifference DEF Past
    <3> QED  BY <3>5, <3>6, <3>7
  <2> QED  BY <2>3, <2>4 DEF f
<1> HIDE DEF Inv
<1> QED  BY <1>1, <1>2, <1>3, PTL DEF AnalyticsSpec

-----------------------------------------------------------------------------
(* Flags and experiments. *)

(* The running total of the shares. *)
Shares(T, vs) ==
  /\ T \in [0..Len(vs) -> Nat]
  /\ T[0] = 0
  /\ \A k \in 0..(Len(vs) - 1) : T[k + 1] = T[k] + vs[k + 1].rollout

ShareTable(t, vs) ==
    t = [s \in SUBSET (DOMAIN vs) |->
            IF s = {} THEN 0 ELSE t[s \ {Max(s)}] + vs[Max(s)].rollout]

LEMMA ShareTableExists ==
    ASSUME NEW S, \A v \in S : v.rollout \in Nat, NEW vs \in Seq(S)
    PROVE  \E t : ShareTable(t, vs)
<1> DEFINE n == Len(vs)
           step == [p \in Nat \X (1..n) |-> p[1] + vs[p[2]].rollout]
<1>1. n \in Nat /\ DOMAIN vs = 1..n
  BY LenProperties
<1>2. \A i \in 1..n : vs[i].rollout \in Nat
  BY ElementOfSeq
<1>3. step \in [Nat \X (1..n) -> Nat]
  BY <1>2
<1>4. PICK t \in [SUBSET (1..n) -> Nat] : IsFold(t, n, 0, step)
  <2> HIDE DEF step
  <2> QED  BY <1>1, <1>3, FoldExists
<1>5. ASSUME NEW s \in SUBSET (1..n), s # {}
      PROVE  t[s] = t[s \ {Max(s)}] + vs[Max(s)].rollout
  <2>1. Max(s) \in s
    BY <1>1, <1>5, MaxIsIn
  <2>2. t[s] = step[<<t[s \ {Max(s)}], Max(s)>>]
    <3> HIDE DEF step
    <3> QED  BY <1>4, <1>5, Zenon DEF IsFold
  <2>3. t[s \ {Max(s)}] \in Nat
    BY <1>4
  <2> QED  BY <2>1, <2>2, <2>3
<1>6. t[{}] = 0
  <2> HIDE DEF step
  <2>1. {} \in SUBSET (1..n)
    OBVIOUS
  <2> QED  BY <1>4, <2>1, Zenon DEF IsFold
<1>7. ShareTable(t, vs)
  <2>1. t = [s \in SUBSET (1..n) |-> t[s]]
    BY <1>4
  <2> HIDE DEF step
  <2> QED  BY <1>1, <1>5, <1>6, <2>1 DEF ShareTable
<1> QED  BY <1>7

LEMMA TotalIsRunning ==
    ASSUME NEW S, \A v \in S : v.rollout \in Nat, NEW vs \in Seq(S)
    PROVE  \E T : Shares(T, vs) /\ TotalOf(vs) = T[Len(vs)]
<1> DEFINE n == Len(vs)
           t == CHOOSE t : ShareTable(t, vs)
<1>1. n \in Nat /\ DOMAIN vs = 1..n
  BY LenProperties
<1>2. \A i \in 1..n : vs[i].rollout \in Nat
  BY ElementOfSeq
<1>3. TotalOf(vs) = t[1..n]
  BY <1>1, Zenon DEF TotalOf, FoldLeft, MapThenFoldSet, ShareTable
<1>4. ShareTable(t, vs)
  BY ShareTableExists
<1> HIDE DEF t
<1>5. \A s \in SUBSET (1..n) : t[s] = IF s = {} THEN 0 ELSE t[s \ {Max(s)}] + vs[Max(s)].rollout
  BY <1>1, <1>4, Zenon DEF ShareTable
<1>6. t[1..0] = 0
  <2>1. 1..0 = {} /\ {} \in SUBSET (1..n)
    OBVIOUS
  <2> QED  BY <1>5, <2>1
<1>7. \A k \in 1..n : t[1..k] = t[1..(k-1)] + vs[k].rollout
  <2> TAKE k \in 1..n
  <2>1. t[1..k] = t[(1..k) \ {Max(1..k)}] + vs[Max(1..k)].rollout
    BY <1>1, <1>5, MaxOfInitial, Zenon
  <2> QED  BY <1>1, <2>1, MaxOfInitial, Zenon
<1>8. \A k \in 0..(n - 1) : t[1..(k + 1)] = t[1..k] + vs[k + 1].rollout
  <2> TAKE k \in 0..(n - 1)
  <2>1. k + 1 \in 1..n /\ (k + 1) - 1 = k
    BY <1>1
  <2> QED  BY <1>7, <2>1
<1> DEFINE T == [k \in 0..n |-> t[1..k]]
           Typed == {k \in 0..n : t[1..k] \in Nat}
<1>9. \A k \in 0..n : k \in Typed
  <2>1. 0 \in Typed
    BY <1>1, <1>6
  <2>2. ASSUME NEW k \in 0..(n - 1), k \in Typed PROVE k + 1 \in Typed
    <3>1. k + 1 \in 1..n /\ k + 1 \in 0..n
      BY <1>1
    <3> QED  BY <1>2, <1>8, <2>2, <3>1
  <2> HIDE DEF Typed
  <2> QED  BY <1>1, <2>1, <2>2, CountsUp
<1>10. Shares(T, vs)
  <2>1. T \in [0..n -> Nat]
    BY <1>9
  <2>2. T[0] = 0
    BY <1>1, <1>6
  <2>3. \A k \in 0..(n - 1) : T[k + 1] = T[k] + vs[k + 1].rollout
    <3> TAKE k \in 0..(n - 1)
    <3>1. k \in 0..n /\ k + 1 \in 0..n
      BY <1>1
    <3> QED  BY <1>8, <3>1
  <2> QED  BY <2>1, <2>2, <2>3 DEF Shares
<1>11. TotalOf(vs) = T[n]
  BY <1>1, <1>3
<1> QED  BY <1>10, <1>11

(* The total of a prefix is the total so far. *)
LEMMA PrefixTotals ==
    ASSUME NEW S, \A v \in S : v.rollout \in Nat, NEW vs \in Seq(S), NEW T, Shares(T, vs),
           NEW i \in 1..Len(vs)
    PROVE  UpTo(vs, i) = T[i]
<1> DEFINE q == SubSeq(vs, 1, i)
           n == Len(vs)
<1>1. n \in Nat /\ i \in Nat /\ 1 \in 1..(n + 1) /\ i \in 1..n
  BY LenProperties
<1>2. q \in Seq(S) /\ Len(q) = i /\ \A j \in 1..i : q[j] = vs[j]
  <2>1. /\ q \in Seq(S)
        /\ Len(q) = IF 1 <= i THEN i - 1 + 1 ELSE 0
        /\ \A j \in 1..(i - 1 + 1) : q[j] = vs[1 + j - 1]
    BY <1>1, SubSeqProperties
  <2>2. i - 1 + 1 = i /\ 1 <= i /\ \A j \in 1..i : 1 + j - 1 = j
    BY <1>1
  <2> HIDE DEF q
  <2> QED  BY <2>1, <2>2
<1> HIDE DEF q
<1>3. PICK U : Shares(U, q) /\ TotalOf(q) = U[i]
  BY <1>2, TotalIsRunning
<1> DEFINE Same == {k \in 0..i : U[k] = T[k]}
<1>4. 0 \in Same
  BY <1>1, <1>3 DEF Shares
<1>5. ASSUME NEW k \in 0..(i - 1), k \in Same PROVE k + 1 \in Same
  <2>1. k \in 0..(Len(q) - 1) /\ k \in 0..(n - 1) /\ k + 1 \in 1..i /\ k + 1 \in 0..i
    BY <1>1, <1>2
  <2>2. U[k + 1] = U[k] + q[k + 1].rollout
    BY <1>3, <2>1 DEF Shares
  <2>3. T[k + 1] = T[k] + vs[k + 1].rollout
    BY <2>1 DEF Shares
  <2> QED  BY <1>2, <1>5, <2>1, <2>2, <2>3
<1> HIDE DEF Same
<1>6. \A k \in 0..i : k \in Same
  BY <1>1, <1>4, <1>5, CountsUp
<1>7. U[i] = T[i]
  BY <1>1, <1>6 DEF Same
<1> QED  BY <1>3, <1>7 DEF UpTo, q

LEMMA QuotientIsUnder ==
    ASSUME NEW b \in Nat \ {0}, NEW h \in 0..(b - 1), NEW t \in Nat, t > 0
    PROVE  (h * t) \div b \in Nat /\ (h * t) \div b < t
<1> DEFINE x == h * t
           d == x \div b
<1>1. x \in Nat /\ d \in Int /\ b * d <= x /\ x < b * d + b
  OBVIOUS
<1>2. x <= (b - 1) * t
  OBVIOUS
<1>3. (b - 1) * t = b * t - t
  OBVIOUS
<1>4. b * d < b * t
  <2>1. b * t \in Int /\ b * d \in Int
    BY <1>1
  <2> HIDE DEF x, d
  <2> QED  BY <1>1, <1>2, <1>3, <2>1
<1>5. d < t
  <2> HIDE DEF x, d
  <2>1. \A a, c \in Int : a >= c => b * a >= b * c
    OBVIOUS
  <2> QED  BY <1>1, <1>4, <2>1
<1>6. d >= 0
  <2> HIDE DEF x, d
  <2>1. \A a \in Int : a <= -1 => b * a + b <= 0
    OBVIOUS
  <2> QED  BY <1>1, <2>1
<1> QED  BY <1>1, <1>5, <1>6

(* Whoever is given a variant is given one that has a share.               *)
LEMMA VariantHasShare ==
    ASSUME NEW S, \A v \in S : v.rollout \in Nat, NEW vs \in Seq(S), TotalOf(vs) > 0,
           NEW k \in FlagKeys, NEW id \in Ids \cup {NoId}, NEW row, row.variants = vs
    PROVE  \E i \in DOMAIN vs : vs[i].rollout > 0 /\ VariantOf(k, row, id) = vs[i].key
<1> DEFINE n == Len(vs)
           total == TotalOf(vs)
           target == (VariantHash[k, id] * total) \div Buckets
           under == {i \in DOMAIN vs : target < UpTo(vs, i)}
<1>1. n \in Nat /\ DOMAIN vs = 1..n /\ \A i \in 1..n : vs[i].rollout \in Nat
  BY LenProperties, ElementOfSeq
<1>2. PICK T : Shares(T, vs) /\ total = T[n]
  BY TotalIsRunning
<1>3. \A i \in 1..n : UpTo(vs, i) = T[i]
  BY <1>2, PrefixTotals
<1>4. \A i \in 0..n : T[i] \in Nat
  BY <1>2 DEF Shares
<1>5. total \in Nat /\ total > 0
  BY <1>1, <1>2, <1>4
<1>6. target \in Nat /\ target < total
  <2>1. VariantHash[k, id] \in 0..(Buckets - 1) /\ Buckets \in Nat \ {0}
    BY FlagAssumption DEF FlagAssumption
  <2> HIDE DEF total
  <2> QED  BY <2>1, <1>5, QuotientIsUnder
<1>7. n > 0
  BY <1>1, <1>2, <1>5 DEF Shares
<1> HIDE DEF target, total
<1>8. under = {i \in 1..n : target < T[i]}
  BY <1>1, <1>3
<1>9. n \in under
  BY <1>1, <1>2, <1>6, <1>7, <1>8
<1>10. under \subseteq Nat /\ under # {}
  BY <1>8, <1>9
<1>11. PICK m \in under : \A y \in under : m <= y
  BY <1>10, LeastNatural
<1>12. Min(under) \in under /\ \A y \in under : Min(under) <= y
  BY <1>11, Zenon DEF Min
<1> DEFINE i == Min(under)
<1>13. i \in 1..n /\ target < T[i]
  BY <1>8, <1>12
<1>14. vs[i].rollout > 0
  <2> HIDE DEF i, under
  <2>1. i - 1 \in 0..(n - 1) /\ i \in 1..n /\ (i - 1) + 1 = i /\ i - 1 \in 0..n
    BY <1>1, <1>13
  <2>2. T[i] = T[i - 1] + vs[i].rollout
    BY <1>2, <2>1 DEF Shares
  <2>3. CASE i = 1
    BY <1>1, <1>2, <1>6, <1>13, <2>1, <2>2, <2>3 DEF Shares
  <2>4. CASE i > 1
    <3>1. i - 1 \in 1..n /\ ~(i <= i - 1)
      BY <2>1, <2>4
    <3>2. i - 1 \notin under
      BY <3>1, <1>12 DEF i
    <3>3. ~(target < T[i - 1])
      BY <1>8, <3>1, <3>2
    <3> QED  BY <1>1, <1>4, <1>6, <1>13, <2>1, <2>2, <3>3
  <2> QED  BY <2>1, <2>3, <2>4
<1>15. VariantOf(k, row, id) = vs[i].key
  <2>1. under # {}
    BY <1>9
  <2>2. VariantOf(k, row, id) = row.variants[IF under = {} THEN Len(row.variants) ELSE Min(under)].key
    BY Zenon DEF VariantOf, target, total
  <2> HIDE DEF under
  <2> QED  BY <2>1, <2>2 DEF i
<1> HIDE DEF i
<1> QED  BY <1>1, <1>13, <1>14, <1>15

(* Once the winner has all the shares, everybody who gets a variant gets it. *)
LEMMA WinnerTakesThemAll ==
    ASSUME NEW vs, Indexed(vs), NEW w, \E i \in DOMAIN vs : vs[i].key = w,
           NEW k \in FlagKeys, NEW id \in Ids \cup {NoId}, NEW row, row.variants = WinnerTakesAll(vs, w)
    PROVE  row.variants # <<>> /\ TotalOf(row.variants) > 0 /\ VariantOf(k, row, id) = w
<1> DEFINE n == Len(vs)
           all == WinnerTakesAll(vs, w)
           S == [key : {vs[i].key : i \in 1..n}, rollout : {0, Buckets}]
<1>1. n \in Nat /\ DOMAIN vs = 1..n /\ Buckets \in Nat /\ Buckets > 0
  BY FlagAssumption DEF FlagAssumption, Indexed
<1>2. all = [i \in 1..n |-> [key |-> vs[i].key, rollout |-> IF vs[i].key = w THEN Buckets ELSE 0]]
  BY <1>1 DEF WinnerTakesAll
<1>3. all \in Seq(S) /\ Len(all) = n
  <2>1. \A i \in 1..n : [key |-> vs[i].key, rollout |-> IF vs[i].key = w THEN Buckets ELSE 0] \in S
    OBVIOUS
  <2> HIDE DEF all, S
  <2>2. all \in [1..n -> S]
    BY <1>2, <2>1
  <2> QED  BY <1>1, <2>2
<1>4. \A v \in S : v.rollout \in Nat
  BY <1>1
<1>5. \A i \in 1..n : all[i].key = vs[i].key /\ all[i].rollout = IF vs[i].key = w THEN Buckets ELSE 0
  BY <1>2
<1> HIDE DEF all, S
<1>6. PICK i \in 1..n : vs[i].key = w
  BY <1>1
<1>7. PICK T : Shares(T, all) /\ TotalOf(all) = T[n]
  BY <1>3, <1>4, TotalIsRunning
<1>8. \A j \in 0..n : T[j] \in Nat
  BY <1>3, <1>7 DEF Shares
<1>9. T[n] > 0
  <2> DEFINE Holds == {j \in 0..n : j >= i => T[j] > 0}
  <2>1. 0 \in Holds
    BY <1>1
  <2>2. ASSUME NEW j \in 0..(n - 1), j \in Holds PROVE j + 1 \in Holds
    <3>1. j + 1 \in 1..n /\ j + 1 \in 0..n /\ j \in 0..n
      BY <1>1
    <3>2. T[j + 1] = T[j] + all[j + 1].rollout /\ T[j] \in Nat
      BY <1>3, <1>7, <1>8, <3>1 DEF Shares
    <3>3. all[j + 1].rollout \in Nat
      BY <1>1, <1>5, <3>1
    <3>4. j + 1 = i => all[j + 1].rollout > 0
      BY <1>1, <1>5, <1>6, <3>1
    <3>5. j + 1 >= i => j >= i \/ j + 1 = i
      BY <3>1
    <3> QED  BY <2>2, <3>1, <3>2, <3>3, <3>4, <3>5
  <2> HIDE DEF Holds
  <2>3. n \in 0..n /\ n >= i
    BY <1>1
  <2>4. n \in Holds
    BY <1>1, <2>1, <2>2, <2>3, CountsUp
  <2> QED  BY <2>3, <2>4 DEF Holds
<1>10. TotalOf(all) > 0
  BY <1>7, <1>9
<1>11. all # <<>>
  BY <1>1, <1>3, <1>6
<1>12. PICK m \in DOMAIN all : all[m].rollout > 0 /\ VariantOf(k, row, id) = all[m].key
  BY <1>3, <1>4, <1>10, VariantHasShare DEF all
<1>13. m \in 1..n
  BY <1>2
<1>14. all[m].key = w
  BY <1>1, <1>5, <1>12, <1>13
<1> QED  BY <1>10, <1>11, <1>12, <1>14 DEF all

(* A row of feature_flags. *)
IsRow(row) ==
  \E enabled, rollout, filters, variants :
    /\ enabled \in BOOLEAN /\ rollout \in 0..Buckets /\ Indexed(variants)
    /\ row = [enabled |-> enabled, rollout |-> rollout, filters |-> filters, variants |-> variants]

LEMMA FlagRowIsRow ==
    ASSUME NEW enabled \in BOOLEAN, NEW percent \in Int, NEW filters, NEW variants, Indexed(variants)
    PROVE  IsRow(FlagRow(enabled, percent, filters, variants))
<1>1. Clamp(percent) \in 0..Buckets
  BY FlagAssumption DEF FlagAssumption, Clamp
<1> QED  BY <1>1 DEF FlagRow, IsRow

LEMMA WinnersAreIndexed ==
    ASSUME NEW vs, Indexed(vs), NEW w
    PROVE  Indexed(WinnerTakesAll(vs, w))
<1>1. /\ WinnerTakesAll(vs, w) = [i \in 1..Len(vs) |-> [key |-> vs[i].key, rollout |-> IF vs[i].key = w THEN Buckets ELSE 0]]
      /\ Len(vs) \in Nat
  BY DEF WinnerTakesAll, Indexed
<1> QED  BY <1>1 DEF Indexed

IsExperiment(e) ==
  \E flag, status, winner, variants :
    /\ flag \in FlagKeys
    /\ e = [flag |-> flag, status |-> status, winner |-> winner, variants |-> variants]

IsJudge(g) ==
  \E pc, exp, winner, key, read :
    /\ pc # "idle" /\ key \in FlagKeys
    /\ read = NoFlag \/ IsRow(read)
    /\ g = [pc |-> pc, exp |-> exp, winner |-> winner, key |-> key, read |-> read]

LEMMA JudgeIsJudge ==
    ASSUME NEW pc, pc # "idle", NEW exp, NEW winner, NEW key \in FlagKeys, NEW read,
           read = NoFlag \/ IsRow(read)
    PROVE  IsJudge([pc |-> pc, exp |-> exp, winner |-> winner, key |-> key, read |-> read])
  BY DEF IsJudge

(* The flag as the winner's roll-out left it. *)
IsWonBy(row, w) ==
  \E filters, vs :
    /\ Indexed(vs) /\ \E i \in DOMAIN vs : vs[i].key = w
    /\ row = FlagRow(TRUE, Buckets, filters, WinnerTakesAll(vs, w))

ExperimentInv ==
  /\ flags = [k \in FlagKeys |-> flags[k]]
  /\ experiments = [x \in ExperimentIds |-> experiments[x]]
  /\ judge = [j \in Judges |-> judge[j]]
  /\ rolledOut = [k \in FlagKeys |-> rolledOut[k]]
  /\ \A k \in FlagKeys : flags[k] = NoFlag \/ IsRow(flags[k])
  /\ \A x \in ExperimentIds : experiments[x] = NoExperiment \/ IsExperiment(experiments[x])
  /\ \A j \in Judges : judge[j] = Waiting \/ IsJudge(judge[j])
  /\ \A k \in FlagKeys : rolledOut[k] # "none" => IsWonBy(flags[k], rolledOut[k])

LEMMA ExperimentStarts == ExperimentInit => ExperimentInv
  BY DEF ExperimentInit, ExperimentInv, FlagInit

LEMMA EditsKeepExperimentInv ==
    ASSUME ExperimentInv, NEW k \in FlagKeys, EditFlag(k)
    PROVE  ExperimentInv'
<1>1. PICK row : flags' = [flags EXCEPT ![k] = row] /\ (row = NoFlag \/ IsRow(row))
  <2>1. ASSUME NEW enabled \in BOOLEAN, NEW p \in FlagPercents, NEW fs \in FlagFilters, NEW vs \in FlagVariants
        PROVE  IsRow(FlagRow(enabled, p, fs, vs))
    <3>1. p \in Int /\ Indexed(vs)
      BY FlagAssumption, LenProperties DEF FlagAssumption, Indexed
    <3> QED  BY <3>1, FlagRowIsRow
  <2> QED  BY <2>1 DEF EditFlag, FlagRequest, CreateFeatureFlag, UpdateFeatureFlag, DeleteFeatureFlag
<1>2. rolledOut' = [rolledOut EXCEPT ![k] = "none"] /\ UNCHANGED <<experiments, judge>>
  BY DEF EditFlag
<1> QED  BY <1>1, <1>2 DEF ExperimentInv

LEMMA DeclarationsKeepExperimentInv ==
    ASSUME ExperimentInv, NEW x \in ExperimentIds,
           \/ \E k \in FlagKeys, vs \in ExperimentVariants : CreateExperiment(x, k, vs)
           \/ \E status : UpdateExperiment(x, status)
           \/ DeleteExperiment(x)
           \/ \E j \in Judges : \E w : DeclareWinner(j, x, w)
    PROVE  ExperimentInv'
<1>1. ASSUME NEW row, row = NoExperiment \/ IsExperiment(row), experiments' = [experiments EXCEPT ![x] = row],
             UNCHANGED <<flags, judge, rolledOut>>
      PROVE  ExperimentInv'
  BY <1>1 DEF ExperimentInv
<1>2. ASSUME NEW k \in FlagKeys, NEW vs \in ExperimentVariants, CreateExperiment(x, k, vs) PROVE ExperimentInv'
  <2>1. IsExperiment([flag |-> k, status |-> "running", winner |-> "none", variants |-> vs])
    BY DEF IsExperiment
  <2> QED  BY <1>1, <1>2, <2>1 DEF CreateExperiment
<1>3. ASSUME NEW status, UpdateExperiment(x, status) PROVE ExperimentInv'
  <2> DEFINE row == [experiments[x] EXCEPT !.status = status]
  <2>1. IsExperiment(experiments[x])
    BY <1>3 DEF UpdateExperiment, ExperimentInv
  <2>2. IsExperiment(row)
    <3>1. PICK flag, old, winner, variants :
            /\ flag \in FlagKeys
            /\ experiments[x] = [flag |-> flag, status |-> old, winner |-> winner, variants |-> variants]
      BY <2>1 DEF IsExperiment
    <3>2. row = [flag |-> flag, status |-> status, winner |-> winner, variants |-> variants]
      BY <3>1
    <3> HIDE DEF row
    <3> QED  BY <3>1, <3>2 DEF IsExperiment
  <2>3. experiments' = [experiments EXCEPT ![x] = row] /\ UNCHANGED <<flags, judge, rolledOut>>
    BY <1>3 DEF UpdateExperiment
  <2> HIDE DEF row
  <2> QED  BY <1>1, <2>2, <2>3
<1>4. CASE DeleteExperiment(x)
  BY <1>1, <1>4 DEF DeleteExperiment
<1>5. ASSUME NEW j \in Judges, NEW w, DeclareWinner(j, x, w) PROVE ExperimentInv'
  <2> DEFINE g == [pc |-> "open", exp |-> x, winner |-> w, key |-> experiments[x].flag, read |-> NoFlag]
  <2>1. experiments[x].flag \in FlagKeys
    BY <1>5 DEF DeclareWinner, ExperimentInv, IsExperiment
  <2>2. IsJudge(g)
    BY <2>1, JudgeIsJudge
  <2>3. judge' = [judge EXCEPT ![j] = g] /\ UNCHANGED <<flags, experiments, rolledOut>>
    BY <1>5 DEF DeclareWinner
  <2> HIDE DEF g
  <2> QED  BY <2>2, <2>3 DEF ExperimentInv
<1> QED  BY <1>2, <1>3, <1>4, <1>5

(* A step of a judge that writes nothing yet.                              *)
LEMMA JudgesKeepExperimentInv ==
    ASSUME ExperimentInv, NEW j \in Judges, NEW g, g = Waiting \/ IsJudge(g),
           judge' = [judge EXCEPT ![j] = g], UNCHANGED <<flags, experiments, rolledOut>>
    PROVE  ExperimentInv'
  BY DEF ExperimentInv

LEMMA MovesOn ==
    ASSUME ExperimentInv, NEW j \in Judges, NEW from, NEW to, from # "idle", to # "idle", At(j, from, to)
    PROVE  \E g : IsJudge(g) /\ judge' = [judge EXCEPT ![j] = g]
<1>1. judge[j].pc = from /\ judge' = [judge EXCEPT ![j].pc = to]
  BY DEF At
<1>2. judge[j] # Waiting
  BY <1>1 DEF Waiting
<1>3. IsJudge(judge[j])
  BY <1>2 DEF ExperimentInv
<1>4. PICK pc, exp, winner, key, read :
        key \in FlagKeys /\ (read = NoFlag \/ IsRow(read)) /\ judge[j] = [pc |-> pc, exp |-> exp, winner |-> winner, key |-> key, read |-> read]
  BY <1>3 DEF IsJudge
<1>5. [judge[j] EXCEPT !.pc = to] = [pc |-> to, exp |-> exp, winner |-> winner, key |-> key, read |-> read]
  BY <1>4
<1>6. IsJudge([judge[j] EXCEPT !.pc = to])
  BY <1>4, <1>5, JudgeIsJudge
<1> QED  BY <1>1, <1>6

LEMMA ReadsKeepExperimentInv ==
    ASSUME ExperimentInv, NEW j \in Judges, ReadLinkedFlag(j)
    PROVE  ExperimentInv'
<1>1. PICK read \in {flags[judge[j].key], NoFlag} : judge' = [judge EXCEPT ![j].pc = "write", ![j].read = read]
  BY DEF ReadLinkedFlag
<1>2. judge[j].pc = "read" /\ UNCHANGED <<flags, experiments, rolledOut>>
  BY DEF ReadLinkedFlag
<1>3. IsJudge(judge[j])
  BY <1>2 DEF ExperimentInv, Waiting
<1>4. PICK pc, exp, winner, key, old :
        key \in FlagKeys /\ judge[j] = [pc |-> pc, exp |-> exp, winner |-> winner, key |-> key, read |-> old]
  BY <1>3 DEF IsJudge
<1>5. read = NoFlag \/ IsRow(read)
  BY <1>1, <1>4 DEF ExperimentInv
<1> DEFINE g == [pc |-> "write", exp |-> exp, winner |-> winner, key |-> key, read |-> read]
<1>6. judge' = [judge EXCEPT ![j] = g]
  <2>1. [judge[j] EXCEPT !.pc = "write", !.read = read] = g
    <3> DEFINE h == [judge[j] EXCEPT !.pc = "write", !.read = read]
    <3>1. judge[j] \in [pc : {pc}, exp : {exp}, winner : {winner}, key : {key}, read : {old}]
      BY <1>4
    <3>2. /\ h \in [pc : {pc, "write"}, exp : {exp}, winner : {winner}, key : {key}, read : {old, read}]
          /\ h.pc = "write" /\ h.read = read
      BY <3>1
    <3> HIDE DEF h
    <3>3. h = g
      BY <3>2
    <3> QED  BY <3>3 DEF h
  <2>2. judge' = [judge EXCEPT ![j] = [judge[j] EXCEPT !.pc = "write", !.read = read]]
    BY <1>1, <1>3 DEF ExperimentInv
  <2> QED  BY <2>1, <2>2
<1>7. IsJudge(g)
  BY <1>4, <1>5, JudgeIsJudge
<1> HIDE DEF g
<1> QED  BY <1>2, <1>6, <1>7, JudgesKeepExperimentInv

(* What the conclusion writes is the flag its winner has won, unless the   *)
(* flag could not be read.                                                 *)
LEMMA CommitsKeepExperimentInv ==
    ASSUME ExperimentInv, NEW j \in Judges, CommitConclusion(j)
    PROVE  ExperimentInv'
<1> DEFINE k == judge[j].key
           x == judge[j].exp
           w == judge[j].winner
           read == judge[j].read
           variants == IF read = NoFlag THEN flags[k].variants ELSE WinnerTakesAll(read.variants, w)
           row == FlagRow(TRUE, Buckets, flags[k].filters, variants)
           wins == NoFlag \notin {flags[k], read} /\ \E i \in DOMAIN read.variants : read.variants[i].key = w
<1>1. /\ judge[j].pc = "commit"
      /\ experiments' = IF experiments[x] = NoExperiment THEN experiments
                        ELSE [experiments EXCEPT ![x].status = "concluded", ![x].winner = w]
      /\ flags' = IF flags[k] = NoFlag THEN flags ELSE [flags EXCEPT ![k] = row]
      /\ rolledOut' = [rolledOut EXCEPT ![k] = IF wins THEN w ELSE "none"]
      /\ judge' = [judge EXCEPT ![j] = Waiting]
  BY DEF CommitConclusion
<1>2. IsJudge(judge[j])
  BY <1>1 DEF ExperimentInv, Waiting
<1>3. k \in FlagKeys /\ (read = NoFlag \/ IsRow(read))
  BY <1>2 DEF IsJudge
<1>4. read # NoFlag => Indexed(read.variants)
  <2> HIDE DEF read
  <2> QED  BY <1>3 DEF IsRow
<1>5. flags[k] # NoFlag => Indexed(flags[k].variants)
  <2>1. flags[k] # NoFlag => IsRow(flags[k])
    BY <1>3 DEF ExperimentInv
  <2>2. \A r : IsRow(r) => Indexed(r.variants)
    BY DEF IsRow
  <2> QED  BY <2>1, <2>2
<1>6. flags[k] # NoFlag => IsRow(row)
  <2>1. flags[k] # NoFlag => Indexed(variants)
    BY <1>4, <1>5, WinnersAreIndexed
  <2>2. Buckets \in Int
    BY FlagAssumption DEF FlagAssumption
  <2> HIDE DEF variants
  <2> QED  BY <2>1, <2>2, FlagRowIsRow
<1>7. wins => IsWonBy(row, w) /\ flags[k] # NoFlag
  <2>1. wins => variants = WinnerTakesAll(read.variants, w) /\ Indexed(read.variants)
                /\ \E i \in DOMAIN read.variants : read.variants[i].key = w
    BY <1>4
  <2> HIDE DEF variants
  <2> QED  BY <2>1 DEF IsWonBy
<1> HIDE DEF row, wins, variants
<1>8. /\ experiments' = [y \in ExperimentIds |-> experiments'[y]]
      /\ \A y \in ExperimentIds : experiments'[y] = NoExperiment \/ IsExperiment(experiments'[y])
  <2>1. CASE experiments[x] = NoExperiment \/ x \notin ExperimentIds
    <3>1. experiments' = experiments
      BY <1>1, <2>1 DEF ExperimentInv
    <3> QED  BY <3>1 DEF ExperimentInv
  <2>2. CASE experiments[x] # NoExperiment /\ x \in ExperimentIds
    <3> DEFINE e == [experiments[x] EXCEPT !.status = "concluded", !.winner = w]
    <3>1. PICK flag, status, old, vs :
            flag \in FlagKeys /\ experiments[x] = [flag |-> flag, status |-> status, winner |-> old, variants |-> vs]
      BY <2>2 DEF ExperimentInv, IsExperiment
    <3>2. e = [flag |-> flag, status |-> "concluded", winner |-> w, variants |-> vs]
      <4>1. experiments[x] \in [flag : {flag}, status : {status}, winner : {old}, variants : {vs}]
        BY <3>1
      <4>2. /\ e \in [flag : {flag}, status : {status, "concluded"}, winner : {old, w}, variants : {vs}]
            /\ e.status = "concluded" /\ e.winner = w
        <5> HIDE DEF w
        <5> QED  BY <4>1
      <4> HIDE DEF e
      <4> QED  BY <4>2
    <3>3. IsExperiment(e)
      <4> HIDE DEF e
      <4> QED  BY <3>1, <3>2 DEF IsExperiment
    <3>4. experiments' = [experiments EXCEPT ![x] = e]
      BY <1>1, <2>2 DEF ExperimentInv
    <3> HIDE DEF e
    <3> QED  BY <3>3, <3>4, <2>2 DEF ExperimentInv
  <2> QED  BY <2>1, <2>2
<1>9. /\ flags' = [y \in FlagKeys |-> flags'[y]] /\ rolledOut' = [y \in FlagKeys |-> rolledOut'[y]]
      /\ judge' = [i \in Judges |-> judge'[i]]
      /\ \A i \in Judges : judge'[i] = Waiting \/ IsJudge(judge'[i])
  BY <1>1 DEF ExperimentInv
<1>10. \A y \in FlagKeys : flags'[y] = NoFlag \/ IsRow(flags'[y])
  BY <1>1, <1>3, <1>6 DEF ExperimentInv
<1>11. ASSUME NEW y \in FlagKeys, rolledOut'[y] # "none" PROVE IsWonBy(flags'[y], rolledOut'[y])
  <2>1. CASE y = k
    <3>1. rolledOut'[k] = IF wins THEN w ELSE "none"
      BY <1>1, <1>3 DEF ExperimentInv
    <3>2. wins /\ rolledOut'[k] = w
      BY <2>1, <1>11, <3>1
    <3>3. flags'[k] = row
      BY <1>1, <1>3, <1>7, <3>2 DEF ExperimentInv
    <3> QED  BY <2>1, <1>7, <3>2, <3>3
  <2>2. CASE y # k
    <3>1. rolledOut'[y] = rolledOut[y] /\ flags'[y] = flags[y]
      BY <1>1, <2>2
    <3> QED  BY <3>1, <1>11 DEF ExperimentInv
  <2> QED  BY <2>1, <2>2
<1> QED  BY <1>8, <1>9, <1>10, <1>11 DEF ExperimentInv

LEMMA ExperimentStepsKeepInv ==
    ASSUME ExperimentInv, [ExperimentNext]_experimentVars
    PROVE  ExperimentInv'
<1>1. CASE UNCHANGED experimentVars
  BY <1>1 DEF experimentVars, ExperimentInv
<1>2. ASSUME NEW j \in Judges, NEW from \in {"open", "begin", "write"}, NEW to \in {"begin", "read", "commit"},
             At(j, from, to), UNCHANGED <<flags, experiments, rolledOut>>
      PROVE  ExperimentInv'
  <2>1. PICK g : IsJudge(g) /\ judge' = [judge EXCEPT ![j] = g]
    BY <1>2, MovesOn
  <2> QED  BY <1>2, <2>1, JudgesKeepExperimentInv
<1>3. ASSUME NEW j \in Judges, OpenConclusion(j) \/ ConcludeExperiment(j) \/ RollOutWinner(j) PROVE ExperimentInv'
  BY <1>2, <1>3 DEF OpenConclusion, ConcludeExperiment, RollOutWinner
<1>4. ASSUME NEW j \in Judges, ConclusionFails(j) PROVE ExperimentInv'
  BY <1>4, JudgesKeepExperimentInv DEF ConclusionFails
<1>5. ASSUME NEW j \in Judges, JudgeStep(j) \/ ConclusionFails(j) PROVE ExperimentInv'
  BY <1>3, <1>4, <1>5, ReadsKeepExperimentInv, CommitsKeepExperimentInv DEF JudgeStep
<1>6. ASSUME NEW k \in FlagKeys, EditFlag(k) PROVE ExperimentInv'
  BY <1>6, EditsKeepExperimentInv
<1> QED  BY <1>1, <1>5, <1>6, DeclarationsKeepExperimentInv DEF ExperimentNext

LEMMA PlaceOfId ==
    ASSUME NEW k \in FlagKeys, NEW id \in Ids \cup {NoId}
    PROVE  (IF id = NoId THEN 0 ELSE Hash[k, id]) \in 0..(Buckets - 1)
<1>1. Buckets \in Nat \ {0} /\ Hash \in [FlagKeys \X Ids -> 0..(Buckets - 1)]
  BY FlagAssumption, Zenon DEF FlagAssumption
<1>2. CASE id \in Ids /\ id # NoId
  <2>1. <<k, id>> \in FlagKeys \X Ids
    BY <1>2
  <2>2. Hash[<<k, id>>] \in 0..(Buckets - 1)
    BY <1>1, <2>1, Zenon
  <2> QED  BY <1>2, <2>2
<1>3. CASE id = NoId
  BY <1>1, <1>3
<1> QED  BY <1>2, <1>3

(* Raising the percentage of a flag takes it from nobody and moves nobody  *)
(* to another variant, for any hashes into the hundred places              *)
(* (EvaluateFlag).                                                         *)
THEOREM RaisingMovesNobody == AnalyticsSpec => RaisingKeepsVariants
<1>1. AnalyticsInit => ExperimentInv
  BY ExperimentStarts DEF AnalyticsInit
<1>2. ExperimentInv /\ [AnalyticsNext]_analyticsVars => ExperimentInv'
  BY AreaSteps, ExperimentStepsKeepInv
<1>3. ASSUME NEW k \in FlagKeys, NEW old, NEW new, IsRow(old), IsRow(new), new = [old EXCEPT !.rollout = new.rollout],
             new.rollout > old.rollout, NEW id \in Ids \cup {NoId}, EvaluateFlag(k, old, id, <<>>) # "off"
      PROVE  EvaluateFlag(k, new, id, <<>>) = EvaluateFlag(k, old, id, <<>>)
  <2> DEFINE place == IF id = NoId THEN 0 ELSE Hash[k, id]
             On(row) == /\ row.enabled
                        /\ \A x \in row.filters : MatchesFilter(x, id, <<>>)
                        /\ place < row.rollout
             Value(row) == IF row.variants # <<>> /\ TotalOf(row.variants) > 0 THEN VariantOf(k, row, id) ELSE "on"
  <2>1. \A row : EvaluateFlag(k, row, id, <<>>) = IF ~On(row) THEN "off" ELSE Value(row)
    BY Zenon DEF EvaluateFlag
  <2>2. new.enabled = old.enabled /\ new.filters = old.filters /\ new.variants = old.variants
    BY <1>3 DEF IsRow
  <2>3. old.rollout \in 0..Buckets /\ new.rollout \in 0..Buckets
    BY <1>3 DEF IsRow
  <2>4. place \in Int
    <3>1. place \in 0..(Buckets - 1)
      BY PlaceOfId
    <3> HIDE DEF place
    <3> QED  BY <3>1, FlagAssumption DEF FlagAssumption
  <2>5. place < old.rollout => place < new.rollout
    <3> HIDE DEF place
    <3> QED  BY <1>3, <2>3, <2>4, FlagAssumption DEF FlagAssumption
  <2>6. VariantOf(k, new, id) = VariantOf(k, old, id)
    BY <2>2, Zenon DEF VariantOf
  <2>7. Value(new) = Value(old)
    BY <2>2, <2>6, Zenon
  <2>8. On(old) => On(new)
    <3> HIDE DEF place
    <3> QED  BY <2>2, <2>5, Zenon
  <2> HIDE DEF On, Value
  <2>9. On(old)
    BY <1>3, <2>1
  <2> QED  BY <2>1, <2>7, <2>8, <2>9
<1>4. ExperimentInv /\ ExperimentInv' =>
        [\A k \in FlagKeys :
          LET old == flags[k] new == flags'[k] IN
          (old # NoFlag /\ new # NoFlag /\ new = [old EXCEPT !.rollout = new.rollout] /\ new.rollout > old.rollout)
            => \A id \in Ids \cup {NoId} :
                 EvaluateFlag(k, old, id, <<>>) # "off" => EvaluateFlag(k, new, id, <<>>) = EvaluateFlag(k, old, id, <<>>)]_experimentVars
  BY <1>3 DEF ExperimentInv
<1> QED  BY <1>1, <1>2, <1>4, PTL DEF AnalyticsSpec, RaisingKeepsVariants

(* Once a winner has been rolled out, everybody the filters let through is *)
(* served the winner, whoever else declares one at the same time and with  *)
(* any variants, until somebody edits the flag (declareExperimentWinner).  *)
THEOREM WinnersAreServed == AnalyticsSpec => []WinnerIsServed
<1>1. AnalyticsInit => ExperimentInv
  BY ExperimentStarts DEF AnalyticsInit
<1>2. ExperimentInv /\ [AnalyticsNext]_analyticsVars => ExperimentInv'
  BY AreaSteps, ExperimentStepsKeepInv
<1>3. ASSUME ExperimentInv PROVE WinnerIsServed
  <2> SUFFICES ASSUME NEW k \in FlagKeys, rolledOut[k] # "none", NEW id \in Ids \cup {NoId},
                      \A x \in flags[k].filters : MatchesFilter(x, id, <<>>)
               PROVE  EvaluateFlag(k, flags[k], id, <<>>) = rolledOut[k]
    BY DEF WinnerIsServed
  <2> DEFINE row == flags[k]
             w == rolledOut[k]
             place == IF id = NoId THEN 0 ELSE Hash[k, id]
  <2>1. IsWonBy(row, w)
    BY <1>3 DEF ExperimentInv
  <2>2. PICK filters, vs : /\ Indexed(vs) /\ \E i \in DOMAIN vs : vs[i].key = w
                           /\ row = FlagRow(TRUE, Buckets, filters, WinnerTakesAll(vs, w))
    BY <2>1 DEF IsWonBy
  <2>3. row.enabled = TRUE /\ row.rollout = Buckets /\ row.variants = WinnerTakesAll(vs, w)
    <3>1. Clamp(Buckets) = Buckets
      BY FlagAssumption DEF FlagAssumption, Clamp
    <3> QED  BY <2>2, <3>1 DEF FlagRow
  <2>4. place < row.rollout
    <3>1. place \in 0..(Buckets - 1)
      BY PlaceOfId
    <3> HIDE DEF place, row
    <3> QED  BY <2>3, <3>1, FlagAssumption DEF FlagAssumption
  <2>5. row.variants # <<>> /\ TotalOf(row.variants) > 0 /\ VariantOf(k, row, id) = w
    <3>1. \A r : r.variants = WinnerTakesAll(vs, w) =>
            r.variants # <<>> /\ TotalOf(r.variants) > 0 /\ VariantOf(k, r, id) = w
      <4> HIDE DEF w
      <4> QED  BY <2>2, WinnerTakesThemAll
    <3> QED  BY <2>3, <3>1, Zenon
  <2> QED  BY <2>3, <2>4, <2>5, Zenon DEF EvaluateFlag
<1> QED  BY <1>1, <1>2, <1>3, PTL DEF AnalyticsSpec

-----------------------------------------------------------------------------
(* Retention: sums over finite tables, the calendar, and the matrix. *)

Removable(D, Good) == \A S \in SUBSET D : (\A x \in S : S \ {x} \in Good) => S \in Good

(* What holds of a set when it holds of the set less any element of it     *)
(* holds of every part of a finite set.                                    *)
LEMMA ByRemoval ==
    ASSUME NEW D, IsFiniteSet(D), NEW Good, Removable(D, Good)
    PROVE  SUBSET D \subseteq Good
<1> DEFINE Sizes == {Cardinality(S) : S \in (SUBSET D) \ Good}
<1> SUFFICES ASSUME (SUBSET D) \ Good # {} PROVE FALSE
  OBVIOUS
<1>1. \A S \in SUBSET D : IsFiniteSet(S) /\ Cardinality(S) \in Nat
  BY FS_Subset, FS_CardinalityType
<1>2. PICK n \in Sizes : \A m \in Sizes : n <= m
  <2>1. Sizes \subseteq Nat /\ Sizes # {}
    BY <1>1
  <2> HIDE DEF Sizes
  <2> QED  BY <2>1, LeastNatural
<1>3. PICK S \in (SUBSET D) \ Good : n = Cardinality(S)
  BY <1>2
<1>4. ASSUME NEW x \in S PROVE S \ {x} \in Good
  <2>1. Cardinality(S \ {x}) = n - 1 /\ n \in Nat
    BY <1>1, <1>3, FS_RemoveElement
  <2>2. ~(n <= n - 1)
    BY <2>1
  <2>3. Cardinality(S \ {x}) \notin Sizes
    BY <1>2, <2>1, <2>2
  <2>4. S \ {x} \in SUBSET D
    BY <1>3
  <2> QED  BY <2>3, <2>4
<1> QED  BY <1>3, <1>4 DEF Removable

(* The table from which a sum over D is read.                              *)
AnyOf(S) == CHOOSE x \in S : TRUE
IsSumTable(g, D, f) ==
    g = [S \in SUBSET D |-> IF S = {} THEN 0 ELSE f[AnyOf(S)] + g[S \ {AnyOf(S)}]]

LEMMA SumTableExists ==
    ASSUME NEW D, IsFiniteSet(D), NEW f, f \in [D -> Nat]
    PROVE  \E g \in [SUBSET D -> Nat] : IsSumTable(g, D, f)
<1> DEFINE Small(k) == {S \in SUBSET D : Cardinality(S) <= k}
           Rule(g, S) == IF S = {} THEN 0 ELSE f[AnyOf(S)] + g[S \ {AnyOf(S)}]
           Has(k) == \E g \in [Small(k) -> Nat] : \A S \in Small(k) : g[S] = Rule(g, S)
           Lacking == {k \in Nat : ~Has(k)}
<1>1. \A S \in SUBSET D : IsFiniteSet(S) /\ Cardinality(S) \in Nat
  BY FS_Subset, FS_CardinalityType
<1>2. \A S \in SUBSET D : S # {} => AnyOf(S) \in S /\ f[AnyOf(S)] \in Nat
  BY DEF AnyOf
<1>3. \A S \in SUBSET D : S # {} => Cardinality(S \ {AnyOf(S)}) = Cardinality(S) - 1
  BY <1>1, <1>2, FS_RemoveElement
<1>4. Has(0)
  <2>1. \A S \in Small(0) : S = {}
    BY <1>1, FS_EmptySet
  <2>2. [S \in Small(0) |-> 0] \in [Small(0) -> Nat]
    OBVIOUS
  <2> QED  BY <2>1, <2>2
<1>5. ASSUME NEW k \in Nat, Has(k) PROVE Has(k + 1)
  <2>1. PICK g \in [Small(k) -> Nat] : \A S \in Small(k) : g[S] = Rule(g, S)
    BY <1>5
  <2> DEFINE h == [S \in Small(k + 1) |-> Rule(g, S)]
  <2>2. \A S \in Small(k + 1) : S # {} => S \ {AnyOf(S)} \in Small(k)
    BY <1>1, <1>3
  <2>3. \A S \in Small(k + 1) : Rule(g, S) \in Nat
    BY <1>2, <2>2
  <2>4. \A S \in Small(k) : S \in Small(k + 1) /\ h[S] = g[S]
    BY <1>1, <2>1
  <2>5. \A S \in Small(k + 1) : h[S] = Rule(h, S)
    BY <2>2, <2>4
  <2>6. h \in [Small(k + 1) -> Nat]
    BY <2>3
  <2> HIDE DEF h
  <2> QED  BY <2>5, <2>6
<1> HIDE DEF Has
<1>6. Lacking = {}
  <2> SUFFICES ASSUME Lacking # {} PROVE FALSE
    OBVIOUS
  <2>1. PICK m \in Lacking : \A k \in Lacking : m <= k
    BY LeastNatural
  <2>2. m \in Nat /\ m # 0 /\ ~Has(m)
    BY <1>4, <2>1
  <2>3. m - 1 \in Nat /\ (m - 1) + 1 = m /\ ~(m <= m - 1)
    BY <2>2
  <2>4. Has(m - 1)
    BY <2>1, <2>3
  <2> QED  BY <1>5, <2>2, <2>3, <2>4
<1>7. Has(Cardinality(D)) /\ Small(Cardinality(D)) = SUBSET D
  BY <1>6, FS_CardinalityType, FS_Subset
<1>8. PICK g : g \in [SUBSET D -> Nat] /\ \A S \in SUBSET D : g[S] = Rule(g, S)
  BY <1>7 DEF Has
<1>9. g = [S \in SUBSET D |-> g[S]]
  BY <1>8
<1> HIDE DEF Small
<1>10. [S \in SUBSET D |-> g[S]] = [S \in SUBSET D |-> Rule(g, S)]
  BY <1>8
<1> QED  BY <1>8, <1>9, <1>10, Zenon DEF IsSumTable

(* The order of the elements does not matter.                              *)
Sums(g, D, f) ==
    /\ g \in [SUBSET D -> Nat]
    /\ g[{}] = 0
    /\ \A S \in SUBSET D : \A x \in S : g[S] = f[x] + g[S \ {x}]

LEMMA TableSums ==
    ASSUME NEW D, IsFiniteSet(D), NEW f, f \in [D -> Nat],
           NEW g, g \in [SUBSET D -> Nat], IsSumTable(g, D, f)
    PROVE  Sums(g, D, f)
<1> DEFINE Holds == {S \in SUBSET D : \A x \in S : g[S] = f[x] + g[S \ {x}]}
<1>1. \A S \in SUBSET D : g[S] = IF S = {} THEN 0 ELSE f[AnyOf(S)] + g[S \ {AnyOf(S)}]
  BY DEF IsSumTable
<1>2. ASSUME NEW S \in SUBSET D, \A x \in S : S \ {x} \in Holds PROVE S \in Holds
  <2> SUFFICES ASSUME NEW x \in S PROVE g[S] = f[x] + g[S \ {x}]
    OBVIOUS
  <2> DEFINE y == AnyOf(S)
  <2>1. y \in S
    BY DEF AnyOf
  <2>2. g[S] = f[y] + g[S \ {y}]
    BY <1>1
  <2> HIDE DEF y
  <2>3. CASE x = y
    BY <2>2, <2>3
  <2>4. CASE x # y
    <3>1. g[S \ {y}] = f[x] + g[(S \ {y}) \ {x}]
      BY <1>2, <2>1, <2>4
    <3>2. g[S \ {x}] = f[y] + g[(S \ {x}) \ {y}]
      BY <1>2, <2>1, <2>4
    <3>3. (S \ {y}) \ {x} = (S \ {x}) \ {y} /\ (S \ {x}) \ {y} \in SUBSET D
      OBVIOUS
    <3>4. f[x] \in Nat /\ f[y] \in Nat /\ g[(S \ {x}) \ {y}] \in Nat
      BY <2>1, <3>3
    <3>5. g[(S \ {y}) \ {x}] = g[(S \ {x}) \ {y}]
      BY <3>3
    <3> HIDE DEF Holds
    <3>6. g[S] = f[y] + (f[x] + g[(S \ {x}) \ {y}])
      BY <2>2, <3>1, <3>5
    <3>7. f[x] + g[S \ {x}] = f[x] + (f[y] + g[(S \ {x}) \ {y}])
      BY <3>2
    <3>8. \A a, b, c \in Nat : a + (b + c) = b + (a + c)
      OBVIOUS
    <3> QED  BY <3>4, <3>6, <3>7, <3>8
  <2> QED  BY <2>3, <2>4
<1>3. SUBSET D \subseteq Holds
  <2>1. Removable(D, Holds)
    BY <1>2, Zenon DEF Removable
  <2> HIDE DEF Holds
  <2> QED  BY <2>1, ByRemoval
<1>4. g[{}] = 0
  BY <1>1
<1> QED  BY <1>3, <1>4 DEF Sums

(* The sum over the rows of a matrix.                                      *)
HasTotals(D, m) == \A b \in D : m[b].total \in Nat
TotalsOf(D, m) == [b \in D |-> m[b].total]
TotalOver(D, m) == MapThenSumSet(LAMBDA b : m[b].total, D)

LEMMA MappedSum ==
    ASSUME NEW D, IsFiniteSet(D), NEW m, HasTotals(D, m)
    PROVE  \E g : Sums(g, D, TotalsOf(D, m)) /\ TotalOver(D, m) = g[D]
<1> DEFINE f == [b \in D |-> m[b].total]
           T == CHOOSE g : g = [S \in SUBSET D |->
                  IF S = {} THEN 0 ELSE m[CHOOSE b \in S : TRUE].total + g[S \ {CHOOSE b \in S : TRUE}]]
           Rule(g, S) == IF S = {} THEN 0 ELSE f[AnyOf(S)] + g[S \ {AnyOf(S)}]
           Step(g, S) == IF S = {} THEN 0 ELSE m[CHOOSE b \in S : TRUE].total + g[S \ {CHOOSE b \in S : TRUE}]
<1>1. f \in [D -> Nat]
  BY DEF HasTotals
<1>2. PICK g \in [SUBSET D -> Nat] : IsSumTable(g, D, f)
  BY <1>1, SumTableExists
<1>3. \A h : \A S \in SUBSET D : Step(h, S) = Rule(h, S)
  <2> TAKE h
  <2> TAKE S \in SUBSET D
  <2>1. CASE S = {}
    BY <2>1
  <2>2. CASE S # {}
    <3>1. AnyOf(S) \in S /\ AnyOf(S) = CHOOSE b \in S : TRUE
      BY <2>2 DEF AnyOf
    <3>2. f[AnyOf(S)] = m[CHOOSE b \in S : TRUE].total
      BY <3>1
    <3> QED  BY <3>1, <3>2
  <2> QED  BY <2>1, <2>2
<1>4. \A h : [S \in SUBSET D |-> Step(h, S)] = [S \in SUBSET D |-> Rule(h, S)]
  <2> HIDE DEF Step, Rule
  <2> QED  BY <1>3
<1>5. T = CHOOSE g0 : g0 = [S \in SUBSET D |-> Step(g0, S)]
  OBVIOUS
<1>6. g = [S \in SUBSET D |-> Rule(g, S)]
  BY <1>2, Zenon DEF IsSumTable
<1>7. T = [S \in SUBSET D |-> Rule(T, S)]
  <2> HIDE DEF T, Rule, Step
  <2>1. g = [S \in SUBSET D |-> Step(g, S)]
    BY <1>4, <1>6
  <2>2. T = [S \in SUBSET D |-> Step(T, S)]
    BY <1>5, <2>1, Zenon
  <2> QED  BY <1>4, <2>2
<1>8. TotalOver(D, m) = T[D]
  BY Zenon DEF TotalOver, MapThenSumSet, MapThenFoldSet
<1>9. IsSumTable(T, D, f)
  BY <1>7, Zenon DEF IsSumTable
<1> HIDE DEF T, f, Rule, Step
<1>10. T = g
  <2> DEFINE Same == {S \in SUBSET D : T[S] = g[S]}
  <2>1. ASSUME NEW S \in SUBSET D, \A x \in S : S \ {x} \in Same PROVE S \in Same
    <3>1. S # {} => AnyOf(S) \in S
      BY DEF AnyOf
    <3>2. S # {} => T[S \ {AnyOf(S)}] = g[S \ {AnyOf(S)}]
      BY <2>1, <3>1
    <3>3. T[S] = Rule(T, S) /\ g[S] = Rule(g, S)
      BY <1>6, <1>7
    <3> QED  BY <3>2, <3>3 DEF Rule
  <2>2. SUBSET D \subseteq Same
    <3>1. Removable(D, Same)
      BY <2>1, Zenon DEF Removable
    <3> HIDE DEF Same
    <3> QED  BY <3>1, ByRemoval
  <2>3. \A S \in SUBSET D : T[S] = g[S]
    BY <2>2
  <2> QED  BY <1>6, <1>7, <2>3
<1>11. Sums(g, D, f)
  BY <1>1, <1>2, TableSums
<1> QED  BY <1>8, <1>10, <1>11 DEF f, TotalsOf

(* The sizes of the parts of a finite set add up to its size.              *)
Part(X, F, S) == {x \in X : F[x] \in S}
PartSizes(D, X, F) == [b \in D |-> Cardinality(Part(X, F, {b}))]

LEMMA PartsAddUp ==
    ASSUME NEW X, IsFiniteSet(X), NEW D, NEW F, F \in [X -> D], NEW g, Sums(g, D, PartSizes(D, X, F)),
           IsFiniteSet(D)
    PROVE  g[D] = Cardinality(X)
<1> DEFINE f == PartSizes(D, X, F)
           Good == {S \in SUBSET D : g[S] = Cardinality(Part(X, F, S))}
<1>1. ASSUME NEW S \in SUBSET D, \A x \in S : S \ {x} \in Good PROVE S \in Good
  <2>1. CASE S = {}
    <3>1. Part(X, F, S) = {}
      BY <2>1 DEF Part
    <3> QED  BY <2>1, <3>1, FS_EmptySet DEF Sums
  <2>2. ASSUME NEW x \in S PROVE S \in Good
    <3> DEFINE P == Part(X, F, {x})
               Q == Part(X, F, S \ {x})
    <3>1. g[S] = f[x] + g[S \ {x}]
      BY DEF Sums
    <3>2. f[x] = Cardinality(P) /\ g[S \ {x}] = Cardinality(Q)
      BY <1>1 DEF PartSizes
    <3>3. P \subseteq X /\ Q \subseteq X /\ P \cup Q = Part(X, F, S) /\ P \cap Q = {}
      BY DEF Part
    <3>4. IsFiniteSet(P) /\ IsFiniteSet(Q)
      BY <3>3, FS_Subset
    <3> HIDE DEF P, Q
    <3>5. Cardinality(P \cup Q) = Cardinality(P) + Cardinality(Q)
      <4>1. /\ Cardinality(P \cup Q) = Cardinality(P) + Cardinality(Q) - Cardinality(P \cap Q)
            /\ Cardinality(P) \in Nat /\ Cardinality(Q) \in Nat
        BY <3>4, FS_Union, FS_CardinalityType
      <4>2. Cardinality(P \cap Q) = 0
        BY <3>3, FS_EmptySet
      <4> QED  BY <4>1, <4>2
    <3> QED  BY <3>1, <3>2, <3>3, <3>5
  <2> QED  BY <2>1, <2>2
<1>2. SUBSET D \subseteq Good
  <2>1. Removable(D, Good)
    BY <1>1, Zenon DEF Removable
  <2> HIDE DEF Good
  <2> QED  BY <2>1, ByRemoval
<1>3. Part(X, F, D) = X
  BY DEF Part
<1> QED  BY <1>2, <1>3

(* The calendar. *)
LEMMA QuotientIs ==
    ASSUME NEW d \in Nat \ {0}, NEW x \in Int, NEW q \in Int, d * q <= x, x < d * q + d
    PROVE  x \div d = q
<1> DEFINE e == x \div d
<1>1. e \in Int /\ d * e <= x /\ x < d * e + d
  OBVIOUS
<1> HIDE DEF e
<1>2. \A a, c \in Int : a >= c + 1 => d * a >= d * c + d
  OBVIOUS
<1>3. ~(e >= q + 1) /\ ~(q >= e + 1)
  <2>1. d * e \in Int /\ d * q \in Int
    BY <1>1
  <2> QED  BY <1>1, <1>2, <2>1
<1>4. e = q
  BY <1>1, <1>3
<1> QED  BY <1>4 DEF e

LEMMA QuotientBounds ==
    ASSUME NEW d \in Nat \ {0}, NEW x \in Nat
    PROVE  /\ x \div d \in Nat
           /\ d * (x \div d) <= x /\ x < d * (x \div d) + d
           /\ x % d \in 0..(d - 1) /\ x = d * (x \div d) + (x % d)
<1> DEFINE e == x \div d
<1>1. e \in Int /\ d * e <= x /\ x < d * e + d
  OBVIOUS
<1>2. x % d \in 0..(d - 1) /\ x = d * e + (x % d)
  OBVIOUS
<1>3. e >= 0
  <2> HIDE DEF e
  <2>1. \A a \in Int : a <= -1 => d * a + d <= 0
    OBVIOUS
  <2> QED  BY <1>1, <2>1
<1> QED  BY <1>1, <1>2, <1>3

(* Taking whole periods off takes as many off the count of periods.        *)
LEMMA QuotientShifts ==
    ASSUME NEW d \in Nat \ {0}, NEW x \in Nat, NEW k \in Int
    PROVE  (x - d * k) \div d = x \div d - k
<1> DEFINE e == x \div d
<1>1. e \in Nat /\ d * e <= x /\ x < d * e + d
  BY QuotientBounds
<1> HIDE DEF e
<1>2. d * (e - k) = d * e - d * k /\ d * e \in Int /\ d * k \in Int
  BY <1>1
<1>3. d * (e - k) <= x - d * k /\ x - d * k < d * (e - k) + d
  BY <1>1, <1>2
<1>4. (x - d * k) \div d = e - k
  BY <1>1, <1>2, <1>3, QuotientIs
<1> QED  BY <1>4 DEF e

LEMMA CalendarFacts ==
    /\ DayUnits \in Nat \ {0} /\ WeekDays \in Nat \ {0} /\ FirstWeekday \in 1..WeekDays
    /\ \A period \in {"day", "week"} : LastPeriod[period] \in Nat
  BY CalendarAssumption DEF CalendarAssumption

(* The arithmetic of the code finds the period the calendar says.          *)
LEMMA PeriodsFollowCalendar ==
    ASSUME NEW period \in {"day", "week"}, NEW first \in Nat, NEW t \in Nat, NEW p \in Nat
    PROVE  PeriodIndex(period, first, t) = p <=> CalendarPeriod(period, t) = CalendarPeriod(period, first) + p
<1> DEFINE U == DayUnits
           W == WeekDays
           a == Day(first)
           c == Day(t)
           y == a + FirstWeekday - 1
           z == c + FirstWeekday - 1
           days == (t + W * U - BucketDay(period, first) * U) \div U
<1>1. U \in Nat \ {0} /\ W \in Nat \ {0} /\ FirstWeekday \in Nat /\ FirstWeekday >= 1
  BY CalendarFacts
<1>2. a \in Nat /\ c \in Nat
  BY <1>1, QuotientBounds DEF Day
<1>3. y \in Nat /\ z \in Nat
  BY <1>1, <1>2
<1>4. ASSUME NEW B \in Int PROVE (t + W * U - B * U) \div U = c + W - B
  <2>1. (t - U * (B - W)) \div U = (t \div U) - (B - W)
    <3> DEFINE k == B - W
    <3>1. k \in Int
      BY <1>1
    <3> HIDE DEF k, U, W
    <3>2. (t - U * k) \div U = (t \div U) - k
      BY <1>1, <3>1, QuotientShifts
    <3> QED  BY <3>2 DEF k
  <2>2. t + W * U - B * U = t - U * (B - W)
    <3> HIDE DEF U, W
    <3> QED  BY <1>1
  <2>3. t \div U = c
    BY DEF Day
  <2> HIDE DEF c, U, W
  <2>4. (t + W * U - B * U) \div U = c - (B - W)
    BY <2>1, <2>2, <2>3
  <2> QED  BY <2>4, <1>1, <1>2
<1>5. CASE period = "day"
  <2>1. BucketDay(period, first) = a + W
    <3> HIDE DEF a, W
    <3>1. BucketDay(period, first) = a + W - 0
      BY <1>5 DEF BucketDay, a, W
    <3> QED  BY <3>1, <1>1, <1>2
  <2> HIDE DEF a, c, W, U
  <2>2. days = c - a
    <3>1. a + W \in Int
      BY <1>1, <1>2
    <3>2. days = c + W - (a + W)
      BY <1>4, <2>1, <3>1
    <3> HIDE DEF days
    <3> QED  BY <1>1, <1>2, <3>2
  <2>3. PeriodIndex(period, first, t) = c - a
    BY <1>5, <2>2 DEF PeriodIndex, U, W
  <2>4. CalendarPeriod(period, t) = c /\ CalendarPeriod(period, first) = a
    BY <1>5 DEF CalendarPeriod, a, c
  <2> QED  BY <1>2, <2>3, <2>4
<1>6. CASE period = "week"
  <2> DEFINE q == y \div W
             r == y % W
  <2>1. q \in Nat /\ r \in Nat /\ y = W * q + r
    <3> HIDE DEF y, W
    <3>1. /\ y \div W \in Nat /\ y % W \in 0..(W - 1)
          /\ y = W * (y \div W) + (y % W)
      BY <1>1, <1>3, QuotientBounds
    <3>2. W - 1 \in Int
      BY <1>1
    <3> QED  BY <3>1, <3>2
  <2>2. BucketDay(period, first) = a + W - r
    <3>1. Weekday(first) - 1 = r
      <4>1. Weekday(first) = r + 1
        BY DEF Weekday
      <4> HIDE DEF r
      <4> QED  BY <4>1, <2>1
    <3> HIDE DEF a, W, r
    <3>2. BucketDay(period, first) = a + W - (Weekday(first) - 1)
      BY <1>6 DEF BucketDay, a, W
    <3> QED  BY <3>1, <3>2
  <2>3. z \div W \in Nat /\ (z - W * q) \div W = (z \div W) - q
    <3> HIDE DEF z, W, q
    <3>1. q \in Int
      BY <2>1
    <3> QED  BY <1>1, <1>3, <3>1, QuotientBounds, QuotientShifts
  <2>4. days = z - W * q
    <3> HIDE DEF q, r, W, U
    <3>1. days = c + W - (a + W - r)
      <4>1. a + W - r \in Int
        BY <1>1, <1>2, <2>1
      <4> QED  BY <1>4, <2>2, <4>1
    <3>2. W * q \in Int
      BY <1>1, <2>1
    <3> HIDE DEF a, c, days
    <3> QED  BY <1>1, <1>2, <2>1, <3>1, <3>2
  <2>5. PeriodIndex(period, first, t) = days \div W
    BY <1>6 DEF PeriodIndex
  <2>6. CalendarPeriod(period, t) = z \div W /\ CalendarPeriod(period, first) = q
    BY <1>6 DEF CalendarPeriod
  <2> HIDE DEF q, z, W, days
  <2> QED  BY <2>1, <2>3, <2>4, <2>5, <2>6
<1> QED  BY <1>5, <1>6

(* Sessions start at an instant, with or without a row. *)
StartsInv == \A s \in SessionIds : sessions[s].started \in Nat

LEMMA StartsStay ==
    /\ LogInit => StartsInv
    /\ RowsInv /\ StartsInv /\ [LogNext]_logVars => StartsInv'
<1>1. LogInit => StartsInv
  BY DEF LogInit, StartsInv
<1>2. Starts \subseteq Nat
  BY EventLogAssumption DEF EventLogAssumption
<1>3. ASSUME RowsInv, StartsInv, NEW s \in SessionIds, NEW row, row.started \in Nat,
             sessions' = [sessions EXCEPT ![s] = row]
      PROVE  StartsInv'
  <2>1. ASSUME NEW o \in SessionIds PROVE sessions'[o] = IF o = s THEN row ELSE sessions[o]
    BY <1>3 DEF RowsInv
  <2> QED  BY <1>3, <2>1 DEF StartsInv
<1>4. ASSUME RowsInv, StartsInv, LogNext PROVE StartsInv'
  <2>1. PICK s \in SessionIds, u \in LogUsers \cup {Anonymous}, at \in Starts : \E its : Envelope(s, u, at, its)
    BY <1>4 DEF LogNext
  <2> DEFINE row == [user |-> u, started |-> IF sessions[s].user = "none" THEN at ELSE sessions[s].started]
  <2>2. sessions' = [sessions EXCEPT ![s] = row]
    BY <2>1 DEF Envelope
  <2>3. row.started \in Nat
    BY <1>2, <1>4 DEF StartsInv
  <2> HIDE DEF row
  <2>4. RowsInv /\ StartsInv
    BY <1>4
  <2> QED  BY <1>3, <2>2, <2>3, <2>4
<1> QED  BY <1>1, <1>4 DEF StartsInv, logVars

LEMMA TimesAreInstants ==
    ASSUME LogInv, StartsInv, NEW u, NEW event, NEW since
    PROVE  Times(u, event, since) \subseteq Nat
<1>1. \A s \in Rows : sessions[s].started \in Nat
  BY DEF StartsInv, Rows
<1>2. \A i \in items : i.ts \in Nat
  BY EventLogAssumption DEF LogInv, LoggedItems, EventLogAssumption
<1> QED  BY <1>1, <1>2 DEF Times

LEMMA LeastIsIn ==
    ASSUME NEW S, S \subseteq Nat, S # {}
    PROVE  Min(S) \in S
<1>1. \E x \in S : \A y \in S : x =< y
  BY LeastNatural
<1> QED  BY <1>1, Zenon DEF Min

(* Who started. *)
LEMMA StartersAreFew ==
    ASSUME RowsInv, NEW since, NEW X, X \subseteq {u \in LogUsers : Times(u, "session_start", since) # {}}
    PROVE  IsFiniteSet(X)
<1> DEFINE All == {sessions[s].user : s \in Rows}
<1>1. X \subseteq All
  BY DEF Times
<1>2. IsFiniteSet(All)
  <2> DEFINE f == [s \in Rows |-> sessions[s].user]
  <2>1. f \in Surjection(Rows, All)
    BY DEF Surjection
  <2> HIDE DEF f
  <2> QED  BY <2>1, FS_Surjection DEF RowsInv
<1> QED  BY <1>1, <1>2, FS_Subset

(* The matrix of the users who started, by when each first did.            *)
MatrixOf(started, first, period, return, since) ==
  LET In(b) == {u \in started : BucketDay(period, first[u]) = b}
      Back(b, p) == {u \in In(b) : \E t \in Times(u, return, since) :
                                     t >= first[u] /\ PeriodIndex(period, first[u], t) = p}
  IN  [b \in {BucketDay(period, first[u]) : u \in started} |->
        [total |-> Cardinality(In(b)),
         activity |-> [p \in 0..LastPeriod[period] |->
                         IF p = 0 /\ Cardinality(Back(b, 0)) < Cardinality(In(b)) THEN Cardinality(In(b))
                         ELSE Cardinality(Back(b, p))]]]

(***************************************************************************)
(* The retention matrix counts every user who started once, and a cell     *)
(* counts those who came back in the calendar day or week it stands for,   *)
(* whatever the hour or the weekday they started at.                       *)
(***************************************************************************)
THEOREM MatrixFollowsCalendar == AnalyticsSpec => []RetentionFollowsCalendar
<1> DEFINE Inv == LogInv /\ RowsInv /\ StartsInv
<1>1. AnalyticsInit => Inv
  BY LogKeepsInv, RowsStayFinite, StartsStay DEF AnalyticsInit
<1>2. Inv /\ [AnalyticsNext]_analyticsVars => Inv'
  BY AreaSteps, LogKeepsInv, RowsStayFinite, StartsStay
<1>3. ASSUME Inv PROVE RetentionFollowsCalendar
  <2> SUFFICES ASSUME NEW period \in {"day", "week"}, NEW since \in {0, 1},
                      NEW return \in {"session_start"} \cup {k.name : k \in Shapes}
               PROVE  LET m == CalculateRetentionMatrix(period, since, "session_start", return, "any")
                          started == {u \in LogUsers : Times(u, "session_start", since) # {}}
                          First(u) == Min(Times(u, "session_start", since))
                      IN  /\ MapThenSumSet(LAMBDA b : m[b].total, DOMAIN m) = Cardinality(started)
                          /\ \A b \in DOMAIN m : \A p \in DOMAIN m[b].activity :
                               /\ m[b].activity[p] <= m[b].total
                               /\ p > 0 => m[b].activity[p] = Cardinality({u \in started :
                                    /\ BucketDay(period, First(u)) = b
                                    /\ \E t \in Times(u, return, since) : t >= First(u) /\ CalendarPeriod(period, t) = CalendarPeriod(period, First(u)) + p})
    BY Zenon DEF RetentionFollowsCalendar
  <2> DEFINE started == {u \in LogUsers : Times(u, "session_start", since) # {}}
             First(u) == Min(Times(u, "session_start", since))
             first == [u \in started |-> First(u)]
             Bucket == [u \in started |-> BucketDay(period, first[u])]
             D == {BucketDay(period, first[u]) : u \in started}
             In(b) == {u \in started : BucketDay(period, first[u]) = b}
             Back(b, p) == {u \in In(b) : \E t \in Times(u, return, since) :
                              t >= first[u] /\ PeriodIndex(period, first[u], t) = p}
             Row(b) == [total |-> Cardinality(In(b)),
                        activity |-> [p \in 0..LastPeriod[period] |->
                          IF p = 0 /\ Cardinality(Back(b, 0)) < Cardinality(In(b)) THEN Cardinality(In(b))
                          ELSE Cardinality(Back(b, p))]]
             m == CalculateRetentionMatrix(period, since, "session_start", return, "any")
             Came(b, p) == {u \in started : /\ BucketDay(period, First(u)) = b
                                            /\ \E t \in Times(u, return, since) :
                                                 t >= First(u) /\ CalendarPeriod(period, t) = CalendarPeriod(period, First(u)) + p}
  <2>1. m = [b \in D |-> Row(b)]
    <3> DEFINE asked == {u \in LogUsers : Times(u, "session_start", since) # {} /\ ("any" = "any" \/ u \in "any")}
    <3>1. asked = started
      OBVIOUS
    <3>2. m = MatrixOf(asked, [u \in asked |-> First(u)], period, return, since)
      BY Zenon DEF CalculateRetentionMatrix, MatrixOf
    <3>3. m = MatrixOf(started, first, period, return, since)
      BY <3>1, <3>2, Zenon
    <3> HIDE DEF started, first
    <3> QED  BY <3>3, Zenon DEF MatrixOf
  <2> HIDE DEF m
  <2>2. IsFiniteSet(started)
    BY <1>3, StartersAreFew
  <2>3. \A u \in started : First(u) \in Nat
    <3> TAKE u \in started
    <3>1. Times(u, "session_start", since) \subseteq Nat /\ Times(u, "session_start", since) # {}
      BY <1>3, TimesAreInstants
    <3> QED  BY <3>1, LeastIsIn
  <2>4. \A u : Times(u, return, since) \subseteq Nat
    BY <1>3, TimesAreInstants
  <2>5. \A b : In(b) \subseteq started /\ In(b) = Part(started, Bucket, {b})
    BY DEF Part
  <2>6. \A b : IsFiniteSet(In(b)) /\ Cardinality(In(b)) \in Nat
    BY <2>2, <2>5, FS_Subset, FS_CardinalityType
  <2>7. TotalOver(DOMAIN m, m) = Cardinality(started)
    <3>1. DOMAIN m = D /\ \A b \in D : m[b].total = Cardinality(In(b))
      BY <2>1
    <3>2. Bucket \in [started -> D]
      OBVIOUS
    <3>3. IsFiniteSet(D)
      <4>1. Bucket \in Surjection(started, D)
        BY DEF Surjection
      <4> HIDE DEF Bucket, D, started
      <4> QED  BY <2>2, <4>1, FS_Surjection
    <3> HIDE DEF started, Bucket, D, In
    <3>4. HasTotals(D, m)
      BY <2>6, <3>1 DEF HasTotals
    <3>5. PICK g : Sums(g, D, TotalsOf(D, m)) /\ TotalOver(D, m) = g[D]
      BY <3>3, <3>4, MappedSum
    <3>6. TotalsOf(D, m) = PartSizes(D, started, Bucket)
      BY <2>5, <3>1 DEF TotalsOf, PartSizes
    <3>7. Sums(g, D, PartSizes(D, started, Bucket))
      BY <3>5, <3>6
    <3>8. g[D] = Cardinality(started)
      BY <2>2, <3>2, <3>3, <3>7, PartsAddUp
    <3> QED  BY <3>1, <3>5, <3>8
  <2>8. ASSUME NEW b \in DOMAIN m, NEW p \in DOMAIN m[b].activity
        PROVE  m[b].activity[p] <= m[b].total /\ (p > 0 => m[b].activity[p] = Cardinality(Came(b, p)))
    <3>1. m[b] = Row(b) /\ p \in 0..LastPeriod[period] /\ LastPeriod[period] \in Nat
      BY <2>1, CalendarFacts
    <3>2. m[b].total = Cardinality(In(b))
      BY <3>1
    <3>3. m[b].activity[p] = IF p = 0 /\ Cardinality(Back(b, 0)) < Cardinality(In(b))
                             THEN Cardinality(In(b)) ELSE Cardinality(Back(b, p))
      BY <3>1
    <3>4. Cardinality(Back(b, p)) <= Cardinality(In(b)) /\ Cardinality(In(b)) \in Nat
      <4>1. Back(b, p) \subseteq In(b)
        OBVIOUS
      <4> HIDE DEF Back, In
      <4>2. IsFiniteSet(In(b)) /\ Cardinality(In(b)) \in Nat
        BY <2>6 DEF In
      <4> QED  BY <4>1, <4>2, FS_Subset
    <3>5. Back(b, p) = Came(b, p)
      <4>1. ASSUME NEW u \in started, NEW t \in Times(u, return, since)
            PROVE  PeriodIndex(period, First(u), t) = p
                     <=> CalendarPeriod(period, t) = CalendarPeriod(period, First(u)) + p
        <5>1. First(u) \in Nat /\ t \in Nat /\ p \in Nat
          BY <2>3, <2>4, <3>1
        <5> HIDE DEF First
        <5> QED  BY <5>1, PeriodsFollowCalendar
      <4>2. \A u \in started : first[u] = First(u)
        OBVIOUS
      <4> HIDE DEF First, started, first
      <4> QED  BY <4>1, <4>2
    <3> HIDE DEF Back, Came, In
    <3> QED  BY <3>1, <3>2, <3>3, <3>4, <3>5
  <2> HIDE DEF D, Row, Back, Bucket, In, first
  <2> QED  BY <2>7, <2>8, Zenon DEF m, TotalOver
<1>4. QED
  BY <1>1, <1>2, <1>3, PTL DEF AnalyticsSpec
=============================================================================
