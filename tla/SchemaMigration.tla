-------------------------- MODULE SchemaMigration --------------------------
(* The schema at startup (store/migrate.go, main.go).  A replica lists the    *)
(* migrations on record, runs every other file statement by statement outside *)
(* any transaction, and records it.  Any error ends the process, which the    *)
(* container restarts.  Replicas of a new version start at the same time.     *)
EXTENDS Naturals, FiniteSets

CONSTANTS
  Replicas,
  Files,            \* files in order: how many statements each has
  MayFail,          \* <<file, statement>> marked +ignore-errors
  MaxMishaps        \* bound: crashes and failing statements

ASSUME MigrationAssumption ==
  /\ MaxMishaps \in Nat
  /\ IsFiniteSet(DOMAIN Files) /\ Files \in [1..Cardinality(DOMAIN Files) -> Nat]

VARIABLES
  recorded,     \* schema_migrations
  effects,      \* the statements that have taken effect; running one again adds nothing
  replica,      \* replica |-> [at, known, file, next]
  mishaps

migrationVars == <<recorded, effects, replica, mishaps>>

Down == [at |-> "down", known |-> {}, file |-> 0, next |-> 0]
Go(r, to) == replica' = [replica EXCEPT ![r] = to]

MigrationInit ==
  /\ recorded = {} /\ effects = {} /\ mishaps = 0
  /\ replica = [r \in Replicas |-> Down]

\* Mutant of Proceed: every file again, whatever is on record.
ProceedFromFirst(known, after) ==
  IF after = Cardinality(DOMAIN Files) THEN [at |-> "serving", known |-> known, file |-> 0, next |-> 0]
  ELSE [at |-> "running", known |-> known, file |-> after + 1, next |-> 1]

\* The next file that was not on record when this process listed them.
Proceed(known, after) ==
  LET left == {f \in DOMAIN Files : f > after /\ f \notin known} IN
  IF left = {} THEN [at |-> "serving", known |-> known, file |-> 0, next |-> 0]
  ELSE [at |-> "running", known |-> known, file |-> CHOOSE f \in left : \A g \in left : f <= g, next |-> 1]

AppliedMigrations(r) ==
  /\ replica[r] = Down /\ Go(r, Proceed(recorded, 0))
  /\ UNCHANGED <<recorded, effects, mishaps>>

\* A statement that may fail is stepped over when it does.  Assumed, as the
\* comment of applyMigration has it: a statement run again, after or beside
\* another replica, adds nothing.  The backfill of 0011 run by two replicas at
\* once does: each inserts an organisation for the same project.
Execute(r) ==
  LET p == replica[r] IN
  /\ p.at = "running" /\ p.next <= Files[p.file]
  /\ \/ effects' = effects \cup {<<p.file, p.next>>}
     \/ <<p.file, p.next>> \in MayFail /\ UNCHANGED effects
  /\ Go(r, [p EXCEPT !.next = @ + 1])
  /\ UNCHANGED <<recorded, mishaps>>

\* Mutant of Recordable: a file goes on record when it is begun.
RecordableEarly(p) == p.at = "running" /\ p.next >= Files[p.file]

Recordable(p) == p.at = "running" /\ p.next > Files[p.file]

\* The row's key is the version: it fails when another replica was first.
RecordMigration(r) ==
  LET p == replica[r] IN
  /\ Recordable(p)
  /\ IF p.file \in recorded THEN Go(r, Down) /\ UNCHANGED recorded
     ELSE Go(r, Proceed(p.known, p.file)) /\ recorded' = recorded \cup {p.file}
  /\ UNCHANGED <<effects, mishaps>>

\* A crash, or a statement that fails: two replicas that create one object at
\* the same time may make one of them fail.
Exit(r) ==
  /\ replica[r].at # "down" /\ mishaps < MaxMishaps
  /\ mishaps' = mishaps + 1 /\ Go(r, Down)
  /\ UNCHANGED <<recorded, effects>>

MigrateStep(r) == AppliedMigrations(r) \/ Execute(r) \/ RecordMigration(r)
MigrationNext == \E r \in Replicas : MigrateStep(r) \/ Exit(r)

---------------------------------------------------------------------------
\* A process that serves has the whole schema under it, whoever applied it and
\* however often that was interrupted; and no statement has run before one of
\* an earlier file that it may rest on.
Required == (UNION {{f} \X (1..Files[f]) : f \in DOMAIN Files}) \ MayFail

ServesWholeSchema ==
  /\ \A r \in Replicas : replica[r].at = "serving" => Required \subseteq effects
  /\ \A e \in effects : {q \in Required : q[1] < e[1]} \subseteq effects

\* Replicas that start together all come up in the end: who loses the race for
\* a record is restarted and goes on from there.
AllServe == <>[](\A r \in Replicas : replica[r].at = "serving")
=============================================================================
