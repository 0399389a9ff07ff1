--------------------------- MODULE ServiceProofs ---------------------------
(***************************************************************************)
(* Theorems about Service: the move of the frames, the schema at startup,  *)
(* the ingest quota, which surveys are due and what their results add up   *)
(* to.  They hold for any number of frames, files, replicas, projects,     *)
(* senders, devices, people and answers, for every quota and every         *)
(* horizon, and whatever is interrupted.                                   *)
(***************************************************************************)
EXTENDS Service, WellFoundedInduction, FiniteSetTheorems, TLAPS

(* A set of numbers that is not empty has a least one.                     *)
LEMMA LeastExists ==
    ASSUME NEW S, S \subseteq Nat, S # {}
    PROVE  \E x \in S : \A y \in S : x <= y
  <1>1. \E x \in S : \A y \in S : ~ (<<y, x>> \in OpToRel(<, Nat))
    BY NatLessThanWellFounded, WFMin
  <1>2. PICK x \in S : \A y \in S : ~ (<<y, x>> \in OpToRel(<, Nat))
    BY <1>1
  <1>3. \A y \in S : ~(y < x)
    <2>1. \A y \in S : y \in Nat
      OBVIOUS
    <2>2. QED
      BY <1>2, <2>1, Zenon DEF OpToRel
  <1>4. QED
    BY <1>3

-----------------------------------------------------------------------------
(* The move of the frames.                                                 *)

MoveStages == {"idle", "walk", "read", "put", "write", "verify", "done", "failed"}

MoveType ==
  /\ intoFiles \in BOOLEAN
  /\ source \in [Keys -> Nat] /\ dest \in [Keys -> Nat]
  /\ mover \in [at : MoveStages, key : Nat, size : Nat]
  /\ untouched \subseteq Keys /\ stops \in Nat
  /\ mover.at \in {"read", "put", "write", "verify"} => mover.key \in Keys

Moved(k) == source[k] # Absent => dest[k] = source[k]

\* What the walk has left behind.
Passed(k) ==
  \/ mover.at = "done"
  \/ mover.at = "walk" /\ k <= mover.key
  \/ mover.at \in {"read", "put", "write", "verify"} /\ k < mover.key

\* The inductive invariant: every key that was left alone is moved once the
\* walk has passed it, and what is in hand is what the source still holds.
MoveInv ==
  /\ MoveType
  /\ \A k \in untouched : Passed(k) => Moved(k)
  /\ mover.at \in {"put", "write", "verify"} /\ mover.key \in untouched
        => source[mover.key] = mover.size

LEMMA KeysAreNumbers == Keys \subseteq Nat /\ Length \in [Keys -> Nat] /\ Absent \in Nat
  <1>1. Cardinality(Keys) \in Nat
    BY MoveAssumption, FS_CardinalityType
  <1> DEFINE n == Cardinality(Keys)
  <1>2. Keys = 1..n /\ n \in Nat /\ Length \in [Keys -> 1..(Absent - 1)]
    BY <1>1, MoveAssumption
  <1> HIDE DEF n
  <1>3. Keys \subseteq Nat
    BY <1>2
  <1>4. Length \in [Keys -> Nat]
    <2>1. 1..(Absent - 1) \subseteq Nat
      BY DEF Absent
    <2>2. Length \in [Keys -> 1..(Absent - 1)]
      BY <1>2
    <2>3. QED
      BY <2>1, <2>2
  <1>5. QED
    BY <1>3, <1>4 DEF Absent

LEMMA WritableType == ASSUME NEW files, NEW k \in Keys PROVE Writable(files, k) \subseteq Nat
  BY KeysAreNumbers DEF Writable

LEMMA MoveInitInv == MoveInit => MoveInv
  BY KeysAreNumbers DEF MoveInit, MoveInv, MoveType, MoveStages, Passed, Moved

(* The server beside the tool touches what it changes.                     *)
LEMMA ServerStepInv ==
    ASSUME MoveInv, NEW k \in Keys, ServerPut(k) \/ ServerDelete(k)
    PROVE  MoveInv'
  <1>1. PICK n \in Nat : source' = [source EXCEPT ![k] = n]
    <2>1. CASE ServerPut(k)
      BY <2>1, WritableType DEF ServerPut
    <2>2. CASE ServerDelete(k)
      BY <2>2, KeysAreNumbers DEF ServerDelete
    <2>3. QED
      BY <2>1, <2>2
  <1>2. untouched' = untouched \ {k} /\ UNCHANGED <<intoFiles, dest, mover, stops>>
    BY DEF ServerPut, ServerDelete
  <1>3. \A j \in untouched' : j \in untouched /\ source'[j] = source[j]
    BY <1>1, <1>2 DEF MoveInv, MoveType
  <1>4. MoveType'
    BY <1>1, <1>2 DEF MoveInv, MoveType
  <1>5. (\A j \in untouched : Passed(j) => Moved(j))'
    BY <1>2, <1>3 DEF MoveInv, Passed, Moved
  <1>6. QED
    BY <1>2, <1>3, <1>4, <1>5 DEF MoveInv

(* From one object to the next nothing is left behind: what lies between   *)
(* them is absent, and what is passed over has its length.                 *)
LEMMA VisitInv == ASSUME MoveInv, Visit \/ VisitSwept PROVE MoveInv'
  <1> DEFINE listed == Ahead \cap untouched
  <1>1. mover.at = "walk" /\ UNCHANGED <<intoFiles, source, dest, untouched, stops>>
    BY DEF Visit, VisitSwept
  <1>2. untouched \subseteq Keys /\ Keys \subseteq Nat /\ mover.key \in Nat
    BY KeysAreNumbers DEF MoveInv, MoveType
  <1>3. \A k \in untouched : k <= mover.key => Moved(k)
    BY <1>1 DEF MoveInv, Passed
  <1>4. \A k \in untouched \ listed : Moved(k)
    <2> SUFFICES ASSUME NEW k \in untouched, k \notin listed PROVE Moved(k)
      OBVIOUS
    <2>1. k \in Keys /\ k \in Nat
      BY <1>2
    <2>2. k <= mover.key \/ source[k] = Absent
      BY <1>2, <2>1 DEF Ahead
    <2>3. QED
      BY <1>3, <2>2 DEF Moved
  <1>5. CASE listed = {} /\ mover' = [mover EXCEPT !.at = "done"]
    <2>2. mover'.at = "done" /\ mover' \in [at : MoveStages, key : Nat, size : Nat]
      BY <1>5 DEF MoveInv, MoveType, MoveStages
    <2>3. MoveType'
      BY <1>1, <2>2 DEF MoveInv, MoveType
    <2>4. \A k \in untouched : Moved(k)
      BY <1>4, <1>5
    <2>5. QED
      BY <1>1, <2>2, <2>3, <2>4 DEF MoveInv, Moved
  <1>6. ASSUME NEW j \in Keys, \A i \in listed : j <= i, NEW at \in {"walk", "read", "failed"},
               mover' = [at |-> at, key |-> j, size |-> 0],
               at = "walk" /\ j \in untouched => Moved(j)
        PROVE  MoveInv'
    <2>1. MoveType'
      BY <1>1, <1>2, <1>6 DEF MoveInv, MoveType, MoveStages
    <2>2. \A k \in untouched : k < j => Moved(k)
      BY <1>2, <1>4, <1>6
    <2>3. (\A k \in untouched : Passed(k) => Moved(k))'
      <3>1. \A k \in untouched : Passed(k)' => k < j \/ (k = j /\ at = "walk")
        BY <1>2, <1>6 DEF Passed
      <3>2. \A k \in untouched : Passed(k)' => Moved(k)
        BY <1>6, <2>2, <3>1
      <3>3. QED
        BY <1>1, <3>2 DEF Moved
    <2>4. QED
      BY <1>6, <2>1, <2>3 DEF MoveInv
  <1>7. CASE Visit
    <2>1. CASE \E k \in Ahead :
                 /\ \A i \in listed : k <= i
                 /\ mover' = [at |-> IF Skips(k) THEN "walk" ELSE "read", key |-> k, size |-> 0]
      <3>1. PICK j \in Ahead : /\ \A i \in listed : j <= i
                               /\ mover' = [at |-> IF Skips(j) THEN "walk" ELSE "read", key |-> j, size |-> 0]
        BY <2>1
      <3>2. j \in Keys
        BY DEF Ahead
      <3>3. Skips(j) => Moved(j)
        BY DEF Skips, Moved
      <3> DEFINE at == IF Skips(j) THEN "walk" ELSE "read"
      <3>4. at \in {"walk", "read", "failed"} /\ (at = "walk" => Moved(j)) /\ mover' = [at |-> at, key |-> j, size |-> 0]
        BY <3>1, <3>3
      <3> HIDE DEF at
      <3>5. QED
        BY <1>6, <3>1, <3>2, <3>4
    <2>2. QED
      BY <1>5, <1>7, <2>1 DEF Visit
  <1>8. CASE VisitSwept
    <2>1. PICK j \in Keys \ (untouched \cup Ahead) :
            /\ \A i \in listed : j <= i
            /\ mover' = [at |-> IF intoFiles /\ dest[j] = Length[j] THEN "walk" ELSE "failed", key |-> j, size |-> 0]
      BY <1>8 DEF VisitSwept
    <2> DEFINE at == IF intoFiles /\ dest[j] = Length[j] THEN "walk" ELSE "failed"
    <2>2. at \in {"walk", "read", "failed"} /\ mover' = [at |-> at, key |-> j, size |-> 0]
      BY <2>1
    <2> HIDE DEF at
    <2>3. QED
      BY <1>6, <2>1, <2>2
  <1>9. QED
    BY <1>7, <1>8

(* A copy takes four steps; the key in hand is passed by the last of them. *)
LEMMA CopyInv ==
    ASSUME MoveInv, ReadSource \/ Truncate \/ WriteDest \/ Verify
    PROVE  MoveInv'
  <1>1. mover.key \in Keys /\ mover.key \in Nat /\ mover \in [at : MoveStages, key : Nat, size : Nat]
    BY KeysAreNumbers DEF MoveInv, MoveType, ReadSource, Truncate, WriteDest, Verify
  <1>2. UNCHANGED <<intoFiles, source, untouched, stops>>
    BY DEF ReadSource, Truncate, WriteDest, Verify
  <1>3. untouched \subseteq Keys /\ Keys \subseteq Nat
    BY KeysAreNumbers DEF MoveInv, MoveType
  <1>4. \A k \in untouched : k < mover.key => Moved(k)
    BY DEF MoveInv, Passed, ReadSource, Truncate, WriteDest, Verify
  <1>5. CASE ReadSource
    <2>1. mover' = IF source[mover.key] = Absent THEN [mover EXCEPT !.at = "failed"]
                   ELSE [mover EXCEPT !.at = "put", !.size = source[mover.key]]
      BY <1>5 DEF ReadSource
    <2>2. MoveType'
      BY <1>1, <1>2, <1>5, <2>1 DEF MoveInv, MoveType, MoveStages, ReadSource
    <2>3. QED
      BY <1>1, <1>2, <1>3, <1>4, <1>5, <2>1, <2>2 DEF MoveInv, MoveType, Passed, Moved, ReadSource
  <1>6. CASE Truncate
    <2>1. /\ dest' = [dest EXCEPT ![mover.key] = 0]
          /\ mover' = [mover EXCEPT !.at = "write"] /\ mover.at = "put"
      BY <1>6 DEF Truncate
    <2>2. MoveType'
      BY <1>1, <1>2, <2>1 DEF MoveInv, MoveType, MoveStages
    <2>3. QED
      BY <1>1, <1>2, <1>3, <1>4, <2>1, <2>2 DEF MoveInv, MoveType, Passed, Moved
  <1>7. CASE WriteDest
    <2>1. /\ dest' = [dest EXCEPT ![mover.key] = mover.size]
          /\ mover' = [mover EXCEPT !.at = "verify"] /\ mover.at \in {"put", "write"}
      BY <1>7 DEF WriteDest
    <2>2. MoveType'
      BY <1>1, <1>2, <2>1 DEF MoveInv, MoveType, MoveStages
    <2>3. QED
      BY <1>1, <1>2, <1>3, <1>4, <2>1, <2>2 DEF MoveInv, MoveType, Passed, Moved
  <1>8. CASE Verify
    <2>1. /\ mover' = [mover EXCEPT !.at = IF dest[mover.key] = mover.size THEN "walk" ELSE "failed"]
          /\ mover.at = "verify" /\ dest' = dest
      BY <1>8 DEF Verify
    <2>2. MoveType'
      BY <1>1, <1>2, <2>1 DEF MoveInv, MoveType, MoveStages
    <2>3. QED
      BY <1>1, <1>2, <1>3, <1>4, <2>1, <2>2 DEF MoveInv, MoveType, Passed, Moved
  <1>9. QED
    BY <1>5, <1>6, <1>7, <1>8

LEMMA BeginStopInv == ASSUME MoveInv, Begin \/ Stop PROVE MoveInv'
  <1>1. CASE Begin
    <2>1. /\ mover' = [at |-> "walk", key |-> 0, size |-> 0] /\ untouched' = Keys
          /\ UNCHANGED <<intoFiles, source, dest, stops>>
      BY <1>1 DEF Begin
    <2>2. \A k \in Keys : ~(k <= 0)
      BY MoveAssumption, FS_CardinalityType
    <2>3. QED
      BY <2>1, <2>2 DEF MoveInv, MoveType, MoveStages, Passed
  <1>2. CASE Stop
    <2>1. /\ mover' = [mover EXCEPT !.at = "failed"] /\ stops' = stops + 1
          /\ UNCHANGED <<intoFiles, source, dest, untouched>>
      BY <1>2 DEF Stop
    <2>2. QED
      BY <2>1 DEF MoveInv, MoveType, MoveStages, Passed
  <1>3. QED
    BY <1>1, <1>2

LEMMA MoveNextInv == MoveInv /\ [MoveNext]_moveVars => MoveInv'
  <1>1. ASSUME MoveInv, UNCHANGED moveVars PROVE MoveInv'
    BY <1>1 DEF MoveInv, MoveType, Passed, Moved, moveVars
  <1>2. QED
    BY <1>1, ServerStepInv, VisitInv, CopyInv, BeginStopInv DEF MoveNext

(* A run of migrate-frames that says it is complete has moved every object *)
(* that lay still while it ran, whole, whatever earlier runs that were cut *)
(* short had left and whatever the server did meanwhile.                   *)
THEOREM MoveCompletes == ServiceSpec => []MoveIsComplete
  <1>1. ServiceInit => MoveInv
    BY MoveInitInv DEF ServiceInit
  <1>2. MoveInv /\ [ServiceNext]_serviceVars => MoveInv'
    <2>1. [ServiceNext]_serviceVars => [MoveNext]_moveVars
      BY DEF ServiceNext, serviceVars, Surveys, Answers, Quota, Schema, Frames
    <2>2. QED
      BY <2>1, MoveNextInv
  <1>3. MoveInv => MoveIsComplete
    BY DEF MoveInv, MoveIsComplete, Passed, Moved
  <1>4. QED
    BY <1>1, <1>2, <1>3, PTL DEF ServiceSpec

-----------------------------------------------------------------------------
(* The schema at startup.                                                  *)

Versions == DOMAIN Files

ReplicaState == [at : {"down", "running", "serving"}, known : SUBSET Versions, file : Nat, next : Nat]

MigrationType ==
  /\ recorded \subseteq Versions
  /\ effects \subseteq UNION {{f} \X (1..Files[f]) : f \in Versions}
  /\ replica \in [Replicas -> ReplicaState]
  /\ mishaps \in Nat

\* Every statement of a file that may not fail has taken effect.
Applied(f, eff) == \A q \in Required : q[1] = f => q \in eff

\* What a process may rely on: the files it listed are applied; those before
\* the one it is at too, and of that one what it has stepped over.
RestsOn(p, rec, eff) ==
  /\ p.known \subseteq rec
  /\ p.at = "running" =>
       /\ p.file \in Versions /\ p.next \in 1..(Files[p.file] + 1)
       /\ \A f \in Versions : f < p.file => Applied(f, eff)
       /\ \A q \in Required : q[1] = p.file /\ q[2] < p.next => q \in eff
  /\ p.at = "serving" => \A f \in Versions : Applied(f, eff)

\* The inductive invariant: a record is worth what it says, so that a process
\* may skip what others recorded, whoever else is running the same file.
MigrationInv ==
  /\ MigrationType
  /\ \A f \in recorded : Applied(f, effects)
  /\ \A r \in Replicas : RestsOn(replica[r], recorded, effects)
  /\ \A e \in effects : \A f \in Versions : f < e[1] => Applied(f, effects)

LEMMA VersionsAreNumbers ==
    /\ Versions \subseteq Nat \ {0} /\ Files \in [Versions -> Nat]
    /\ \A q \in Required : q[1] \in Versions /\ q[2] \in 1..Files[q[1]] /\ q = <<q[1], q[2]>>
  <1> DEFINE n == Cardinality(Versions)
  <1>1. n \in Nat /\ Files \in [1..n -> Nat]
    BY MigrationAssumption, FS_CardinalityType DEF Versions
  <1> HIDE DEF n
  <1>2. Versions = 1..n
    BY <1>1 DEF Versions
  <1>3. QED
    BY <1>1, <1>2 DEF Required, Versions

(* Where a process goes that has listed the files on record, and has       *)
(* applied those up to `after` that were not.                              *)
LEMMA ProceedRests ==
    ASSUME NEW known \in SUBSET Versions, NEW after \in Nat, known \subseteq recorded,
           \A f \in known : Applied(f, effects), \A f \in Versions : f <= after => Applied(f, effects)
    PROVE  Proceed(known, after) \in ReplicaState /\ RestsOn(Proceed(known, after), recorded, effects)
  <1> DEFINE left == {f \in DOMAIN Files : f > after /\ f \notin known}
             g == CHOOSE f \in left : \A h \in left : f <= h
  <1>1. Proceed(known, after) =
          IF left = {} THEN [at |-> "serving", known |-> known, file |-> 0, next |-> 0]
          ELSE [at |-> "running", known |-> known, file |-> g, next |-> 1]
    BY DEF Proceed
  <1>2. left \subseteq Versions /\ left \subseteq Nat
    BY VersionsAreNumbers DEF Versions
  <1>3. \A f \in Versions : f \notin left => Applied(f, effects)
    BY VersionsAreNumbers DEF Versions
  <1>4. CASE left = {}
    <2>1. Proceed(known, after) = [at |-> "serving", known |-> known, file |-> 0, next |-> 0]
      BY <1>1, <1>4
    <2>2. \A f \in Versions : Applied(f, effects)
      BY <1>3, <1>4
    <2> HIDE DEF left, g
    <2>3. QED
      BY <2>1, <2>2 DEF ReplicaState, RestsOn
  <1>5. CASE left # {}
    <2>1. g \in left /\ \A h \in left : g <= h
      <3>1. \E x \in left : \A h \in left : x <= h
        BY <1>2, <1>5, LeastExists
      <3>2. QED
        BY <3>1
    <2>2. Proceed(known, after) = [at |-> "running", known |-> known, file |-> g, next |-> 1]
      BY <1>1, <1>5
    <2> HIDE DEF left, g
    <2>3. g \in Versions /\ g \in Nat /\ 1 \in 1..(Files[g] + 1)
      BY <1>2, <2>1, VersionsAreNumbers
    <2>4. \A f \in Versions : f < g => Applied(f, effects)
      BY <1>2, <1>3, <2>1, VersionsAreNumbers
    <2>5. \A q \in Required : ~(q[2] < 1)
      BY VersionsAreNumbers
    <2>6. QED
      BY <2>2, <2>3, <2>4, <2>5 DEF ReplicaState, RestsOn
  <1>6. QED
    BY <1>4, <1>5

LEMMA MigrationInitInv == MigrationInit => MigrationInv
  BY DEF MigrationInit, MigrationInv, MigrationType, Down, ReplicaState, RestsOn, Versions

(* Each step moves one process to a state that it may be in.               *)
LEMMA GoInv ==
    ASSUME MigrationInv, NEW r \in Replicas, NEW to \in ReplicaState, Go(r, to), RestsOn(to, recorded', effects'),
           recorded \subseteq recorded', effects \subseteq effects'
    PROVE  replica' \in [Replicas -> ReplicaState] /\ \A x \in Replicas : RestsOn(replica'[x], recorded', effects')
  <1>1. replica \in [Replicas -> ReplicaState] /\ \A x \in Replicas : RestsOn(replica[x], recorded, effects)
    BY DEF MigrationInv, MigrationType
  <1>2. replica' = [replica EXCEPT ![r] = to]
    BY DEF Go
  <1>3. replica' \in [Replicas -> ReplicaState]
    BY <1>1, <1>2
  <1>4. ASSUME NEW x \in Replicas PROVE RestsOn(replica'[x], recorded', effects')
    <2>1. CASE x = r
      <3>1. replica'[x] = to
        BY <1>1, <1>2, <2>1
      <3>2. QED
        BY <3>1 DEF RestsOn, Applied
    <2>2. CASE x # r
      <3>1. replica'[x] = replica[x]
        BY <1>1, <1>2, <2>2
      <3>2. QED
        BY <1>1, <3>1 DEF RestsOn, Applied
    <2>3. QED
      BY <2>1, <2>2
  <1>5. QED
    BY <1>3, <1>4

LEMMA DownRests == Down \in ReplicaState /\ RestsOn(Down, recorded, effects)
  BY DEF Down, ReplicaState, RestsOn

LEMMA AppliedMigrationsInv ==
    ASSUME MigrationInv, NEW r \in Replicas, AppliedMigrations(r) PROVE MigrationInv'
  <1>1. Go(r, Proceed(recorded, 0)) /\ UNCHANGED <<recorded, effects, mishaps>>
    BY DEF AppliedMigrations
  <1>2. \A f \in Versions : ~(f <= 0)
    BY VersionsAreNumbers
  <1>3. Proceed(recorded, 0) \in ReplicaState /\ RestsOn(Proceed(recorded, 0), recorded, effects)
    BY <1>2, ProceedRests DEF MigrationInv, MigrationType
  <1>4. RestsOn(Proceed(recorded, 0), recorded', effects')
    BY <1>1, <1>3 DEF RestsOn, Applied, Proceed
  <1>5. QED
    BY <1>1, <1>3, <1>4, GoInv DEF MigrationInv, MigrationType, Applied

(* A statement runs over what the files before it have made.               *)
LEMMA ExecuteInv ==
    ASSUME MigrationInv, NEW r \in Replicas, Execute(r) PROVE MigrationInv'
  <1> DEFINE p == replica[r]
             s == <<p.file, p.next>>
             to == [p EXCEPT !.next = @ + 1]
  <1>1. /\ p.at = "running" /\ p.next <= Files[p.file]
        /\ effects' = effects \cup {s} \/ (s \in MayFail /\ effects' = effects)
        /\ Go(r, to) /\ recorded' = recorded /\ mishaps' = mishaps
    BY DEF Execute
  <1>2. p \in ReplicaState /\ RestsOn(p, recorded, effects)
    BY DEF MigrationInv, MigrationType
  <1>3. /\ p.file \in Versions /\ p.next \in 1..Files[p.file] /\ Files[p.file] \in Nat
        /\ \A f \in Versions : f < p.file => Applied(f, effects)
        /\ \A q \in Required : q[1] = p.file /\ q[2] < p.next => q \in effects
    BY <1>1, <1>2, VersionsAreNumbers DEF RestsOn
  <1>4. /\ to \in ReplicaState /\ to.at = "running" /\ to.known = p.known
        /\ to.file = p.file /\ to.next = p.next + 1
    BY <1>1, <1>2, <1>3 DEF ReplicaState
  <1>5. s \in Required => s \in effects'
    <2>1. s \in Required => s \notin MayFail
      BY DEF Required
    <2>2. QED
      BY <1>1, <2>1
  <1> HIDE DEF p, to
  <1>6. \A q \in Required : q[1] = to.file /\ q[2] < to.next => q \in effects'
    <2> SUFFICES ASSUME NEW q \in Required, q[1] = p.file, q[2] < p.next + 1 PROVE q \in effects'
      BY <1>4
    <2>1. q[2] \in Nat /\ p.next \in Nat /\ q = <<q[1], q[2]>>
      BY <1>3, VersionsAreNumbers
    <2>2. q[2] < p.next \/ q = s
      BY <2>1
    <2>3. QED
      BY <1>1, <1>3, <1>5, <2>2
  <1>7. \A f \in Versions : Applied(f, effects) => Applied(f, effects')
    BY <1>1 DEF Applied
  <1>8. RestsOn(to, recorded', effects')
    <2>1. to.known \subseteq recorded' /\ \A f \in Versions : f < to.file => Applied(f, effects')
      BY <1>1, <1>2, <1>3, <1>4, <1>7 DEF RestsOn
    <2>2. to.next \in 1..(Files[to.file] + 1)
      BY <1>3, <1>4
    <2>3. QED
      BY <1>3, <1>4, <1>6, <2>1, <2>2 DEF RestsOn, Applied
  <1>9. effects' \subseteq UNION {{f} \X (1..Files[f]) : f \in Versions}
    BY <1>1, <1>3 DEF MigrationInv, MigrationType
  <1>10. \A e \in effects' : \A f \in Versions : f < e[1] => Applied(f, effects')
    BY <1>1, <1>3, <1>7 DEF MigrationInv
  <1>11. recorded \subseteq recorded' /\ effects \subseteq effects'
    BY <1>1
  <1>12. replica' \in [Replicas -> ReplicaState] /\ \A x \in Replicas : RestsOn(replica'[x], recorded', effects')
    BY <1>1, <1>4, <1>8, <1>11, GoInv
  <1>13. \A f \in recorded' : Applied(f, effects')
    BY <1>1, <1>7 DEF MigrationInv, MigrationType
  <1>14. QED
    BY <1>1, <1>9, <1>10, <1>12, <1>13 DEF MigrationInv, MigrationType

(* A file goes on record when all its statements are behind.               *)
LEMMA RecordMigrationInv ==
    ASSUME MigrationInv, NEW r \in Replicas, RecordMigration(r) PROVE MigrationInv'
  <1> DEFINE p == replica[r]
             to == IF p.file \in recorded THEN Down ELSE Proceed(p.known, p.file)
  <1>1. /\ p.at = "running" /\ p.next > Files[p.file]
        /\ Go(r, to) /\ effects' = effects /\ mishaps' = mishaps
        /\ recorded' = recorded \cup {p.file}
    BY DEF RecordMigration, Recordable
  <1>2. p \in ReplicaState /\ RestsOn(p, recorded, effects)
    BY DEF MigrationInv, MigrationType
  <1>3. /\ p.file \in Versions /\ p.file \in Nat /\ p.known \in SUBSET Versions /\ p.known \subseteq recorded
        /\ \A f \in Versions : f < p.file => Applied(f, effects)
    BY <1>1, <1>2, VersionsAreNumbers DEF RestsOn, ReplicaState
  <1>4. Applied(p.file, effects)
    <2>1. \A q \in Required : q[1] = p.file => q[2] < p.next
      BY <1>1, <1>2, <1>3, VersionsAreNumbers DEF ReplicaState
    <2>2. QED
      BY <1>1, <1>2, <2>1 DEF RestsOn, Applied
  <1>5. \A f \in Versions : f <= p.file => Applied(f, effects)
    BY <1>3, <1>4, VersionsAreNumbers
  <1>6. to \in ReplicaState /\ RestsOn(to, recorded, effects)
    BY <1>3, <1>5, DownRests, ProceedRests DEF MigrationInv
  <1> HIDE DEF p, to
  <1>7. RestsOn(to, recorded', effects')
    BY <1>1, <1>6 DEF RestsOn, Applied
  <1>8. recorded \subseteq recorded' /\ effects \subseteq effects'
    BY <1>1
  <1>9. replica' \in [Replicas -> ReplicaState] /\ \A x \in Replicas : RestsOn(replica'[x], recorded', effects')
    BY <1>1, <1>6, <1>7, <1>8, GoInv
  <1>10. QED
    BY <1>1, <1>3, <1>4, <1>9 DEF MigrationInv, MigrationType, Applied

LEMMA ExitInv == ASSUME MigrationInv, NEW r \in Replicas, Exit(r) PROVE MigrationInv'
  <1>1. Go(r, Down) /\ mishaps' = mishaps + 1 /\ UNCHANGED <<recorded, effects>>
    BY DEF Exit
  <1>2. RestsOn(Down, recorded', effects')
    BY DEF RestsOn, Down
  <1>3. QED
    BY <1>1, <1>2, DownRests, GoInv DEF MigrationInv, MigrationType, Applied

LEMMA MigrationNextInv == MigrationInv /\ [MigrationNext]_migrationVars => MigrationInv'
  <1>1. ASSUME MigrationInv, UNCHANGED migrationVars PROVE MigrationInv'
    BY <1>1 DEF MigrationInv, MigrationType, RestsOn, Applied, migrationVars
  <1>2. QED
    BY <1>1, AppliedMigrationsInv, ExecuteInv, RecordMigrationInv, ExitInv DEF MigrationNext, MigrateStep

(* A process that serves has the whole schema under it, and no statement   *)
(* ran before one of an earlier file, for any number of replicas that      *)
(* start together and whatever crashes or fails.                           *)
THEOREM SchemaIsWhole == ServiceSpec => []ServesWholeSchema
  <1>1. ServiceInit => MigrationInv
    BY MigrationInitInv DEF ServiceInit
  <1>2. MigrationInv /\ [ServiceNext]_serviceVars => MigrationInv'
    <2>1. [ServiceNext]_serviceVars => [MigrationNext]_migrationVars
      BY DEF ServiceNext, serviceVars, Surveys, Answers, Quota, Schema, Frames
    <2>2. QED
      BY <2>1, MigrationNextInv
  <1>3. MigrationInv => ServesWholeSchema
    <2> SUFFICES ASSUME MigrationInv PROVE ServesWholeSchema
      OBVIOUS
    <2>1. \A r \in Replicas : replica[r].at = "serving" => Required \subseteq effects
      BY VersionsAreNumbers DEF MigrationInv, RestsOn, Applied
    <2>2. \A e \in effects : {q \in Required : q[1] < e[1]} \subseteq effects
      BY VersionsAreNumbers DEF MigrationInv, Applied
    <2>3. QED
      BY <2>1, <2>2 DEF ServesWholeSchema
  <1>4. QED
    BY <1>1, <1>2, <1>3, PTL DEF ServiceSpec

-----------------------------------------------------------------------------
(* The ingest quota.                                                       *)

LEMMA MinOfTwo == ASSUME NEW a \in Int, NEW b \in Int PROVE Min({a, b}) = IF a <= b THEN a ELSE b
  BY DEF Min

LEMMA MaxOfTwo == ASSUME NEW a \in Int, NEW b \in Int PROVE Max({a, b}) = IF a >= b THEN a ELSE b
  BY DEF Max

(* Multiplication, as far as the budget needs it.                          *)
LEMMA ProductIsNat == ASSUME NEW a \in Nat, NEW b \in Nat PROVE a * b \in Nat /\ (a > 0 /\ b > 0 => a * b > 0)
  OBVIOUS

LEMMA ProductGrows ==
    ASSUME NEW a \in Nat, NEW b \in Nat, NEW c \in Nat, a <= b PROVE a * c <= b * c /\ c * a <= c * b
  OBVIOUS

LEMMA ProductSplits ==
    ASSUME NEW a \in Int, NEW b \in Int, NEW c \in Int
    PROVE  (a + b) * c = a * c + b * c /\ c * (a + b) = c * a + c * b
  OBVIOUS

LEMMA DividedUp ==
    ASSUME NEW m \in Nat \ {0}, NEW c \in Nat \ {0}
    PROVE  (m + c - 1) \div c \in Nat /\ ((m + c - 1) \div c) * c >= m
  OBVIOUS

(* A finite set of numbers that is not empty has a greatest one.           *)
LEMMA GreatestExists ==
    ASSUME NEW S, S \subseteq Nat, IsFiniteSet(S), S # {}
    PROVE  \E x \in S : \A y \in S : y <= x
  <1> DEFINE HasGreatest(A) == \E x \in A : \A y \in A : y <= x
             Bad(A) == A \subseteq Nat /\ IsFiniteSet(A) /\ A # {} /\ ~HasGreatest(A)
             sizes == {n \in Nat : \E A : Bad(A) /\ Cardinality(A) = n}
  <1>1. SUFFICES ASSUME ~HasGreatest(S) PROVE FALSE
    OBVIOUS
  <1>2. Cardinality(S) \in sizes
    BY <1>1, FS_CardinalityType
  <1>3. PICK n \in sizes : \A m \in sizes : n <= m
    BY <1>2, LeastExists
  <1>4. PICK A : Bad(A) /\ Cardinality(A) = n
    BY <1>3
  <1>5. PICK a \in A : a \in Nat
    BY <1>4
  <1> DEFINE B == A \ {a}
  <1>6. IsFiniteSet(B) /\ Cardinality(B) = n - 1 /\ n \in Nat /\ B \subseteq Nat
    BY <1>4, <1>5, FS_RemoveElement, FS_CardinalityType
  <1>7. B # {}
    <2>1. B = {} => \A y \in A : y <= a
      BY <1>5
    <2>2. QED
      BY <1>4, <1>5, <2>1
  <1>8. HasGreatest(B)
    <2>1. Cardinality(B) \in Nat
      BY <1>6, FS_CardinalityType
    <2>2. Cardinality(B) \notin sizes
      BY <1>3, <1>6, <2>1
    <2>3. QED
      BY <1>6, <1>7, <2>1, <2>2
  <1>9. PICK b \in B : \A y \in B : y <= b
    BY <1>8
  <1>10. CASE a <= b
    <2>1. \A y \in A : y <= b
      BY <1>9, <1>10
    <2>2. QED
      BY <1>4, <1>9, <2>1
  <1>11. CASE ~(a <= b)
    <2>1. b \in Nat /\ \A y \in A : y \in Nat
      BY <1>4, <1>9
    <2>2. \A y \in A : y <= a
      BY <1>5, <1>9, <1>11, <2>1
    <2>3. QED
      BY <1>4, <1>5, <2>2
  <1>12. QED
    BY <1>10, <1>11

Most == Max(Quotas \cup {DefaultLimit})
Limits == Quotas \cup {DefaultLimit}

LEMMA MostIsMost == Most \in Nat /\ Limits \subseteq Nat /\ \A l \in Limits : l <= Most
  <1>1. Limits \subseteq Nat /\ Limits # {} /\ IsFiniteSet(Limits)
    BY LimiterAssumption, FS_AddElement DEF Limits
  <1>2. \E x \in Limits : \A y \in Limits : x >= y
    <2>1. PICK x \in Limits : \A y \in Limits : y <= x
      BY <1>1, GreatestExists
    <2>2. \A y \in Limits : x >= y
      BY <1>1, <2>1
    <2>3. QED
      BY <2>2
  <1>3. Most \in Limits /\ \A y \in Limits : Most >= y
    BY <1>2 DEF Most, Limits, Max
  <1>4. QED
    BY <1>1, <1>3

LEMMA UnitIsNat == Unit \in Nat /\ Unit > 0
  BY LimiterAssumption, ProductIsNat DEF Unit

Bucket == [tokens : Nat, lastUpdate : Nat]
Request == [project : Projects, items : Nat \ {0}, limit : Limits]
Wait == [project : Projects, items : Nat \ {0}, limit : Limits, until : Nat]

LimiterType ==
  /\ now \in 0..Horizon
  /\ quota \in [Projects -> Quotas \cup {0}]
  /\ buckets \in [Projects -> Bucket \cup {NoBucket}]
  /\ requests \in [Senders -> Request \cup {NoRequest}]
  /\ waits \in [Senders -> Wait \cup {NoRequest}]
  /\ admitted \in [Projects -> [0..(Horizon + 1) -> Nat]]
  /\ \A p \in Projects : buckets[p] # NoBucket => buckets[p].lastUpdate <= now

\* What a project has been let through since an instant, and what its bucket
\* still holds, together are no more than the most that could have come in.
BucketKept(p) ==
  LET b == buckets[p] IN
  /\ \A t \in 0..(Horizon + 1) : t > b.lastUpdate => admitted[p][t] = 0
  /\ b # NoBucket => \A from \in 0..b.lastUpdate :
       admitted[p][from] * Unit + b.tokens <= Most * (Unit + (b.lastUpdate - from))

WindowsKept(p) ==
  \A from, to \in 0..now : from <= to =>
    (admitted[p][from] - admitted[p][to + 1]) * Unit <= Most * (Unit + (to - from))

\* By the instant a sender was told, the bucket holds what it waits for.
WillHold(w, b) ==
  /\ b # NoBucket /\ w.limit > 0
  /\ w.items <= w.limit => \A t \in 0..Horizon : t >= w.until /\ t >= b.lastUpdate =>
       b.tokens + (t - b.lastUpdate) * w.limit >= w.items * Unit

WaitsHold == \A x \in Senders : waits[x] # NoRequest => WillHold(waits[x], buckets[waits[x].project])

QuotaInv == LimiterType /\ \A p \in Projects : BucketKept(p) /\ WindowsKept(p)
WaitInv == LimiterType /\ WaitsHold

(* What a bucket holds after its refill.                                   *)
LEMMA RefilledFacts ==
    ASSUME LimiterType, NEW p \in Projects, NEW limit \in Limits
    PROVE  /\ Refilled(buckets[p], limit) \in Nat
           /\ Refilled(buckets[p], limit) <= limit * Unit
           /\ buckets[p] # NoBucket =>
                /\ buckets[p].tokens \in Nat /\ buckets[p].lastUpdate \in 0..now
                /\ Refilled(buckets[p], limit) <= buckets[p].tokens + (now - buckets[p].lastUpdate) * limit
           /\ \/ Refilled(buckets[p], limit) = limit * Unit
              \/ /\ buckets[p] # NoBucket
                 /\ Refilled(buckets[p], limit) = buckets[p].tokens + (now - buckets[p].lastUpdate) * limit
  <1> DEFINE b == buckets[p]
             full == limit * Unit
             now_ == b.tokens + (now - b.lastUpdate) * limit
  <1>1. limit \in Nat /\ full \in Nat /\ now \in Nat
    BY MostIsMost, UnitIsNat, ProductIsNat, HorizonIsTime DEF LimiterType
  <1>2. CASE b = NoBucket
    <2>1. Refilled(b, limit) = full
      BY <1>2 DEF Refilled
    <2>2. QED
      BY <1>1, <1>2, <2>1
  <1>3. CASE b # NoBucket
    <2>1. b.tokens \in Nat /\ b.lastUpdate \in 0..now
      BY <1>3 DEF LimiterType, Bucket
    <2>2. now - b.lastUpdate \in Nat
      BY <1>1, <2>1
    <2>3. now_ \in Nat
      BY <1>1, <2>1, <2>2, ProductIsNat
    <2>4. Refilled(b, limit) = Min({full, now_})
      BY <1>3 DEF Refilled
    <2> HIDE DEF full, now_
    <2>5. Refilled(b, limit) = IF full <= now_ THEN full ELSE now_
      BY <1>1, <2>3, <2>4, MinOfTwo
    <2>6. /\ Refilled(b, limit) \in Nat /\ Refilled(b, limit) <= full /\ Refilled(b, limit) <= now_
          /\ Refilled(b, limit) = full \/ Refilled(b, limit) = now_
      BY <1>1, <2>3, <2>5
    <2>7. QED
      BY <1>3, <2>1, <2>6 DEF full, now_
  <1>4. QED
    BY <1>2, <1>3

(* A request under way, as it stands before its bucket.                    *)
LEMMA RequestFacts ==
    ASSUME LimiterType, NEW x \in Senders, requests[x] # NoRequest
    PROVE  /\ requests[x].project \in Projects /\ requests[x].items \in Nat \ {0}
           /\ requests[x].limit \in Limits /\ requests[x].limit \in Nat
           /\ Refilled(buckets[requests[x].project], requests[x].limit) \in Nat
           /\ requests[x].items * Unit \in Nat
  <1>1. requests[x] \in Request
    BY DEF LimiterType
  <1>2. requests[x].project \in Projects /\ requests[x].items \in Nat \ {0} /\ requests[x].limit \in Limits
    BY <1>1 DEF Request
  <1>3. QED
    BY <1>2, RefilledFacts, MostIsMost, UnitIsNat, ProductIsNat

LEMMA RetryAfterEnough ==
    ASSUME NEW limit \in Nat \ {0}, NEW missing \in Nat \ {0}
    PROVE  /\ RetryAfter(limit, missing) \in Nat
           /\ missing <= limit * Unit => RetryAfter(limit, missing) * Fine * limit >= missing
  <1> DEFINE c == limit * Fine
             q == (missing + limit * Fine - 1) \div (limit * Fine)
             n == RetryAfter(limit, missing)
  <1>1. c \in Nat \ {0} /\ Fine \in Nat \ {0} /\ Minute \in Nat \ {0}
    BY LimiterAssumption, ProductIsNat
  <1>2. q \in Nat /\ q * c >= missing
    BY <1>1, DividedUp
  <1>3. RetryAfter(limit, missing) = Max({1, Min({Minute, q})})
    BY DEF RetryAfter
  <1> HIDE DEF q
  <1>4. n \in Nat /\ (n >= q \/ n >= Minute)
    <2>1. Min({Minute, q}) = IF Minute <= q THEN Minute ELSE q
      BY <1>1, <1>2, MinOfTwo
    <2>2. Min({Minute, q}) \in Nat
      BY <1>1, <1>2, <2>1
    <2>3. n = IF 1 >= Min({Minute, q}) THEN 1 ELSE Min({Minute, q})
      BY <1>3, <2>2, MaxOfTwo
    <2>4. QED
      BY <1>1, <1>2, <2>1, <2>2, <2>3
  <1> HIDE DEF n
  <1>5. n * Fine * limit = n * c
    BY <1>1, <1>4
  <1>6. CASE n >= q
    BY <1>1, <1>2, <1>4, <1>5, <1>6, ProductIsNat, ProductGrows DEF n
  <1>7. CASE n >= Minute
    <2>1. Minute * c = limit * Unit
      BY <1>1 DEF Unit
    <2>2. n * c >= Minute * c
      BY <1>1, <1>4, <1>7, ProductGrows
    <2>3. limit * Unit \in Nat /\ n * c \in Nat
      BY <1>1, <1>4, UnitIsNat, ProductIsNat
    <2>4. QED
      BY <1>4, <1>5, <2>1, <2>2, <2>3 DEF n
  <1>8. QED
    BY <1>4, <1>6, <1>7

LEMMA LimiterInitInv == now = 0 /\ LimiterInit => QuotaInv /\ WaitInv
  <1> SUFFICES ASSUME now = 0, LimiterInit PROVE QuotaInv /\ WaitInv
    OBVIOUS
  <1>1. LimiterType
    BY HorizonIsTime DEF LimiterInit, LimiterType
  <1>2. WaitsHold
    BY DEF LimiterInit, WaitsHold
  <1>3. ASSUME NEW p \in Projects PROVE BucketKept(p) /\ WindowsKept(p)
    <2>1. buckets[p] = NoBucket /\ \A t \in 0..(Horizon + 1) : admitted[p][t] = 0
      BY DEF LimiterInit
    <2>2. BucketKept(p)
      BY <2>1 DEF BucketKept
    <2>3. \A from, to \in 0..now : (admitted[p][from] - admitted[p][to + 1]) * Unit <= Most * (Unit + (to - from))
      <3> SUFFICES ASSUME NEW from \in 0..now, NEW to \in 0..now
                   PROVE  (admitted[p][from] - admitted[p][to + 1]) * Unit <= Most * (Unit + (to - from))
        OBVIOUS
      <3>1. from = 0 /\ to = 0 /\ admitted[p][0] = 0 /\ admitted[p][to + 1] = 0
        BY <2>1, HorizonIsTime
      <3>2. Most * (Unit + (to - from)) \in Nat
        BY <3>1, MostIsMost, UnitIsNat, ProductIsNat
      <3>3. QED
        BY <3>1, <3>2, UnitIsNat
    <2>4. QED
      BY <2>2, <2>3 DEF WindowsKept
  <1>4. QED
    BY <1>1, <1>2, <1>3 DEF QuotaInv, WaitInv

(* A refill brings no more than the time that has passed.                  *)
LEMMA RefillKeeps ==
    ASSUME LimiterType, NEW p \in Projects, BucketKept(p), NEW limit \in Limits, NEW from \in 0..now
    PROVE  admitted[p][from] * Unit + Refilled(buckets[p], limit) <= Most * (Unit + (now - from))
  <1> DEFINE b == buckets[p]
             last == b.lastUpdate
             n == Refilled(b, limit)
             spent == admitted[p][from] * Unit
  <1>1. /\ from \in Nat /\ now \in Nat /\ from <= now /\ now - from \in Nat
        /\ limit \in Nat /\ limit <= Most /\ Most \in Nat /\ Unit \in Nat
        /\ from \in 0..(Horizon + 1)
    BY MostIsMost, UnitIsNat, HorizonIsTime DEF LimiterType
  <1>2. /\ n \in Nat /\ n <= limit * Unit
        /\ b # NoBucket => b.tokens \in Nat /\ last \in 0..now /\ n <= b.tokens + (now - last) * limit
    BY RefilledFacts
  <1>3. limit * Unit <= Most * Unit /\ Most * Unit \in Nat /\ Most * (now - from) \in Nat
    BY <1>1, ProductGrows, ProductIsNat
  <1>4. Most * (Unit + (now - from)) = Most * Unit + Most * (now - from)
    BY <1>1, ProductSplits
  <1>5. CASE b = NoBucket \/ (b # NoBucket /\ from > last)
    <2>1. admitted[p][from] = 0
      BY <1>1, <1>5 DEF BucketKept, NoBucket
    <2>2. spent = 0
      BY <1>1, <2>1
    <2> HIDE DEF n, spent
    <2>3. limit * Unit \in Nat
      BY <1>1, ProductIsNat
    <2>4. QED
      BY <1>2, <1>3, <1>4, <2>2, <2>3 DEF n, spent
  <1>6. CASE b # NoBucket /\ from <= last
    <2>1. /\ b.tokens \in Nat /\ last \in Nat /\ last <= now /\ n <= b.tokens + (now - last) * limit
          /\ last - from \in Nat /\ now - last \in Nat /\ from \in 0..last
      BY <1>1, <1>2, <1>6
    <2>2. spent + b.tokens <= Most * (Unit + (last - from))
      BY <1>6, <2>1 DEF BucketKept
    <2>3. (now - last) * limit <= Most * (now - last) /\ (now - last) * limit \in Nat
      BY <1>1, <2>1, ProductGrows, ProductIsNat
    <2>4. Most * (Unit + (last - from)) + Most * (now - last) = Most * (Unit + (now - from))
      <3>1. Unit + (last - from) \in Nat /\ (Unit + (last - from)) + (now - last) = Unit + (now - from)
        BY <1>1, <2>1
      <3>2. QED
        BY <1>1, <2>1, <3>1, ProductSplits
    <2>5. /\ spent \in Nat /\ Most * (Unit + (last - from)) \in Nat /\ Most * (now - last) \in Nat
          /\ Most * (Unit + (now - from)) \in Nat
      <3>1. admitted[p][from] \in Nat
        BY <1>1 DEF LimiterType
      <3>2. QED
        BY <1>1, <2>1, <3>1, ProductIsNat
    <2> HIDE DEF n, spent, last
    <2>6. QED
      BY <1>2, <2>1, <2>2, <2>3, <2>4, <2>5 DEF n, spent
  <1>7. QED
    BY <1>1, <1>2, <1>5, <1>6

(* A window that ends now is bounded by what the bucket has left.          *)
LEMMA BucketBoundsWindows ==
    ASSUME LimiterType, NEW p \in Projects, BucketKept(p),
           buckets[p] # NoBucket, buckets[p].lastUpdate = now, NEW from \in 0..now
    PROVE  (admitted[p][from] - admitted[p][now + 1]) * Unit <= Most * (Unit + (now - from))
  <1>1. /\ now \in Nat /\ now + 1 \in 0..(Horizon + 1) /\ from \in 0..(Horizon + 1)
        /\ buckets[p].tokens \in Nat
    BY HorizonIsTime DEF LimiterType, Bucket
  <1>2. admitted[p][now + 1] = 0
    BY <1>1 DEF BucketKept
  <1>3. admitted[p][from] \in Nat
    BY <1>1 DEF LimiterType
  <1>4. admitted[p][from] * Unit + buckets[p].tokens <= Most * (Unit + (now - from))
    BY DEF BucketKept
  <1>5. admitted[p][from] * Unit \in Nat /\ Most * (Unit + (now - from)) \in Nat
    <2>1. Unit + (now - from) \in Nat
      BY <1>1, UnitIsNat
    <2>2. QED
      BY <1>3, <2>1, MostIsMost, UnitIsNat, ProductIsNat
  <1>6. admitted[p][from] - admitted[p][now + 1] = admitted[p][from]
    BY <1>2, <1>3
  <1>7. QED
    BY <1>1, <1>4, <1>5, <1>6

(* The clock ticks: nothing has been let through at the new instant yet.   *)
LEMMA TickQuota ==
    ASSUME QuotaInv, Tick, UNCHANGED limiterVars
    PROVE  QuotaInv'
  <1>1. /\ now \in Nat /\ now' = now + 1 /\ now < Horizon /\ Horizon \in Nat
        /\ UNCHANGED <<quota, buckets, requests, waits, admitted>>
    BY HorizonIsTime DEF QuotaInv, LimiterType, Tick, limiterVars
  <1>2. LimiterType'
    <2>1. \A p \in Projects : buckets[p] # NoBucket => buckets[p].lastUpdate \in Nat /\ buckets[p].lastUpdate <= now
      BY DEF QuotaInv, LimiterType, Bucket
    <2>2. QED
      BY <1>1, <2>1 DEF QuotaInv, LimiterType
  <1>3. ASSUME NEW p \in Projects PROVE BucketKept(p)'
    BY <1>1 DEF QuotaInv, BucketKept
  <1>4. ASSUME NEW p \in Projects, NEW from \in 0..now', NEW to \in 0..now', from <= to
        PROVE  (admitted'[p][from] - admitted'[p][to + 1]) * Unit <= Most * (Unit + (to - from))
    <2>1. \A t \in 0..(Horizon + 1) : admitted[p][t] \in Nat /\ (t > now => admitted[p][t] = 0)
      <3>1. \A t \in 0..(Horizon + 1) : admitted[p][t] \in Nat
        BY DEF QuotaInv, LimiterType
      <3>2. buckets[p].lastUpdate \in Int /\ buckets[p].lastUpdate <= now
        BY <1>1 DEF QuotaInv, LimiterType, Bucket, NoBucket
      <3>3. \A t \in 0..(Horizon + 1) : t > now => t > buckets[p].lastUpdate
        BY <1>1, <3>2
      <3>4. QED
        BY <3>1, <3>3 DEF QuotaInv, BucketKept
    <2>2. from \in Nat /\ to \in Nat /\ to - from \in Nat /\ Most * (Unit + (to - from)) \in Nat
      <3>1. from \in Nat /\ to \in Nat /\ to - from \in Nat
        BY <1>1, <1>4
      <3>2. Unit + (to - from) \in Nat
        BY <3>1, UnitIsNat
      <3>3. QED
        BY <3>1, <3>2, MostIsMost, ProductIsNat
    <2>3. CASE to <= now
      BY <1>1, <1>4, <2>2, <2>3 DEF QuotaInv, WindowsKept
    <2>4. CASE to = now + 1 /\ from = now + 1
      <3>1. admitted[p][from] - admitted[p][to + 1] = 0
        BY <1>1, <2>1, <2>4
      <3>2. QED
        BY <1>1, <2>2, <3>1, UnitIsNat
    <2>5. CASE to = now + 1 /\ from <= now
      <3>1. admitted[p][to + 1] = admitted[p][now + 1]
        BY <1>1, <2>1, <2>5
      <3>2. (admitted[p][from] - admitted[p][now + 1]) * Unit <= Most * (Unit + (now - from))
        BY <1>1, <2>2, <2>5 DEF QuotaInv, WindowsKept
      <3>3. Most * (Unit + (now - from)) <= Most * (Unit + (to - from))
        <4>1. Unit + (now - from) \in Nat /\ Unit + (to - from) \in Nat /\ Unit + (now - from) <= Unit + (to - from)
          BY <1>1, <2>2, <2>5, UnitIsNat
        <4>2. QED
          BY <4>1, MostIsMost, ProductGrows
      <3>4. admitted[p][from] - admitted[p][now + 1] \in Int /\ Most * (Unit + (now - from)) \in Int
        <4>1. admitted[p][from] \in Nat /\ admitted[p][now + 1] \in Nat
          BY <1>1, <2>1, <2>2, <2>5
        <4>2. QED
          BY <1>1, <2>2, <4>1, MostIsMost, UnitIsNat
      <3>5. (admitted[p][from] - admitted[p][now + 1]) * Unit \in Int
        BY <3>4, UnitIsNat
      <3>6. QED
        BY <1>1, <2>2, <3>1, <3>2, <3>3, <3>4, <3>5
    <2>6. QED
      BY <1>1, <1>4, <2>2, <2>3, <2>4, <2>5
  <1>5. QED
    BY <1>2, <1>3, <1>4 DEF QuotaInv, WindowsKept

(* What Admit and Refuse write to the bucket they hold.                    *)
LEMMA BucketStep ==
    ASSUME LimiterType, NEW p \in Projects, NEW n \in Nat,
           buckets' = [buckets EXCEPT ![p] = [tokens |-> n, lastUpdate |-> now]]
    PROVE  /\ buckets' \in [Projects -> Bucket \cup {NoBucket}]
           /\ \A o \in Projects : buckets'[o] # NoBucket => buckets'[o].lastUpdate <= now
           /\ buckets'[p] = [tokens |-> n, lastUpdate |-> now] /\ buckets'[p] # NoBucket
           /\ \A o \in Projects \ {p} : buckets'[o] = buckets[o]
  <1>1. now \in Nat /\ [tokens |-> n, lastUpdate |-> now] \in Bucket
    BY HorizonIsTime DEF LimiterType, Bucket
  <1>2. [tokens |-> n, lastUpdate |-> now] # NoBucket
    BY <1>1 DEF NoBucket
  <1>3. buckets'[p] = [tokens |-> n, lastUpdate |-> now] /\ \A o \in Projects \ {p} : buckets'[o] = buckets[o]
    BY DEF LimiterType
  <1>4. buckets' \in [Projects -> Bucket \cup {NoBucket}]
    BY <1>1 DEF LimiterType
  <1>5. \A o \in Projects : buckets'[o] # NoBucket => buckets'[o].lastUpdate <= now
    <2> SUFFICES ASSUME NEW o \in Projects, buckets'[o] # NoBucket PROVE buckets'[o].lastUpdate <= now
      OBVIOUS
    <2>1. CASE o = p
      BY <1>1, <1>3, <2>1
    <2>2. CASE o # p
      BY <1>3, <2>2 DEF LimiterType
    <2>3. QED
      BY <2>1, <2>2
  <1>6. QED
    BY <1>2, <1>3, <1>4, <1>5

(* The steps that leave buckets, waits and what was admitted alone.        *)
LEMMA ArrivalInv ==
    ASSUME LimiterType, now' = now,
           \/ \E p \in Projects, q \in Quotas : UpdateProject(p, q)
           \/ \E x \in Senders : (\E p \in Projects, n \in ItemCounts : Ingest(x, p, n)) \/ Unlimited(x)
    PROVE  LimiterType' /\ UNCHANGED <<buckets, waits, admitted>>
  <1>1. ASSUME NEW p \in Projects, NEW q \in Quotas, UpdateProject(p, q)
        PROVE  LimiterType' /\ UNCHANGED <<buckets, waits, admitted>>
    BY <1>1 DEF UpdateProject, LimiterType
  <1>2. ASSUME NEW x \in Senders, NEW p \in Projects, NEW n \in ItemCounts, Ingest(x, p, n)
        PROVE  LimiterType' /\ UNCHANGED <<buckets, waits, admitted>>
    <2> DEFINE r == [project |-> p, items |-> Max({n, 1}), limit |-> IF quota[p] <= 0 THEN DefaultLimit ELSE quota[p]]
    <2>1. n \in Nat /\ Max({n, 1}) \in Nat \ {0}
      <3>1. n \in Nat /\ Max({n, 1}) = IF n >= 1 THEN n ELSE 1
        BY LimiterAssumption, MaxOfTwo
      <3>2. QED
        BY <3>1
    <2>2. (IF quota[p] <= 0 THEN DefaultLimit ELSE quota[p]) \in Limits
      <3>1. quota[p] \in Quotas \cup {0}
        BY DEF LimiterType
      <3>2. QED
        BY <3>1 DEF Limits
    <2>3. r \in Request
      BY <2>1, <2>2 DEF Request
    <2>4. requests' = [requests EXCEPT ![x] = r] /\ UNCHANGED <<quota, buckets, waits, admitted>>
      BY <1>2 DEF Ingest
    <2> HIDE DEF r
    <2>5. QED
      BY <2>3, <2>4 DEF LimiterType
  <1>3. ASSUME NEW x \in Senders, Unlimited(x)
        PROVE  LimiterType' /\ UNCHANGED <<buckets, waits, admitted>>
    BY <1>3 DEF Unlimited, Answer, LimiterType
  <1>4. QED
    BY <1>1, <1>2, <1>3

(* Where a request is let through, what it takes leaves the bucket.        *)
LEMMA AdmitInv ==
    ASSUME LimiterType, now' = now, NEW x \in Senders, Admit(x)
    PROVE  /\ LimiterType'
           /\ (\A p \in Projects : BucketKept(p) /\ WindowsKept(p))
                => (\A p \in Projects : BucketKept(p) /\ WindowsKept(p))'
           /\ WaitsHold => WaitsHold'
  <1> DEFINE r == requests[x]
             p == r.project
             had == Refilled(buckets[p], r.limit)
             left == had - r.items * Unit
  <1>1. /\ p \in Projects /\ r.items \in Nat \ {0} /\ r.limit \in Limits /\ had \in Nat
        /\ r.items * Unit \in Nat /\ had >= r.items * Unit
    BY RequestFacts DEF Admit
  <1>2. left \in Nat
    BY <1>1
  <1>3. /\ buckets' = [buckets EXCEPT ![p] = [tokens |-> left, lastUpdate |-> now]]
        /\ admitted' = [admitted EXCEPT ![p] = [t \in DOMAIN @ |-> @[t] + IF t <= now THEN r.items ELSE 0]]
        /\ waits' = [y \in Senders |-> IF waits[y].project = p THEN NoRequest ELSE waits[y]]
        /\ requests' = [requests EXCEPT ![x] = NoRequest] /\ quota' = quota
    BY DEF Admit, Answer
  <1>4. now \in Nat /\ now <= Horizon /\ Horizon \in Nat
    BY HorizonIsTime DEF LimiterType
  <1> HIDE DEF left, had
  <1>5. /\ buckets' \in [Projects -> Bucket \cup {NoBucket}]
        /\ \A o \in Projects : buckets'[o] # NoBucket => buckets'[o].lastUpdate <= now
        /\ buckets'[p] = [tokens |-> left, lastUpdate |-> now] /\ buckets'[p] # NoBucket
        /\ \A o \in Projects \ {p} : buckets'[o] = buckets[o]
    BY <1>1, <1>2, <1>3, BucketStep
  <1>6. /\ \A o \in Projects \ {p} : admitted'[o] = admitted[o]
        /\ \A t \in 0..(Horizon + 1) :
             admitted'[p][t] = admitted[p][t] + IF t <= now THEN r.items ELSE 0
        /\ \A t \in 0..(Horizon + 1) : admitted[p][t] \in Nat
    <2>1. admitted \in [Projects -> [0..(Horizon + 1) -> Nat]]
      BY DEF LimiterType
    <2>2. QED
      BY <1>1, <1>3, <2>1
  <1>7. admitted' \in [Projects -> [0..(Horizon + 1) -> Nat]]
    <2>1. admitted \in [Projects -> [0..(Horizon + 1) -> Nat]]
      BY DEF LimiterType
    <2>2. [t \in DOMAIN admitted[p] |-> admitted[p][t] + IF t <= now THEN r.items ELSE 0] \in [0..(Horizon + 1) -> Nat]
      <3>1. DOMAIN admitted[p] = 0..(Horizon + 1) /\ \A t \in 0..(Horizon + 1) : admitted[p][t] \in Nat
        BY <1>1, <2>1
      <3>2. \A t \in 0..(Horizon + 1) : (IF t <= now THEN r.items ELSE 0) \in Nat
        BY <1>1
      <3>3. \A t \in 0..(Horizon + 1) : admitted[p][t] + (IF t <= now THEN r.items ELSE 0) \in Nat
        BY <3>1, <3>2
      <3>4. QED
        BY <3>1, <3>3
    <2>3. QED
      BY <1>1, <1>3, <2>1, <2>2
  <1>8. LimiterType'
    <2>1. waits' \in [Senders -> Wait \cup {NoRequest}] /\ requests' \in [Senders -> Request \cup {NoRequest}]
      BY <1>3 DEF LimiterType
    <2>2. QED
      BY <1>3, <1>5, <1>7, <2>1 DEF LimiterType
  <1>9. ASSUME \A o \in Projects : BucketKept(o) /\ WindowsKept(o), NEW o \in Projects
        PROVE  (BucketKept(o) /\ WindowsKept(o))'
    <2>1. CASE o # p
      <3>1. buckets'[o] = buckets[o] /\ admitted'[o] = admitted[o] /\ now' = now
        BY <1>5, <1>6, <2>1
      <3>2. QED
        BY <1>9, <3>1 DEF BucketKept, WindowsKept
    <2>2. CASE o = p
      <3>1. buckets'[p].lastUpdate = now /\ buckets'[p].tokens = left
        BY <1>5
      <3>2. \A t \in 0..(Horizon + 1) : t > now => admitted'[p][t] = 0
        <4>1. \A t \in 0..(Horizon + 1) : t > now => t > buckets[p].lastUpdate
          <5>1. buckets[p].lastUpdate \in Int /\ buckets[p].lastUpdate <= now
            BY <1>1, <1>4 DEF LimiterType, Bucket, NoBucket
          <5>2. QED
            BY <1>4, <5>1
        <4>2. \A t \in 0..(Horizon + 1) : t > now => admitted[p][t] = 0
          BY <1>1, <1>9, <4>1 DEF BucketKept
        <4>3. QED
          BY <1>4, <1>6, <4>2
      <3>3. ASSUME NEW from \in 0..now
            PROVE  admitted'[p][from] * Unit + left <= Most * (Unit + (now - from))
        <4>1. admitted[p][from] * Unit + had <= Most * (Unit + (now - from))
          BY <1>1, <1>9, RefillKeeps DEF had
        <4>2. admitted'[p][from] = admitted[p][from] + r.items /\ admitted[p][from] \in Nat
          BY <1>4, <1>6
        <4>3. admitted'[p][from] * Unit = admitted[p][from] * Unit + r.items * Unit
          BY <1>1, <4>2, UnitIsNat, ProductSplits
        <4>4. admitted[p][from] * Unit \in Nat /\ Most * (Unit + (now - from)) \in Nat
          <5>1. Unit + (now - from) \in Nat
            BY <1>4, UnitIsNat
          <5>2. QED
            BY <4>2, <5>1, MostIsMost, UnitIsNat, ProductIsNat
        <4>5. left = had - r.items * Unit
          BY DEF left
        <4> HIDE DEF r, p
        <4>6. QED
          BY <1>1, <1>2, <4>1, <4>3, <4>4, <4>5
      <3>4. BucketKept(o)'
        BY <2>2, <3>1, <3>2, <3>3, <1>4 DEF BucketKept
      <3>5. ASSUME NEW from \in 0..now, NEW to \in 0..now, from <= to
            PROVE  (admitted'[p][from] - admitted'[p][to + 1]) * Unit <= Most * (Unit + (to - from))
        <4>1. CASE to = now
          <5>1. (admitted'[p][from] - admitted'[p][now + 1]) * Unit <= Most * (Unit + (now - from))
            <6>1. /\ now + 1 \in 0..(Horizon + 1) /\ from \in 0..(Horizon + 1)
                  /\ left \in Nat
              BY <1>2, <1>4
            <6>2. admitted'[p][now + 1] = 0 /\ admitted'[p][from] \in Nat
              BY <1>1, <1>4, <1>7, <3>2, <6>1
            <6>3. admitted'[p][from] * Unit + left <= Most * (Unit + (now - from))
              BY <3>3
            <6>4. admitted'[p][from] * Unit \in Nat /\ Most * (Unit + (now - from)) \in Nat
              <7>1. Unit + (now - from) \in Nat
                BY <1>4, UnitIsNat
              <7>2. QED
                BY <6>2, <7>1, MostIsMost, UnitIsNat, ProductIsNat
            <6>5. admitted'[p][from] - admitted'[p][now + 1] = admitted'[p][from]
              BY <6>2
            <6>6. QED
              BY <1>2, <6>3, <6>4, <6>5
          <5>2. QED
            BY <4>1, <5>1
        <4>2. CASE to # now
          <5>1. from \in 0..(Horizon + 1) /\ to + 1 \in 0..(Horizon + 1) /\ from <= now /\ to + 1 <= now
            BY <1>4, <4>2
          <5>2. admitted'[p][from] - admitted'[p][to + 1] = admitted[p][from] - admitted[p][to + 1]
            <6>1. /\ admitted'[p][from] = admitted[p][from] + r.items
                  /\ admitted'[p][to + 1] = admitted[p][to + 1] + r.items
                  /\ admitted[p][from] \in Nat /\ admitted[p][to + 1] \in Nat /\ r.items \in Nat
              BY <1>1, <1>6, <5>1
            <6>2. QED
              BY <6>1
          <5>3. (admitted[p][from] - admitted[p][to + 1]) * Unit <= Most * (Unit + (to - from))
            BY <1>1, <1>9, <3>5 DEF WindowsKept
          <5>4. QED
            BY <5>2, <5>3
        <4>3. QED
          BY <4>1, <4>2
      <3>6. WindowsKept(o)'
        <4>1. \A from, to \in 0..now : from <= to =>
                (admitted'[o][from] - admitted'[o][to + 1]) * Unit <= Most * (Unit + (to - from))
          BY <2>2, <3>5
        <4> HIDE DEF p, r
        <4>2. QED
          BY <4>1, Zenon DEF WindowsKept
      <3>7. QED
        BY <3>4, <3>6
    <2>3. QED
      BY <2>1, <2>2
  <1>10. ASSUME WaitsHold, NEW y \in Senders, waits'[y] # NoRequest
         PROVE  WillHold(waits'[y], buckets'[waits'[y].project])
    <2>1. waits'[y] = waits[y] /\ waits[y].project # p
      BY <1>3, <1>10
    <2>2. waits[y].project \in Projects
      BY <1>10, <2>1 DEF LimiterType, Wait
    <2>3. buckets'[waits[y].project] = buckets[waits[y].project]
      BY <1>5, <2>1, <2>2
    <2>4. QED
      BY <1>10, <2>1, <2>3 DEF WaitsHold
  <1>11. QED
    BY <1>8, <1>9, <1>10 DEF WaitsHold, WillHold

(* A refusal keeps what it found in the bucket, refilled up to now; whoever *)
(* of the same quota waits will still find what was promised.              *)
LEMMA RefuseInv ==
    ASSUME LimiterType, now' = now, NEW x \in Senders, Refuse(x)
    PROVE  /\ LimiterType'
           /\ (\A p \in Projects : BucketKept(p) /\ WindowsKept(p))
                => (\A p \in Projects : BucketKept(p) /\ WindowsKept(p))'
           /\ WaitsHold => WaitsHold'
  <1> DEFINE r == requests[x]
             p == r.project
             had == Refilled(buckets[p], r.limit)
             missing == r.items * Unit - had
             told == [project |-> p, items |-> r.items, limit |-> r.limit,
                      until |-> now + RetryAfter(r.limit, missing) * Fine]
  <1>1. /\ p \in Projects /\ r.items \in Nat \ {0} /\ r.limit \in Limits /\ r.limit \in Nat \ {0}
        /\ had \in Nat /\ r.items * Unit \in Nat /\ missing > 0 /\ missing \in Nat \ {0}
    <2>1. r # NoRequest /\ r.limit > 0 /\ missing > 0
      BY DEF Refuse
    <2>2. QED
      BY <2>1, RequestFacts
  <1>2. /\ buckets' = [buckets EXCEPT ![p] = [tokens |-> had, lastUpdate |-> now]]
        /\ admitted' = admitted /\ requests' = [requests EXCEPT ![x] = NoRequest] /\ quota' = quota
        /\ waits' = [y \in Senders |-> IF y = x THEN told
                       ELSE IF waits[y].project = p /\ waits[y].limit # r.limit THEN NoRequest ELSE waits[y]]
    BY DEF Refuse, Answer
  <1>3. now \in Nat /\ now <= Horizon /\ Horizon \in Nat
    BY HorizonIsTime DEF LimiterType
  <1>4. /\ had <= r.limit * Unit
        /\ \/ had = r.limit * Unit
           \/ /\ buckets[p] # NoBucket /\ buckets[p].tokens \in Nat /\ buckets[p].lastUpdate \in 0..now
              /\ had = buckets[p].tokens + (now - buckets[p].lastUpdate) * r.limit
    BY <1>1, RefilledFacts
  <1>5. RetryAfter(r.limit, missing) \in Nat
    BY <1>1, RetryAfterEnough
  <1>6. told \in Wait
    <2>1. Fine \in Nat
      BY LimiterAssumption
    <2>2. RetryAfter(r.limit, missing) * Fine \in Nat
      BY <1>5, <2>1, ProductIsNat
    <2>3. now + RetryAfter(r.limit, missing) * Fine \in Nat
      BY <1>3, <2>2
    <2>4. QED
      BY <1>1, <2>3 DEF Wait
  <1> HIDE DEF had, missing, told
  <1>7. /\ buckets' \in [Projects -> Bucket \cup {NoBucket}]
        /\ \A o \in Projects : buckets'[o] # NoBucket => buckets'[o].lastUpdate <= now
        /\ buckets'[p] = [tokens |-> had, lastUpdate |-> now] /\ buckets'[p] # NoBucket
        /\ \A o \in Projects \ {p} : buckets'[o] = buckets[o]
    BY <1>1, <1>2, BucketStep
  <1>8. LimiterType'
    <2>1. waits' \in [Senders -> Wait \cup {NoRequest}] /\ requests' \in [Senders -> Request \cup {NoRequest}]
      BY <1>2, <1>6 DEF LimiterType
    <2>2. QED
      BY <1>2, <1>7, <2>1 DEF LimiterType
  <1>9. ASSUME \A o \in Projects : BucketKept(o) /\ WindowsKept(o), NEW o \in Projects
        PROVE  (BucketKept(o) /\ WindowsKept(o))'
    <2>1. WindowsKept(o)'
      BY <1>2, <1>9 DEF WindowsKept
    <2>2. CASE o # p
      BY <1>2, <1>7, <1>9, <2>1, <2>2 DEF BucketKept
    <2>3. CASE o = p
      <3>1. buckets'[o] = [tokens |-> had, lastUpdate |-> now] /\ admitted'[o] = admitted[o]
        BY <1>2, <1>7, <2>3
      <3>2. \A t \in 0..(Horizon + 1) : t > now => admitted[o][t] = 0
        <4>1. buckets[o].lastUpdate \in Int /\ buckets[o].lastUpdate <= now
          BY <1>3 DEF LimiterType, Bucket, NoBucket
        <4>2. \A t \in 0..(Horizon + 1) : t > now => t > buckets[o].lastUpdate
          BY <1>3, <4>1
        <4>3. QED
          BY <1>9, <4>2 DEF BucketKept
      <3>3. \A from \in 0..now : admitted[o][from] * Unit + had <= Most * (Unit + (now - from))
        BY <1>1, <1>9, <2>3, RefillKeeps DEF had
      <3>4. BucketKept(o)'
        BY <3>1, <3>2, <3>3 DEF BucketKept
      <3>5. QED
        BY <2>1, <3>4
    <2>4. QED
      BY <2>2, <2>3
  <1>10. ASSUME WaitsHold, NEW y \in Senders, waits'[y] # NoRequest
         PROVE  WillHold(waits'[y], buckets'[waits'[y].project])
    <2>1. CASE y = x
      <3>1. waits'[y] = told
        BY <1>2, <2>1
      <3>2. /\ told.project = p /\ told.items = r.items /\ told.limit = r.limit
            /\ told.until = now + RetryAfter(r.limit, missing) * Fine
        BY DEF told
      <3>3. ASSUME r.items <= r.limit, NEW t \in 0..Horizon, t >= told.until, t >= now
            PROVE  had + (t - now) * r.limit >= r.items * Unit
        <4>1. missing <= r.limit * Unit
          <5>1. r.items * Unit <= r.limit * Unit /\ r.limit * Unit \in Nat
            BY <1>1, <3>3, UnitIsNat, ProductGrows, ProductIsNat
          <5>2. QED
            BY <1>1, <5>1 DEF missing
        <4> DEFINE n == RetryAfter(r.limit, missing) * Fine
        <4>2. n * r.limit >= missing
          BY <1>1, <4>1, RetryAfterEnough
        <4>3. n \in Nat /\ t \in Nat /\ t - now \in Nat /\ n <= t - now
          <5>1. Fine \in Nat
            BY LimiterAssumption
          <5>2. n \in Nat
            BY <1>5, <5>1, ProductIsNat
          <5>3. t >= now + n
            BY <3>2, <3>3
          <5> HIDE DEF n
          <5>4. QED
            BY <1>3, <3>3, <5>2, <5>3
        <4> HIDE DEF n
        <4>4. n * r.limit <= (t - now) * r.limit /\ n * r.limit \in Nat /\ (t - now) * r.limit \in Nat
          BY <1>1, <4>3, ProductGrows, ProductIsNat
        <4>5. missing = r.items * Unit - had
          BY DEF missing
        <4>6. QED
          BY <1>1, <4>2, <4>4, <4>5
      <3>4. WillHold(told, buckets'[p])
        <4>1. told.limit > 0
          BY <1>1, <3>2
        <4>2. buckets'[p].tokens = had /\ buckets'[p].lastUpdate = now
          BY <1>7
        <4>3. QED
          BY <1>7, <3>2, <3>3, <4>1, <4>2 DEF WillHold
      <3>5. QED
        BY <3>1, <3>2, <3>4
    <2>2. CASE y # x
      <3>1. waits'[y] = waits[y] /\ ~(waits[y].project = p /\ waits[y].limit # r.limit)
        BY <1>2, <1>10, <2>2
      <3>2. /\ WillHold(waits[y], buckets[waits[y].project])
            /\ waits[y].project \in Projects /\ waits[y].items \in Nat /\ waits[y].limit \in Nat
        BY <1>10, <3>1, MostIsMost DEF WaitsHold, LimiterType, Wait
      <3>3. CASE waits[y].project # p
        BY <1>7, <3>1, <3>2, <3>3
      <3>4. CASE waits[y].project = p
        <4> DEFINE w == waits[y]
        <4>1. w.limit = r.limit
          BY <3>1, <3>4
        <4>2. ASSUME w.items <= w.limit, NEW t \in 0..Horizon, t >= w.until, t >= now
              PROVE  had + (t - now) * w.limit >= w.items * Unit
          <5>1. /\ t \in Nat /\ t - now \in Nat /\ (t - now) * w.limit \in Nat
                /\ w.items * Unit <= w.limit * Unit /\ w.limit * Unit \in Nat /\ w.items * Unit \in Nat
            <6>1. t \in Nat /\ t - now \in Nat
              BY <1>3, <4>2
            <6>2. QED
              BY <3>2, <4>2, <6>1, UnitIsNat, ProductGrows, ProductIsNat
          <5>2. CASE had = r.limit * Unit
            BY <1>1, <4>1, <5>1, <5>2
          <5>3. CASE /\ buckets[p] # NoBucket /\ buckets[p].tokens \in Nat /\ buckets[p].lastUpdate \in 0..now
                     /\ had = buckets[p].tokens + (now - buckets[p].lastUpdate) * r.limit
            <6> DEFINE last == buckets[p].lastUpdate
            <6>1. last \in Nat /\ last <= now /\ t >= last /\ now - last \in Int /\ t - now \in Int
              BY <1>3, <4>2, <5>1, <5>3
            <6>2. buckets[p].tokens + (t - last) * w.limit >= w.items * Unit
              BY <3>2, <3>4, <4>2, <6>1 DEF WillHold
            <6>3. (now - last) * w.limit + (t - now) * w.limit = (t - last) * w.limit
              <7>1. (now - last) + (t - now) = t - last
                BY <1>3, <5>1, <6>1
              <7>2. QED
                BY <3>2, <6>1, <7>1, ProductSplits
            <6>4. (now - last) * w.limit \in Int /\ (t - last) * w.limit \in Int
              BY <1>3, <3>2, <5>1, <6>1
            <6> HIDE DEF last
            <6>5. had = buckets[p].tokens + (now - last) * w.limit
              BY <4>1, <5>3 DEF last
            <6> HIDE DEF w
            <6>6. QED
              BY <5>1, <5>3, <6>2, <6>3, <6>4, <6>5
          <5>4. QED
            BY <1>4, <5>2, <5>3
        <4>3. buckets'[p].tokens = had /\ buckets'[p].lastUpdate = now
          BY <1>7
        <4>4. WillHold(w, buckets'[p])
          BY <1>7, <3>2, <4>2, <4>3 DEF WillHold
        <4>5. QED
          BY <3>1, <3>4, <4>4
      <3>5. QED
        BY <3>3, <3>4
    <2>3. QED
      BY <2>1, <2>2
  <1>11. QED
    BY <1>8, <1>9, <1>10 DEF WaitsHold, WillHold

(* Every step of the service, as the limiter sees it.                      *)
LimiterSees ==
  \/ LimiterNext /\ now' = now
  \/ Tick /\ UNCHANGED limiterVars
  \/ UNCHANGED <<now, limiterVars>>

LEMMA LimiterSeesAll == [ServiceNext]_serviceVars => LimiterSees
  BY DEF ServiceNext, serviceVars, Surveys, Answers, Quota, Schema, Frames, LimiterSees, limiterVars

LEMMA QuotaNextInv == QuotaInv /\ LimiterSees => QuotaInv'
  <1> SUFFICES ASSUME QuotaInv, LimiterSees PROVE QuotaInv'
    OBVIOUS
  <1>1. CASE UNCHANGED <<now, limiterVars>>
    BY <1>1 DEF QuotaInv, LimiterType, BucketKept, WindowsKept, limiterVars
  <1>2. CASE Tick /\ UNCHANGED limiterVars
    BY <1>2, TickQuota
  <1>3. ASSUME now' = now,
               \/ \E p \in Projects, q \in Quotas : UpdateProject(p, q)
               \/ \E x \in Senders : (\E p \in Projects, n \in ItemCounts : Ingest(x, p, n)) \/ Unlimited(x)
        PROVE  QuotaInv'
    BY <1>3, ArrivalInv DEF QuotaInv, BucketKept, WindowsKept
  <1>4. ASSUME now' = now, NEW x \in Senders, Admit(x) \/ Refuse(x) PROVE QuotaInv'
    BY <1>4, AdmitInv, RefuseInv DEF QuotaInv
  <1>5. QED
    BY <1>1, <1>2, <1>3, <1>4 DEF LimiterSees, LimiterNext

LEMMA WaitNextInv == WaitInv /\ LimiterSees => WaitInv'
  <1> SUFFICES ASSUME WaitInv, LimiterSees PROVE WaitInv'
    OBVIOUS
  <1>1. CASE UNCHANGED <<now, limiterVars>>
    BY <1>1 DEF WaitInv, LimiterType, WaitsHold, WillHold, limiterVars
  <1>2. CASE Tick /\ UNCHANGED limiterVars
    <2>1. /\ now \in Nat /\ now' = now + 1 /\ now < Horizon /\ Horizon \in Nat
          /\ UNCHANGED <<quota, buckets, requests, waits, admitted>>
      BY <1>2, HorizonIsTime DEF WaitInv, LimiterType, Tick, limiterVars
    <2>2. \A p \in Projects : buckets[p] # NoBucket => buckets[p].lastUpdate \in Nat /\ buckets[p].lastUpdate <= now
      BY DEF WaitInv, LimiterType, Bucket
    <2>3. QED
      BY <2>1, <2>2 DEF WaitInv, LimiterType, WaitsHold, WillHold
  <1>3. ASSUME now' = now,
               \/ \E p \in Projects, q \in Quotas : UpdateProject(p, q)
               \/ \E x \in Senders : (\E p \in Projects, n \in ItemCounts : Ingest(x, p, n)) \/ Unlimited(x)
        PROVE  WaitInv'
    BY <1>3, ArrivalInv DEF WaitInv, WaitsHold, WillHold
  <1>4. ASSUME now' = now, NEW x \in Senders, Admit(x) \/ Refuse(x) PROVE WaitInv'
    BY <1>4, AdmitInv, RefuseInv DEF WaitInv
  <1>5. QED
    BY <1>1, <1>2, <1>3, <1>4 DEF LimiterSees, LimiterNext

(* The quota over time: a project is let through no more in any span than  *)
(* a full bucket and what the span refills, whatever arrives, whenever the *)
(* quota is changed and whichever quota a request has read.                *)
THEOREM QuotaIsKept == ServiceSpec => []QuotaKept
  <1>1. ServiceInit => QuotaInv
    BY LimiterInitInv DEF ServiceInit
  <1>2. QuotaInv /\ [ServiceNext]_serviceVars => QuotaInv'
    BY QuotaNextInv, LimiterSeesAll
  <1>3. QuotaInv => QuotaKept
    BY DEF QuotaInv, WindowsKept, QuotaKept, AdmittedIn, Most
  <1>4. QED
    BY <1>1, <1>2, <1>3, PTL DEF ServiceSpec

(* Retry-After is long enough: a sender who waits as it was told is not    *)
(* refused again, if its request fits into its quota and meanwhile nobody  *)
(* else of the project was let through or held to another quota.           *)
THEOREM RetryAfterSuffices == ServiceSpec => RetryIsEnough
  <1>1. ServiceInit => WaitInv
    BY LimiterInitInv DEF ServiceInit
  <1>2. WaitInv /\ [ServiceNext]_serviceVars => WaitInv'
    BY WaitNextInv, LimiterSeesAll
  <1>3. ASSUME WaitInv, NEW x \in Senders, Waited(x), requests[x].items <= requests[x].limit, Refuse(x)
        PROVE  FALSE
    <2> DEFINE w == waits[x]
               r == requests[x]
               p == r.project
               b == buckets[p]
               had == Refilled(b, r.limit)
    <2>1. /\ w # NoRequest /\ r # NoRequest /\ p = w.project /\ r.items = w.items
          /\ r.limit = w.limit /\ now >= w.until /\ r.limit > 0 /\ r.items * Unit - had > 0
      BY <1>3 DEF Waited, Refuse
    <2>2. p \in Projects /\ r.items \in Nat /\ r.limit \in Nat /\ r.limit \in Limits /\ had \in Nat
      BY <1>3, <2>1, RequestFacts DEF WaitInv
    <2>3. now \in 0..Horizon /\ now \in Nat
      BY <1>3, HorizonIsTime DEF WaitInv, LimiterType
    <2>4. WillHold(w, b)
      BY <1>3, <2>1 DEF WaitInv, WaitsHold
    <2>5. b # NoBucket /\ b.tokens \in Nat /\ b.lastUpdate \in 0..now
      BY <1>3, <2>2, <2>4, RefilledFacts DEF WaitInv, WillHold
    <2>6. b.tokens + (now - b.lastUpdate) * r.limit >= r.items * Unit
      BY <1>3, <2>1, <2>3, <2>4, <2>5 DEF WillHold
    <2>7. r.items * Unit <= r.limit * Unit /\ r.limit * Unit \in Nat /\ r.items * Unit \in Nat
      BY <1>3, <2>2, UnitIsNat, ProductGrows, ProductIsNat
    <2>8. had = r.limit * Unit \/ had = b.tokens + (now - b.lastUpdate) * r.limit
      BY <1>3, <2>2, RefilledFacts DEF WaitInv
    <2>9. had >= r.items * Unit
      BY <2>6, <2>7, <2>8
    <2> HIDE DEF had
    <2>10. QED
      BY <2>1, <2>2, <2>7, <2>9
  <1>4. WaitInv => [\A x \in Senders : Waited(x) /\ requests[x].items <= requests[x].limit => ~Refuse(x)]_limiterVars
    BY <1>3
  <1>5. QED
    BY <1>1, <1>2, <1>4, PTL DEF ServiceSpec, RetryIsEnough

-----------------------------------------------------------------------------
(* Surveys: what is due to whom.                                           *)

Users == LogUsers \cup {Anonymous, "none"}

\* Where a request of a device stands, and what it carries there.
AskForm(d, q) ==
  /\ q.at \in {"idle", "asked", "sifts", "weighs", "told", "shows", "marks"}
  /\ q.at \in {"asked", "sifts", "weighs", "told", "marks"} => q.user \in Users /\ q.time \in Nat
  /\ q.at \in {"sifts", "weighs", "told"} => q.due \subseteq SurveyIds /\ \A l \in q.left : l.survey \in SurveyIds
  /\ q.at \in {"weighs", "shows", "marks"} => q.survey \in SurveyIds
  /\ q.at = "weighs" => q.last \in Nat
  /\ q.at = "marks" => q.key = UserKey(SessionOfDevice[d], q.user)

Asks == asks = [d \in Devices |-> asks[d]] /\ \A d \in Devices : AskForm(d, asks[d])

Mark == [survey : SurveyIds, session : SessionIds, user : Users, time : Nat]

DueType ==
  /\ now \in Nat
  /\ sessions \in [SessionIds -> [user : Users, started : Nat]]
  /\ \A i \in items : i.ts \in 0..Today
  /\ shown = [v \in SurveyIds |-> shown[v]] /\ \A v \in SurveyIds : shown[v] \in [DOMAIN shown[v] -> Nat]
  /\ marks \subseteq Mark

\* The row that remembers a record of the history is there and is no older.
Remembered(k) ==
  LET key == UserKey(k.session, k.user) IN
  key \in DOMAIN shown[k.survey] /\ shown[k.survey][key] >= k.time

\* The inductive invariant: nothing recorded is forgotten that no earlier report
\* was written over, and who is about to be recorded is known by the key of the
\* session and user that were read.
DueInv ==
  /\ DueType /\ Asks
  /\ \A k \in marks \ overtaken : Remembered(k)

LEMMA DueInitInv == ServiceInit => DueInv
  <1> SUFFICES ASSUME ServiceInit PROVE DueInv
    OBVIOUS
  <1>1. sessions \in [SessionIds -> [user : Users, started : Nat]] /\ now \in Nat /\ items = {}
    BY DEF ServiceInit, LogInit, Users
  <1>2. shown = [v \in SurveyIds |-> <<>>] /\ asks = [d \in Devices |-> Idle] /\ marks = {}
    BY DEF ServiceInit, SurveyInit
  <1>3. shown = [v \in SurveyIds |-> shown[v]] /\ \A v \in SurveyIds : shown[v] \in [DOMAIN shown[v] -> Nat]
    BY <1>2
  <1>4. Asks
    BY <1>2 DEF Idle, Asks, AskForm
  <1>5. QED
    BY <1>1, <1>2, <1>3, <1>4 DEF DueInv, DueType

\* A step of one device leaves the others where they are.
LEMMA OneAsks ==
    ASSUME Asks, NEW d \in Devices, NEW to, AskForm(d, to), asks' = [asks EXCEPT ![d] = to]
    PROVE  Asks'
  <1>1. asks'[d] = to /\ asks' = [e \in Devices |-> asks'[e]] /\ \A e \in Devices : e # d => asks'[e] = asks[e]
    BY DEF Asks
  <1>2. ASSUME NEW e \in Devices PROVE AskForm(e, asks'[e])
    BY <1>1 DEF Asks
  <1>3. QED
    BY <1>1, <1>2 DEF Asks, AskForm

LEMMA SiftForm ==
    ASSUME Asks, NEW d \in Devices, asks[d].user \in Users, asks[d].time \in Nat,
           NEW left, \A l \in left : l.survey \in SurveyIds, NEW due, due \subseteq SurveyIds, Sift(d, left, due)
    PROVE  Asks'
  <1> DEFINE to == [at |-> IF left = {} THEN "told" ELSE "sifts", user |-> asks[d].user, time |-> asks[d].time,
                    left |-> left, due |-> due]
  <1>1. asks' = [asks EXCEPT ![d] = to]
    BY DEF Sift
  <1>2. AskForm(d, to)
    BY DEF AskForm
  <1> HIDE DEF to
  <1>3. QED
    BY <1>1, <1>2, OneAsks

\* The last of the trigger events of a survey.
LEMMA LastIsTime ==
    ASSUME DueType, NEW t, NEW s, NEW u, NEW at, Triggers(t, s, u, at) # {}
    PROVE  Max(Triggers(t, s, u, at)) \in Nat
  <1> DEFINE ts == Triggers(t, s, u, at)
  <1>1. \A x \in ts : x \in 0..Today
    BY DEF Triggers, DueType
  <1>2. ts \subseteq Nat /\ \A x \in ts : x <= Today
    BY <1>1, EventLogAssumption
  <1>3. IsFiniteSet(ts)
    <2>1. ts \in SUBSET Nat
      BY <1>2
    <2> HIDE DEF ts
    <2>2. QED
      BY <1>2, <2>1, EventLogAssumption, FS_BoundedSetOfNaturals
  <1> HIDE DEF ts
  <1>4. PICK x \in ts : \A y \in ts : y <= x
    BY <1>2, <1>3, GreatestExists DEF ts
  <1>5. \A y \in ts : x >= y
    BY <1>2, <1>4
  <1>6. Max(ts) \in ts
    BY <1>4, <1>5 DEF Max
  <1>7. QED
    BY <1>2, <1>6 DEF ts

(* The steps of a device that record nothing.                              *)
AskStep(d) ==
  AskDue(d) \/ ListSurveys(d) \/ LastTrigger(d) \/ DueSurveys(d) \/ Show(d) \/ ReadForMark(d)

LEMMA AskInv ==
    ASSUME DueInv, NEW d \in Devices, AskStep(d), UNCHANGED <<now, logVars>>
    PROVE  DueInv'
  <1> DEFINE s == SessionOfDevice[d]
             q == asks[d]
  <1>1. s \in SessionIds /\ sessions[s].user \in Users /\ now \in Nat /\ AskForm(d, q) /\ Asks /\ DueType
    BY SurveyAssumption DEF DueInv, DueType, Asks
  <1>2. UNCHANGED <<shown, marks, overtaken, now, sessions, items>>
    BY DEF AskStep, AskDue, ListSurveys, LastTrigger, DueSurveys, Sift, Show, ReadForMark, logVars
  <1>3. Asks'
    <2>1. CASE AskDue(d)
      <3> DEFINE to == [at |-> "asked", user |-> sessions[s].user, time |-> now]
      <3>1. asks' = [asks EXCEPT ![d] = to] /\ AskForm(d, to)
        BY <1>1, <2>1 DEF AskDue, AskForm
      <3> HIDE DEF to
      <3>2. QED
        BY <1>1, <3>1, OneAsks
    <2>2. CASE ListSurveys(d)
      <3> DEFINE left == {[survey |-> v, targeting |-> surveys[v].targeting] : v \in {x \in SurveyIds : Scheduled(x)}}
      <3>1. q.user \in Users /\ q.time \in Nat /\ Sift(d, left, {})
        BY <1>1, <2>2 DEF ListSurveys, AskForm
      <3>2. \A l \in left : l.survey \in SurveyIds
        OBVIOUS
      <3> HIDE DEF left
      <3>3. QED
        BY <1>1, <3>1, <3>2, SiftForm
    <2>3. CASE LastTrigger(d)
      <3>1. /\ q.at = "sifts" /\ q.user \in Users /\ q.time \in Nat /\ q.due \subseteq SurveyIds
            /\ \A l \in q.left : l.survey \in SurveyIds
        BY <1>1, <2>3 DEF LastTrigger, AskForm
      <3>2. PICK l \in q.left :
              \/ Sift(d, q.left \ {l}, q.due)
              \/ /\ Triggers(l.targeting, s, q.user, q.time) # {}
                 /\ asks' = [asks EXCEPT ![d] = [at |-> "weighs", user |-> q.user, time |-> q.time,
                               left |-> q.left \ {l}, due |-> q.due, survey |-> l.survey,
                               last |-> Max(Triggers(l.targeting, s, q.user, q.time))]]
        BY <2>3 DEF LastTrigger
      <3>3. CASE Sift(d, q.left \ {l}, q.due)
        <4>1. \A m \in q.left \ {l} : m.survey \in SurveyIds
          BY <3>1
        <4>2. QED
          BY <1>1, <3>1, <3>3, <4>1, SiftForm
      <3>4. ASSUME Triggers(l.targeting, s, q.user, q.time) # {},
                   asks' = [asks EXCEPT ![d] = [at |-> "weighs", user |-> q.user, time |-> q.time,
                               left |-> q.left \ {l}, due |-> q.due, survey |-> l.survey,
                               last |-> Max(Triggers(l.targeting, s, q.user, q.time))]]
            PROVE  Asks'
        <4> DEFINE last == Max(Triggers(l.targeting, s, q.user, q.time))
                   to == [at |-> "weighs", user |-> q.user, time |-> q.time, left |-> q.left \ {l}, due |-> q.due,
                          survey |-> l.survey, last |-> last]
        <4>1. last \in Nat
          BY <1>1, <3>4, LastIsTime
        <4> HIDE DEF last
        <4>2. AskForm(d, to)
          BY <3>1, <4>1 DEF AskForm
        <4>3. asks' = [asks EXCEPT ![d] = to]
          BY <3>4 DEF last
        <4> HIDE DEF to
        <4>4. QED
          BY <1>1, <4>2, <4>3, OneAsks
      <3>5. QED
        BY <3>2, <3>3, <3>4
    <2>4. CASE DueSurveys(d)
      <3>1. /\ q.user \in Users /\ q.time \in Nat /\ q.due \subseteq SurveyIds /\ q.survey \in SurveyIds
            /\ \A l \in q.left : l.survey \in SurveyIds
        BY <1>1, <2>4 DEF DueSurveys, AskForm
      <3>2. Sift(d, q.left, q.due) \/ Sift(d, q.left, q.due \cup {q.survey})
        BY <2>4 DEF DueSurveys
      <3>3. q.due \cup {q.survey} \subseteq SurveyIds
        BY <3>1
      <3>4. QED
        BY <1>1, <3>1, <3>2, <3>3, SiftForm
    <2>5. CASE Show(d)
      <3>1. q.at = "told" /\ q.due \subseteq SurveyIds
        BY <1>1, <2>5 DEF Show, AskForm
      <3>2. PICK to : asks' = [asks EXCEPT ![d] = to] /\ (to = Idle \/ \E v \in q.due : to = [at |-> "shows", survey |-> v])
        BY <2>5 DEF Show
      <3>3. AskForm(d, to)
        BY <3>1, <3>2 DEF AskForm, Idle
      <3>4. QED
        BY <1>1, <3>2, <3>3, OneAsks
    <2>6. CASE ReadForMark(d)
      <3> DEFINE to == [at |-> "marks", survey |-> q.survey, key |-> UserKey(s, sessions[s].user),
                        user |-> sessions[s].user, time |-> now]
      <3>1. AskForm(d, to)
        BY <1>1, <2>6 DEF ReadForMark, AskForm
      <3>2. AskForm(d, Idle)
        BY DEF AskForm, Idle
      <3>3. asks' = [asks EXCEPT ![d] = IF Stored(q.survey) THEN to ELSE Idle]
        BY <2>6 DEF ReadForMark
      <3> HIDE DEF to
      <3>4. QED
        BY <1>1, <3>1, <3>2, <3>3, OneAsks
    <2>7. QED
      BY <2>1, <2>2, <2>3, <2>4, <2>5, <2>6 DEF AskStep
  <1>4. QED
    BY <1>2, <1>3 DEF DueInv, DueType, Remembered

LEMMA SameKey ==
    ASSUME NEW s1, NEW u1, NEW s2, NEW u2
    PROVE  SamePerson(s1, u1, s2, u2) <=> UserKey(s1, u1) = UserKey(s2, u2)
  BY DEF SamePerson, UserKey

(* A report of what was shown: the row it writes remembers it, and every    *)
(* earlier record of that person.                                           *)
LEMMA MarkInv ==
    ASSUME DueInv, NEW d \in Devices, MarkSurveyShown(d), UNCHANGED <<now, logVars>>
    PROVE  DueInv'
  <1> DEFINE q == asks[d]
             s == SessionOfDevice[d]
             new == [survey |-> q.survey, session |-> s, user |-> q.user, time |-> q.time]
             row == [k \in {q.key} \cup DOMAIN shown[q.survey] |->
                       IF k = q.key THEN q.time ELSE shown[q.survey][k]]
             Same(k) == k.survey = q.survey /\ SamePerson(k.session, k.user, s, q.user)
  <1>1. /\ s \in SessionIds /\ Asks /\ AskForm(d, q) /\ q.at = "marks"
        /\ UNCHANGED <<now, sessions, items>> /\ asks' = [asks EXCEPT ![d] = Idle]
    BY SurveyAssumption DEF DueInv, Asks, MarkSurveyShown, logVars
  <1>2. q.survey \in SurveyIds /\ q.user \in Users /\ q.time \in Nat /\ q.key = UserKey(s, q.user)
    BY <1>1 DEF AskForm
  <1>3. Asks'
    <2>1. AskForm(d, Idle)
      BY DEF AskForm, Idle
    <2>2. QED
      BY <1>1, <2>1, OneAsks
  <1>4. CASE ~Stored(q.survey)
    <2>1. UNCHANGED <<shown, marks, overtaken>>
      BY <1>4 DEF MarkSurveyShown
    <2>2. QED
      BY <1>1, <1>3, <2>1 DEF DueInv, DueType, Remembered
  <1>5. CASE Stored(q.survey)
    <2>1. /\ shown' = [shown EXCEPT ![q.survey] = row]
          /\ marks' = marks \cup {new}
          /\ overtaken' = {k \in overtaken : ~Same(k)} \cup {k \in marks : Same(k) /\ k.time > q.time}
      BY <1>5 DEF MarkSurveyShown
    <2>2. /\ DOMAIN row = {q.key} \cup DOMAIN shown[q.survey]
          /\ row[q.key] = q.time
          /\ \A key \in DOMAIN shown[q.survey] : key # q.key => row[key] = shown[q.survey][key]
          /\ row = [key \in DOMAIN row |-> row[key]]
      OBVIOUS
    <2>3. /\ shown = [v \in SurveyIds |-> shown[v]]
          /\ \A v \in SurveyIds : shown[v] \in [DOMAIN shown[v] -> Nat]
          /\ marks \subseteq Mark
      BY DEF DueInv, DueType
    <2>4. \A key \in DOMAIN row : row[key] \in Nat
      BY <1>2, <2>2, <2>3
    <2> HIDE DEF row
    <2>5. /\ shown'[q.survey] = row
          /\ \A v \in SurveyIds : v # q.survey => shown'[v] = shown[v]
          /\ shown' = [v \in SurveyIds |-> shown'[v]]
      BY <1>2, <2>1, <2>3
    <2>6. \A v \in SurveyIds : shown'[v] \in [DOMAIN shown'[v] -> Nat]
      <3>1. row \in [DOMAIN row -> Nat]
        BY <2>2, <2>4
      <3>2. QED
        BY <2>3, <2>5, <3>1
    <2>7. new \in Mark
      BY <1>1, <1>2 DEF Mark
    <2>8. marks' \subseteq Mark
      BY <2>1, <2>3, <2>7
    <2>9. ASSUME NEW k \in marks' \ overtaken' PROVE Remembered(k)'
      <3> DEFINE key == UserKey(k.session, k.user)
      <3>1. k \in Mark /\ k.survey \in SurveyIds /\ k.time \in Nat
        BY <2>8 DEF Mark
      <3>2. Same(k) <=> k.survey = q.survey /\ key = q.key
        BY <1>2, SameKey
      <3>3. Same(k) => k.time <= q.time
        <4>1. CASE k = new
          BY <1>2, <4>1
        <4>2. CASE k \in marks
          BY <1>2, <2>1, <3>1, <4>2
        <4>3. QED
          BY <2>1, <4>1, <4>2
      <3> HIDE DEF Same
      <3>4. CASE Same(k)
        BY <1>2, <2>2, <2>5, <3>1, <3>2, <3>3, <3>4 DEF Remembered
      <3>5. CASE ~Same(k)
        <4>1. Same(new)
          BY <1>2, SameKey DEF Same
        <4>2. k \in marks \ overtaken
          BY <2>1, <3>5, <4>1
        <4>3. key \in DOMAIN shown[k.survey] /\ shown[k.survey][key] >= k.time
          BY <4>2 DEF DueInv, Remembered
        <4>4. CASE k.survey # q.survey
          BY <2>5, <3>1, <4>3, <4>4 DEF Remembered
        <4>5. CASE k.survey = q.survey
          <5>1. key # q.key
            BY <3>2, <3>5, <4>5
          <5>2. key \in DOMAIN row /\ row[key] = shown[k.survey][key]
            BY <2>2, <4>3, <4>5, <5>1
          <5>3. QED
            BY <2>5, <4>3, <4>5, <5>2 DEF Remembered
        <4>6. QED
          BY <4>4, <4>5
      <3>6. QED
        BY <3>4, <3>5
    <2>10. DueType'
      BY <1>1, <2>5, <2>6, <2>8 DEF DueInv, DueType
    <2>11. QED
      BY <1>3, <2>9, <2>10 DEF DueInv
  <1>6. QED
    BY <1>4, <1>5

(* A survey that is deleted takes with it what it was shown.               *)
LEMMA DeleteInv ==
    ASSUME DueInv, NEW v \in SurveyIds, DeleteSurvey(v), UNCHANGED <<now, logVars>>
    PROVE  DueInv'
  <1>1. /\ shown' = [shown EXCEPT ![v] = <<>>] /\ marks' = {k \in marks : k.survey # v}
        /\ UNCHANGED <<asks, overtaken, now, sessions, items>>
    BY DEF DeleteSurvey, logVars
  <1>2. /\ shown = [w \in SurveyIds |-> shown[w]] /\ marks \subseteq Mark
        /\ \A w \in SurveyIds : shown[w] \in [DOMAIN shown[w] -> Nat]
    BY DEF DueInv, DueType
  <1>3. /\ shown'[v] = <<>> /\ shown' = [w \in SurveyIds |-> shown'[w]]
        /\ \A w \in SurveyIds : w # v => shown'[w] = shown[w]
    BY <1>1, <1>2
  <1>4. \A w \in SurveyIds : shown'[w] \in [DOMAIN shown'[w] -> Nat]
    <2>1. <<>> \in [DOMAIN <<>> -> Nat]
      OBVIOUS
    <2>2. QED
      BY <1>2, <1>3, <2>1
  <1>5. \A k \in marks' \ overtaken' : k.survey \in SurveyIds /\ k \in marks \ overtaken /\ shown'[k.survey] = shown[k.survey]
    BY <1>1, <1>2, <1>3 DEF Mark
  <1>6. DueType'
    BY <1>1, <1>2, <1>3, <1>4 DEF DueInv, DueType
  <1>7. QED
    BY <1>1, <1>5, <1>6 DEF DueInv, Remembered, Asks, AskForm

(* New items and sessions are no one's record.                             *)
LEMMA LogInv == ASSUME DueInv, LogNext, UNCHANGED <<now, surveyVars>> PROVE DueInv'
  <1>0. PICK s \in SessionIds, u \in LogUsers \cup {Anonymous}, at \in Starts :
          \E its \in ItemsOf(s) : Envelope(s, u, at, its)
    BY DEF LogNext
  <1>1. PICK its \in ItemsOf(s) : Envelope(s, u, at, its)
    BY <1>0
  <1>2. /\ sessions' = [sessions EXCEPT ![s] = [user |-> u, started |-> IF @.user = "none" THEN at ELSE @.started]]
        /\ items' = items \cup its
    BY <1>1 DEF Envelope
  <1>3. \A i \in its : i.ts \in 0..Today
    BY <1>1 DEF ItemsOf
  <1>4. sessions' \in [SessionIds -> [user : Users, started : Nat]]
    <2>1. at \in Nat /\ u \in Users /\ sessions[s].started \in Nat
      BY EventLogAssumption DEF Users, DueInv, DueType
    <2>2. [user |-> u, started |-> IF sessions[s].user = "none" THEN at ELSE sessions[s].started]
             \in [user : Users, started : Nat]
      BY <2>1
    <2>3. QED
      BY <1>2, <2>2 DEF DueInv, DueType
  <1>5. QED
    BY <1>2, <1>3, <1>4 DEF DueInv, DueType, Remembered, Asks, AskForm, surveyVars

(* What a step may do to the records of surveys shown, and to a device that *)
(* asked: only its own steps bring it on.                                   *)
DueSees ==
  \/ DueNext /\ UNCHANGED <<now, logVars>>
  \/ (\E v \in SurveyIds : DeleteSurvey(v)) /\ UNCHANGED <<now, logVars>>
  \/ LogNext /\ UNCHANGED <<now, surveyVars>>
  \/ UNCHANGED <<logVars, shown, asks, marks, overtaken>> /\ (now' = now \/ Tick)

LEMMA DueSeesAll == [ServiceNext]_serviceVars => DueSees
  <1>1. (\E v \in SurveyIds : \E row \in Drafts : CreateSurvey(v, row)) => UNCHANGED <<shown, asks, marks, overtaken>>
    BY DEF CreateSurvey
  <1>2. EditNext \/ AnswerNext => UNCHANGED <<shown, asks, marks, overtaken>>
    BY DEF EditNext, AnswerNext, ReadForUpdate, UpdateSurvey, SubmitSurveyResponse, CountResponses,
           CountGroups, CountBuckets, Reply
  <1>3. QED
    BY <1>1, <1>2 DEF ServiceNext, serviceVars, Surveys, Answers, Quota, Schema, Frames, RowNext,
           surveyVars, DueSees

LEMMA DueNextInv == DueInv /\ DueSees => DueInv'
  <1> SUFFICES ASSUME DueInv, DueSees PROVE DueInv'
    OBVIOUS
  <1>1. CASE UNCHANGED <<logVars, shown, asks, marks, overtaken>> /\ (now' = now \/ Tick)
    <2>1. now' \in Nat
      BY <1>1 DEF DueInv, DueType, Tick
    <2>2. QED
      BY <1>1, <2>1 DEF DueInv, DueType, Remembered, Asks, AskForm, logVars
  <1>2. QED
    BY <1>1, AskInv, MarkInv, DeleteInv, LogInv DEF DueSees, DueNext, AskStep

(* A survey that was recorded as shown to a person is not brought back to  *)
(* them, in any session of theirs and on any device, by a trigger event no *)
(* later than that, unless an earlier report was written over the record.  *)
THEOREM ShownIsNotBroughtBack == ServiceSpec => NotBroughtBack
  <1>1. DueInv /\ [ServiceNext]_serviceVars => DueInv'
    BY DueNextInv, DueSeesAll
  <1>2. ASSUME DueInv, DueSees, NEW d \in Devices, NEW k \in marks \ overtaken, BroughtBack(k, d)
        PROVE  ~SamePerson(k.session, k.user, SessionOfDevice[d], asks[d].user)
    <2> DEFINE q == asks[d]
               key == UserKey(SessionOfDevice[d], q.user)
    <2>1. /\ q.at = "weighs" /\ q.survey = k.survey /\ q.last <= k.time
          /\ k.survey \in asks'[d].due /\ k.survey \notin q.due
      BY <1>2 DEF BroughtBack
    <2>2. AskForm(d, q) /\ Asks /\ k \in Mark
      BY <1>2 DEF DueInv, DueType, Asks
    <2>3. DueSurveys(d)
      <3>1. DueNext
        BY <1>2, <2>1 DEF DueSees, surveyVars, DeleteSurvey
      <3>2. PICK e \in Devices : AskStep(e) \/ MarkSurveyShown(e)
        BY <3>1 DEF DueNext, AskStep
      <3>3. e = d
        BY <2>1, <2>2, <3>2 DEF Asks, AskStep, AskDue, ListSurveys, LastTrigger, DueSurveys, Sift, Show, ReadForMark,
             MarkSurveyShown
      <3>4. QED
        BY <2>1, <3>2, <3>3 DEF AskStep, AskDue, ListSurveys, LastTrigger, Show, ReadForMark, MarkSurveyShown, Idle
    <2>4. ~(key \in DOMAIN shown[q.survey] /\ shown[q.survey][key] >= q.last)
      <3>1. SUFFICES ASSUME key \in DOMAIN shown[q.survey] /\ shown[q.survey][key] >= q.last PROVE FALSE
        OBVIOUS
      <3>2. Sift(d, q.left, q.due)
        BY <2>3, <3>1 DEF DueSurveys
      <3>3. asks'[d].due = q.due
        BY <2>2, <3>2 DEF Sift, Asks
      <3>4. QED
        BY <2>1, <3>3
    <2>5. ASSUME SamePerson(k.session, k.user, SessionOfDevice[d], q.user) PROVE FALSE
      <3>1. key \in DOMAIN shown[k.survey] /\ shown[k.survey][key] >= k.time
        BY <1>2, <2>5, SameKey DEF DueInv, Remembered
      <3>2. shown[k.survey][key] \in Nat /\ k.time \in Nat /\ q.last \in Nat
        BY <1>2, <2>1, <2>2, <3>1 DEF DueInv, DueType, Mark, AskForm
      <3>3. QED
        BY <2>1, <2>4, <3>1, <3>2
    <2>6. QED
      BY <2>5
  <1>3. DueInv /\ [ServiceNext]_serviceVars =>
          [\A d \in Devices, k \in marks \ overtaken :
             BroughtBack(k, d) => ~SamePerson(k.session, k.user, SessionOfDevice[d], asks[d].user)]_surveyVars
    BY <1>2, DueSeesAll
  <1>4. QED
    BY DueInitInv, <1>1, <1>3, PTL DEF ServiceSpec, NotBroughtBack

-----------------------------------------------------------------------------
(* Sums over finite sets.  A fold is a recursive function, that is a choice *)
(* among the functions that obey its equation: one such function exists,    *)
(* and what it adds up follows by taking elements away one by one.          *)


Removable(D, Good) == \A S \in SUBSET D : (\A x \in S : S \ {x} \in Good) => S \in Good

(* What holds of a set when it holds of the set less any element of it     *)
(* holds of every part of a finite set.                                    *)
LEMMA ByRemoval ==
    ASSUME NEW D, IsFiniteSet(D), NEW Good, Removable(D, Good)
    PROVE  SUBSET D \subseteq Good
<1> DEFINE Sizes == {Cardinality(S) : S \in (SUBSET D) \ Good}
<1> SUFFICES ASSUME (SUBSET D) \ Good # {} PROVE FALSE
  OBVIOUS
<1>1. \A S \in SUBSET D : IsFiniteSet(S) /\ Cardinality(S) \in Nat
  BY FS_Subset, FS_CardinalityType
<1>2. PICK n \in Sizes : \A m \in Sizes : n <= m
  <2>1. Sizes \subseteq Nat /\ Sizes # {}
    BY <1>1
  <2> HIDE DEF Sizes
  <2> QED  BY <2>1, LeastExists
<1>3. PICK S \in (SUBSET D) \ Good : n = Cardinality(S)
  BY <1>2
<1>4. ASSUME NEW x \in S PROVE S \ {x} \in Good
  <2>1. Cardinality(S \ {x}) = n - 1 /\ n \in Nat
    BY <1>1, <1>3, FS_RemoveElement
  <2>2. ~(n <= n - 1)
    BY <2>1
  <2>3. Cardinality(S \ {x}) \notin Sizes
    BY <1>2, <2>1, <2>2
  <2>4. S \ {x} \in SUBSET D
    BY <1>3
  <2> QED  BY <2>3, <2>4
<1> QED  BY <1>3, <1>4 DEF Removable

(* The table from which a sum over D is read.                              *)
AnyOf(S) == CHOOSE x \in S : TRUE
IsSumTable(g, D, f) ==
    g = [S \in SUBSET D |-> IF S = {} THEN 0 ELSE f[AnyOf(S)] + g[S \ {AnyOf(S)}]]

LEMMA SumTableExists ==
    ASSUME NEW D, IsFiniteSet(D), NEW f, f \in [D -> Nat]
    PROVE  \E g \in [SUBSET D -> Nat] : IsSumTable(g, D, f)
<1> DEFINE Small(k) == {S \in SUBSET D : Cardinality(S) <= k}
           Rule(g, S) == IF S = {} THEN 0 ELSE f[AnyOf(S)] + g[S \ {AnyOf(S)}]
           Has(k) == \E g \in [Small(k) -> Nat] : \A S \in Small(k) : g[S] = Rule(g, S)
           Lacking == {k \in Nat : ~Has(k)}
<1>1. \A S \in SUBSET D : IsFiniteSet(S) /\ Cardinality(S) \in Nat
  BY FS_Subset, FS_CardinalityType
<1>2. \A S \in SUBSET D : S # {} => AnyOf(S) \in S /\ f[AnyOf(S)] \in Nat
  BY DEF AnyOf
<1>3. \A S \in SUBSET D : S # {} => Cardinality(S \ {AnyOf(S)}) = Cardinality(S) - 1
  BY <1>1, <1>2, FS_RemoveElement
<1>4. Has(0)
  <2>1. \A S \in Small(0) : S = {}
    BY <1>1, FS_EmptySet
  <2>2. [S \in Small(0) |-> 0] \in [Small(0) -> Nat]
    OBVIOUS
  <2> QED  BY <2>1, <2>2
<1>5. ASSUME NEW k \in Nat, Has(k) PROVE Has(k + 1)
  <2>1. PICK g \in [Small(k) -> Nat] : \A S \in Small(k) : g[S] = Rule(g, S)
    BY <1>5
  <2> DEFINE h == [S \in Small(k + 1) |-> Rule(g, S)]
  <2>2. \A S \in Small(k + 1) : S # {} => S \ {AnyOf(S)} \in Small(k)
    BY <1>1, <1>3
  <2>3. \A S \in Small(k + 1) : Rule(g, S) \in Nat
    BY <1>2, <2>2
  <2>4. \A S \in Small(k) : S \in Small(k + 1) /\ h[S] = g[S]
    BY <1>1, <2>1
  <2>5. \A S \in Small(k + 1) : h[S] = Rule(h, S)
    BY <2>2, <2>4
  <2>6. h \in [Small(k + 1) -> Nat]
    BY <2>3
  <2> HIDE DEF h
  <2> QED  BY <2>5, <2>6
<1> HIDE DEF Has
<1>6. Lacking = {}
  <2> SUFFICES ASSUME Lacking # {} PROVE FALSE
    OBVIOUS
  <2>1. PICK m \in Lacking : \A k \in Lacking : m <= k
    BY LeastExists
  <2>2. m \in Nat /\ m # 0 /\ ~Has(m)
    BY <1>4, <2>1
  <2>3. m - 1 \in Nat /\ (m - 1) + 1 = m /\ ~(m <= m - 1)
    BY <2>2
  <2>4. Has(m - 1)
    BY <2>1, <2>3
  <2> QED  BY <1>5, <2>2, <2>3, <2>4
<1>7. Has(Cardinality(D)) /\ Small(Cardinality(D)) = SUBSET D
  BY <1>6, FS_CardinalityType, FS_Subset
<1>8. PICK g : g \in [SUBSET D -> Nat] /\ \A S \in SUBSET D : g[S] = Rule(g, S)
  BY <1>7 DEF Has
<1>9. g = [S \in SUBSET D |-> g[S]]
  BY <1>8
<1> HIDE DEF Small
<1>10. [S \in SUBSET D |-> g[S]] = [S \in SUBSET D |-> Rule(g, S)]
  BY <1>8
<1> QED  BY <1>8, <1>9, <1>10, Zenon DEF IsSumTable

(* The order of the elements does not matter.                              *)
Sums(g, D, f) ==
    /\ g \in [SUBSET D -> Nat]
    /\ g[{}] = 0
    /\ \A S \in SUBSET D : \A x \in S : g[S] = f[x] + g[S \ {x}]

LEMMA TableSums ==
    ASSUME NEW D, IsFiniteSet(D), NEW f, f \in [D -> Nat],
           NEW g, g \in [SUBSET D -> Nat], IsSumTable(g, D, f)
    PROVE  Sums(g, D, f)
<1> DEFINE Holds == {S \in SUBSET D : \A x \in S : g[S] = f[x] + g[S \ {x}]}
<1>1. \A S \in SUBSET D : g[S] = IF S = {} THEN 0 ELSE f[AnyOf(S)] + g[S \ {AnyOf(S)}]
  BY DEF IsSumTable
<1>2. ASSUME NEW S \in SUBSET D, \A x \in S : S \ {x} \in Holds PROVE S \in Holds
  <2> SUFFICES ASSUME NEW x \in S PROVE g[S] = f[x] + g[S \ {x}]
    OBVIOUS
  <2> DEFINE y == AnyOf(S)
  <2>1. y \in S
    BY DEF AnyOf
  <2>2. g[S] = f[y] + g[S \ {y}]
    BY <1>1
  <2> HIDE DEF y
  <2>3. CASE x = y
    BY <2>2, <2>3
  <2>4. CASE x # y
    <3>1. g[S \ {y}] = f[x] + g[(S \ {y}) \ {x}]
      BY <1>2, <2>1, <2>4
    <3>2. g[S \ {x}] = f[y] + g[(S \ {x}) \ {y}]
      BY <1>2, <2>1, <2>4
    <3>3. (S \ {y}) \ {x} = (S \ {x}) \ {y} /\ (S \ {x}) \ {y} \in SUBSET D
      OBVIOUS
    <3>4. f[x] \in Nat /\ f[y] \in Nat /\ g[(S \ {x}) \ {y}] \in Nat
      BY <2>1, <3>3
    <3>5. g[(S \ {y}) \ {x}] = g[(S \ {x}) \ {y}]
      BY <3>3
    <3> HIDE DEF Holds
    <3>6. g[S] = f[y] + (f[x] + g[(S \ {x}) \ {y}])
      BY <2>2, <3>1, <3>5
    <3>7. f[x] + g[S \ {x}] = f[x] + (f[y] + g[(S \ {x}) \ {y}])
      BY <3>2
    <3>8. \A a, b, c \in Nat : a + (b + c) = b + (a + c)
      OBVIOUS
    <3> QED  BY <3>4, <3>6, <3>7, <3>8
  <2> QED  BY <2>3, <2>4
<1>3. SUBSET D \subseteq Holds
  <2>1. Removable(D, Holds)
    BY <1>2, Zenon DEF Removable
  <2> HIDE DEF Holds
  <2> QED  BY <2>1, ByRemoval
<1>4. g[{}] = 0
  BY <1>1
<1> QED  BY <1>3, <1>4 DEF Sums

(* What a fold over a part of a table adds up is read from the sum table.  *)
Folds(g, D, f) == \A S \in SUBSET D : FoldFunctionOnSet(+, 0, f, S) = g[S]

LEMMA FoldsAreSums ==
    ASSUME NEW D, IsFiniteSet(D), NEW f, f \in [D -> Nat]
    PROVE  \E g : Sums(g, D, f) /\ Folds(g, D, f)
<1>1. PICK g \in [SUBSET D -> Nat] : Sums(g, D, f)
  BY SumTableExists, TableSums
<1>2. ASSUME NEW S \in SUBSET D PROVE FoldFunctionOnSet(+, 0, f, S) = g[S]
  <2> DEFINE Rule(t, P) == IF P = {} THEN 0 ELSE f[AnyOf(P)] + t[P \ {AnyOf(P)}]
             T == CHOOSE t : t = [P \in SUBSET S |-> Rule(t, P)]
             part == [P \in SUBSET S |-> g[P]]
  <2>1. FoldFunctionOnSet(+, 0, f, S) = T[S]
    BY Zenon DEF FoldFunctionOnSet, MapThenFoldSet, AnyOf
  <2>2. \A P \in SUBSET S : part[P] = Rule(part, P)
    <3> TAKE P \in SUBSET S
    <3>1. CASE P = {}
      BY <1>1, <3>1 DEF Sums
    <3>2. CASE P # {}
      <4>1. AnyOf(P) \in P /\ P \in SUBSET D
        BY <3>2 DEF AnyOf
      <4>2. g[P] = f[AnyOf(P)] + g[P \ {AnyOf(P)}]
        BY <1>1, <4>1 DEF Sums
      <4>3. P \ {AnyOf(P)} \in SUBSET S
        OBVIOUS
      <4> QED  BY <3>2, <4>2, <4>3
    <3> QED  BY <3>1, <3>2
  <2>3. part = [P \in SUBSET S |-> Rule(part, P)]
    <3>1. part = [P \in SUBSET S |-> part[P]]
      OBVIOUS
    <3> HIDE DEF part, Rule
    <3> QED  BY <2>2, <3>1
  <2>4. T = [P \in SUBSET S |-> Rule(T, P)]
    <3> HIDE DEF part, Rule
    <3> QED  BY <2>3, Zenon
  <2> HIDE DEF T
  <2> DEFINE Same == {P \in SUBSET S : T[P] = g[P]}
  <2>5. ASSUME NEW P \in SUBSET S, \A x \in P : P \ {x} \in Same PROVE P \in Same
    <3>1. P # {} => AnyOf(P) \in P
      BY DEF AnyOf
    <3>2. P # {} => T[P \ {AnyOf(P)}] = g[P \ {AnyOf(P)}]
      BY <2>5, <3>1
    <3>3. T[P] = Rule(T, P) /\ g[P] = Rule(g, P)
      <4>1. T[P] = Rule(T, P)
        <5> HIDE DEF Rule
        <5> QED  BY <2>4
      <4>2. g[P] = part[P] /\ part[P] = Rule(part, P)
        BY <2>2
      <4>3. P # {} => part[P \ {AnyOf(P)}] = g[P \ {AnyOf(P)}]
        OBVIOUS
      <4> HIDE DEF part
      <4> QED  BY <4>1, <4>2, <4>3
    <3> QED  BY <3>2, <3>3
  <2>6. SUBSET S \subseteq Same
    <3>1. Removable(S, Same)
      BY <2>5, Zenon DEF Removable
    <3>2. IsFiniteSet(S)
      BY FS_Subset
    <3> HIDE DEF Same
    <3> QED  BY <3>1, <3>2, ByRemoval
  <2> QED  BY <2>1, <2>6
<1> QED  BY <1>1, <1>2 DEF Folds

NothingIn(f, A) == \A x \in A : f[x] = 0

LEMMA SumOfNothing ==
    ASSUME NEW D, IsFiniteSet(D), NEW f, NEW g, Sums(g, D, f), NEW A, A \subseteq D, NothingIn(f, A)
    PROVE  g[A] = 0
<1> DEFINE Good == {S \in SUBSET A : g[S] = 0}
<1>1. ASSUME NEW S \in SUBSET A, \A x \in S : S \ {x} \in Good PROVE S \in Good
  <2>1. CASE S = {}
    BY <2>1 DEF Sums
  <2>2. ASSUME NEW x \in S PROVE S \in Good
    <3>1. g[S] = f[x] + g[S \ {x}]
      BY DEF Sums
    <3> QED  BY <1>1, <3>1 DEF NothingIn
  <2> QED  BY <2>1, <2>2
<1>2. IsFiniteSet(A)
  BY FS_Subset
<1>3. SUBSET A \subseteq Good
  <2>1. Removable(A, Good)
    BY <1>1, Zenon DEF Removable
  <2> HIDE DEF Good
  <2> QED  BY <1>2, <2>1, ByRemoval
<1> QED  BY <1>3

Additive(g, D) == \A A, B \in SUBSET D : A \cap B = {} => g[A \cup B] = g[A] + g[B]

LEMMA SumsAreAdditive ==
    ASSUME NEW D, IsFiniteSet(D), NEW f, f \in [D -> Nat], NEW g, Sums(g, D, f)
    PROVE  Additive(g, D)
<1>1. ASSUME NEW A \in SUBSET D, NEW B \in SUBSET D, A \cap B = {} PROVE g[A \cup B] = g[A] + g[B]
  <2> DEFINE Good == {S \in SUBSET A : g[S \cup B] = g[S] + g[B]}
  <2>1. ASSUME NEW S \in SUBSET A, \A x \in S : S \ {x} \in Good PROVE S \in Good
    <3>1. CASE S = {}
      <4>1. S \cup B = B /\ g[B] \in Nat /\ g[S] = 0
        BY <3>1 DEF Sums
      <4>2. g[S \cup B] = g[B]
        BY <4>1, Zenon
      <4>3. g[B] = 0 + g[B]
        BY <4>1
      <4> QED  BY <4>1, <4>2, <4>3
    <3>2. ASSUME NEW x \in S PROVE S \in Good
      <4>1. S \in SUBSET D /\ S \cup B \in SUBSET D /\ x \in S \cup B /\ S \ {x} \in SUBSET D
        OBVIOUS
      <4>2. (S \cup B) \ {x} = (S \ {x}) \cup B
        BY <1>1
      <4>3. g[S] = f[x] + g[S \ {x}] /\ g[S \cup B] = f[x] + g[(S \cup B) \ {x}]
        BY <4>1 DEF Sums
      <4>4. g[(S \ {x}) \cup B] = g[S \ {x}] + g[B]
        BY <2>1
      <4>5. f[x] \in Nat /\ g[S \ {x}] \in Nat /\ g[B] \in Nat
        BY <4>1 DEF Sums
      <4>6. g[S \cup B] = g[S] + g[B]
        <5> DEFINE a == g[S \ {x}]
                   c == g[B]
                   d == f[x]
        <5>1. g[S] = d + a /\ g[S \cup B] = d + (a + c) /\ a \in Nat /\ c \in Nat /\ d \in Nat
          BY <4>2, <4>3, <4>4, <4>5
        <5> HIDE DEF a, c, d
        <5>2. g[S \cup B] = (d + a) + c
          BY <5>1
        <5> QED  BY <5>1, <5>2 DEF c
      <4> QED  BY <4>6
    <3> QED  BY <3>1, <3>2
  <2>2. IsFiniteSet(A)
    BY FS_Subset
  <2>3. SUBSET A \subseteq Good
    <3>1. Removable(A, Good)
      BY <2>1, Zenon DEF Removable
    <3> HIDE DEF Good
    <3> QED  BY <2>2, <3>1, ByRemoval
  <2> QED  BY <2>3
<1> QED  BY <1>1 DEF Additive

LEMMA SumOfOne ==
    ASSUME NEW D, NEW f, f \in [D -> Nat], NEW g, Sums(g, D, f), NEW x \in D
    PROVE  g[{x}] = f[x]
<1>1. g[{x}] = f[x] + g[{x} \ {x}] /\ {x} \ {x} = {} /\ g[{}] = 0 /\ f[x] \in Nat
  BY DEF Sums
<1> QED  BY <1>1

-----------------------------------------------------------------------------
(* The results of a survey.                                                *)

FiniteScores == IsFiniteSet(Scores)

Asked == Scores \cup {NoScore}
\* The count of the answers that a statement finds with a score in S.
Counting(row, S) == FoldFunctionOnSet(+, 0, row, S)
GroupRow(row, kind) == [x \in DOMAIN Groups(kind) |-> Counting(row, Groups(kind)[x])]
NoMore(row, then) == \A a \in Asked : row[a] <= then[a]
RowInRange(row, kind) == \A s \in Scores : row[s] > 0 => s \in Buckets(kind)

ReportForm(r) ==
  r = [at |-> r.at, survey |-> r.survey, kind |-> r.kind, total |-> r.total, groups |-> r.groups,
       sum |-> r.sum, unscored |-> r.unscored, gone |-> r.gone]

\* What the numbers read so far are worth, of the answers there are.
ReportHolds(r, row) ==
  /\ r.total \in Nat /\ r.unscored \in Nat
  /\ r.at = "groups" => r.total <= Counting(row, Scores) + r.unscored
  /\ r.at \in {"buckets", "done"} =>
       /\ Grouped(r) \in Nat /\ r.total <= Grouped(r) + r.unscored /\ Grouped(r) <= Counting(row, Scores)
       /\ r.kind # "nps" => r.groups.satisfied <= r.groups.scored
  /\ r.at = "done" =>
       /\ r.sum \in Nat /\ r.sum <= Counting(row, Scores)
       /\ RowInRange(row, r.kind) => Grouped(r) <= r.sum

\* The inductive invariant: answers only come, so what was counted is a lower
\* bound of what is there, until the survey is deleted.
ReportInv ==
  /\ answers \in [SurveyIds -> [Asked -> Nat]]
  /\ report.at \in {"idle", "groups", "buckets", "done"}
  /\ report.at # "idle" => ReportForm(report) /\ report.survey \in SurveyIds
  /\ report.at # "idle" /\ ~report.gone => ReportHolds(report, answers[report.survey])

LEMMA ReportStarts == SurveyInit => ReportInv
  BY DEF SurveyInit, ReportInv, Asked, Idle

LEMMA CountIsOfRow == ASSUME NEW v, NEW S PROVE CountOf(v, S) = Counting(answers[v], S)
  BY Zenon DEF CountOf, Counting

LEMMA ReportKept ==
    ASSUME ReportInv, UNCHANGED <<answers, report>>
    PROVE  ReportInv'
  BY DEF ReportInv, ReportForm, ReportHolds, Grouped

\* Counts of one row are the sums of one table.
LEMMA CountsAreSums ==
    ASSUME FiniteScores, NEW row, row \in [Asked -> Nat]
    PROVE  \E g : /\ Sums(g, Asked, row) /\ Additive(g, Asked)
                  /\ \A S \in SUBSET Asked : Counting(row, S) = g[S] /\ g[S] \in Nat
  <1>1. IsFiniteSet(Asked)
    BY FS_Union, FS_Singleton DEF FiniteScores, Asked
  <1>2. PICK g : Sums(g, Asked, row) /\ Folds(g, Asked, row)
    BY <1>1, FoldsAreSums
  <1>3. \A S \in SUBSET Asked : Counting(row, S) = g[S] /\ g[S] \in Nat
    BY <1>2, Zenon DEF Counting, Folds, Sums
  <1>4. Additive(g, Asked)
    BY <1>1, <1>2, SumsAreAdditive
  <1> QED  BY <1>2, <1>3, <1>4

LEMMA CountIsNat ==
    ASSUME FiniteScores, NEW row, row \in [Asked -> Nat], NEW S, S \subseteq Asked
    PROVE  Counting(row, S) \in Nat
  BY CountsAreSums

LEMMA CountingParts ==
    ASSUME FiniteScores, NEW row, row \in [Asked -> Nat], NEW A, A \subseteq Asked, NEW B, B \subseteq Asked, A \cap B = {}
    PROVE  Counting(row, A \cup B) = Counting(row, A) + Counting(row, B)
  <1>1. PICK g : Additive(g, Asked) /\ \A S \in SUBSET Asked : Counting(row, S) = g[S] /\ g[S] \in Nat
    BY CountsAreSums
  <1>2. A \in SUBSET Asked /\ B \in SUBSET Asked /\ A \cup B \in SUBSET Asked
    OBVIOUS
  <1>3. g[A \cup B] = g[A] + g[B]
    BY <1>1, <1>2, Zenon DEF Additive
  <1> QED  BY <1>1, <1>2, <1>3

\* More answers, more counted.
LEMMA CountingGrows ==
    ASSUME FiniteScores, NEW row, row \in [Asked -> Nat], NEW then, then \in [Asked -> Nat], NoMore(row, then)
    PROVE  Counting(row, Scores) <= Counting(then, Scores)
  <1>1. PICK g : Sums(g, Asked, row) /\ \A S \in SUBSET Asked : Counting(row, S) = g[S] /\ g[S] \in Nat
    BY CountsAreSums
  <1>2. PICK h : Sums(h, Asked, then) /\ \A S \in SUBSET Asked : Counting(then, S) = h[S] /\ h[S] \in Nat
    BY CountsAreSums
  <1> DEFINE Good == {S \in SUBSET Scores : g[S] <= h[S]}
  <1>3. ASSUME NEW S \in SUBSET Scores, \A x \in S : S \ {x} \in Good PROVE S \in Good
    <2>1. CASE S = {}
      <3>1. g[S] = 0 /\ h[S] = 0
        BY <1>1, <1>2, <2>1 DEF Sums
      <3> QED  BY <3>1
    <2>2. ASSUME NEW x \in S PROVE S \in Good
      <3>1. S \in SUBSET Asked /\ S \ {x} \in SUBSET Asked /\ x \in Asked
        BY DEF Asked
      <3>2. g[S] = row[x] + g[S \ {x}] /\ h[S] = then[x] + h[S \ {x}]
        BY <1>1, <1>2, <3>1 DEF Sums
      <3>3. g[S \ {x}] <= h[S \ {x}]
        BY <1>3
      <3>4. row[x] <= then[x] /\ row[x] \in Nat /\ then[x] \in Nat
        BY <3>1 DEF NoMore
      <3>5. g[S \ {x}] \in Nat /\ h[S \ {x}] \in Nat
        BY <1>1, <1>2, <3>1
      <3>6. g[S] <= h[S]
        BY <3>2, <3>3, <3>4, <3>5
      <3> QED  BY <3>6
    <2> QED  BY <2>1, <2>2
  <1>4. SUBSET Scores \subseteq Good
    <2>1. Removable(Scores, Good)
      BY <1>3, Zenon DEF Removable
    <2> HIDE DEF Good
    <2> QED  BY <2>1, ByRemoval DEF FiniteScores
  <1>5. g[Scores] <= h[Scores]
    BY <1>4
  <1>6. Scores \in SUBSET Asked
    BY DEF Asked
  <1> QED  BY <1>1, <1>2, <1>5, <1>6

LEMMA ScoresAreAsked == Scores \subseteq Asked /\ NoScore \in Asked
  BY DEF Asked

LEMMA HoldsLater ==
    ASSUME FiniteScores, NEW r, NEW row, row \in [Asked -> Nat], NEW then, then \in [Asked -> Nat], NoMore(row, then),
           ReportHolds(r, row)
    PROVE  ReportHolds(r, then)
  <1>1. /\ Counting(row, Scores) <= Counting(then, Scores)
        /\ Counting(row, Scores) \in Nat /\ Counting(then, Scores) \in Nat
    BY CountingGrows, CountIsNat, ScoresAreAsked
  <1>2. RowInRange(then, r.kind) => RowInRange(row, r.kind)
    BY ScoresAreAsked DEF RowInRange, NoMore
  <1> QED  BY <1>1, <1>2 DEF ReportHolds

\* The groups of a type hold each score once.
LEMMA GroupsAddUp ==
    ASSUME FiniteScores, NEW row, row \in [Asked -> Nat], NEW r, r.groups = GroupRow(row, r.kind)
    PROVE  /\ Grouped(r) = Counting(row, Scores)
           /\ r.kind # "nps" => r.groups.satisfied <= r.groups.scored
  <1>1. Scores \subseteq Nat /\ Scores \subseteq Asked
    BY SurveyAssumption, ScoresAreAsked, Zenon DEF SurveyAssumption
  <1>2. CASE r.kind = "nps"
    <2> DEFINE P == {s \in Scores : s >= 9}
               Q == {s \in Scores : s \in 7..8}
               R == {s \in Scores : s \in 0..6}
    <2>1. Groups(r.kind) = [promoters |-> P, passives |-> Q, detractors |-> R]
      BY <1>2 DEF Groups
    <2>2. \A s \in Nat : s >= 9 \/ s \in 7..8 \/ s \in 0..6
      OBVIOUS
    <2>3. (P \cup Q) \cup R = Scores
      BY <1>1, <2>2
    <2>4. (P \cup Q) \cap R = {} /\ P \cap Q = {}
      BY <1>1
    <2>5. P \subseteq Asked /\ Q \subseteq Asked /\ R \subseteq Asked /\ P \cup Q \subseteq Asked
      BY <1>1
    <2> HIDE DEF P, Q, R
    <2>6. /\ r.groups.promoters = Counting(row, P) /\ r.groups.passives = Counting(row, Q)
          /\ r.groups.detractors = Counting(row, R)
      BY <2>1 DEF GroupRow
    <2>7. Counting(row, P \cup Q) = Counting(row, P) + Counting(row, Q)
      BY <2>4, <2>5, CountingParts
    <2>8. Counting(row, (P \cup Q) \cup R) = Counting(row, P \cup Q) + Counting(row, R)
      BY <2>4, <2>5, CountingParts
    <2>9. Grouped(r) = Counting(row, P) + Counting(row, Q) + Counting(row, R)
      BY <1>2, <2>6 DEF Grouped
    <2>10. Grouped(r) = Counting(row, Scores)
      BY <2>3, <2>7, <2>8, <2>9
    <2> QED  BY <1>2, <2>10
  <1>3. CASE r.kind # "nps"
    <2> DEFINE P == {s \in Scores : s >= 4}
    <2>1. Groups(r.kind) = [satisfied |-> P, scored |-> Scores]
      BY <1>3 DEF Groups
    <2>2. P \subseteq Asked /\ Scores \ P \subseteq Asked /\ P \cap (Scores \ P) = {} /\ P \cup (Scores \ P) = Scores
      BY <1>1
    <2> HIDE DEF P
    <2>3. r.groups.satisfied = Counting(row, P) /\ r.groups.scored = Counting(row, Scores)
      BY <2>1 DEF GroupRow
    <2>4. Counting(row, P \cup (Scores \ P)) = Counting(row, P) + Counting(row, Scores \ P)
      BY <2>2, CountingParts
    <2>5. Counting(row, P) \in Nat /\ Counting(row, Scores \ P) \in Nat
      BY <2>2, CountIsNat
    <2>6. Counting(row, P) <= Counting(row, Scores)
      <3>1. Counting(row, Scores) = Counting(row, P) + Counting(row, Scores \ P)
        BY <2>2, <2>4, Zenon
      <3> QED  BY <2>5, <3>1
    <2>7. r.groups.satisfied <= r.groups.scored
      BY <2>3, <2>6
    <2>8. Grouped(r) = Counting(row, Scores)
      BY <1>3, <2>3, Zenon DEF Grouped
    <2> QED  BY <2>7, <2>8
  <1> QED  BY <1>2, <1>3

\* The buckets are counted of some of the scores, and of all in their range.
LEMMA BucketsCount ==
    ASSUME FiniteScores, NEW row, row \in [Asked -> Nat], NEW kind
    PROVE  LET n == Counting(row, Buckets(kind) \cap Scores) IN
           /\ n \in Nat /\ n <= Counting(row, Scores)
           /\ RowInRange(row, kind) => n = Counting(row, Scores)
  <1> DEFINE Seen == Buckets(kind) \cap Scores
             Rest == Scores \ Seen
  <1>1. /\ Seen \subseteq Asked /\ Rest \subseteq Asked /\ Seen \cap Rest = {} /\ Seen \cup Rest = Scores
    BY ScoresAreAsked
  <1>2. RowInRange(row, kind) => NothingIn(row, Rest)
    <2>1. \A s \in Scores : row[s] \in Nat
      BY ScoresAreAsked
    <2> QED  BY <2>1 DEF RowInRange, NothingIn
  <1> HIDE DEF Seen, Rest
  <1>3. Counting(row, Seen \cup Rest) = Counting(row, Seen) + Counting(row, Rest)
    BY <1>1, CountingParts
  <1>4. Counting(row, Seen) \in Nat /\ Counting(row, Rest) \in Nat
    BY <1>1, CountIsNat
  <1>5. NothingIn(row, Rest) => Counting(row, Rest) = 0
    <2>1. PICK g : Sums(g, Asked, row) /\ \A S \in SUBSET Asked : Counting(row, S) = g[S] /\ g[S] \in Nat
      BY CountsAreSums
    <2>2. IsFiniteSet(Asked)
      BY FS_Union, FS_Singleton DEF FiniteScores, Asked
    <2>3. NothingIn(row, Rest) => g[Rest] = 0
      BY <1>1, <2>1, <2>2, SumOfNothing
    <2> QED  BY <1>1, <2>1, <2>3
  <1>6. /\ Counting(row, Seen) <= Counting(row, Scores)
        /\ RowInRange(row, kind) => Counting(row, Seen) = Counting(row, Scores)
    <2>1. Counting(row, Scores) = Counting(row, Seen) + Counting(row, Rest)
      BY <1>1, <1>3, Zenon
    <2>2. Counting(row, Seen) <= Counting(row, Scores)
      BY <1>4, <2>1
    <2>3. Counting(row, Rest) = 0 => Counting(row, Seen) = Counting(row, Scores)
      BY <1>4, <2>1
    <2> QED  BY <1>2, <1>5, <2>2, <2>3, Zenon
  <1> QED  BY <1>4, <1>6 DEF Seen

LEMMA AnswerInv ==
    ASSUME FiniteScores, ReportInv, NEW v \in SurveyIds, NEW s \in Asked, SubmitSurveyResponse(v, s)
    PROVE  ReportInv'
  <1>1. answers \in [SurveyIds -> [Asked -> Nat]]
    BY DEF ReportInv
  <1>2. /\ answers' = [answers EXCEPT ![v] = [answers[v] EXCEPT ![s] = answers[v][s] + 1]] /\ report' = report
    BY DEF SubmitSurveyResponse
  <1>3. [answers[v] EXCEPT ![s] = answers[v][s] + 1] \in [Asked -> Nat]
    BY <1>1
  <1>4. answers' \in [SurveyIds -> [Asked -> Nat]]
    BY <1>1, <1>2, <1>3
  <1>5. ASSUME NEW w \in SurveyIds PROVE NoMore(answers[w], answers'[w])
    BY <1>1, <1>2 DEF NoMore
  <1>6. CASE report.at = "idle"
    BY <1>2, <1>4, <1>6 DEF ReportInv
  <1>7. CASE report.at # "idle"
    <2>1. report.survey \in SurveyIds
      BY <1>7 DEF ReportInv
    <2>2. ~report.gone => ReportHolds(report, answers'[report.survey])
      <3>1. SUFFICES ASSUME ~report.gone PROVE ReportHolds(report, answers'[report.survey])
        OBVIOUS
      <3>2. ReportHolds(report, answers[report.survey])
        BY <1>7, <3>1 DEF ReportInv
      <3>3. answers[report.survey] \in [Asked -> Nat] /\ answers'[report.survey] \in [Asked -> Nat]
        BY <1>1, <1>4, <2>1
      <3>4. NoMore(answers[report.survey], answers'[report.survey])
        BY <1>5, <2>1
      <3> QED  BY <3>2, <3>3, <3>4, HoldsLater
    <2>3. ReportForm(report) /\ report.at \in {"idle", "groups", "buckets", "done"}
      BY <1>7 DEF ReportInv
    <2> QED  BY <1>2, <1>4, <2>1, <2>2, <2>3 DEF ReportInv
  <1> QED  BY <1>6, <1>7

LEMMA DeletionInv ==
    ASSUME ReportInv, NEW v \in SurveyIds, DeleteSurvey(v)
    PROVE  ReportInv'
  <1>1. answers \in [SurveyIds -> [Asked -> Nat]]
    BY DEF ReportInv
  <1>2. answers' = [answers EXCEPT ![v] = [s \in DOMAIN answers[v] |-> 0]]
    BY DEF DeleteSurvey
  <1>3. [s \in DOMAIN answers[v] |-> 0] \in [Asked -> Nat]
    BY <1>1
  <1>4. answers' \in [SurveyIds -> [Asked -> Nat]]
    BY <1>1, <1>2, <1>3
  <1>5. CASE report.at = "idle" \/ report.survey # v
    <2>1. report' = report
      BY <1>5 DEF DeleteSurvey
    <2>2. report.at # "idle" => answers'[report.survey] = answers[report.survey]
      BY <1>1, <1>2, <1>5 DEF ReportInv
    <2> QED  BY <1>4, <2>1, <2>2 DEF ReportInv, ReportForm, ReportHolds, Grouped
  <1>6. CASE report.at # "idle" /\ report.survey = v
    <2>1. report' = [report EXCEPT !.gone = TRUE] /\ ReportForm(report)
      BY <1>6 DEF DeleteSurvey, ReportInv
    <2>2. /\ report'.at = report.at /\ report'.survey = report.survey /\ report'.gone = TRUE
          /\ report' = [at |-> report.at, survey |-> report.survey, kind |-> report.kind, total |-> report.total,
                        groups |-> report.groups, sum |-> report.sum, unscored |-> report.unscored, gone |-> TRUE]
      BY <2>1 DEF ReportForm
    <2>3. ReportForm(report)'
      BY <2>2 DEF ReportForm
    <2> QED  BY <1>4, <1>6, <2>2, <2>3 DEF ReportInv
  <1> QED  BY <1>5, <1>6

LEMMA QueriesCount ==
    ASSUME FiniteScores, ReportInv, (\E v \in SurveyIds : CountResponses(v)) \/ CountGroups \/ CountBuckets \/ Reply
    PROVE  ReportInv'
  <1>1. ASSUME NEW v \in SurveyIds, CountResponses(v) PROVE ReportInv'
    <2> DEFINE row == answers[v]
    <2>1. DOMAIN row = Asked /\ row \in [Asked -> Nat]
      BY DEF ReportInv
    <2>2. /\ answers' = answers
          /\ report' = [at |-> "groups", survey |-> v, kind |-> surveys[v].kind, total |-> CountOf(v, DOMAIN row),
                        groups |-> <<>>, sum |-> 0, unscored |-> row[NoScore], gone |-> FALSE]
      BY <1>1 DEF CountResponses
    <2>3. /\ report'.at = "groups" /\ report'.survey = v /\ report'.total = Counting(row, Asked)
          /\ report'.unscored = row[NoScore] /\ ReportForm(report)'
      BY <2>1, <2>2, CountIsOfRow DEF ReportForm
    <2>4. NoScore \notin Scores
      BY SurveyAssumption, Zenon DEF SurveyAssumption
    <2> HIDE DEF row
    <2>5. Counting(row, Asked) = Counting(row, Scores) + Counting(row, {NoScore})
      <3>1. Scores \cap {NoScore} = {} /\ {NoScore} \subseteq Asked /\ Scores \cup {NoScore} = Asked
        BY <2>4 DEF Asked
      <3> QED  BY <2>1, <3>1, CountingParts, ScoresAreAsked
    <2>6. Counting(row, {NoScore}) = row[NoScore]
      <3>1. PICK g : Sums(g, Asked, row) /\ \A S \in SUBSET Asked : Counting(row, S) = g[S] /\ g[S] \in Nat
        BY <2>1, CountsAreSums
      <3>2. g[{NoScore}] = row[NoScore]
        BY <2>1, <3>1, SumOfOne, ScoresAreAsked
      <3> QED  BY <3>1, <3>2, ScoresAreAsked
    <2>7. Counting(row, Scores) \in Nat /\ row[NoScore] \in Nat
      BY <2>1, CountIsNat, ScoresAreAsked
    <2>8. ReportHolds(report', row)
      <3>1. report'.total \in Nat /\ report'.unscored \in Nat /\ report'.total <= Counting(row, Scores) + report'.unscored
        BY <2>3, <2>5, <2>6, <2>7
      <3> QED  BY <2>3, <3>1 DEF ReportHolds
    <2>9. ReportHolds(report, answers[report.survey])'
      BY <2>2, <2>3, <2>8 DEF row, ReportHolds, Grouped
    <2> QED  BY <2>2, <2>3, <2>9 DEF ReportInv
  <1>2. CASE CountGroups
    <2> DEFINE row == answers[report.survey]
               G == GroupRow(row, report.kind)
    <2>1. report.at = "groups" /\ answers' = answers /\ row \in [Asked -> Nat]
      BY <1>2 DEF CountGroups, ReportInv
    <2>2. report' = [report EXCEPT !.at = "buckets", !.groups = G]
      <3>1. report' = [report EXCEPT !.at = "buckets",
                         !.groups = [x \in DOMAIN Groups(report.kind) |-> CountOf(report.survey, Groups(report.kind)[x])]]
        BY <1>2 DEF CountGroups
      <3>2. G = [x \in DOMAIN Groups(report.kind) |-> CountOf(report.survey, Groups(report.kind)[x])]
        BY CountIsOfRow DEF GroupRow
      <3> HIDE DEF G
      <3> QED  BY <3>1, <3>2, Zenon
    <2> HIDE DEF G
    <2>3. /\ report'.at = "buckets" /\ report'.survey = report.survey /\ report'.kind = report.kind
          /\ report'.gone = report.gone /\ report'.total = report.total /\ report'.unscored = report.unscored
          /\ report'.groups = G /\ ReportForm(report)'
      BY <2>1, <2>2 DEF ReportInv, ReportForm
    <2>4. report'.groups = GroupRow(row, report'.kind)
      BY <2>3 DEF G
    <2> HIDE DEF row
    <2>5. /\ Grouped(report') = Counting(row, Scores)
          /\ report'.kind # "nps" => report'.groups.satisfied <= report'.groups.scored
      BY <2>1, <2>4, GroupsAddUp
    <2>6. Counting(row, Scores) \in Nat
      BY <2>1, CountIsNat, ScoresAreAsked
    <2>7. ~report.gone => ReportHolds(report', row)
      BY <2>1, <2>3, <2>5, <2>6 DEF ReportInv, ReportHolds, row
    <2>8. (~report.gone => ReportHolds(report, answers[report.survey]))'
      BY <2>1, <2>3, <2>7 DEF row, ReportHolds, Grouped
    <2> QED  BY <2>1, <2>3, <2>8 DEF ReportInv
  <1>3. CASE CountBuckets
    <2> DEFINE row == answers[report.survey]
               n == Counting(row, Buckets(report.kind) \cap Scores)
    <2>1. report.at = "buckets" /\ answers' = answers /\ row \in [Asked -> Nat]
      BY <1>3 DEF CountBuckets, ReportInv
    <2>2. report' = [report EXCEPT !.at = "done", !.sum = n]
      <3>1. report' = [report EXCEPT !.at = "done",
                         !.sum = CountOf(report.survey, Buckets(report.kind) \cap Scores)]
        BY <1>3 DEF CountBuckets
      <3>2. n = CountOf(report.survey, Buckets(report.kind) \cap Scores)
        BY CountIsOfRow
      <3> HIDE DEF n
      <3> QED  BY <3>1, <3>2, Zenon
    <2> HIDE DEF row
    <2>3. n \in Nat /\ n <= Counting(row, Scores) /\ (RowInRange(row, report.kind) => n = Counting(row, Scores))
      BY <2>1, BucketsCount
    <2> HIDE DEF n
    <2>4. /\ report'.at = "done" /\ report'.survey = report.survey /\ report'.kind = report.kind
          /\ report'.gone = report.gone /\ report'.total = report.total /\ report'.unscored = report.unscored
          /\ report'.groups = report.groups /\ report'.sum = n /\ ReportForm(report)'
      BY <2>1, <2>2 DEF ReportInv, ReportForm
    <2>5. Grouped(report') = Grouped(report)
      BY <2>4 DEF Grouped
    <2>6. ~report.gone => ReportHolds(report', row)
      BY <2>1, <2>3, <2>4, <2>5 DEF ReportInv, ReportHolds, row
    <2>7. (~report.gone => ReportHolds(report, answers[report.survey]))'
      BY <2>1, <2>4, <2>6 DEF row, ReportHolds, Grouped
    <2> QED  BY <2>1, <2>4, <2>7 DEF ReportInv
  <1>4. CASE Reply
    BY <1>4 DEF Reply, ReportInv, Idle
  <1> QED  BY <1>1, <1>2, <1>3, <1>4

LEMMA ReportSteps == ASSUME FiniteScores PROVE ReportInv /\ [ServiceNext]_serviceVars => ReportInv'
  <1> SUFFICES ASSUME ReportInv, [ServiceNext]_serviceVars PROVE ReportInv'
    OBVIOUS
  <1>1. \/ UNCHANGED <<answers, report>>
        \/ \E v \in SurveyIds : DeleteSurvey(v)
        \/ AnswerNext
    BY DEF ServiceNext, serviceVars, Surveys, Answers, Quota, Schema, Frames, surveyVars, RowNext, CreateSurvey,
           DueNext, AskDue, ListSurveys, LastTrigger, DueSurveys, Sift, Show, ReadForMark, MarkSurveyShown, EditNext,
           ReadForUpdate, UpdateSurvey
  <1>2. CASE AnswerNext
    BY <1>2, AnswerInv, QueriesCount DEF AnswerNext, Asked
  <1> QED  BY <1>1, <1>2, ReportKept, DeletionInv

(***************************************************************************)
(* The numbers of a survey's results differ only by answers that came      *)
(* between the queries that count them: of answers within the range of     *)
(* their type, each query counts no less than the one before it counted,   *)
(* and no more than there are.                                             *)
(***************************************************************************)
THEOREM ResultsAddUp ==
    ASSUME FiniteScores PROVE ServiceSpec => []ReportAddsUp
  <1>1. ServiceInit => ReportInv
    BY ReportStarts DEF ServiceInit
  <1>2. ReportInv /\ [ServiceNext]_serviceVars => ReportInv'
    BY ReportSteps
  <1>3. ASSUME ReportInv PROVE ReportAddsUp
    <2>1. InRange(report.survey, report.kind) => RowInRange(answers[report.survey], report.kind)
      BY DEF InRange, RowInRange
    <2>2. CountOf(report.survey, Scores) = Counting(answers[report.survey], Scores)
      BY CountIsOfRow
    <2> QED  BY <1>3, <2>1, <2>2 DEF ReportInv, ReportHolds, ReportAddsUp
  <1> QED
    BY <1>1, <1>2, <1>3, PTL DEF ServiceSpec
=============================================================================
