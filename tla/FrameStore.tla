---------------------------- MODULE FrameStore ----------------------------
(* Replay frames of one project: a row in `frames` for each, and an object  *)
(* <session>/<seq>.png in the blob store.  Envelopes write the object before *)
(* their transaction and the row in it (store/ingest.go); four cleaners       *)
(* remove rows in a transaction and objects after it: retention and its sweep *)
(* (store/retention.go, on every replica), deletion of the project            *)
(* (store/project.go) and erasure of a user (store/privacy.go).               *)
(*                                                                            *)
(* A transaction is one step: two that overlap lock the session's row or the *)
(* project's, so one waits (and runs later) or fails on a foreign key         *)
(* (StoreFails, RowsFail).  A DeletePrefix or a Walk is one step.             *)
EXTENDS Naturals, FiniteSets

CONSTANTS
  Sessions, Seqs,        \* session ids, frame numbers
  Calls,                 \* calls of Ingest
  SessionOf, FramesOf,   \* what each call's envelope holds
  Dated,                 \* the calls whose envelope says when the session began
  FutureDated,           \* the calls with an item dated more than a day ahead
  Janitors,              \* replicas running the retention job
  Deletions, Erasures,   \* calls of DeleteProject and DeleteUserData
  UserSessions,          \* the sessions of the user to erase
  MaxFailures            \* bound: failing statements and object store calls

ASSUME FrameAssumption ==
  /\ SessionOf \in [Calls -> Sessions]
  /\ FramesOf \in [Calls -> SUBSET Seqs]
  /\ Dated \subseteq Calls
  /\ FutureDated \subseteq Calls
  /\ UserSessions \subseteq Sessions
  /\ MaxFailures \in Nat
  /\ Janitors \cap (Deletions \cup Erasures) = {}
  /\ Deletions \cap Erasures = {}

Cleaners == Janitors \cup Deletions \cup Erasures

VARIABLES
  project,   \* whether the project's row exists
  row,       \* the session's row: "none", "young" or "old" (expired)
  aged,      \* sessions that began before the cutoff, stored or not
  stray,     \* sessions with an item the purge's "ts < now + 24h" leaves alone
  frames,    \* rows of `frames`
  objects,   \* frame objects
  map,       \* a source map of the project: its "row" and its "object"
  upload,    \* the call of PutArtifact
  call,      \* per call of Ingest: where it is, frames still to put
  cleaner,   \* per cleaner: where it is, the sessions it works on
  failures,
  crossed,   \* history: frames put while a cleaner was about to delete them
  gone       \* history: per janitor, the rows deleted since it listed its sessions

tables == <<project, row, stray, frames>>
program == <<tables, aged, objects, map, upload, call, cleaner, failures>>
vars == <<program, crossed, gone>>

Stored == {s \in Sessions : row[s] # "none"}
Children(S) == {f \in frames : f[1] \in S}
ObjectsOf(S) == {o \in objects : o[1] \in S}

Init ==
  /\ project = TRUE
  /\ row \in [Sessions -> {"none", "young"}]
  /\ aged = {}
  /\ stray = {}
  /\ frames = {}
  /\ objects = {}
  /\ map = {}
  /\ upload = "idle"
  /\ call = [i \in Calls |-> [pc |-> "idle", left |-> {}]]
  /\ cleaner = [c \in Cleaners |-> [pc |-> "idle", doomed |-> {}]]
  /\ failures = 0
  /\ crossed = {}
  /\ gone = [j \in Janitors |-> {}]

MayFail ==
  /\ failures < MaxFailures
  /\ failures' = failures + 1

-----------------------------------------------------------------------------
(* Ingest.                                                                   *)

\* The handler has found the project by its key; the frames are put first.
Receive(i) ==
  /\ call[i].pc = "idle"
  /\ project
  /\ call' = [call EXCEPT ![i] = [pc |-> IF FramesOf[i] = {} THEN "tx" ELSE "put",
                                  left |-> FramesOf[i]]]
  /\ UNCHANGED <<tables, aged, objects, map, upload, cleaner, failures>>

FramePut(i, n) ==
  call' = [call EXCEPT ![i] = [pc |-> IF @.left = {n} THEN "tx" ELSE "put",
                               left |-> @.left \ {n}]]

PutFrame(i) ==
  /\ call[i].pc = "put"
  /\ \E n \in call[i].left :
       /\ FramePut(i, n)
       /\ objects' = objects \cup {<<SessionOf[i], n>>}
  /\ UNCHANGED <<tables, aged, map, upload, cleaner, failures>>

\* A frame that cannot be stored fails the envelope.
PutFails(i) ==
  /\ call[i].pc = "put"
  /\ MayFail
  /\ call' = [call EXCEPT ![i].pc = "failed"]
  /\ UNCHANGED <<tables, aged, objects, map, upload, cleaner>>

\* parseTS(StartedAt, now): a session without a date begins when it arrives.
Age(i) == IF i \in Dated /\ SessionOf[i] \in aged THEN "old" ELSE "young"

\* Mutant of StoreEnvelope: ON CONFLICT sets started_at as well.
StoreAfresh(i) ==
  /\ call[i].pc = "tx"
  /\ project
  /\ LET s == SessionOf[i] IN
       /\ row' = [row EXCEPT ![s] = Age(i)]
       /\ frames' = frames \cup {<<s, n>> : n \in FramesOf[i]}
       /\ stray' = stray \cup {x \in {s} : i \in FutureDated}
  /\ call' = [call EXCEPT ![i].pc = "done"]
  /\ UNCHANGED <<project, aged, objects, map, upload, cleaner, failures>>

\* The transaction: the session, its items and its frames.  An existing row
\* keeps its started_at.
StoreEnvelope(i) ==
  /\ call[i].pc = "tx"
  /\ project
  /\ LET s == SessionOf[i] IN
       /\ row' = [row EXCEPT ![s] = IF @ = "none" THEN Age(i) ELSE @]
       /\ frames' = frames \cup {<<s, n>> : n \in FramesOf[i]}
       /\ stray' = stray \cup {x \in {s} : i \in FutureDated}
  /\ call' = [call EXCEPT ![i].pc = "done"]
  /\ UNCHANGED <<project, aged, objects, map, upload, cleaner, failures>>

\* The transaction fails; without the project it must.
StoreFails(i) ==
  /\ call[i].pc = "tx"
  /\ IF project THEN MayFail ELSE UNCHANGED failures
  /\ call' = [call EXCEPT ![i].pc = "failed"]
  /\ UNCHANGED <<tables, aged, objects, map, upload, cleaner>>

-----------------------------------------------------------------------------
(* PutArtifact, for the object it leaves under sourcemaps/<project>/.        *)

PutMap ==
  /\ upload = "idle"
  /\ project
  /\ map' = map \cup {"object"}
  /\ upload' = "row"
  /\ UNCHANGED <<tables, aged, objects, call, cleaner, failures>>

PutMapRow ==
  /\ upload = "row"
  /\ map' = IF project THEN map \cup {"row"} ELSE map
  /\ upload' = "done"
  /\ UNCHANGED <<tables, aged, objects, call, cleaner, failures>>

-----------------------------------------------------------------------------
(* Cleaning.                                                                 *)

\* SELECT id FROM sessions WHERE started_at < cutoff.
Expired == {s \in Sessions : row[s] = "old"}

Scope(c) ==
  IF c \in Janitors THEN Expired
  ELSE IF c \in Erasures THEN UserSessions \cap Stored
  ELSE Stored

Goto(c, pc, S) == cleaner' = [cleaner EXCEPT ![c] = [pc |-> pc, doomed |-> S]]

\* Mutant of SelectSessions: a project with nothing to purge ends the round.
SelectOrStop(c) ==
  /\ cleaner[c].pc = "idle"
  /\ c \in Janitors \/ project
  /\ Goto(c, IF Scope(c) = {} THEN "idle" ELSE "rows", Scope(c))
  /\ UNCHANGED <<tables, aged, objects, map, upload, call, failures>>

\* The ids are collected before the transaction.  Retention goes on to its
\* sweep when there are none.
SelectSessions(c) ==
  /\ cleaner[c].pc = "idle"
  /\ c \in Janitors \/ project
  /\ Goto(c, IF c \in Janitors /\ Scope(c) = {} THEN "walk" ELSE "rows", Scope(c))
  /\ UNCHANGED <<tables, aged, objects, map, upload, call, failures>>

\* Mutant of Unpurgeable: the frames' rows are not deleted first.
WithFrames == stray \cup {f[1] : f \in frames}

\* Sessions a purge cannot delete: items refer to sessions(id), and DELETE FROM
\* items spares those dated after tomorrow.
Unpurgeable == stray

Removed(c) ==
  IF c \in Janitors THEN cleaner[c].doomed
  ELSE IF c \in Erasures THEN UserSessions
  ELSE Sessions

\* An erasure deletes sessions by user but frames and items by the ids it
\* collected; a purge has the items it spared.
Refused(c) ==
  \/ /\ c \in Janitors
     /\ cleaner[c].doomed \cap Unpurgeable # {}
  \/ /\ c \in Erasures
     /\ \E s \in (UserSessions \cap Stored) \ cleaner[c].doomed :
          s \in stray \/ Children({s}) # {}

\* Mutant of FramesDeleted: only the sessions collected before the transaction.
FramesCollected(c) == Children(cleaner[c].doomed)

\* A project's frames are deleted by a subselect, not by the collected ids.
FramesDeleted(c) == Children(Removed(c))

AfterObjects(c) ==
  IF c \in Janitors THEN "walk" ELSE IF c \in Deletions THEN "maps" ELSE "done"

DeleteRows(c) ==
  /\ cleaner[c].pc = "rows"
  /\ ~Refused(c)
  /\ row' = [s \in Sessions |-> IF s \in Removed(c) THEN "none" ELSE row[s]]
  /\ frames' = frames \ FramesDeleted(c)
  /\ stray' = stray \ Removed(c)
  /\ project' = (project /\ c \notin Deletions)
  /\ map' = IF c \in Deletions THEN map \ {"row"} ELSE map
  /\ Goto(c, IF cleaner[c].doomed = {} THEN AfterObjects(c) ELSE "objects", cleaner[c].doomed)
  /\ UNCHANGED <<aged, objects, upload, call, failures>>

\* Rolled back.  Retention logs it and leaves the project for the next round.
RowsFail(c) ==
  /\ cleaner[c].pc = "rows"
  /\ IF Refused(c) THEN UNCHANGED failures ELSE MayFail
  /\ Goto(c, IF c \in Janitors THEN "walk" ELSE "done", {})
  /\ UNCHANGED <<tables, aged, objects, map, upload, call>>

\* One prefix is dealt with; the last one ends this part.
Tried(c, s) ==
  LET rest == cleaner[c].doomed \ {s}
  IN  Goto(c, IF rest # {} THEN cleaner[c].pc
              ELSE IF cleaner[c].pc = "sweep" THEN "idle" ELSE AfterObjects(c), rest)

DeletePrefix(c) ==
  /\ cleaner[c].pc \in {"objects", "sweep"}
  /\ \E s \in cleaner[c].doomed :
       /\ objects' = objects \ ObjectsOf({s})
       /\ Tried(c, s)
  /\ UNCHANGED <<tables, aged, map, upload, call, failures>>

\* Logged, and the next prefix is tried.
PrefixFails(c) ==
  /\ cleaner[c].pc \in {"objects", "sweep"}
  /\ MayFail
  /\ \E s \in cleaner[c].doomed : Tried(c, s)
  /\ UNCHANGED <<tables, aged, objects, map, upload, call>>

\* DeletePrefix of sourcemaps/<project>/, the last thing DeleteProject does.
DeleteMaps(c) ==
  /\ cleaner[c].pc = "maps"
  /\ \/ map' = map \ {"object"} /\ UNCHANGED failures
     \/ MayFail /\ UNCHANGED map
  /\ Goto(c, "done", {})
  /\ UNCHANGED <<tables, aged, objects, upload, call>>

\* Every object but those under sourcemaps/, by session.
Walk(j) ==
  /\ cleaner[j].pc = "walk"
  /\ LET found == {o[1] : o \in objects}
     IN  Goto(j, IF found = {} THEN "idle" ELSE "look", found)
  /\ UNCHANGED <<tables, aged, objects, map, upload, call, failures>>

\* Mutant of LookUp: the sessions are looked up as they were when the walk began.
SweepWhatWasFound(j) ==
  /\ cleaner[j].pc = "look"
  /\ Goto(j, "sweep", cleaner[j].doomed)
  /\ UNCHANGED <<tables, aged, objects, map, upload, call, failures>>

\* Those whose session has no row are swept.
LookUp(j) ==
  /\ cleaner[j].pc = "look"
  /\ LET orphans == cleaner[j].doomed \ Stored
     IN  Goto(j, IF orphans = {} THEN "idle" ELSE "sweep", orphans)
  /\ UNCHANGED <<tables, aged, objects, map, upload, call, failures>>

\* External: time passes the cutoff of a session.
CutoffPasses(s) ==
  /\ s \notin aged \/ row[s] = "young"
  /\ aged' = aged \cup {s}
  /\ row' = [row EXCEPT ![s] = IF @ = "young" THEN "old" ELSE @]
  /\ UNCHANGED <<project, stray, frames, objects, map, upload, call, cleaner, failures>>

-----------------------------------------------------------------------------
Ingest(i) == Receive(i) \/ PutFrame(i) \/ PutFails(i) \/ StoreEnvelope(i) \/ StoreFails(i)
PutArtifact == PutMap \/ PutMapRow
Clean(c) == SelectSessions(c) \/ DeleteRows(c) \/ RowsFail(c) \/ DeletePrefix(c) \/ PrefixFails(c)
Sweep(j) == Walk(j) \/ LookUp(j)

(* History: the frames an envelope under way has put, of sessions whose      *)
(* objects a cleaner has yet to delete; and the rows deleted under a janitor. *)
Condemned == UNION {cleaner[c].doomed : c \in {d \in Cleaners : cleaner[d].pc \in {"objects", "sweep"}}}
PutBy(i) == IF call[i].pc \in {"put", "tx"} THEN {SessionOf[i]} \X (FramesOf[i] \ call[i].left) ELSE {}
Crossing == {f \in UNION {PutBy(i) : i \in Calls} : f[1] \in Condemned}

Note ==
  /\ crossed' = crossed \cup Crossing'
  /\ gone' = [j \in Janitors |-> IF cleaner'[j].pc = "rows" THEN gone[j] \cup (Stored \ Stored')
                                                           ELSE {}]

Next ==
  \/ \E i \in Calls : Ingest(i) /\ Note
  \/ PutArtifact /\ Note
  \/ \E c \in Cleaners : Clean(c) /\ Note
  \/ \E c \in Deletions : DeleteMaps(c) /\ Note
  \/ \E j \in Janitors : Sweep(j) /\ Note
  \/ \E s \in Sessions : CutoffPasses(s) /\ Note

Spec == Init /\ [][Next]_vars

\* The scheduler runs its round every day; a round in progress goes on, and so
\* do the calls.  Nothing is assumed of users, failures or time.
Fairness ==
  /\ \A j \in Janitors :
       /\ WF_program(SelectSessions(j))
       /\ WF_program(DeleteRows(j) \/ RowsFail(j))
       /\ WF_program(DeletePrefix(j))
       /\ WF_program(Walk(j))
       /\ WF_program(LookUp(j))
  /\ \A c \in Deletions : WF_program(DeleteRows(c) \/ DeletePrefix(c) \/ DeleteMaps(c))
  /\ \A i \in Calls : WF_program(PutFrame(i)) /\ WF_program(StoreEnvelope(i) \/ StoreFails(i))

FairSpec == Spec /\ Fairness

-----------------------------------------------------------------------------
\* The program's state is well formed, and what the foreign keys say holds: no
\* frame or item without its session, no session without the project.
FrameTypeOK ==
  /\ project \in BOOLEAN
  /\ row \in [Sessions -> {"none", "young", "old"}]
  /\ aged \subseteq Sessions
  /\ stray \subseteq Stored
  /\ frames \subseteq Stored \X Seqs
  /\ objects \subseteq Sessions \X Seqs
  /\ map \subseteq {"row", "object"}
  /\ upload \in {"idle", "row", "done"}
  /\ call \in [Calls -> [pc : {"idle", "put", "tx", "done", "failed"}, left : SUBSET Seqs]]
  /\ cleaner \in [Cleaners -> [pc : {"idle", "rows", "objects", "maps", "walk", "look", "sweep", "done"},
                               doomed : SUBSET Sessions]]
  /\ failures \in 0..MaxFailures
  /\ ~project => Stored = {} /\ "row" \notin map

\* Every frame the database names can be opened: its object is in the store,
\* whatever failed and whatever was purged, erased or swept beside it.  The one
\* exception: the frame was put by an envelope still under way when a cleaner had
\* decided to delete its session's objects and had not done so yet.
FramesHaveObjects == frames \subseteq objects \cup crossed

\* Retention deletes no session younger than the project keeps them, although it
\* deletes by a list made earlier and envelopes go on storing what is on it.  The
\* one exception: another cleaner deleted the session after it was listed, and an
\* envelope without a date has stored it again since.
YoungSessionsKept ==
  [][\A j \in Janitors : DeleteRows(j) =>
       \A s \in Sessions : row[s] = "young" => row'[s] = "young" \/ s \in gone[j]]_vars

\* Both without their exceptions.  Neither holds.
EveryFrameOpens == frames \subseteq objects

NoYoungPurged ==
  [][\A j \in Janitors, s \in Sessions : DeleteRows(j) /\ row[s] = "young" => row'[s] = "young"]_vars

\* Whatever left them there, objects without a session are removed in the end.
OrphansSwept ==
  \A s \in Sessions :
    (ObjectsOf({s}) # {} /\ row[s] = "none") ~> (ObjectsOf({s}) = {} \/ row[s] # "none")

\* An expired session is purged in the end.
ExpiredPurged == \A s \in Sessions : row[s] = "old" ~> row[s] = "none"

\* Source maps of a deleted project are removed in the end.
LeftoverMapsSwept == (~project /\ "object" \in map) ~> ("object" \notin map)

=============================================================================
