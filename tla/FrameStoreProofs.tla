-------------------------- MODULE FrameStoreProofs --------------------------
(***************************************************************************)
(* Theorems about FrameStore, for any number of sessions, envelopes,       *)
(* janitors, deletions, erasures and failures, in any order.  A sweep      *)
(* beside the first envelope of a session and a purge beside an envelope   *)
(* of a session it is removing do lose frames, and a list of expired       *)
(* sessions does get old: the theorems say exactly which ones are lost.    *)
(***************************************************************************)
EXTENDS FrameStore, TLAPS

-----------------------------------------------------------------------------
(* The foreign keys: every row of `frames` has its session, and no session *)
(* outlives its project.                                                   *)

LEMMA InitType == Init => FrameTypeOK
  BY FrameAssumption DEF Init, FrameTypeOK, Stored, Cleaners

LEMMA NextType ==
    ASSUME FrameTypeOK, [Next]_vars
    PROVE  FrameTypeOK'
  <1> USE FrameAssumption
  <1> USE DEF FrameTypeOK, tables, program, MayFail, Stored
  <1>1. CASE UNCHANGED vars
    BY <1>1 DEF vars
  <1>2. ASSUME NEW i \in Calls, Receive(i) \/ PutFails(i) \/ StoreFails(i) PROVE FrameTypeOK'
    <2>1. call' \in [Calls -> [pc : {"idle", "put", "tx", "done", "failed"}, left : SUBSET Seqs]]
      <3>1. CASE Receive(i)
        <4> DEFINE w == [pc |-> IF FramesOf[i] = {} THEN "tx" ELSE "put", left |-> FramesOf[i]]
        <4>1. w \in [pc : {"idle", "put", "tx", "done", "failed"}, left : SUBSET Seqs]
          OBVIOUS
        <4>2. call' = [call EXCEPT ![i] = w]
          BY <3>1 DEF Receive
        <4> HIDE DEF w
        <4>3. QED
          BY <4>1, <4>2
      <3>2. CASE PutFails(i) \/ StoreFails(i)
        <4>1. call' = [call EXCEPT ![i].pc = "failed"]
          BY <3>2 DEF PutFails, StoreFails
        <4>2. QED
          BY <4>1
      <3>3. QED
        BY <1>2, <3>1, <3>2
    <2>2. failures' \in 0..MaxFailures
      BY <1>2 DEF Receive, PutFails, StoreFails
    <2>3. UNCHANGED <<tables, aged, objects, map, upload, cleaner>>
      BY <1>2 DEF Receive, PutFails, StoreFails
    <2>4. QED
      BY <2>1, <2>2, <2>3
  <1>3. ASSUME NEW i \in Calls, PutFrame(i) PROVE FrameTypeOK'
    BY <1>3 DEF PutFrame, FramePut
  <1>4. ASSUME NEW i \in Calls, StoreEnvelope(i) PROVE FrameTypeOK'
    <2> DEFINE s == SessionOf[i]
    <2>1. /\ s \in Sessions /\ FramesOf[i] \subseteq Seqs /\ Age(i) \in {"young", "old"}
          /\ project
      BY <1>4 DEF Age, StoreEnvelope
    <2>2. /\ row' = [row EXCEPT ![s] = IF row[s] = "none" THEN Age(i) ELSE row[s]]
          /\ frames' = frames \cup {<<s, n>> : n \in FramesOf[i]}
          /\ stray' \subseteq stray \cup {s}
          /\ call' = [call EXCEPT ![i].pc = "done"]
          /\ UNCHANGED <<project, aged, objects, map, upload, cleaner, failures>>
      BY <1>4 DEF StoreEnvelope
    <2> HIDE DEF s
    <2>3. row' \in [Sessions -> {"none", "young", "old"}]
      BY <2>1, <2>2
    <2>4. \A x \in Sessions : row'[x] # "none" <=> (row[x] # "none" \/ x = s)
      BY <2>1, <2>2
    <2>5. stray' \subseteq Stored'
      BY <2>1, <2>2, <2>4
    <2>6. frames' \subseteq Stored' \X Seqs
      BY <2>1, <2>2, <2>4
    <2>7. call' \in [Calls -> [pc : {"idle", "put", "tx", "done", "failed"}, left : SUBSET Seqs]]
      BY <2>2
    <2>8. QED
      BY <2>1, <2>2, <2>3, <2>5, <2>6, <2>7
  <1>5. CASE PutArtifact
    BY <1>5 DEF PutArtifact, PutMap, PutMapRow
  <1>6. ASSUME NEW c \in Cleaners, DeleteRows(c) PROVE FrameTypeOK'
    <2> DEFINE leaving == Removed(c)
    <2>1. /\ row' = [s \in Sessions |-> IF s \in leaving THEN "none" ELSE row[s]]
          /\ frames' = frames \ Children(leaving)
          /\ stray' = stray \ leaving
          /\ project' = (project /\ c \notin Deletions)
          /\ map' = IF c \in Deletions THEN map \ {"row"} ELSE map
          /\ UNCHANGED <<aged, objects, upload, call, failures>>
      BY <1>6 DEF DeleteRows, FramesDeleted
    <2>2. c \in Deletions => leaving = Sessions
      BY DEF Removed
    <2>3. cleaner' \in [Cleaners -> [pc : {"idle", "rows", "objects", "maps", "walk", "look", "sweep", "done"},
                                     doomed : SUBSET Sessions]]
      BY <1>6 DEF DeleteRows, Goto, AfterObjects
    <2> HIDE DEF leaving
    <2>4. \A s \in Sessions : row'[s] = IF s \in leaving THEN "none" ELSE row[s]
      BY <2>1
    <2>5. stray' \subseteq Stored'
      BY <2>1, <2>4
    <2>6. frames' \subseteq Stored' \X Seqs
      BY <2>1, <2>4 DEF Children
    <2>7. ~project' => Stored' = {} /\ "row" \notin map'
      BY <2>1, <2>2, <2>4
    <2>8. QED
      BY <2>1, <2>3, <2>4, <2>5, <2>6, <2>7
  <1>7. ASSUME NEW c \in Cleaners,
               SelectSessions(c) \/ RowsFail(c) \/ DeletePrefix(c) \/ PrefixFails(c) \/ Walk(c) \/ LookUp(c)
        PROVE  FrameTypeOK'
    <2>1. UNCHANGED <<tables, aged, map, upload, call>> /\ objects' \subseteq objects
      BY <1>7 DEF SelectSessions, RowsFail, DeletePrefix, PrefixFails, Walk, LookUp, ObjectsOf
    <2>2. failures' \in 0..MaxFailures
      BY <1>7 DEF SelectSessions, RowsFail, DeletePrefix, PrefixFails, Walk, LookUp
    <2>3. \E pc \in {"idle", "rows", "objects", "maps", "walk", "look", "sweep", "done"},
             S \in SUBSET Sessions : Goto(c, pc, S)
      <3>1. CASE SelectSessions(c)
        BY <3>1 DEF SelectSessions, Scope, Expired
      <3>2. CASE RowsFail(c)
        BY <3>2 DEF RowsFail
      <3>3. ASSUME NEW s \in cleaner[c].doomed, cleaner[c].pc \in {"objects", "sweep"}, Tried(c, s)
            PROVE  \E pc \in {"idle", "objects", "maps", "walk", "sweep", "done"} :
                     Goto(c, pc, cleaner[c].doomed \ {s})
        BY <3>3 DEF Tried, AfterObjects
      <3>4. CASE DeletePrefix(c) \/ PrefixFails(c)
        <4>1. cleaner[c].pc \in {"objects", "sweep"} /\ \E s \in cleaner[c].doomed : Tried(c, s)
          BY <3>4 DEF DeletePrefix, PrefixFails
        <4>2. cleaner[c].doomed \subseteq Sessions
          OBVIOUS
        <4>3. PICK s \in cleaner[c].doomed, pc \in {"idle", "objects", "maps", "walk", "sweep", "done"} :
                Goto(c, pc, cleaner[c].doomed \ {s})
          BY <3>3, <4>1
        <4>4. QED
          BY <4>2, <4>3
      <3>5. CASE Walk(c)
        BY <3>5 DEF Walk
      <3>6. CASE LookUp(c)
        BY <3>6 DEF LookUp
      <3>7. QED
        BY <1>7, <3>1, <3>2, <3>3, <3>4, <3>5, <3>6
    <2>4. cleaner' \in [Cleaners -> [pc : {"idle", "rows", "objects", "maps", "walk", "look", "sweep", "done"},
                                     doomed : SUBSET Sessions]]
      BY <2>3 DEF Goto
    <2>5. QED
      BY <2>1, <2>2, <2>4
  <1>8. ASSUME NEW c \in Deletions, DeleteMaps(c) PROVE FrameTypeOK'
    <2>1. /\ UNCHANGED <<tables, aged, objects, upload, call>>
          /\ map' \subseteq map /\ failures' \in 0..MaxFailures
      BY <1>8 DEF DeleteMaps
    <2>2. cleaner' = [cleaner EXCEPT ![c] = [pc |-> "done", doomed |-> {}]]
      BY <1>8 DEF DeleteMaps, Goto
    <2>3. cleaner' \in [Cleaners -> [pc : {"idle", "rows", "objects", "maps", "walk", "look", "sweep", "done"},
                                     doomed : SUBSET Sessions]]
      BY <2>2
    <2>4. QED
      BY <2>1, <2>3
  <1>9. ASSUME NEW s \in Sessions, CutoffPasses(s) PROVE FrameTypeOK'
    <2>1. \A x \in Sessions : row'[x] # "none" <=> row[x] # "none"
      BY <1>9 DEF CutoffPasses
    <2>2. row' \in [Sessions -> {"none", "young", "old"}]
      BY <1>9 DEF CutoffPasses
    <2>3. QED
      BY <1>9, <2>1, <2>2 DEF CutoffPasses
  <1>10. QED
    BY <1>1, <1>2, <1>3, <1>4, <1>5, <1>6, <1>7, <1>8, <1>9
       DEF Next, Ingest, Clean, Sweep, Cleaners

-----------------------------------------------------------------------------
(* A cleaner has only its own step.                                        *)

LEMMA OtherCleaner ==
    ASSUME FrameTypeOK, NEW c \in Cleaners, NEW d \in Cleaners, d # c,
           Clean(d) \/ Walk(d) \/ LookUp(d) \/ DeleteMaps(d)
    PROVE  cleaner'[c] = cleaner[c]
  <1>1. ASSUME NEW pc, NEW S, Goto(d, pc, S) PROVE cleaner'[c] = cleaner[c]
    BY <1>1 DEF Goto, FrameTypeOK
  <1>2. CASE Clean(d)
    BY <1>1, <1>2 DEF Clean, SelectSessions, DeleteRows, RowsFail, DeletePrefix, PrefixFails, Tried
  <1>3. CASE Walk(d) \/ LookUp(d) \/ DeleteMaps(d)
    BY <1>1, <1>3 DEF Walk, LookUp, DeleteMaps
  <1>4. QED
    BY <1>2, <1>3

(* What a step leaves in a cleaner's hands: what it had, the sessions it   *)
(* has listed, those whose rows it has deleted, those it found without a   *)
(* row, or those left of them after one prefix.                            *)
Kept(c) == cleaner'[c] = cleaner[c]
Listed(c) ==
  /\ cleaner[c].pc = "idle" /\ cleaner'[c].pc \in {"walk", "rows"} /\ cleaner'[c].doomed = Scope(c)
  /\ row' = row
RowsGone(c) == DeleteRows(c) /\ cleaner'[c].pc # "rows" /\ cleaner'[c].doomed = cleaner[c].doomed
Orphaned(c) == LookUp(c) /\ cleaner'[c].doomed = cleaner[c].doomed \ Stored
OneTried(c) ==
  /\ cleaner'[c].pc = cleaner[c].pc /\ cleaner[c].pc \in {"objects", "sweep"}
  /\ cleaner'[c].doomed \subseteq cleaner[c].doomed
HandsFree(c) == cleaner'[c].pc \in {"idle", "maps", "walk", "look", "done"}

LEMMA Hands ==
    ASSUME FrameTypeOK, Next, NEW c \in Cleaners
    PROVE  Kept(c) \/ Listed(c) \/ RowsGone(c) \/ Orphaned(c) \/ OneTried(c) \/ HandsFree(c)
  <1>0. ASSUME NEW pc, NEW S, Goto(c, pc, S) PROVE cleaner'[c].pc = pc /\ cleaner'[c].doomed = S
    BY <1>0 DEF Goto, FrameTypeOK
  <1>1. CASE SelectSessions(c)
    BY <1>0, <1>1 DEF SelectSessions, Listed, tables
  <1>2. CASE DeleteRows(c)
    <2>1. \E pc \in {"walk", "maps", "done", "objects"} : Goto(c, pc, cleaner[c].doomed)
      BY <1>2 DEF DeleteRows, AfterObjects
    <2>2. QED
      BY <1>0, <1>2, <2>1 DEF RowsGone
  <1>3. CASE DeletePrefix(c) \/ PrefixFails(c)
    <2>1. PICK s \in cleaner[c].doomed : Tried(c, s) /\ cleaner[c].pc \in {"objects", "sweep"}
      BY <1>3 DEF DeletePrefix, PrefixFails
    <2>2. \E pc \in {cleaner[c].pc, "idle", "walk", "maps", "done"} : Goto(c, pc, cleaner[c].doomed \ {s})
      BY <2>1 DEF Tried, AfterObjects
    <2>3. QED
      BY <1>0, <2>1, <2>2 DEF OneTried, HandsFree
  <1>4. CASE RowsFail(c) \/ Walk(c) \/ DeleteMaps(c)
    BY <1>0, <1>4 DEF RowsFail, Walk, DeleteMaps, HandsFree
  <1>5. CASE LookUp(c)
    BY <1>0, <1>5 DEF LookUp, Orphaned
  <1>6. ASSUME NEW d \in Cleaners, Clean(d) \/ Walk(d) \/ LookUp(d) \/ DeleteMaps(d), d # c
        PROVE  Kept(c)
    BY <1>6, OtherCleaner DEF Kept
  <1>7. CASE cleaner' = cleaner
    BY <1>7 DEF Kept
  <1>8. \/ \E d \in Cleaners : Clean(d) \/ Walk(d) \/ LookUp(d) \/ DeleteMaps(d)
        \/ cleaner' = cleaner
    BY DEF Next, Cleaners, Sweep, Ingest, Receive, PutFrame, PutFails, StoreEnvelope, StoreFails,
           PutArtifact, PutMap, PutMapRow, CutoffPasses
  <1>9. QED
    BY <1>1, <1>2, <1>3, <1>4, <1>5, <1>6, <1>7, <1>8 DEF Clean

LEMMA EveryStepNotes == Next => Note
  BY DEF Next

-----------------------------------------------------------------------------
(* What retention has listed had expired then, and nothing makes a row     *)
(* young again: it can only be deleted, which is noted, and stored anew.   *)

ListInv == \A j \in Janitors :
  cleaner[j].pc = "rows" => \A s \in cleaner[j].doomed : row[s] = "old" \/ s \in gone[j]

LEMMA NoRejuvenation ==
    ASSUME FrameTypeOK, Next, NEW s \in Sessions, row[s] = "old"
    PROVE  row'[s] = "old" \/ s \in Stored \ Stored'
  <1>1. ASSUME NEW i \in Calls, StoreEnvelope(i) PROVE row'[s] = "old"
    BY <1>1 DEF StoreEnvelope, FrameTypeOK
  <1>2. ASSUME NEW c \in Cleaners, DeleteRows(c) PROVE row'[s] \in {"old", "none"}
    BY <1>2 DEF DeleteRows
  <1>3. ASSUME NEW x \in Sessions, CutoffPasses(x) PROVE row'[s] = "old"
    BY <1>3 DEF CutoffPasses, FrameTypeOK
  <1>4. \/ row' = row
        \/ \E i \in Calls : StoreEnvelope(i)
        \/ \E c \in Cleaners : DeleteRows(c)
        \/ \E x \in Sessions : CutoffPasses(x)
    BY DEF Next, Ingest, Receive, PutFrame, PutFails, StoreFails, PutArtifact, PutMap, PutMapRow,
           Clean, SelectSessions, RowsFail, DeletePrefix, PrefixFails, DeleteMaps, Sweep, Walk,
           LookUp, tables
  <1>5. QED
    BY <1>1, <1>2, <1>3, <1>4 DEF Stored

LEMMA NextLists ==
    ASSUME FrameTypeOK, ListInv, [Next]_vars
    PROVE  ListInv'
  <1>1. CASE UNCHANGED vars
    BY <1>1 DEF vars, program, tables, ListInv
  <1>2. CASE Next
    <2> SUFFICES ASSUME NEW j \in Janitors, cleaner'[j].pc = "rows", NEW s \in cleaner'[j].doomed
                 PROVE  row'[s] = "old" \/ s \in gone'[j]
      BY DEF ListInv
    <2>1. gone'[j] = gone[j] \cup (Stored \ Stored')
      BY <1>2, EveryStepNotes DEF Note
    <2>2. CASE Kept(j)
      <3>1. s \in Sessions /\ (row[s] = "old" \/ s \in gone[j])
        BY <2>2 DEF Kept, ListInv, FrameTypeOK, Cleaners
      <3>2. QED
        BY <1>2, <2>1, <3>1, NoRejuvenation
    <2>3. CASE Listed(j)
      BY <2>3 DEF Listed, Scope, Expired
    <2>4. j \in Cleaners /\ ~HandsFree(j) /\ ~RowsGone(j) /\ ~OneTried(j)
      BY DEF Cleaners, HandsFree, RowsGone, OneTried
    <2>5. ~Orphaned(j)
      <3>1. ASSUME LookUp(j) PROVE cleaner'[j].pc # "rows"
        BY <2>4, <3>1 DEF LookUp, Goto, FrameTypeOK
      <3>2. QED
        BY <3>1 DEF Orphaned
    <2>6. QED
      BY <1>2, <2>2, <2>3, <2>4, <2>5, Hands
  <1>3. QED
    BY <1>1, <1>2

(* Retention deletes no session younger than the project keeps them, but   *)
(* for one that was deleted after it was listed and stored anew since.     *)
THEOREM RetentionKeepsTheYoung == Spec => YoungSessionsKept
  <1> DEFINE Inv == FrameTypeOK /\ ListInv
             Keeps == \A j \in Janitors : DeleteRows(j) =>
                        \A s \in Sessions : row[s] = "young" => row'[s] = "young" \/ s \in gone[j]
  <1>1. Init => Inv
    BY InitType DEF Init, ListInv, Cleaners
  <1>2. Inv /\ [Next]_vars => Inv'
    BY NextType, NextLists
  <1>3. Inv /\ [Next]_vars => [Keeps]_vars
    <2> SUFFICES ASSUME Inv, NEW j \in Janitors, DeleteRows(j), NEW s \in Sessions,
                        row[s] = "young", s \notin gone[j]
                 PROVE  row'[s] = "young"
      OBVIOUS
    <2>1. s \notin Removed(j)
      BY DEF ListInv, Removed, DeleteRows
    <2>2. QED
      BY <2>1 DEF DeleteRows
  <1> HIDE DEF Inv
  <1>4. QED
    BY <1>1, <1>2, <1>3, PTL DEF Spec, YoungSessionsKept, Keeps

-----------------------------------------------------------------------------
(* What an envelope has put so far is there when its rows are stored, but  *)
(* for the frames that have crossed a cleaner.                             *)
PutKept(i) ==
  /\ call[i].pc = "tx" => call[i].left = {}
  /\ call[i].pc \in {"put", "tx"} =>
       \A n \in FramesOf[i] : n \in call[i].left \/ <<SessionOf[i], n>> \in objects \cup crossed

(* No row names an object a cleaner is about to delete, but theirs.        *)
Bare(c) ==
  cleaner[c].pc \in {"objects", "sweep"} =>
    \A f \in frames : f[1] \in cleaner[c].doomed => f \in crossed

(* An erasure collects sessions of its user.                               *)
Theirs(c) == cleaner[c].pc = "rows" /\ c \in Erasures => cleaner[c].doomed \subseteq UserSessions

FrameInv ==
  /\ Crossing \subseteq crossed
  /\ \A c \in Cleaners : Bare(c) /\ Theirs(c)
  /\ \A i \in Calls : PutKept(i)
  /\ FramesHaveObjects

LEMMA InitFrames == Init => FrameInv
  BY DEF Init, FrameInv, Crossing, PutBy, Bare, Theirs, PutKept, FramesHaveObjects

LEMMA NextCleaners ==
    ASSUME FrameTypeOK, FrameInv, Next
    PROVE  \A c \in Cleaners : Bare(c)' /\ Theirs(c)'
  <1> SUFFICES ASSUME NEW c \in Cleaners PROVE Bare(c)' /\ Theirs(c)'
    OBVIOUS
  <1>0. Bare(c) /\ Theirs(c) /\ Crossing \subseteq crossed /\ crossed \subseteq crossed'
    BY EveryStepNotes DEF FrameInv, Note
  \* A frame row that comes is one an envelope has put.
  <1>1. ASSUME NEW f \in frames', f[1] \in cleaner[c].doomed, cleaner[c].pc \in {"objects", "sweep"}
        PROVE  f \in crossed'
    <2>1. CASE f \in frames
      BY <1>0, <1>1, <2>1 DEF Bare
    <2>2. CASE f \notin frames
      <3>1. PICK i \in Calls : StoreEnvelope(i)
        BY <2>2 DEF Next, Ingest, Receive, PutFrame, PutFails, StoreFails, PutArtifact, PutMap,
                    PutMapRow, Clean, SelectSessions, DeleteRows, RowsFail, DeletePrefix,
                    PrefixFails, DeleteMaps, Sweep, Walk, LookUp, CutoffPasses, tables
      <3>2. PICK n \in FramesOf[i] : f = <<SessionOf[i], n>>
        BY <2>2, <3>1 DEF StoreEnvelope
      <3>3. call[i].pc = "tx" /\ call[i].left = {}
        BY <3>1 DEF StoreEnvelope, FrameInv, PutKept
      <3>4. f \in PutBy(i)
        BY <3>2, <3>3 DEF PutBy
      <3>5. f[1] \in Condemned
        BY <1>1 DEF Condemned
      <3>6. f \in Crossing
        BY <3>4, <3>5 DEF Crossing
      <3>7. QED
        BY <1>0, <3>6
    <2>3. QED
      BY <2>1, <2>2
  <1>2. CASE Kept(c)
    BY <1>0, <1>1, <1>2 DEF Kept, Bare, Theirs
  <1>3. CASE Listed(c)
    BY <1>3, FrameAssumption DEF Listed, Bare, Theirs, Scope, Cleaners
  <1>4. CASE RowsGone(c)
    <2>1. cleaner[c].doomed \subseteq Removed(c)
      BY <1>0, <1>4 DEF RowsGone, DeleteRows, Theirs, Removed, FrameTypeOK
    <2>2. frames' = frames \ Children(Removed(c))
      BY <1>4 DEF RowsGone, DeleteRows, FramesDeleted
    <2>3. \A f \in frames' : f[1] \notin cleaner'[c].doomed
      BY <1>4, <2>1, <2>2 DEF RowsGone, Children
    <2>4. QED
      BY <1>4, <2>3 DEF RowsGone, Bare, Theirs
  <1>5. CASE Orphaned(c)
    <2>1. frames' = frames /\ cleaner'[c].pc \in {"idle", "sweep"}
      BY <1>5 DEF Orphaned, LookUp, Goto, FrameTypeOK, tables
    <2>2. \A f \in frames : f[1] \in Stored
      BY DEF FrameTypeOK
    <2>3. QED
      BY <1>5, <2>1, <2>2 DEF Orphaned, Bare, Theirs
  <1>6. CASE OneTried(c)
    BY <1>0, <1>1, <1>6 DEF OneTried, Bare, Theirs
  <1>7. CASE HandsFree(c)
    BY <1>7 DEF HandsFree, Bare, Theirs
  <1>8. QED
    BY <1>2, <1>3, <1>4, <1>5, <1>6, <1>7, Hands

LEMMA NextFrames ==
    ASSUME FrameTypeOK, FrameInv, [Next]_vars
    PROVE  FrameInv'
  <1>1. CASE UNCHANGED vars
    BY <1>1 DEF vars, program, tables, FrameInv, Crossing, Condemned, PutBy, Bare, Theirs, PutKept,
                FramesHaveObjects
  <1>2. CASE Next
    <2>0. Crossing' \subseteq crossed' /\ crossed \subseteq crossed' /\ Crossing \subseteq crossed
      BY <1>2, EveryStepNotes DEF Note, FrameInv
    <2>c. \A c \in Cleaners : Bare(c)' /\ Theirs(c)'
      BY <1>2, NextCleaners
    <2>1. ASSUME NEW i \in Calls, PutFrame(i)
          PROVE  FramesHaveObjects' /\ \A k \in Calls : PutKept(k)'
      <3>1. PICK n \in call[i].left :
               /\ call' = [call EXCEPT ![i] = [pc |-> IF call[i].left = {n} THEN "tx" ELSE "put",
                                               left |-> call[i].left \ {n}]]
               /\ objects' = objects \cup {<<SessionOf[i], n>>}
               /\ frames' = frames /\ call[i].pc = "put"
        BY <2>1 DEF PutFrame, FramePut, tables
      <3>2. PutKept(i)'
        <4>1. /\ call'[i].left = call[i].left \ {n}
              /\ call'[i].pc = IF call[i].left = {n} THEN "tx" ELSE "put"
          BY <3>1 DEF FrameTypeOK
        <4>2. PutKept(i)
          BY DEF FrameInv
        <4>3. QED
          BY <2>0, <3>1, <4>1, <4>2 DEF PutKept
      <3>3. ASSUME NEW k \in Calls, k # i PROVE PutKept(k)'
        <4>1. PutKept(k) /\ call'[k] = call[k]
          BY <3>1, <3>3 DEF FrameInv, FrameTypeOK
        <4>2. QED
          BY <2>0, <3>1, <4>1 DEF PutKept
      <3>4. FramesHaveObjects'
        BY <2>0, <3>1 DEF FrameInv, FramesHaveObjects
      <3>5. QED
        BY <3>2, <3>3, <3>4
    <2>2. ASSUME NEW i \in Calls, Receive(i) \/ PutFails(i) \/ StoreFails(i)
          PROVE  FramesHaveObjects' /\ \A k \in Calls : PutKept(k)'
      <3>1. UNCHANGED <<objects, frames>>
        BY <2>2 DEF Receive, PutFails, StoreFails, tables
      <3>2. \/ call'[i].pc = "failed"
            \/ call'[i].left = FramesOf[i] /\ (call'[i].pc = "tx" => FramesOf[i] = {})
        BY <2>2 DEF Receive, PutFails, StoreFails, FrameTypeOK
      <3>3. PutKept(i)'
        BY <3>2 DEF PutKept
      <3>4. ASSUME NEW k \in Calls, k # i PROVE PutKept(k)'
        <4>1. PutKept(k) /\ call'[k] = call[k]
          BY <2>2, <3>4 DEF FrameInv, FrameTypeOK, Receive, PutFails, StoreFails
        <4>2. QED
          BY <2>0, <3>1, <4>1 DEF PutKept
      <3>5. QED
        BY <2>0, <3>1, <3>3, <3>4 DEF FrameInv, FramesHaveObjects
    <2>3. ASSUME NEW i \in Calls, StoreEnvelope(i)
          PROVE  FramesHaveObjects' /\ \A k \in Calls : PutKept(k)'
      <3>1. /\ call[i].pc = "tx" /\ PutKept(i) /\ objects' = objects
            /\ frames' = frames \cup {<<SessionOf[i], n>> : n \in FramesOf[i]}
            /\ call' = [call EXCEPT ![i].pc = "done"]
        BY <2>3 DEF StoreEnvelope, FrameInv
      <3>2. \A n \in FramesOf[i] : <<SessionOf[i], n>> \in objects \cup crossed
        BY <3>1 DEF PutKept
      <3>3. FramesHaveObjects'
        BY <2>0, <3>1, <3>2 DEF FrameInv, FramesHaveObjects
      <3>4. ASSUME NEW k \in Calls PROVE PutKept(k)'
        <4>1. PutKept(k)
          BY DEF FrameInv
        <4>2. call'[k].pc = "done" \/ call'[k] = call[k]
          BY <3>1 DEF FrameTypeOK
        <4>3. QED
          BY <2>0, <3>1, <4>1, <4>2 DEF PutKept
      <3>5. QED
        BY <3>3, <3>4
    <2>4. ASSUME NEW c \in Cleaners, DeletePrefix(c)
          PROVE  FramesHaveObjects' /\ \A k \in Calls : PutKept(k)'
      <3>1. PICK s \in cleaner[c].doomed :
               /\ objects' = objects \ ObjectsOf({s})
               /\ cleaner[c].pc \in {"objects", "sweep"}
               /\ frames' = frames /\ call' = call
        BY <2>4 DEF DeletePrefix, tables
      <3>2. s \in Condemned
        BY <3>1 DEF Condemned
      <3>3. \A f \in frames : f[1] = s => f \in crossed
        BY <3>1 DEF FrameInv, Bare
      <3>4. FramesHaveObjects'
        BY <2>0, <3>1, <3>3 DEF FrameInv, FramesHaveObjects, ObjectsOf
      <3>5. ASSUME NEW k \in Calls PROVE PutKept(k)'
        <4>1. PutKept(k)
          BY DEF FrameInv
        <4>2. ASSUME call[k].pc \in {"put", "tx"}, SessionOf[k] = s,
                     NEW n \in FramesOf[k], n \notin call[k].left
              PROVE  <<SessionOf[k], n>> \in crossed
          <5>1. <<SessionOf[k], n>> \in PutBy(k)
            BY <4>2 DEF PutBy
          <5>2. <<SessionOf[k], n>> \in Crossing
            BY <3>2, <4>2, <5>1 DEF Crossing
          <5>3. QED
            BY <2>0, <5>2
        <4>3. QED
          BY <2>0, <3>1, <4>1, <4>2 DEF PutKept, ObjectsOf
      <3>6. QED
        BY <3>4, <3>5
    <2>5. ASSUME objects' = objects, call' = call, frames' \subseteq frames
          PROVE  FramesHaveObjects' /\ \A k \in Calls : PutKept(k)'
      BY <2>0, <2>5 DEF FrameInv, FramesHaveObjects, PutKept
    <2>6. ASSUME NEW c \in Cleaners,
                 \/ SelectSessions(c) \/ DeleteRows(c) \/ RowsFail(c) \/ PrefixFails(c)
                 \/ Walk(c) \/ LookUp(c) \/ DeleteMaps(c)
          PROVE  objects' = objects /\ call' = call /\ frames' \subseteq frames
      BY <2>6 DEF SelectSessions, DeleteRows, RowsFail, PrefixFails, Walk, LookUp, DeleteMaps, tables
    <2>7. ASSUME PutArtifact \/ \E s \in Sessions : CutoffPasses(s)
          PROVE  objects' = objects /\ call' = call /\ frames' \subseteq frames
      BY <2>7 DEF PutArtifact, PutMap, PutMapRow, CutoffPasses, tables
    <2>8. FramesHaveObjects' /\ \A k \in Calls : PutKept(k)'
      BY <1>2, <2>1, <2>2, <2>3, <2>4, <2>5, <2>6, <2>7 DEF Next, Ingest, Clean, Sweep, Cleaners
    <2>9. QED
      BY <2>0, <2>c, <2>8 DEF FrameInv
  <1>3. QED
    BY <1>1, <1>2

(* Every frame the database names can be opened, but for those that were   *)
(* put while a cleaner was about to delete the objects of their session.   *)
THEOREM FramesCanBeOpened == Spec => []FramesHaveObjects
  <1>1. FrameTypeOK /\ FrameInv /\ [Next]_vars => (FrameTypeOK /\ FrameInv)'
    BY NextType, NextFrames
  <1>2. FrameInv => FramesHaveObjects
    BY DEF FrameInv
  <1>3. QED
    BY <1>1, <1>2, InitType, InitFrames, PTL DEF Spec

=============================================================================
