----------------------------- MODULE FrameMove -----------------------------
(* sightpane migrate-frames (blob/migrate.go, blob/fs.go, main.go): every     *)
(* object of one frame store is copied to another, beside a server that goes  *)
(* on storing and sweeping.  Frames are written once, so an object is told by *)
(* its length; a file is truncated and then written, and a crash in between   *)
(* leaves it short.  An object store replaces an object in one step.          *)
EXTENDS Naturals, FiniteSets

CONSTANTS
  Keys,             \* 1..n, in the order of the walk
  Length,           \* key |-> length of the whole frame
  MaxStops          \* bound: crashes and failing calls

Absent == 999
ASSUME MoveAssumption ==
  /\ IsFiniteSet(Keys) /\ Keys = 1..Cardinality(Keys) /\ Length \in [Keys -> 1..(Absent - 1)]
  /\ MaxStops \in Nat

VARIABLES
  intoFiles,        \* --from s3 --to fs, or else the other way; never one kind to itself
  source, dest,     \* key |-> length of its object, or Absent
  mover,            \* [at, key, size]: the run under way
  untouched,        \* history: the keys the server has left alone since the run began
  stops

moveVars == <<intoFiles, source, dest, mover, untouched, stops>>

MoveInit ==
  /\ intoFiles \in BOOLEAN
  /\ source = [k \in Keys |-> Absent] /\ dest = source
  /\ mover = [at |-> "idle", key |-> 0, size |-> 0]
  /\ untouched = {} /\ stops = 0

Writable(files, k) == {Length[k]} \cup (IF files THEN {0} ELSE {})

\* The server stores a frame, or cleans up after a session.
ServerPut(k) ==
  /\ \E n \in Writable(~intoFiles, k) : source' = [source EXCEPT ![k] = n]
  /\ untouched' = untouched \ {k} /\ UNCHANGED <<intoFiles, dest, mover, stops>>
ServerDelete(k) ==
  /\ source[k] # Absent /\ source' = [source EXCEPT ![k] = Absent]
  /\ untouched' = untouched \ {k} /\ UNCHANGED <<intoFiles, dest, mover, stops>>

Begin ==
  /\ mover.at \in {"idle", "failed", "done"}
  /\ mover' = [at |-> "walk", key |-> 0, size |-> 0] /\ untouched' = Keys
  /\ UNCHANGED <<intoFiles, source, dest, stops>>

\* Mutant of Skips: an object that is there at all counts as moved.
SkipsIfThere(k) == dest[k] # Absent

Skips(k) == dest[k] = source[k]

\* The walk comes to an object, which is passed over if it has its length.  It
\* takes its listing as it goes: what the server stored since the run began may
\* be on it or not.
Ahead == {k \in Keys : k > mover.key /\ source[k] # Absent}

Visit ==
  LET listed == Ahead \cap untouched IN
  /\ mover.at = "walk"
  /\ \/ listed = {} /\ mover' = [mover EXCEPT !.at = "done"]
     \/ \E k \in Ahead :
          /\ \A i \in listed : k <= i
          /\ mover' = [at |-> IF Skips(k) THEN "walk" ELSE "read", key |-> k, size |-> 0]
  /\ UNCHANGED <<intoFiles, source, dest, untouched, stops>>

\* It comes to one that was listed and has been swept: a file cannot be looked
\* at, which ends the run, and an object is not there to be read, unless there is
\* a copy of the length the listing gave.
VisitSwept ==
  /\ mover.at = "walk"
  /\ \E k \in Keys \ (untouched \cup Ahead) :
       /\ k > mover.key /\ \A i \in Ahead \cap untouched : k <= i
       /\ mover' = [at |-> IF intoFiles /\ dest[k] = Length[k] THEN "walk" ELSE "failed", key |-> k, size |-> 0]
  /\ UNCHANGED <<intoFiles, source, dest, untouched, stops>>

\* An object that is gone by now ends the run.
ReadSource ==
  /\ mover.at = "read"
  /\ mover' = IF source[mover.key] = Absent THEN [mover EXCEPT !.at = "failed"]
              ELSE [mover EXCEPT !.at = "put", !.size = source[mover.key]]
  /\ UNCHANGED <<intoFiles, source, dest, untouched, stops>>

Truncate ==
  /\ mover.at = "put" /\ intoFiles
  /\ dest' = [dest EXCEPT ![mover.key] = 0] /\ mover' = [mover EXCEPT !.at = "write"]
  /\ UNCHANGED <<intoFiles, source, untouched, stops>>

WriteDest ==
  /\ mover.at = "write" \/ (mover.at = "put" /\ ~intoFiles)
  /\ dest' = [dest EXCEPT ![mover.key] = mover.size] /\ mover' = [mover EXCEPT !.at = "verify"]
  /\ UNCHANGED <<intoFiles, source, untouched, stops>>

Verify ==
  /\ mover.at = "verify"
  /\ mover' = [mover EXCEPT !.at = IF dest[mover.key] = mover.size THEN "walk" ELSE "failed"]
  /\ UNCHANGED <<intoFiles, source, dest, untouched, stops>>

\* The tool is stopped, or a call to a store fails; it may be run again.
Stop ==
  /\ mover.at \notin {"idle", "failed", "done"} /\ stops < MaxStops
  /\ stops' = stops + 1 /\ mover' = [mover EXCEPT !.at = "failed"]
  /\ UNCHANGED <<intoFiles, source, dest, untouched>>

MoveNext ==
  \/ \E k \in Keys : ServerPut(k) \/ ServerDelete(k)
  \/ Begin \/ Visit \/ VisitSwept \/ ReadSource \/ Truncate \/ WriteDest \/ Verify \/ Stop

---------------------------------------------------------------------------
\* A run that says it is complete has moved every object that lay still while
\* it ran, whole, whatever earlier runs that were cut short had left.
MoveIsComplete ==
  mover.at = "done" => \A k \in untouched : source[k] # Absent => dest[k] = source[k]
=============================================================================
