---------------------------- MODULE SymbolCache ----------------------------
(***************************************************************************)
(* Source maps: the artifacts of a release (a row in Postgres, an object   *)
(* in the blob store), and the cache of parsed maps every replica keeps    *)
(* (symbol.Cache).  A lookup misses under the mutex, loads without it and  *)
(* inserts under it again; an upload or a deletion changes row and object  *)
(* one after the other and forgets the release on its own replica.         *)
(*                                                                         *)
(* A key is a release of a project and a file.  A map is named by the      *)
(* upload it came from.                                                    *)
(***************************************************************************)
EXTENDS Naturals, SequencesExt

CONSTANTS
    Replicas,
    Lookups,        \* goroutines resolving frames, each on one replica
    Changes,        \* calls of PutArtifact and DeleteArtifact
    ReplicaOf,      \* the replica of each lookup and change
    Releases, Files,
    Keys,           \* the files of releases that are looked up or changed
    Targets,        \* the keys the changes are about: functions on Changes
    NoMap,          \* no row, no object, or "missing" in the cache
    SizeOf,         \* source bytes of the map each change uploads
    Unparsable,     \* uploads sourcemap.Parse refuses
    MaxBytes, MaxEntries, MissingBytes,
    CallsMayFail    \* whether the database and the store fail

Maps == Changes \cup {NoMap}

ASSUME SymbolAssumption ==
    /\ NoMap \notin Changes
    /\ Lookups \cap Changes = {}
    /\ ReplicaOf \in [Lookups \cup Changes -> Replicas]
    /\ Keys \subseteq Releases \X Files /\ Keys # {}
    /\ Targets \subseteq [Changes -> Keys]
    /\ SizeOf \in [Changes -> Nat \ {0}]
    /\ Unparsable \subseteq Changes
    /\ MaxBytes \in Nat /\ MaxEntries \in Nat \ {0} /\ MissingBytes \in Nat
    /\ CallsMayFail \in BOOLEAN

VARIABLES
    rows, objects,   \* release_artifacts, and what the blob store holds
    index,           \* Cache.items of each replica: the keys that have an entry
    order,           \* Cache.order: the entries, most recently used first
    bytes,           \* Cache.bytes
    lpc, wanted, loaded,   \* a lookup's next step, its key, what it loaded
    cpc, target,           \* a change's next step and its key
    crossed, passed, behind   \* history: see below

artifacts == <<rows, objects>>
cache     == <<index, order, bytes>>
lookup    == <<lpc, wanted, loaded>>
change    == <<cpc, target>>
program   == <<artifacts, cache, lookup, change>>
history   == <<crossed, passed, behind>>
vars      == <<program, history>>

Entry == [key : Keys, map : Maps, size : Nat]

(* What the locals of a lookup hold between two calls.                     *)
AnyKey == CHOOSE k \in Keys : TRUE

Init ==
    /\ rows = [k \in Keys |-> NoMap] /\ objects = [k \in Keys |-> NoMap]
    /\ index = [r \in Replicas |-> {}]
    /\ order = [r \in Replicas |-> <<>>]
    /\ bytes = [r \in Replicas |-> 0]
    /\ lpc = [l \in Lookups |-> "idle"]
    /\ wanted = [l \in Lookups |-> AnyKey]
    /\ loaded = [l \in Lookups |-> NoMap]
    /\ cpc = [c \in Changes |-> "idle"]
    /\ target \in Targets
    /\ crossed = {} /\ passed = {} /\ behind = {}

-----------------------------------------------------------------------------
(* The cache of one replica. *)

Size(entries) == FoldLeft(LAMBDA sum, e : sum + e.size, 0, entries)

(* A map that does not parse is kept as missing.                           *)
Parsed(m) == IF m \in Unparsable THEN NoMap ELSE m

NewEntry(key, m) ==
    [key |-> key, map |-> Parsed(m),
     size |-> IF Parsed(m) = NoMap THEN MissingBytes ELSE SizeOf[m]]

ToFront(entries, key) ==
    LET n == CHOOSE n \in DOMAIN entries : entries[n].key = key
    IN  <<entries[n]>> \o RemoveAt(entries, n)

(* Variant: nothing is evicted.                                            *)
KeepAll(entries, total) == Len(entries)

(* How many of the entries evict() keeps: it drops the last until the rest *)
(* is inside both bounds, and never the only one.                          *)
Kept(entries, total) ==
    LET Over(n) == \/ total - Size(SubSeq(entries, n + 1, Len(entries))) > MaxBytes
                   \/ n > MaxEntries
    IN  CHOOSE n \in 1..Len(entries) :
            /\ \A m \in n + 1 .. Len(entries) : Over(m)
            /\ n = 1 \/ ~Over(n)

Push(r, e) ==
    LET pushed == <<e>> \o order[r]
        total  == bytes[r] + e.size
        n      == Kept(pushed, total)
        gone   == SubSeq(pushed, n + 1, Len(pushed))
    IN  /\ order' = [order EXCEPT ![r] = SubSeq(pushed, 1, n)]
        /\ index' = [index EXCEPT ![r] = (@ \cup {e.key}) \ {x.key : x \in ToSet(gone)}]
        /\ bytes' = [bytes EXCEPT ![r] = total - Size(gone)]

(* Variants: it is left where it is; the loser's bytes are added as well.  *)
Leave(r, key) == UNCHANGED cache

TouchAndAdd(r, key) ==
    /\ order' = [order EXCEPT ![r] = ToFront(@, key)]
    /\ bytes' = [bytes EXCEPT ![r] = @ + MissingBytes]
    /\ UNCHANGED index

(* A map another goroutine inserted meanwhile is kept.                     *)
Touch(r, key) ==
    /\ order' = [order EXCEPT ![r] = ToFront(@, key)]
    /\ UNCHANGED <<index, bytes>>

OfRelease(key, release) == key[1] = release

(* Variant: the elements stay in the list.                                 *)
ForgetIndex(r, release) ==
    LET Goes(e) == e.key \in index[r] /\ OfRelease(e.key, release)
    IN  /\ index' = [index EXCEPT ![r] = {k \in @ : ~OfRelease(k, release)}]
        /\ bytes' = [bytes EXCEPT ![r] = @ - Size(SelectSeq(order[r], Goes))]
        /\ UNCHANGED order

(* The entries of a release, or those of all the others.                   *)
Part(entries, release, goes) ==
    FoldLeft(LAMBDA q, e : IF OfRelease(e.key, release) = goes THEN Append(q, e) ELSE q,
             <<>>, entries)

Forget(r, release) ==
    /\ order' = [order EXCEPT ![r] = Part(@, release, FALSE)]
    /\ index' = [index EXCEPT ![r] = {k \in @ : ~OfRelease(k, release)}]
    /\ bytes' = [bytes EXCEPT ![r] = @ - Size(Part(order[r], release, TRUE))]

-----------------------------------------------------------------------------
(* A lookup: Cache.consumer, with Store.SourceMap as its loader. *)

LGoto(l, label) == lpc' = [lpc EXCEPT ![l] = label]

Return(l) ==
    /\ LGoto(l, "idle")
    /\ wanted' = [wanted EXCEPT ![l] = AnyKey]
    /\ loaded' = [loaded EXCEPT ![l] = NoMap]

Hit(l, key) ==
    /\ lpc[l] = "idle"
    /\ key \in index[ReplicaOf[l]]
    /\ Touch(ReplicaOf[l], key)
    /\ UNCHANGED <<artifacts, lookup, change>>

Miss(l, key) ==
    /\ lpc[l] = "idle"
    /\ key \notin index[ReplicaOf[l]]
    /\ wanted' = [wanted EXCEPT ![l] = key]
    /\ LGoto(l, "row")
    /\ UNCHANGED <<artifacts, cache, loaded, change>>

CheckRow(l) ==
    /\ lpc[l] = "row"
    /\ loaded' = [loaded EXCEPT ![l] = NoMap]
    /\ LGoto(l, IF rows[wanted[l]] = NoMap THEN "insert" ELSE "get")
    /\ UNCHANGED <<artifacts, cache, wanted, change>>

GetObject(l) ==
    /\ lpc[l] = "get"
    /\ loaded' = [loaded EXCEPT ![l] = objects[wanted[l]]]
    /\ LGoto(l, "insert")
    /\ UNCHANGED <<artifacts, cache, wanted, change>>

(* Any other error is not remembered.                                      *)
LoadFails(l) ==
    /\ CallsMayFail
    /\ lpc[l] \in {"row", "get"}
    /\ Return(l)
    /\ UNCHANGED <<artifacts, cache, change>>

(* Variant: the second check of the index forgotten.                       *)
InsertBlindly(l) ==
    /\ lpc[l] = "insert"
    /\ Push(ReplicaOf[l], NewEntry(wanted[l], loaded[l]))
    /\ Return(l)
    /\ UNCHANGED <<artifacts, change>>

Insert(l) ==
    LET r == ReplicaOf[l]
    IN  /\ lpc[l] = "insert"
        /\ IF wanted[l] \in index[r]
           THEN Touch(r, wanted[l])
           ELSE Push(r, NewEntry(wanted[l], loaded[l]))
        /\ Return(l)
        /\ UNCHANGED <<artifacts, change>>

-----------------------------------------------------------------------------
(* PutArtifact: object, row, Forget.  DeleteArtifact: row, Forget, object. *)

CGoto(c, label) == cpc' = [cpc EXCEPT ![c] = label]
Uploading(c)    == cpc[c] \in {"putRow", "forget"}
Deleting(c)     == cpc[c] \in {"forgetDeleted", "deleteObject"}

PutObject(c) ==
    /\ cpc[c] = "idle"
    /\ objects' = [objects EXCEPT ![target[c]] = c]
    /\ CGoto(c, "putRow")
    /\ UNCHANGED <<rows, cache, lookup, target>>

PutRow(c) ==
    /\ cpc[c] = "putRow"
    /\ rows' = [rows EXCEPT ![target[c]] = c]
    /\ CGoto(c, "forget")
    /\ UNCHANGED <<objects, cache, lookup, target>>

(* Variant: the object goes first.                                         *)
DeleteObjectFirst(c) ==
    /\ cpc[c] = "idle"
    /\ rows[target[c]] # NoMap
    /\ objects' = [objects EXCEPT ![target[c]] = NoMap]
    /\ CGoto(c, "forgetDeleted")
    /\ UNCHANGED <<rows, cache, lookup, target>>

DeleteRow(c) ==
    /\ cpc[c] = "idle"
    /\ rows' = [rows EXCEPT ![target[c]] = NoMap]
    /\ CGoto(c, IF rows[target[c]] = NoMap THEN "refused" ELSE "forgetDeleted")
    /\ UNCHANGED <<objects, cache, lookup, target>>

(* Variant: the cache is not told.                                         *)
ForgetNothing(c) ==
    /\ cpc[c] \in {"forget", "forgetDeleted"}
    /\ CGoto(c, IF cpc[c] = "forget" THEN "done" ELSE "deleteObject")
    /\ UNCHANGED <<artifacts, cache, lookup, target>>

ForgetRelease(c) ==
    /\ cpc[c] \in {"forget", "forgetDeleted"}
    /\ Forget(ReplicaOf[c], target[c][1])
    /\ CGoto(c, IF cpc[c] = "forget" THEN "done" ELSE "deleteObject")
    /\ UNCHANGED <<artifacts, lookup, target>>

DeleteObject(c) ==
    /\ cpc[c] = "deleteObject"
    /\ objects' = [objects EXCEPT ![target[c]] = NoMap]
    /\ CGoto(c, "done")
    /\ UNCHANGED <<rows, cache, lookup, target>>

(* A call of the database or the store fails, or the process dies.         *)
ChangeFails(c) ==
    /\ CallsMayFail
    /\ Uploading(c) \/ Deleting(c)
    /\ CGoto(c, "failed")
    /\ UNCHANGED <<artifacts, cache, lookup, target>>

-----------------------------------------------------------------------------
Resolve(l) ==
    \/ \E key \in Keys : Hit(l, key) \/ Miss(l, key)
    \/ CheckRow(l) \/ GetObject(l) \/ LoadFails(l) \/ Insert(l)

PutArtifact(c)    == PutObject(c) \/ PutRow(c)
DeleteArtifact(c) == DeleteRow(c) \/ DeleteObject(c)

(* What the properties remember of a run; no step of the program looks at  *)
(* it.  An upload and a deletion of a key of `crossed` were once under way *)
(* together.  A lookup of `passed` began to load before its replica forgot *)
(* the release.  The cache of a replica may be behind on a key if such a   *)
(* lookup inserted it, or if another replica has changed it, since it last *)
(* forgot the release.                                                     *)
Crossing == {k \in Keys : \E c, d \in Changes : /\ target[c] = k /\ target[d] = k
                                                /\ Uploading(c) /\ Deleting(d)}

Loading(r, release) ==
    {l \in Lookups : lpc[l] # "idle" /\ ReplicaOf[l] = r /\ OfRelease(wanted[l], release)}

NoteLookup(l) ==
    /\ passed' = IF lpc'[l] = "idle" THEN passed \ {l} ELSE passed
    /\ behind' = IF lpc[l] = "insert" /\ l \in passed /\ wanted[l] \notin index[ReplicaOf[l]]
                 THEN behind \cup {<<ReplicaOf[l], wanted[l]>>} ELSE behind
    /\ UNCHANGED crossed

NoteWrite(c) ==
    /\ crossed' = crossed \cup Crossing'
    /\ behind' = IF artifacts' = artifacts THEN behind
                 ELSE behind \cup {<<r, target[c]>> : r \in Replicas \ {ReplicaOf[c]}}
    /\ UNCHANGED passed

NoteForget(c) ==
    LET r == ReplicaOf[c]
        release == target[c][1]
    IN  /\ passed' = passed \cup Loading(r, release)
        /\ behind' = {b \in behind : b[1] # r \/ ~OfRelease(b[2], release)}
        /\ UNCHANGED crossed

Next ==
    \/ \E l \in Lookups : Resolve(l) /\ NoteLookup(l)
    \/ \E c \in Changes : \/ PutArtifact(c) /\ NoteWrite(c)
                          \/ DeleteArtifact(c) /\ NoteWrite(c)
                          \/ ForgetRelease(c) /\ NoteForget(c)
                          \/ ChangeFails(c) /\ UNCHANGED history

Spec == Init /\ [][Next]_vars

-----------------------------------------------------------------------------
(* Properties *)

SymbolTypeOK ==
    /\ rows \in [Keys -> Maps] /\ objects \in [Keys -> Maps]
    /\ index \in [Replicas -> SUBSET Keys]
    /\ \A r \in Replicas : order[r] \in Seq(Entry)
    /\ bytes \in [Replicas -> Nat]
    /\ lpc \in [Lookups -> {"idle", "row", "get", "insert"}]
    /\ wanted \in [Lookups -> Keys] /\ loaded \in [Lookups -> Maps]
    /\ cpc \in [Changes -> {"idle", "putRow", "forget", "forgetDeleted",
                            "deleteObject", "done", "refused", "failed"}]
    /\ target \in [Changes -> Keys]
    /\ crossed \subseteq Keys /\ passed \subseteq Lookups
    /\ behind \subseteq Replicas \X Keys

(* The byte count that decides what to evict is the sum of what is kept:   *)
(* whatever was inserted twice, dropped or forgotten.                      *)
BytesAreSizes == \A r \in Replicas : bytes[r] = Size(order[r])

(* With the mutex free the cache is inside both its bounds, or holds one   *)
(* map that is larger than the bound by itself.                            *)
WithinBound ==
    \A r \in Replicas :
        \/ Len(order[r]) <= 1
        \/ bytes[r] <= MaxBytes /\ Len(order[r]) <= MaxEntries

(* The map from keys to list elements and the list agree, one element per  *)
(* key, although two lookups may load the same map.                        *)
IndexIsOrder ==
    \A r \in Replicas :
        /\ index[r] = {e.key : e \in ToSet(order[r])}
        /\ Cardinality(index[r]) = Len(order[r])

(* The cache's three accounts - the bytes, the list and the map from keys  *)
(* to its elements - agree with each other and with the bounds, although   *)
(* two lookups that missed together both come to insert the same map.      *)
CacheAccounts == BytesAreSizes /\ WithinBound /\ IndexIsOrder

(* What a lookup has just loaded is never what is evicted next: it is the  *)
(* most recently used.                                                     *)
JustUsedIsFirst ==
    [][ \A l \in Lookups :
          lpc[l] = "insert" /\ lpc'[l] = "idle" =>
              Head(order'[ReplicaOf[l]]).key = wanted[l] ]_vars

(* A row never points at nothing: uploads write the object first and       *)
(* deletions remove the row first, whatever fails in between.  Only an     *)
(* upload and a deletion of one file that overlap may leave one behind.    *)
RowHasObject ==
    \A k \in Keys \ crossed : rows[k] # NoMap => objects[k] # NoMap

(* What PutArtifact's comment says, of all files.  It does not hold: a     *)
(* deletion removes the object an upload has just written.                 *)
NoRowDangles == \A k \in Keys : rows[k] # NoMap => objects[k] # NoMap

Settled(k) ==
    \A c \in Changes : target[c] = k => cpc[c] \in {"idle", "done", "refused"}

Stored(rw, ob, k) == IF rw[k] = NoMap THEN NoMap ELSE Parsed(ob[k])

(* A re-uploaded or deleted map takes effect: when no change of a key is   *)
(* going on, what a cache holds for it is what is stored, however lookups  *)
(* and changes overlapped and whatever was evicted, inserted twice or      *)
(* failed.  Only a load that a Forget of its release passed, and another   *)
(* replica's change, can leave an old map; the next Forget ends that.      *)
NoStaleMap ==
    \A r \in Replicas : \A e \in ToSet(order[r]) :
        Settled(e.key) /\ e.key \notin crossed /\ <<r, e.key>> \notin behind =>
            e.map = Stored(rows, objects, e.key)

(* What Forget's comment says, of all caches.  It does not hold, on one    *)
(* replica or on two.                                                      *)
NothingIsStale ==
    \A r \in Replicas : \A e \in ToSet(order[r]) :
        Settled(e.key) => e.map = Stored(rows, objects, e.key)
=============================================================================
