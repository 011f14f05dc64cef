----------------------------- MODULE Collection -----------------------------
(***************************************************************************)
(* LodeCollection (local/collection.py): named LodeDB spaces under one root *)
(* and the collection.json manifest that records how each was created.      *)
(* Several processes hold collections over one root, each with the registry *)
(* it loaded.  A space is a LodeDB: a writer lock and a persisted identity. *)
(***************************************************************************)
EXTENDS Naturals, FiniteSets, StoreOptions

CONSTANTS
  None,
  Handles,    \* processes with a collection over the root
  Names,      \* space names
  Presets,    \* models of preset spaces
  Dims,       \* dimensions of vector spaces
  Embedders,  \* identities of custom embedders
  Requests,   \* argument combinations callers pass to space()
  MaxCalls,   \* bound: calls of space() per behaviour
  MaxFaults   \* bound: failed publishes and crashes

VARIABLES
  manifest,   \* collection.json: name -> configuration, or None
  identities, \* what each space's store was created as, or None
  locks,      \* each space's writer lock: its holder, or None
  rootLock,   \* the collection-root lock
  col,        \* the collection of each handle
  calls, faults

disk == <<manifest, identities>>
vars == <<disk, locks, rootLock, col, calls, faults>>

Idle == [pc |-> "idle"]
Closed == [st |-> "closed", read_only |-> FALSE, spaces_config |-> [n \in Names |-> None],
           open |-> [n \in Names |-> None], call |-> Idle]

Init ==
  /\ manifest = [n \in Names |-> None] /\ identities = [n \in Names |-> None]
  /\ locks = [n \in Names |-> None] /\ rootLock = None
  /\ col = [h \in Handles |-> Closed] /\ calls = 0 /\ faults = 0

-----------------------------------------------------------------------------
(* Configurations: kind, the model, dimension or embedder identity of that  *)
(* kind, width (fixed by the preset, for a preset) and store_text.          *)

PresetWidth == 4

\* The default of store_text, whose value index_text follows when not passed.
privacy_flags(store_text) == IF store_text = Unset THEN TRUE ELSE store_text

Config(kind, r, bit_width, store_text) ==
  [kind |-> kind, model |-> r.model, vector_dim |-> r.vector_dim, embedder |-> r.embedder,
   bit_width |-> bit_width, store_text |-> store_text]

\* Only the argument of one kind.
Only(r, field) == [[model |-> Unset, vector_dim |-> Unset, embedder |-> Unset]
                     EXCEPT ![field] = r[field]]

\* _new_space: the configuration of a space that is not recorded, or None for
\* arguments that are refused.
new_space(r) ==
  LET text == privacy_flags(r.store_text)
      width == Or(r.bit_width, 4)
  IN IF r.embedder # Unset THEN Config("custom", Only(r, "embedder"), width, text)
     ELSE IF r.vector_dim # Unset THEN Config("vector", Only(r, "vector_dim"), width, text)
     ELSE IF width = PresetWidth
       THEN Config("preset", [Only(r, "model") EXCEPT !.model = Or(@, "minilm")], PresetWidth, text)
     ELSE None

check_flag(recorded, passed) == passed \in {Unset, recorded}

\* _reopen_space: the recorded configuration, or None when an argument
\* contradicts it.  A custom space takes the identity of the embedder passed.
reopen_space(c, r) ==
  LET agrees ==
        /\ check_flag(c.bit_width, r.bit_width) /\ check_flag(c.store_text, r.store_text)
        /\ CASE c.kind = "custom" -> r.embedder # Unset /\ r.model = Unset /\ r.vector_dim = Unset
             [] c.kind = "vector" -> r.embedder = Unset /\ r.model = Unset
                                       /\ check_flag(c.vector_dim, r.vector_dim)
             [] c.kind = "preset" -> r.embedder = Unset /\ r.vector_dim = Unset
                                       /\ check_flag(c.model, r.model)
  IN IF ~agrees THEN None
     ELSE IF c.kind = "custom" THEN [c EXCEPT !.embedder = r.embedder] ELSE c

-----------------------------------------------------------------------------
Set(h, c) == col' = [col EXCEPT ![h] = c]
Idling(h) == col[h].st = "open" /\ col[h].call = Idle

\* LodeCollection(path): the manifest is read without a lock.
load_manifest == manifest

Open(h) ==
  /\ col[h].st = "closed"
  /\ \E ro \in BOOLEAN :
       Set(h, [Closed EXCEPT !.st = "open", !.read_only = ro, !.spaces_config = load_manifest])
  /\ UNCHANGED <<disk, locks, rootLock, calls, faults>>

\* space(): the configuration to open with.  The call ends at once when it is
\* refused, or when the space is open already.
Space(h) ==
  /\ Idling(h) /\ calls < MaxCalls /\ calls' = calls + 1
  /\ \E n \in Names, r \in Requests :
       LET recorded == col[h].spaces_config[n]
           c == IF recorded # None THEN reopen_space(recorded, r)
                ELSE IF col[h].read_only THEN None ELSE new_space(r)
       IN IF c = None \/ col[h].open[n] # None THEN UNCHANGED col
          ELSE Set(h, [col[h] EXCEPT !.call =
                 [pc |-> "open", name |-> n, config |-> c, new |-> recorded = None]])
  /\ UNCHANGED <<disk, locks, rootLock, faults>>

Call(h) == col[h].call
At(h, pc) == col[h].st = "open" /\ Call(h).pc = pc
Return(h) == Set(h, [col[h] EXCEPT !.call = Idle])
Opened(h) == [col[h] EXCEPT !.open[Call(h).name] = Call(h).config, !.call = Idle]

\* A store whose identity only readers enforce.
refuses_readers(h, n, id) ==
  \/ identities[n] # id /\ col[h].read_only
  \/ locks[n] # None /\ ~col[h].read_only

\* LodeDB refuses a store whose identity contradicts the configuration, or whose
\* lock another writer holds past the timeout; and read-only, one that is not
\* there.
refuses(h, n, id) ==
  \/ identities[n] \notin {None, id}
  \/ locks[n] # None /\ ~col[h].read_only
  \/ identities[n] = None /\ col[h].read_only

OpenSpace(h) ==
  /\ At(h, "open")
  /\ LET n == Call(h).name
         id == route(Call(h).config)
     IN IF refuses(h, n, id) THEN Return(h) /\ UNCHANGED <<identities, locks>>
        ELSE IF col[h].read_only THEN Set(h, Opened(h)) /\ UNCHANGED <<identities, locks>>
        ELSE /\ identities' = [identities EXCEPT ![n] = id]
             /\ locks' = [locks EXCEPT ![n] = h]
             /\ Set(h, IF Call(h).new THEN [col[h] EXCEPT !.call.pc = "lock"] ELSE Opened(h))
  /\ UNCHANGED <<manifest, rootLock, calls, faults>>

\* _write_manifest: the lock, the read-merge-write, the release.
LockRoot(h) ==
  /\ At(h, "lock") /\ rootLock = None /\ rootLock' = h
  /\ Set(h, [col[h] EXCEPT !.call.pc = "merge"])
  /\ UNCHANGED <<disk, locks, calls, faults>>

\* A publish of the registry as this handle knows it.
MergedWithout(h) == [col[h].spaces_config EXCEPT ![Call(h).name] = Call(h).config]

Merged(h) ==
  LET mine == [col[h].spaces_config EXCEPT ![Call(h).name] = Call(h).config]
  IN [n \in Names |-> IF mine[n] # None THEN mine[n] ELSE Call(h).read[n]]

Merge(h) ==
  /\ At(h, "merge")
  /\ Set(h, [col[h] EXCEPT !.call = [pc |-> "publish", name |-> @.name, config |-> @.config,
                                     new |-> TRUE, read |-> load_manifest]])
  /\ UNCHANGED <<disk, locks, rootLock, calls, faults>>

Publish(h) ==
  /\ At(h, "publish")
  /\ manifest' = Merged(h)
  /\ Set(h, [col[h] EXCEPT !.spaces_config = Merged(h), !.call.pc = "unlock"])
  /\ UNCHANGED <<identities, locks, rootLock, calls, faults>>

UnlockRoot(h) ==
  /\ At(h, "unlock") /\ rootLock' = None /\ Set(h, Opened(h))
  /\ UNCHANGED <<disk, locks, calls, faults>>

\* A rollback that leaves the space's lock.
RollbackKeeping(h) == Return(h) /\ UNCHANGED locks

\* The registry is restored, and the space closed, which releases its lock.
Rollback(h) == Return(h) /\ locks' = [locks EXCEPT ![Call(h).name] = None]

LockTimesOut(h) ==
  /\ At(h, "lock") /\ rootLock # None
  /\ Rollback(h)
  /\ UNCHANGED <<disk, rootLock, calls, faults>>

\* The temporary file cannot be written or moved into place.
PublishFails(h) ==
  /\ At(h, "publish") /\ faults < MaxFaults /\ faults' = faults + 1
  /\ Rollback(h) /\ rootLock' = None
  /\ UNCHANGED <<disk, calls>>

Released(h) == [n \in Names |-> IF locks[n] = h THEN None ELSE locks[n]]

Close(h) ==
  /\ Idling(h) /\ Set(h, Closed) /\ locks' = Released(h)
  /\ UNCHANGED <<disk, rootLock, calls, faults>>

\* One space's close raises: it is closed all the same, the ones after it are
\* not, and the collection still lists them all.
CloseFails(h) ==
  /\ Idling(h) /\ faults < MaxFaults /\ faults' = faults + 1
  /\ \E closed \in SUBSET {n \in Names : col[h].open[n] # None} \ {{}} :
       locks' = [n \in Names |-> IF n \in closed THEN Released(h)[n] ELSE locks[n]]
  /\ UNCHANGED <<disk, rootLock, col, calls>>

\* The process dies, and its locks with it.
Crash(h) ==
  /\ col[h].st = "open" /\ col[h].call # Idle
  /\ faults < MaxFaults /\ faults' = faults + 1
  /\ Set(h, Closed) /\ locks' = Released(h)
  /\ rootLock' = IF rootLock = h THEN None ELSE rootLock
  /\ UNCHANGED <<disk, calls>>

Step(h) == OpenSpace(h) \/ LockRoot(h) \/ LockTimesOut(h) \/ Merge(h) \/ Publish(h) \/ UnlockRoot(h)
Next ==
  \E h \in Handles :
    \/ Open(h) \/ Space(h) \/ Step(h) \/ PublishFails(h) \/ Close(h) \/ CloseFails(h) \/ Crash(h)

Spec == Init /\ [][Next]_vars

-----------------------------------------------------------------------------
(* Properties                                                              *)

Configs == [kind : {"preset", "vector", "custom"}, model : Presets \cup {Unset},
            vector_dim : Dims \cup {Unset}, embedder : Embedders \cup {Unset},
            bit_width : {2, 4}, store_text : BOOLEAN]

\* Type invariant: the manifest and the open spaces hold resolved configurations
\* (_new_space), locks are held by handles.
TypeOK ==
  /\ manifest \in [Names -> Configs \cup {None}]
  /\ locks \in [Names -> Handles \cup {None}] /\ rootLock \in Handles \cup {None}
  /\ \A h \in Handles : col[h].open \in [Names -> Configs \cup {None}]

\* A space, once published, is never lost to another handle's publish.
SpacesKept == [][\A n \in Names : manifest[n] # None => manifest'[n] # None]_vars

\* What the manifest records of a space is what its store was created as,
\* however creations race, fail or are cut short; and a space that is open is
\* open with the configuration its handle's registry records, flags included,
\* whatever arguments it was reopened with.
ManifestTrue ==
  \A n \in Names :
    /\ manifest[n] # None => identities[n] = route(manifest[n])
    /\ \A h \in Handles :
         col[h].open[n] # None => col[h].open[n] = col[h].spaces_config[n]

\* A space's lock is held by the handle that has it open, or is opening it: a
\* creation that could not be published leaves nothing locked.
LocksAccounted ==
  \A n \in Names : locks[n] # None =>
    LET c == col[locks[n]] IN c.st = "open" /\ (c.open[n] # None \/ c.call # Idle)

\* Whatever the arguments of LodeDB are (StoreOptions): openings told apart by
\* kind, model, dimension or width never share a persisted identity, and a store
\* keeps the ANN and rescore options it was created with, except for nprobe and
\* oversample, which follow the session.
OptionsKept == calls = 0 => Distinct /\ AnnKept /\ RescoreKept

\* The configuration that is recorded when a space is created never changes.
RecordedOnce == [][\A n \in Names : manifest[n] # None => manifest'[n] = manifest[n]]_vars

=============================================================================
