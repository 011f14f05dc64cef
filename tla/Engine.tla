------------------------------- MODULE Engine -------------------------------
(***************************************************************************)
(* CoreEngine opened for writing, and CoreCheckpointer, which keeps one    *)
(* warm and folds the appenders' tail with it (engine/mod.rs).  A commit   *)
(* is two crashable steps: the root swap, then the removal of the WAL.     *)
(***************************************************************************)
EXTENDS StoreFiles

CONSTANTS
  Modes,    \* commit modes the writers open with
  MaxBump   \* bound: generations one replay may add

ASSUME EngineAssumption ==
  /\ Modes \subseteq {"wal", "generation"}
  /\ MaxBump \in Nat \ {0}

VARIABLES
  pc,      \* where each engine is
  task,    \* what the commit in progress belongs to
  mode,    \* commit mode of an open writer
  eng,     \* the in-memory index of an open engine
  tokens,  \* committed_tokens of a checkpointer
  needs    \* needs_reload of a checkpointer

engineVars == <<pc, task, mode, eng, tokens, needs>>

EnginePcs == {"closed", "open", "leased", "loaded", "warm", "fold", "commit", "truncate"}
Tasks     == {"none", "open", "persist", "warm", "reload", "fold"}

\* IndexState: generation, applied_lsn and persisted_applied_lsn, the records
\* the index holds, those not committed yet, and whether any changed it.
EngineState ==
  [generation : Nat, applied_lsn : Nat, persisted_applied_lsn : Nat,
   docs : SUBSET Ids, pending : SUBSET Ids, dirty : BOOLEAN]

NoEngine ==
  [generation |-> 0, applied_lsn |-> 0, persisted_applied_lsn |-> 0,
   docs |-> {}, pending |-> {}, dirty |-> FALSE]

EngineInit ==
  /\ pc     = [p \in Engines |-> "closed"]
  /\ task   = [p \in Engines |-> "none"]
  /\ mode   = [p \in Engines |-> "wal"]
  /\ eng    = [p \in Engines |-> NoEngine]
  /\ tokens = [p \in Engines |-> None]
  /\ needs  = [p \in Engines |-> FALSE]

Release(p) == excl' = None

\* Dropping an engine: its memory goes, and every lock its process holds.
DropEngine(p) ==
  /\ pc'    = [pc EXCEPT ![p] = "closed"]
  /\ task'  = [task EXCEPT ![p] = "none"]
  /\ eng'   = [eng EXCEPT ![p] = NoEngine]
  /\ needs' = [needs EXCEPT ![p] = FALSE]
  /\ tokens' = [tokens EXCEPT ![p] = None]
  /\ excl'  = IF excl = p THEN None ELSE excl
  /\ lease' = IF lease = p THEN None ELSE lease

-----------------------------------------------------------------------------
(* Loading a committed root and replaying records onto it.                 *)

\* index_from_loaded_store: the generation is clamped up to the watermark.
LoadedIndex ==
  [generation |-> CommittedLsn,
   applied_lsn |-> manifest.applied_lsn,
   persisted_applied_lsn |-> manifest.applied_lsn,
   docs |-> manifest.docs, pending |-> {}, dirty |-> FALSE]

\* A replay that takes the generation's own record for committed.
OpenReplaysAfter(recs) == {r \in recs : r.lsn > manifest.generation}

\* A writable open replays from the committed generation on, inclusive.
OpenReplays(recs) == {r \in recs : r.lsn >= manifest.generation}

\* A fold that takes every record for one it has applied.
FoldReplaysNothing(e, recs) == {}

\* A warm fold applies only what its engine has not applied.
FoldReplays(e, recs) == {r \in recs : r.lsn > e.applied_lsn}

\* A replay that leaves the generation below the LSNs it applied.
ReplayedWithoutClamp(e, recs, bump) ==
  [e EXCEPT !.applied_lsn = Max({e.applied_lsn} \cup LsnsOf(recs)),
            !.generation = e.generation + bump,
            !.docs = e.docs \cup IdsOf(recs),
            !.pending = e.pending \cup IdsOf(recs),
            !.dirty = e.dirty \/ bump > 0]

\* apply_replay_records: each record adds 0, 1 or more generations, depending
\* on what it changes; then the generation is clamped up to the watermark.
Replayed(e, recs, bump) ==
  LET applied == Max({e.applied_lsn} \cup LsnsOf(recs)) IN
  [e EXCEPT !.applied_lsn = applied,
            !.generation = Max({e.generation + bump, applied}),
            !.docs = e.docs \cup IdsOf(recs),
            !.pending = e.pending \cup IdsOf(recs),
            !.dirty = e.dirty \/ bump > 0]

\* A record a writer logged changed the index it was logged from, so it changes
\* the same index again when it is replayed; an appended one may be a no-op.
BumpFor(e, recs, bump) ==
  /\ recs = {} => bump = 0
  /\ (\E r \in recs : r.own /\ r.id \notin e.docs) => bump > 0

\* load_persisted_indexes under a writable wal-mode open: load, replay, and
\* leave the commit that must follow to the next two steps.  A file without a
\* complete frame is neither replayed, committed nor removed; one whose scan
\* fails is refused.
LoadAndReplay(p, t, idle) ==
  /\ Scannable
  /\ IF wal = {}
     THEN /\ eng' = [eng EXCEPT ![p] = LoadedIndex]
          /\ pc' = [pc EXCEPT ![p] = idle]
          /\ UNCHANGED task
     ELSE /\ \E bump \in 0 .. MaxBump :
               /\ BumpFor(LoadedIndex, OpenReplays(wal), bump)
               /\ eng' = [eng EXCEPT ![p] = Replayed(LoadedIndex, OpenReplays(wal), bump)]
          /\ pc' = [pc EXCEPT ![p] = "commit"]
          /\ task' = [task EXCEPT ![p] = t]

-----------------------------------------------------------------------------
(* persist: the root swap, then the removal of the WAL.                    *)

\* persist_index_generation writes a root only for a change or a watermark.
MustCommit(e) == e.dirty \/ e.applied_lsn > e.persisted_applied_lsn

\* The roots a commit may publish: a base rewrite holds the engine's records, a
\* delta adds the pending ones to what the root on disk already holds.
CommitBodies(e) ==
  {CommitBody(Max({e.generation, 1}), e.applied_lsn, docs) :
     docs \in {e.docs, manifest.docs \cup e.pending}}

\* What persist leaves in memory once the root is swapped.
Committed(e, m) ==
  [e EXCEPT !.applied_lsn = m.applied_lsn, !.persisted_applied_lsn = m.applied_lsn,
            !.pending = {}, !.dirty = FALSE]

\* Where the engine goes when its commit is complete.  The checkpointer keeps
\* the writer lock between a reload and the fold that follows it.
Finish(p) ==
  /\ task' = [task EXCEPT ![p] = "none"]
  /\ CASE task[p] \in {"open", "persist"} ->
            /\ pc' = [pc EXCEPT ![p] = "open"] /\ UNCHANGED <<excl, tokens, needs>>
       [] task[p] = "warm" ->
            /\ pc' = [pc EXCEPT ![p] = "loaded"] /\ Release(p) /\ UNCHANGED <<tokens, needs>>
       [] task[p] = "reload" ->
            /\ pc' = [pc EXCEPT ![p] = "fold"] /\ needs' = [needs EXCEPT ![p] = FALSE]
            /\ UNCHANGED <<excl, tokens>>
       [] task[p] = "fold" ->
            /\ pc' = [pc EXCEPT ![p] = "warm"] /\ Release(p)
            /\ tokens' = [tokens EXCEPT ![p] = manifest] /\ UNCHANGED needs

\* The root swap.  A generation-mode commit is complete with it.
Commit(p) ==
  /\ pc[p] = "commit"
  /\ IF MustCommit(eng[p])
     THEN \E m \in CommitBodies(eng[p]) :
            manifest' = m /\ eng' = [eng EXCEPT ![p] = Committed(eng[p], m)]
     ELSE UNCHANGED <<manifest, eng>>
  /\ IF mode[p] = "wal"
     THEN pc' = [pc EXCEPT ![p] = "truncate"] /\ UNCHANGED <<task, excl, tokens, needs>>
     ELSE Finish(p)
  /\ UNCHANGED <<mode, wal, torn, buried, counter, shared, ctr, lease, histVars>>

\* The WAL is removed, whether or not the commit had anything to write.
Truncate(p) ==
  /\ pc[p] = "truncate"
  /\ TruncateWal
  /\ Finish(p)
  /\ UNCHANGED <<mode, eng, manifest, counter, shared, ctr, lease, histVars>>

-----------------------------------------------------------------------------
(* The exclusive writer.                                                   *)

\* open on an empty directory, create_index and the seed commit.  The seed is
\* published as generation 1 while the index in memory stays at generation 0.
CreateStore(w) ==
  /\ pc[w] = "closed" /\ manifest = None
  /\ AcquireExclusive(w)
  /\ manifest' = CommitBody(1, 0, {})
  /\ eng' = [eng EXCEPT ![w] = Committed(NoEngine, manifest')]
  /\ \E m \in Modes : mode' = [mode EXCEPT ![w] = m]
  /\ pc' = [pc EXCEPT ![w] = "open"]
  /\ UNCHANGED <<task, tokens, needs, wal, torn, buried, counter, shared, ctr, lease, histVars>>

\* open in wal mode: exclusive lock, load, replay.
OpenWal(w) ==
  /\ pc[w] = "closed" /\ manifest # None
  /\ "wal" \in Modes
  /\ AcquireExclusive(w)
  /\ mode' = [mode EXCEPT ![w] = "wal"]
  /\ LoadAndReplay(w, "open", "open")
  /\ UNCHANGED <<tokens, needs, fileVars, shared, ctr, lease, histVars>>

\* open in generation mode: refused while the WAL holds a complete record, or
\* cannot be scanned.
GenerationOpenAllowed == wal = {} /\ Scannable

OpenGeneration(w) ==
  /\ pc[w] = "closed" /\ manifest # None
  /\ "generation" \in Modes
  /\ GenerationOpenAllowed
  /\ AcquireExclusive(w)
  /\ mode' = [mode EXCEPT ![w] = "generation"]
  /\ eng' = [eng EXCEPT ![w] = LoadedIndex]
  /\ pc' = [pc EXCEPT ![w] = "open"]
  /\ UNCHANGED <<task, tokens, needs, fileVars, shared, ctr, lease, histVars>>

\* What a mutation does to the index in memory, before anything is logged.
Mutated(e) ==
  [e EXCEPT !.generation = e.generation + 1, !.docs = e.docs \cup {nextId},
            !.pending = e.pending \cup {nextId}, !.dirty = TRUE]

OwnRecord(e) == [lsn |-> e.generation + 1, id |-> nextId, own |-> TRUE]

\* upsert_vectors, delete_documents, update_document_payload, apply_text_upsert
\* in wal mode: memory first, then the frame, then the call returns.
MutateWal(w) ==
  /\ pc[w] = "open" /\ mode[w] = "wal" /\ nextId <= MaxRecs
  /\ eng' = [eng EXCEPT ![w] = Mutated(eng[w])]
  /\ AppendRecord(OwnRecord(eng[w]))
  /\ acked' = acked \cup {OwnRecord(eng[w])}
  /\ nextId' = nextId + 1
  /\ UNCHANGED <<pc, task, mode, tokens, needs, manifest, counter, lockVars, slips, crashes>>

\* The same when the append fails: nothing, part of the frame, or (a failed
\* fsync) all of it is in the file.  Memory keeps the mutation.
MutateFails(w) ==
  /\ pc[w] = "open" /\ mode[w] = "wal" /\ nextId <= MaxRecs
  /\ crashes < MaxCrashes
  /\ eng' = [eng EXCEPT ![w] = Mutated(eng[w])]
  /\ \/ UNCHANGED <<wal, torn, buried, logged, behind>>
     \/ TornWrites /\ TearFrame /\ UNCHANGED <<wal, buried, logged, behind>>
     \/ AppendRecord(OwnRecord(eng[w]))
  /\ nextId' = nextId + 1 /\ crashes' = crashes + 1
  /\ UNCHANGED <<pc, task, mode, tokens, needs, manifest, counter, lockVars, acked, slips>>

\* A mutation in generation mode and the commit the SDK makes after it.
MutateGeneration(w) ==
  /\ pc[w] = "open" /\ mode[w] = "generation" /\ nextId <= MaxRecs
  /\ eng' = [eng EXCEPT ![w] = Mutated(eng[w])]
  /\ nextId' = nextId + 1
  /\ pc' = [pc EXCEPT ![w] = "commit"]
  /\ task' = [task EXCEPT ![w] = "persist"]
  /\ UNCHANGED <<mode, tokens, needs, fileVars, lockVars, logged, acked, behind, slips, crashes>>

\* persist; close is persist followed by Discard.
Persist(w) ==
  /\ pc[w] = "open"
  /\ pc' = [pc EXCEPT ![w] = "commit"]
  /\ task' = [task EXCEPT ![w] = "persist"]
  /\ UNCHANGED <<mode, eng, tokens, needs, storeVars>>

\* discard: the lock is released without a commit.
Discard(w) ==
  /\ pc[w] = "open"
  /\ DropEngine(w)
  /\ UNCHANGED <<mode, fileVars, shared, ctr, histVars>>

WriterStep(w) ==
  \/ CreateStore(w) \/ OpenWal(w) \/ OpenGeneration(w)
  \/ MutateWal(w) \/ MutateFails(w) \/ MutateGeneration(w)
  \/ Persist(w) \/ Discard(w)

-----------------------------------------------------------------------------
(* The checkpointer.                                                       *)

\* open: the lease elects one checkpointer.
AcquireLease(c) ==
  /\ pc[c] = "closed" /\ lease = None
  /\ lease' = c
  /\ pc' = [pc EXCEPT ![c] = "leased"]
  /\ UNCHANGED <<task, mode, eng, tokens, needs, fileVars, excl, shared, ctr, histVars>>

\* open_warm: a wal-mode open under the writer lock, released on return.
OpenWarm(c) ==
  /\ pc[c] = "leased" /\ manifest # None
  /\ ExclusiveFree
  /\ excl' = IF wal = {} THEN None ELSE c
  /\ LoadAndReplay(c, "warm", "loaded")
  /\ UNCHANGED <<mode, tokens, needs, fileVars, shared, ctr, lease, histVars>>

\* An engine that is exactly a committed root.
Matches(e, m) ==
  /\ m # None
  /\ e.docs = m.docs /\ e.pending \subseteq m.docs
  /\ e.applied_lsn = m.applied_lsn /\ e.persisted_applied_lsn = m.applied_lsn
  /\ m.applied_lsn <= e.generation

\* open: the committed tokens are read after the writer lock is released, so they
\* may be those of a root that another engine has committed since the load.
ReadTokens(c) ==
  /\ pc[c] = "loaded"
  /\ tokens' = [tokens EXCEPT ![c] = manifest]
  /\ slips' = IF Matches(eng[c], manifest) THEN slips ELSE slips \cup {"base"}
  /\ pc' = [pc EXCEPT ![c] = "warm"]
  /\ UNCHANGED <<task, mode, eng, needs, fileVars, lockVars, nextId, logged, acked, behind, crashes>>

\* A fold onto whatever is in memory.
MustReloadOnlyIfFailed(c) == needs[c]

\* The warm engine is not the one on disk: another writer committed, or the
\* last fold failed.
MustReload(c) == needs[c] \/ manifest # tokens[c]

\* checkpoint: takes the writer lock and reloads the warm engine if it must.
StartCheckpoint(c) ==
  /\ pc[c] = "warm"
  /\ AcquireExclusive(c)
  /\ IF MustReload(c)
     THEN /\ LoadAndReplay(c, "reload", "fold")
          /\ needs' = [needs EXCEPT ![c] = (wal # {}) /\ needs[c]]
     ELSE pc' = [pc EXCEPT ![c] = "fold"] /\ UNCHANGED <<task, eng, needs>>
  /\ UNCHANGED <<mode, tokens, fileVars, shared, ctr, lease, histVars>>

\* fold_wal_tail, nothing to fold: the tokens are read again, the lock goes.
FoldNothing(c) ==
  /\ pc[c] = "fold" /\ Scannable
  /\ FoldReplays(eng[c], wal) = {}
  /\ tokens' = [tokens EXCEPT ![c] = manifest]
  /\ Release(c)
  /\ pc' = [pc EXCEPT ![c] = "warm"]
  /\ UNCHANGED <<task, mode, eng, needs, fileVars, shared, ctr, lease, histVars>>

\* fold_wal_tail: the tail is applied to the warm engine; a commit follows.
Fold(c) ==
  /\ pc[c] = "fold" /\ Scannable
  /\ FoldReplays(eng[c], wal) # {}
  /\ \E bump \in 0 .. MaxBump :
       /\ BumpFor(eng[c], FoldReplays(eng[c], wal), bump)
       /\ eng' = [eng EXCEPT ![c] = Replayed(eng[c], FoldReplays(eng[c], wal), bump)]
  /\ pc' = [pc EXCEPT ![c] = "commit"]
  /\ task' = [task EXCEPT ![c] = "fold"]
  /\ UNCHANGED <<mode, tokens, needs, storeVars>>

\* fold_wal_tail: the scan of the log fails, and so does the checkpoint.
FoldRefused(c) ==
  /\ pc[c] = "fold" /\ ~Scannable
  /\ needs' = [needs EXCEPT ![c] = TRUE]
  /\ Release(c)
  /\ pc' = [pc EXCEPT ![c] = "warm"]
  /\ UNCHANGED <<task, mode, eng, tokens, fileVars, shared, ctr, lease, histVars>>

\* The checkpointer is dropped between folds: the lease goes.
CloseCheckpointer(c) ==
  /\ pc[c] = "warm"
  /\ DropEngine(c)
  /\ UNCHANGED <<mode, fileVars, shared, ctr, histVars>>

CheckpointerStep(c) ==
  \/ AcquireLease(c) \/ OpenWarm(c) \/ ReadTokens(c)
  \/ StartCheckpoint(c) \/ FoldNothing(c) \/ Fold(c) \/ FoldRefused(c)
  \/ CloseCheckpointer(c)

-----------------------------------------------------------------------------
(* Failures.                                                               *)

\* An error returned from a commit: before the root swap, after it (collecting
\* the superseded files fails), or when the WAL cannot be removed.  A failed
\* reload leaves the checkpointer with tokens that are still not the root's, so
\* it reloads again before it uses an engine.
PersistFails(p) ==
  /\ pc[p] \in {"commit", "truncate"}
  /\ crashes < MaxCrashes /\ crashes' = crashes + 1
  /\ \/ UNCHANGED manifest
     \/ pc[p] = "commit" /\ MustCommit(eng[p]) /\ manifest' \in CommitBodies(eng[p])
  /\ CASE task[p] \in {"open", "warm"} -> DropEngine(p)
       [] task[p] = "persist" ->
            /\ pc' = [pc EXCEPT ![p] = "open"] /\ task' = [task EXCEPT ![p] = "none"]
            /\ UNCHANGED <<eng, tokens, needs, excl, lease>>
       [] task[p] \in {"reload", "fold"} ->
            /\ pc' = [pc EXCEPT ![p] = "warm"] /\ task' = [task EXCEPT ![p] = "none"]
            /\ needs' = [needs EXCEPT ![p] = needs[p] \/ task[p] = "fold"]
            /\ Release(p) /\ UNCHANGED <<eng, tokens, lease>>
  /\ UNCHANGED <<mode, wal, torn, buried, counter, shared, ctr, nextId, logged, acked, behind, slips>>

\* The process dies: memory and locks go, the files stay as they are.
CrashEngine(p) ==
  /\ pc[p] # "closed"
  /\ crashes < MaxCrashes /\ crashes' = crashes + 1
  /\ DropEngine(p)
  /\ UNCHANGED <<mode, fileVars, shared, ctr, nextId, logged, acked, behind, slips>>

EngineStep(p) ==
  \/ p \in Writers /\ WriterStep(p)
  \/ p \in Ckpts /\ CheckpointerStep(p)
  \/ Commit(p) \/ Truncate(p)
  \/ PersistFails(p) \/ CrashEngine(p)

=============================================================================
