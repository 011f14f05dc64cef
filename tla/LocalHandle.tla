---------------------------- MODULE LocalHandle ----------------------------
(***************************************************************************)
(* LodeDB handles of the Python SDK (local/db.py) over one directory, with *)
(* the Appender and the Checkpointer (local/appender.py, checkpointer.py). *)
(* Each handle is a process; threads share it.  A handle's native engine   *)
(* lives on one worker thread, and its operations run under one lock.      *)
(*                                                                         *)
(* The native core is seen through its adapter (engine/native_adapter.py): *)
(* a mutation changes memory and, in wal mode, is logged; persist commits  *)
(* memory.  Engine.tla models the core itself.  A document is an id with   *)
(* the number of the call that wrote it, 0 when it is absent.              *)
(***************************************************************************)
EXTENDS Naturals, FiniteSets

CONSTANTS
  Handles,    \* processes that open a LodeDB handle
  Threads,    \* threads calling them
  Ids,        \* document ids
  Options,    \* what a handle may be opened with
  None,
  MaxCalls,   \* bound: calls and appends of a behaviour
  MaxFaults   \* bound: crashes and I/O errors of a behaviour

VARIABLES
  disk,       \* the directory: index identity, committed documents, log
  excl,       \* holder of the directory's writer lock
  hs,         \* handles: state, options, documents in memory
  oplock,     \* holder of each handle's _op_lock
  th,         \* what each thread is doing
  refs,       \* who references each handle's native engine
  dropped,    \* whether its last reference went on another thread than its worker
  may,        \* history: the values a document may have after a recovery
  calls, faults

vars == <<disk, excl, hs, oplock, th, refs, dropped, may, calls, faults>>

Docs == [Ids -> 0 .. MaxCalls]
Empty == [i \in Ids |-> 0]
Batches == SUBSET Ids \ {{}}

Unopened == [st |-> "none", opt |-> None, mem |-> Empty, empty |-> FALSE]
Idle     == [pc |-> "idle"]

\* What the next writer to open the directory finds.
Recoverable == IF disk.wal THEN disk.logged ELSE disk.committed

Init ==
  /\ disk = [dir |-> FALSE, identity |-> None, committed |-> Empty, logged |-> Empty,
             wal |-> FALSE, torn |-> "none"]
  /\ excl = None
  /\ hs = [h \in Handles |-> Unopened] /\ oplock = [h \in Handles |-> None]
  /\ th = [t \in Threads |-> Idle]
  /\ refs = [h \in Handles |-> {}] /\ dropped = [h \in Handles |-> FALSE]
  /\ may = [i \in Ids |-> {0}]
  /\ calls = 0 /\ faults = 0

Fault == faults < MaxFaults /\ faults' = faults + 1

-----------------------------------------------------------------------------
(* The native core, as NativeCoreEngineHandle exposes it.                  *)

Set(docs, ids, v) == [i \in Ids |-> IF i \in ids THEN v ELSE docs[i]]

\* persist: what memory holds is committed and the log removed.
persist(docs) ==
  disk' = [disk EXCEPT !.committed = docs, !.logged = docs, !.wal = FALSE, !.torn = "none"]

\* An appender's frame, after it cut the file back to its last complete one.
Log(ids, v) ==
  disk' = [disk EXCEPT !.logged = Set(Recoverable, ids, v), !.wal = TRUE, !.torn = "none"]

\* A writer's frame goes to the end of the file: behind torn bytes no scan reads
\* it, and it may complete the frame they are of, with a wrong checksum.
LogBehind(ids, v) ==
  IF disk.torn = "none" THEN Log(ids, v)
  ELSE \E torn \in {disk.torn, "corrupt"} : disk' = [disk EXCEPT !.torn = torn]

\* Part of a frame.
Tear ==
  \E torn \in IF disk.torn = "none" THEN {"cut"} ELSE {disk.torn, "corrupt"} :
    disk' = [disk EXCEPT !.logged = Recoverable, !.wal = TRUE, !.torn = torn]

\* A scan of the log drops a torn final frame, and fails at a corrupt one.
Scannable == disk.torn # "corrupt"

\* refresh: a reader reloads the committed documents and overlays the log, or
\* raises; a writer has nothing to do.
refresh(h) == IF hs[h].opt.ro /\ Scannable THEN Recoverable ELSE hs[h].mem

\* ValueError "holds the lodedb lock": ConcurrentWriterError to the caller.
NoContention == excl = None

-----------------------------------------------------------------------------
(* What the core is opened with.  A reader never takes the writer lock; a  *)
(* checkpointer takes it for a fold at a time.                             *)

open_options(read_only, commit_mode, acquire) ==
  [ro |-> read_only, mode |-> commit_mode, locks |-> acquire /\ ~read_only]

open_engine(opt)          == open_options(FALSE, opt.mode, TRUE)
open_readonly_engine(opt) == open_options(TRUE, opt.mode, TRUE)
open_appender             == open_options(FALSE, "wal", TRUE)
open_checkpointer         == open_options(FALSE, "wal", FALSE)

\* The lock of an engine that has been opened.
Locked(h, options) == excl' = IF options.locks THEN h ELSE excl

-----------------------------------------------------------------------------
(* Opening.                                                                *)

Opened(h, opt, docs, empty) ==
  /\ hs' = [hs EXCEPT ![h] = [st |-> "open", opt |-> opt, mem |-> docs, empty |-> empty]]
  /\ refs' = [refs EXCEPT ![h] = {"holder"}]
  /\ UNCHANGED dropped

\* _validate_native_index_identity.
validate_identity(opt) == disk.identity \in {None, opt.identity}

\* A read-only open: the directory must exist; nothing is created.
open_readonly(h) ==
  \E opt \in Options :
    /\ hs[h].st = "none" /\ opt.ro /\ disk.dir
    /\ validate_identity(opt)
    /\ Locked(h, open_readonly_engine(opt)) /\ Opened(h, opt, disk.committed, disk.identity = None)
    /\ UNCHANGED <<disk, oplock, th, may, calls, faults>>

has_leftover_wal == disk.wal

\* _open in generation mode over a leftover log: a transient wal-mode engine
\* folds it and is closed, and the writer lock with it.
RecoverLeftover(h) ==
  \E opt \in Options :
    /\ hs[h].st = "none" /\ ~opt.ro /\ opt.mode = "generation"
    /\ has_leftover_wal /\ NoContention /\ Scannable
    /\ persist(Recoverable)
    /\ hs' = [hs EXCEPT ![h] = [Unopened EXCEPT !.st = "recovered", !.opt = opt]]
    /\ UNCHANGED <<excl, oplock, th, refs, dropped, may, calls, faults>>

\* The core refuses to open in generation mode over a log it would not replay,
\* and in either mode over one it cannot scan.
CoreOpens(options) ==
  NoContention /\ Scannable /\ (options.mode = "generation" => ~disk.wal)

\* open_engine and _finalize_open: a fresh store is created and committed, an
\* existing one replayed, committed and its identity enforced; a mismatch
\* closes the engine again, after the replay.
OpenWriter(h) ==
  \E opt \in Options :
    /\ ~opt.ro
    /\ \/ hs[h].st = "none" /\ ~(opt.mode = "generation" /\ has_leftover_wal)
       \/ hs[h].st = "recovered" /\ hs[h].opt = opt
    /\ CoreOpens(open_engine(opt))
    /\ disk' = [disk EXCEPT !.dir = TRUE, !.committed = Recoverable, !.logged = Recoverable,
                            !.wal = FALSE, !.torn = "none",
                            !.identity = IF @ = None THEN opt.identity ELSE @]
    /\ IF validate_identity(opt)
       THEN Locked(h, open_engine(opt)) /\ Opened(h, opt, Recoverable, FALSE)
       ELSE hs' = [hs EXCEPT ![h] = Unopened] /\ UNCHANGED <<excl, refs, dropped>>
    /\ UNCHANGED <<oplock, th, may, calls, faults>>

\* The writer lock went, or the log came back, between the two opens.
OpenRefused(h) ==
  /\ hs[h].st = "recovered" /\ ~CoreOpens(open_engine(hs[h].opt))
  /\ hs' = [hs EXCEPT ![h] = Unopened]
  /\ UNCHANGED <<disk, excl, oplock, th, refs, dropped, may, calls, faults>>

-----------------------------------------------------------------------------
(* The verbs: what each asks the engine for, and what it needs of the      *)
(* handle before it takes the lock.                                        *)

Verb(kind, needs) == [kind |-> kind, needs |-> needs]

\* Operations of the native engine, by what they do to it.
upsert_vectors             == "upsert"
upsert_vectors_matrix      == "upsert"
delete_documents           == "delete"
update_document            == "update"
apply_text_upsert          == "text_upsert"
query_vector               == "read"
query_vectors_batch        == "read"
query_vectors_batch_arrays == "read"
search_text                == "read"
search_text_batch          == "read"
search_embedded_text       == "read"
read_record                == "read"

add                     == Verb(apply_text_upsert, {"writable", "model"})
add_many                == Verb(apply_text_upsert, {"writable", "model"})
add_vectors             == Verb(upsert_vectors, {"writable"})
add_vectors_many        == Verb(upsert_vectors_matrix, {"writable"})
add_image               == Verb(upsert_vectors, {"writable", "images"})
add_images              == Verb(upsert_vectors, {"writable", "images"})
remove                  == Verb(delete_documents, {"writable"})
remove_many             == Verb(delete_documents, {"writable"})
update_document_payload == Verb(update_document, {"writable"})
search                  == Verb(search_text, {"mode"})
search_many             == Verb(search_text_batch, {"mode"})
search_by_vector        == Verb(query_vector, {})
search_many_by_vector   == Verb(query_vectors_batch, {})
search_many_arrays      == Verb(query_vectors_batch_arrays, {})
search_by_image         == Verb(query_vector, {"images"})
search_lexical          == Verb(search_embedded_text, {"text"})
embed_texts             == Verb("read", {"model"})
get_text                == Verb(read_record, {"text"})
get_texts               == Verb(read_record, {"text"})
get_vectors             == Verb(read_record, {})
get_document            == Verb(read_record, {})
list_documents          == Verb(read_record, {})
count                   == Verb(read_record, {})
stats                   == Verb(read_record, {})
applied_lsn             == Verb(read_record, {})
refresh_handle          == Verb("refresh", {})
persist_handle          == Verb("persist", {})
compact                 == Verb("persist", {"writable"})
close                   == Verb("close", {})
discard                 == Verb("discard", {})

Verbs ==
  {add, add_many, add_vectors, add_vectors_many, add_image, add_images, remove,
   remove_many, update_document_payload, search, search_many, search_by_vector,
   search_many_by_vector, search_many_arrays, search_by_image, search_lexical, embed_texts,
   get_text, get_texts, get_vectors, get_document, list_documents, count, stats, applied_lsn,
   refresh_handle, persist_handle, compact, close, discard}

Mutations == {"text_upsert", "upsert", "delete", "update"}

\* _resolve_mode: the mode a text query runs in, or the error it raises.
resolve_mode(opt, mode) ==
  LET value == IF mode # None THEN mode
               ELSE IF opt.vector_only THEN "lexical"
               ELSE IF opt.text THEN "hybrid" ELSE "vector"
  IN CASE opt.vector_only /\ value \in {"vector", "hybrid"} -> "error"
       [] value \in {"hybrid", "lexical"} /\ ~opt.text      -> "error"
       [] OTHER                                             -> value

require_writable(opt)     == ~opt.ro
require_text_capable(opt) == ~opt.vector_only
image_backend(opt)        == opt.images
require_text(opt)         == opt.text

Admits(opt, needs) ==
  /\ "writable" \in needs => require_writable(opt)
  /\ "model" \in needs => require_text_capable(opt)
  /\ "images" \in needs => image_backend(opt)
  /\ "text" \in needs => require_text(opt)
  /\ "mode" \in needs =>
       \E mode \in {None, "vector", "hybrid", "lexical"} : resolve_mode(opt, mode) # "error"

\* A call that passed its checks.  A mutation carries its number, a delete 0.
Call(t) ==
  \E h \in Handles, verb \in Verbs :
    /\ th[t] = Idle /\ calls < MaxCalls
    /\ hs[h].st \in {"open", "closed"} /\ Admits(hs[h].opt, verb.needs)
    /\ calls' = calls + 1
    /\ \E ids \in IF verb.kind \in Mutations THEN Batches ELSE {{}} :
         th' = [th EXCEPT ![t] =
                  [pc |-> "wait", h |-> h, kind |-> verb.kind, ids |-> ids, seen |-> Empty,
                   v |-> IF verb.kind \in Mutations \ {"delete"} THEN calls' ELSE 0]]
    /\ UNCHANGED <<disk, excl, hs, oplock, refs, dropped, may, faults>>

-----------------------------------------------------------------------------
(* An operation, under the handle's lock.                                  *)

Step(t, pc) == th' = [th EXCEPT ![t].pc = pc]

\* The call returns or raises: the lock goes either way.
Leave(t) ==
  /\ th' = [th EXCEPT ![t] = Idle]
  /\ oplock' = [oplock EXCEPT ![th[t].h] = None]

Acquire(t) ==
  /\ th[t].pc = "wait" /\ oplock[th[t].h] = None
  /\ oplock' = [oplock EXCEPT ![th[t].h] = t]
  /\ Step(t, "held")
  /\ UNCHANGED <<disk, excl, hs, refs, dropped, may, calls, faults>>

Holding(t, kinds) ==
  th[t].pc = "held" /\ hs[th[t].h].st = "open" /\ th[t].kind \in kinds

\* The handle was closed while the call waited: the engine is gone.
FindsClosed(t) ==
  /\ th[t].pc = "held" /\ hs[th[t].h].st # "open"
  /\ Leave(t)
  /\ UNCHANGED <<disk, excl, hs, refs, dropped, may, calls, faults>>

Read(t) ==
  /\ Holding(t, {"read", "refresh"})
  /\ hs' = IF th[t].kind = "refresh"
           THEN [hs EXCEPT ![th[t].h].mem = refresh(th[t].h)] ELSE hs
  /\ Leave(t)
  /\ UNCHANGED <<disk, excl, refs, dropped, may, calls, faults>>

\* A text upsert that gives the lock up while its chunks are embedded.
PrepareUnlocked(t) ==
  /\ Holding(t, {"text_upsert"})
  /\ th' = [th EXCEPT ![t].pc = "embed", ![t].seen = hs[th[t].h].mem]
  /\ oplock' = [oplock EXCEPT ![th[t].h] = None]
  /\ UNCHANGED <<disk, excl, hs, refs, dropped, may, calls, faults>>

\* prepare_text_upsert: the core plans against the documents in memory.
Prepare(t) ==
  /\ Holding(t, {"text_upsert"})
  /\ th' = [th EXCEPT ![t].pc = "embed", ![t].seen = hs[th[t].h].mem]
  /\ UNCHANGED <<disk, excl, hs, oplock, refs, dropped, may, calls, faults>>

\* embed_documents.
Embed(t) ==
  /\ th[t].pc = "embed"
  /\ Step(t, "apply")
  /\ UNCHANGED <<disk, excl, hs, oplock, refs, dropped, may, calls, faults>>

\* A failed embedding that leaves the lock behind.
EmbedFailsHoldingLock(t) ==
  /\ Fault /\ th[t].pc = "embed"
  /\ th' = [th EXCEPT ![t] = Idle]
  /\ UNCHANGED <<disk, excl, hs, oplock, refs, dropped, may, calls>>

\* embed_documents raises: nothing was applied.
EmbedFails(t) ==
  /\ Fault /\ th[t].pc = "embed"
  /\ Leave(t)
  /\ UNCHANGED <<disk, excl, hs, refs, dropped, may, calls>>

Acked(t) == may' = [i \in Ids |-> IF i \in th[t].ids THEN {th[t].v} ELSE may[i]]
Tried(t) == may' = [i \in Ids |-> IF i \in th[t].ids THEN may[i] \cup {th[t].v} ELSE may[i]]

\* A mutation acknowledged from memory in either mode.
never_persists(h) == FALSE

\* _native_should_persist_after_mutation.
should_persist(h) == hs[h].opt.mode = "generation"

\* The mutation reaches memory; wal mode logs it and returns, or fails with the
\* frame, part of it or none of it in the log, and memory keeps it; generation
\* mode goes on to persist.
Apply(t) ==
  LET h == th[t].h IN
  /\ \/ Holding(t, {"upsert", "delete"})
     \/ Holding(t, {"update"}) /\ \A i \in th[t].ids : hs[h].mem[i] # 0
     \/ th[t].pc = "apply"
  /\ hs' = [hs EXCEPT ![h].mem = Set(hs[h].mem, th[t].ids, th[t].v)]
  /\ \/ should_persist(h) /\ Step(t, "persist") /\ Tried(t)
        /\ UNCHANGED <<disk, oplock, faults>>
     \/ /\ ~should_persist(h) /\ Leave(t) /\ UNCHANGED faults
        /\ IF disk.torn = "none" THEN Acked(t) ELSE Tried(t)
        /\ IF hs[h].opt.mode = "wal" THEN LogBehind(th[t].ids, th[t].v) ELSE UNCHANGED disk
     \/ Fault /\ hs[h].opt.mode = "wal" /\ Leave(t) /\ Tried(t)
        /\ (UNCHANGED disk \/ Tear \/ LogBehind(th[t].ids, th[t].v))
  /\ UNCHANGED <<excl, refs, dropped, calls>>

\* update_document_payload of a document that is not there.
UpdateMissing(t) ==
  /\ Holding(t, {"update"}) /\ \E i \in th[t].ids : hs[th[t].h].mem[i] = 0
  /\ Leave(t)
  /\ UNCHANGED <<disk, excl, hs, refs, dropped, may, calls, faults>>

\* The commit after a generation-mode mutation, and its failure: the caller
\* gets an error, memory keeps the document.
PersistAfter(t) ==
  LET h == th[t].h IN
  /\ th[t].pc = "persist"
  /\ \/ persist(hs[h].mem) /\ Acked(t) /\ UNCHANGED faults
     \/ Fault /\ (UNCHANGED disk \/ persist(hs[h].mem)) /\ UNCHANGED may
  /\ Leave(t)
  /\ UNCHANGED <<excl, hs, refs, dropped, calls>>

\* persist and compact; persist is nothing on a reader.
Persist(t) ==
  LET h == th[t].h IN
  /\ Holding(t, {"persist"})
  /\ IF hs[h].opt.ro THEN UNCHANGED <<disk, faults>>
     ELSE \/ persist(hs[h].mem) /\ UNCHANGED faults
          \/ Fault /\ (UNCHANGED disk \/ persist(hs[h].mem))
  /\ Leave(t)
  /\ UNCHANGED <<excl, hs, refs, dropped, may, calls>>

-----------------------------------------------------------------------------
(* Teardown: the engine must be dropped on its worker.                     *)

\* The writer lock goes with the engine.
Unlocked(h) == IF excl = h THEN None ELSE excl

\* The last reference goes: the engine, and the writer lock with it.
Release(h, left, where) ==
  /\ refs' = [refs EXCEPT ![h] = left]
  /\ dropped' = [dropped EXCEPT ![h] = @ \/ (left = {} /\ refs[h] # {} /\ where = "foreign")]
  /\ excl' = IF left = {} THEN Unlocked(h) ELSE excl

\* _shutdown_native: the worker pops the engine, closes or discards it, and
\* drops it there even when the close raises.
Shutdown(t) ==
  LET h == th[t].h IN
  /\ Holding(t, {"close", "discard"})
  /\ IF th[t].kind = "close" /\ ~hs[h].opt.ro
     THEN \/ persist(hs[h].mem) /\ UNCHANGED faults
          \/ Fault /\ (UNCHANGED disk \/ persist(hs[h].mem))
     ELSE UNCHANGED <<disk, faults>>
  /\ hs' = [hs EXCEPT ![h].st = "closed"]
  /\ Release(h, refs[h] \ {"holder"}, "worker")
  /\ Leave(t)
  /\ UNCHANGED <<may, calls>>

Using(t, h) == th[t] # Idle /\ th[t].h = h
Unused(h) == ~\E t \in Threads : Using(t, h)

\* The object of a closed handle goes; its process may open another.
Forget(h) ==
  /\ hs[h].st = "closed" /\ Unused(h)
  /\ hs' = [hs EXCEPT ![h] = Unopened]
  /\ UNCHANGED <<disk, excl, oplock, th, refs, dropped, may, calls, faults>>

\* The finalizer of a handle nobody closed hands the drop to the worker.
Collect(h) ==
  /\ hs[h].st = "open" /\ Unused(h)
  /\ hs' = [hs EXCEPT ![h].st = "collected"]
  /\ UNCHANGED <<disk, excl, oplock, th, refs, dropped, may, calls, faults>>

\* _drop_on_worker, whenever the worker gets to it: no fold, no commit.
DropOnWorker(h) ==
  /\ hs[h].st \in {"collected", "parking"} /\ "holder" \in refs[h]
  /\ Release(h, refs[h] \ {"holder"}, "worker")
  /\ UNCHANGED <<disk, hs, oplock, th, may, calls, faults>>

\* A timeout that empties the holder without parking the engine.
TimeoutWithoutPark(h) ==
  /\ hs[h].st = "collected"
  /\ hs' = [hs EXCEPT ![h].st = "parking"]
  /\ UNCHANGED <<disk, excl, oplock, th, refs, dropped, may, calls, faults>>

\* The worker does not answer in time: the engine is parked ...
Timeout(h) ==
  /\ hs[h].st = "collected"
  /\ refs' = IF "holder" \in refs[h] THEN [refs EXCEPT ![h] = @ \cup {"leaked"}] ELSE refs
  /\ hs' = [hs EXCEPT ![h].st = "parking"]
  /\ UNCHANGED <<disk, excl, oplock, th, dropped, may, calls, faults>>

\* ... and the holder cleared, by the collecting thread.
ClearHolder(h) ==
  /\ hs[h].st = "parking"
  /\ Release(h, refs[h] \ {"holder"}, "foreign")
  /\ hs' = [hs EXCEPT ![h].st = "parked"]
  /\ UNCHANGED <<disk, oplock, th, may, calls, faults>>

\* The process ends: the exit hook closes what is open, or discards it where
\* the handle says so; a failure is swallowed.  What is parked goes with the
\* process.
Exit(h) ==
  /\ hs[h].st \in {"open", "collected", "parked"} /\ Unused(h)
  /\ IF hs[h].st = "open" /\ ~hs[h].opt.ro /\ ~hs[h].opt.discard_at_exit
     THEN \/ persist(hs[h].mem) /\ UNCHANGED faults
          \/ Fault /\ (UNCHANGED disk \/ persist(hs[h].mem))
     ELSE UNCHANGED <<disk, faults>>
  /\ hs' = [hs EXCEPT ![h] = Unopened]
  /\ refs' = [refs EXCEPT ![h] = {}]
  /\ excl' = Unlocked(h)
  /\ UNCHANGED <<oplock, th, dropped, may, calls>>

\* The process dies with its threads and its locks.
Crash(h) ==
  /\ Fault /\ hs[h].st # "none"
  /\ hs' = [hs EXCEPT ![h] = Unopened]
  /\ refs' = [refs EXCEPT ![h] = {}]
  /\ oplock' = [oplock EXCEPT ![h] = None]
  /\ excl' = Unlocked(h)
  /\ th' = [t \in Threads |-> IF Using(t, h) THEN Idle ELSE th[t]]
  /\ UNCHANGED <<disk, dropped, may, calls>>

-----------------------------------------------------------------------------
(* The Appender and the Checkpointer.                                      *)

\* Appender.open resolves the index of a committed store, and takes the lock
\* for an append at a time.
AppenderOpens == disk.identity # None /\ CoreOpens(open_appender)

\* _logged: one record, while no writer holds the directory; contention is
\* ConcurrentWriterError and nothing was logged.
logged(ids, v) ==
  /\ calls < MaxCalls /\ calls' = calls + 1
  /\ AppenderOpens
  /\ Log(ids, v)
  /\ may' = [i \in Ids |-> IF i \in ids THEN {v} ELSE may[i]]
  /\ UNCHANGED <<excl, hs, oplock, th, refs, dropped, faults>>

append           == \E i \in Ids : logged({i}, calls + 1)
append_many      == \E ids \in Batches : logged(ids, calls + 1)
append_text_many == \E ids \in Batches : logged(ids, calls + 1)  \* embedded before it is logged
append_text      == \E i \in Ids : logged({i}, calls + 1)
delete           == \E ids \in Batches : logged(ids, 0)

\* One fold under the writer lock; a checkpointer also makes one as it opens.
FoldLog ==
  /\ disk.wal /\ CoreOpens(open_checkpointer)
  /\ persist(Recoverable)
  /\ UNCHANGED <<excl, hs, oplock, th, refs, dropped, may, calls, faults>>

Checkpointer_open == FoldLog
checkpoint        == FoldLog

-----------------------------------------------------------------------------
HandleStep(h) ==
  \/ open_readonly(h) \/ RecoverLeftover(h) \/ OpenWriter(h) \/ OpenRefused(h)
  \/ Forget(h) \/ Collect(h) \/ DropOnWorker(h) \/ Timeout(h) \/ ClearHolder(h)
  \/ Exit(h) \/ Crash(h)

\* The steps of a call once it was made.
Proceed(t) ==
  \/ Acquire(t) \/ FindsClosed(t) \/ Read(t) \/ Prepare(t) \/ Embed(t) \/ EmbedFails(t)
  \/ Apply(t) \/ UpdateMissing(t) \/ PersistAfter(t) \/ Persist(t) \/ Shutdown(t)

Next ==
  \/ append \/ append_many \/ append_text \/ append_text_many \/ delete
  \/ Checkpointer_open \/ checkpoint
  \/ \E h \in Handles : HandleStep(h)
  \/ \E t \in Threads : Call(t) \/ Proceed(t)

Spec == Init /\ [][Next]_vars

-----------------------------------------------------------------------------
(* Properties.                                                             *)

\* Type invariant: the exclusive lock is held by a writable handle that has not
\* closed, and every thread is at a step of its call.
TypeOK ==
  /\ disk.committed \in Docs /\ disk.logged \in Docs
  /\ excl \in Handles \cup {None}
  /\ \A h \in Handles :
       /\ hs[h].mem \in Docs
       /\ hs[h].st \in {"none", "recovered", "open", "closed", "collected", "parking", "parked"}
       /\ excl = h => hs[h].st \in {"open", "collected", "parking", "parked"} /\ ~hs[h].opt.ro
  /\ \A t \in Threads :
       th[t].pc \in {"idle", "wait", "held", "embed", "apply", "persist"}

\* A document whose write or removal returned is what the next writer recovers,
\* and one whose call failed has its old or its new value: in either commit
\* mode, over close, discard, garbage collection, exit, crash, a leftover log
\* reopened in the other mode, and concurrent appends and folds.  A write that
\* returned from behind the torn bytes of a failed one counts as failed: a crash
\* before the next persist loses it.
AckedSurvives == \A i \in Ids : Recoverable[i] \in may[i]

\* A text upsert applies its plan to the documents the plan was made for: no
\* other operation gets between prepare_text_upsert and apply_text_upsert.
PlanFresh ==
  \A t \in Threads :
    th[t].pc \in {"embed", "apply"} => th[t].seen = hs[th[t].h].mem

\* The unsendable engine is never dropped by a thread that is not its worker,
\* whichever of close, discard, finalizer and late worker gets there first.
DroppedAtHome == \A h \in Handles : ~dropped[h]

\* A handle that opened a store serves the identity it was opened with (a reader
\* of a directory that held no store yet had nothing to compare).
IdentityHeld ==
  \A h \in Handles :
    (hs[h].st = "open" /\ ~hs[h].empty) => disk.identity = hs[h].opt.identity

\* As long as calls are in progress on a handle, one of them can go on: none
\* of the ways out of an operation leaves the handle's lock behind.
NoCallStranded ==
  \A h \in Handles :
    ~Unused(h) => ENABLED (\E t \in Threads : Using(t, h) /\ Proceed(t))

=============================================================================
