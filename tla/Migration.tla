------------------------------ MODULE Migration ------------------------------
(***************************************************************************)
(* `lodedb migrate`: a project is inspected, a plan is built, and a run    *)
(* replays the source into <target>.tmp, reopens and validates it, and     *)
(* moves it into place (local/migrate/).  The source's application goes on *)
(* editing it, any step may fail, and the process may be killed between    *)
(* any two steps.                                                          *)
(***************************************************************************)
EXTENDS Naturals, Sequences, FiniteSets, FiniteSetsExt

CONSTANTS
  None,
  Keys,        \* keys of source rows, naturals: the order pages are read in
  EXPORT_BATCH,\* rows of a page
  WRITE_BATCH, \* rows of a batch
  MaxRuns,     \* bound: runs started
  MaxFlaws,    \* bound: rows missing, junk or without what the mode needs, at first
  MaxEdits     \* bound: edits of the source

VARIABLES
  source,  \* key -> row, or None
  plan,    \* the plan being run
  target, tmp, replaced, \* <target>, <target>.tmp, <target>.replaced
  run,     \* the run in progress
  result,  \* how the last run ended
  stable,  \* history: rows unchanged since the run opened the source
  runs, edits

vars == <<source, plan, target, tmp, replaced, run, result, stable, runs, edits>>
dirs == <<target, tmp, replaced>>

-----------------------------------------------------------------------------
(* inspect and plan                                                        *)

FRAMEWORKS == {"langchain", "llama-index", "mem0"}
DIRECT_PROVIDERS == {"pgvector", "qdrant", "chroma", "lancedb", "sqlite-vec", "faiss"}

MODE_TEXT_REPLAY == "text-replay"
MODE_VECTOR_PRESERVE == "vector-preserve"

\* A file counts for an owner it imports, or else mentions; the dependency
\* files count for every owner they name.
scan_sources(files, owners) == {o \in owners : \E f \in files : o \in f.imports \cup f.mentions}
blob_hits(project, owners) == project.deps \cap owners

Detected(route, framework, provider) ==
  [route |-> route, framework |-> framework, provider |-> provider]

as_framework_route(f) == Detected("framework", f, None)
as_provider_route(p) == Detected("provider", None, p)

\* An explicit choice wins, then the one framework, then the one provider.
inspect_project(project, framework, provider) ==
  LET Seen(owners) == scan_sources(project.files, owners) \cup blob_hits(project, owners)
      Only(owners) == CHOOSE o \in Seen(owners) : TRUE
  IN CASE framework # None -> as_framework_route(framework)
       [] framework = None /\ provider # None -> as_provider_route(provider)
       [] OTHER ->
            CASE Cardinality(Seen(FRAMEWORKS)) = 1 -> as_framework_route(Only(FRAMEWORKS))
              [] Cardinality(Seen(FRAMEWORKS)) > 1 -> Detected("ambiguous", None, None)
              [] Cardinality(Seen(FRAMEWORKS)) = 0 ->
                   CASE Cardinality(Seen(DIRECT_PROVIDERS)) = 1 ->
                          as_provider_route(Only(DIRECT_PROVIDERS))
                     [] Cardinality(Seen(DIRECT_PROVIDERS)) > 1 -> Detected("ambiguous", None, None)
                     [] OTHER -> Detected("none", None, None)

default_mode(d) ==
  IF d.framework = "mem0" \/ d.provider = "pgvector" THEN MODE_VECTOR_PRESERVE
  ELSE MODE_TEXT_REPLAY

source_kind(d) ==
  CASE d.framework = "langchain"   -> "in-memory"
    [] d.framework = "llama-index" -> "simple"
    [] d.framework = "mem0"        -> "qdrant"
    [] OTHER                       -> d.provider

\* A plan is only written for an owner whose importer exists.
Plannable(d) == d.route = "framework" \/ (d.route = "provider" /\ d.provider = "pgvector")

build_plan(d, mode) ==
  [framework |-> d.framework, kind |-> source_kind(d),
   mode |-> IF mode # None THEN mode ELSE default_mode(d)]

\* What `migrate plan` writes, or None.
inspect_and_plan(project, framework, provider, mode) ==
  LET d == inspect_project(project, framework, provider)
  IN IF Plannable(d) THEN build_plan(d, mode) ELSE None

Projects ==
  LET Owners == {"langchain", "llama-index", "mem0", "pgvector", "qdrant"}
      Few == {s \in SUBSET Owners : Cardinality(s) <= 2}
  IN [files : {{[imports |-> s, mentions |-> {}]} : s \in Few}
                \cup {{[imports |-> {}, mentions |-> s]} : s \in Few},
      deps : {{}, {"mem0"}, {"pgvector"}}]

Plans ==
  {inspect_and_plan(p, f, v, m) :
     p \in Projects, f \in {None, "mem0"}, v \in {None, "pgvector"},
     m \in {None, MODE_TEXT_REPLAY, MODE_VECTOR_PRESERVE}} \ {None}

-----------------------------------------------------------------------------
(* Source exports.  A row is [id, good]: what the mode needs is there, or   *)
(* it is not.                                                              *)

\* An entry of a LangChain dump that is not a mapping.
Junk == [id |-> 0, good |-> FALSE]

LangChainInMemoryExport == [mode |-> MODE_TEXT_REPLAY, loaded |-> TRUE]
LlamaIndexSimpleExport  == [mode |-> MODE_TEXT_REPLAY, loaded |-> TRUE]
Mem0QdrantExport        == [mode |-> MODE_VECTOR_PRESERVE, loaded |-> FALSE]
PgVectorExport          == [mode |-> MODE_VECTOR_PRESERVE, loaded |-> FALSE]

Export(p) ==
  CASE p.kind = "in-memory" -> LangChainInMemoryExport
    [] p.kind = "simple"    -> LlamaIndexSimpleExport
    [] p.kind = "qdrant"    -> Mem0QdrantExport
    [] p.kind = "pgvector"  -> PgVectorExport

Present(rows) == {k \in Keys : rows[k] # None}

\* Where a source is: what a plan may not record of it, it must be given again.
Locations == [postgres : BOOLEAN, local : BOOLEAN, credentialed : BOOLEAN]
source_options(l) == [location_required |-> (l.postgres /\ ~l.local) \/ l.credentialed]

\* open_source: a location the plan lacks is given, and one on another host
\* needs leave.
open_source(l, given, allow_remote) ==
  (source_options(l).location_required => given)
    /\ (~l.local /\ ~Export(plan).loaded => allow_remote)

First(n, keys) == {k \in keys : Cardinality({j \in keys : j < k}) < n}

\* The next page, where to go on, and whether there is more.  A loaded export
\* is one page.
loaded_rows(rows) == [keys |-> Present(rows), from |-> 0, more |-> FALSE]

scroll(rows, from) ==
  LET left == {k \in Present(rows) : k >= from}
      page == First(EXPORT_BATCH, left)
  IN [keys |-> page, from |-> IF left = page THEN from ELSE Min(left \ page), more |-> left # page]

\* A keyset page that always looks for another.
keyset_page_endless(rows, from) ==
  LET page == First(EXPORT_BATCH, {k \in Present(rows) : k > from})
  IN [keys |-> page, from |-> IF page = {} THEN from ELSE Max(page), more |-> TRUE]

keyset_page(rows, from) ==
  LET page == First(EXPORT_BATCH, {k \in Present(rows) : k > from})
  IN [keys |-> page, from |-> IF page = {} THEN from ELSE Max(page),
      more |-> Cardinality(page) = EXPORT_BATCH]

iter_rows(rows, from) ==
  IF Export(plan).loaded THEN loaded_rows(rows)
  ELSE IF plan.kind = "qdrant" THEN scroll(rows, from) ELSE keyset_page(rows, from)

\* A junk entry is passed over without being yielded.
Yielded(keys, rows) == {k \in keys : rows[k] # Junk}

would_skip(row) == ~row.good

-----------------------------------------------------------------------------
(* Directories                                                             *)

\* docs: id -> key.  An adapter's mode is the store's kind.  mem0's adapter nests
\* its store one directory down.
Store(kind, docs, nested) ==
  [kind |-> kind, docs |-> docs, nested |-> nested, whole |-> TRUE, manifest |-> None, inner |-> None]

NoDocs == [i \in {} |-> 0]

\* A store or a manifest, but only what is at the top: *.json does not descend.
target_has_store == target # None /\ (~target.nested \/ target.manifest # None)

Idle == [pc |-> "idle"]
Ending(status) == run' = Idle /\ result' = [status |-> status, kept |-> {}]

\* Only a LangChain dump can hold junk, or one id twice.
Sources ==
  LET Row(k) == IF plan.kind = "in-memory"
                THEN {None, Junk} \cup {[id |-> i, good |-> TRUE] : i \in {1, 2}}
                ELSE {None, [id |-> k, good |-> TRUE], [id |-> k, good |-> FALSE]}
  IN {s \in [Keys -> UNION {Row(k) : k \in Keys}] :
        /\ \A k \in Keys : s[k] \in Row(k)
        /\ Cardinality({k \in Keys : s[k] = None \/ ~s[k].good}) <= MaxFlaws}

Init ==
  /\ plan \in Plans
  /\ source \in Sources
  /\ target \in {None} \cup {Store(plan.mode, [i \in {0} |-> 0], nested) : nested \in BOOLEAN}
  /\ tmp = None /\ replaced = None
  /\ run = Idle /\ result = [status |-> "none", kept |-> {}] /\ stable = {}
  /\ runs = 0 /\ edits = 0

-----------------------------------------------------------------------------
(* A run                                                                   *)

Good(rows) == {k \in Present(rows) : rows[k].good}

validate_vector_dim(dim) == dim > 0 /\ dim % 8 = 0

\* What is refused before the source is opened, when it is, or for its shape.
Refuse ==
  /\ run = Idle /\ runs < MaxRuns /\ runs' = runs + 1
  /\ \/ target_has_store
     \/ \E l \in Locations, given, allow_remote \in BOOLEAN : ~open_source(l, given, allow_remote)
     \/ Export(plan).mode = MODE_VECTOR_PRESERVE /\ \E dim \in 0 .. 9 : ~validate_vector_dim(dim)
  /\ Ending("refused")
  /\ UNCHANGED <<source, plan, dirs, stable, edits>>

\* run_migration, up to its first write.  A dry run only reads.
Start ==
  /\ run = Idle /\ runs < MaxRuns /\ runs' = runs + 1
  /\ \E overwrite, resume, counted \in BOOLEAN :
       /\ target_has_store => overwrite \/ resume
       /\ ~counted => ~Export(plan).loaded
       /\ run' = [pc |-> "clean", replace |-> overwrite \/ resume,
                  count |-> IF counted THEN Cardinality(Present(source)) ELSE None,
                  rows |-> IF Export(plan).loaded THEN source ELSE None,
                  page |-> {}, from |-> 0, more |-> TRUE, batch |-> {},
                  written |-> 0, skipped |-> 0, passed |-> FALSE]
  /\ stable' = Good(source)
  /\ result' = [status |-> "none", kept |-> {}]
  /\ UNCHANGED <<source, plan, dirs, edits>>

dry_run_probe ==
  /\ run = Idle /\ runs < MaxRuns /\ runs' = runs + 1
  /\ Ending("dry-run")
  /\ UNCHANGED <<source, plan, dirs, stable, edits>>

At(pc) == run.pc = pc
Go(pc) == run' = [run EXCEPT !.pc = pc]

Torn(d) == [d EXCEPT !.whole = FALSE]

\* The store the writer opens: the export's mode decides its kind.
OpenTarget == Store(Export(plan).mode, NoDocs, plan.framework = "mem0")

\* rmtree(write_dir), file by file, then the writer opens there.
Clean ==
  /\ At("clean")
  /\ \/ tmp # None /\ tmp' \in {Torn(tmp), None} /\ tmp' # tmp /\ UNCHANGED run
     \/ tmp = None /\ tmp' = OpenTarget /\ Go("read")
  /\ UNCHANGED <<source, plan, target, replaced, result, stable, runs, edits>>

\* The export fetches its next page.
Fetch ==
  /\ At("read") /\ run.page = {} /\ run.more /\ Cardinality(run.batch) < WRITE_BATCH
  /\ LET rows == IF run.rows # None THEN run.rows ELSE source
         p == iter_rows(rows, run.from)
     IN run' = [run EXCEPT !.page = {<<k, rows[k]>> : k \in Yielded(p.keys, rows)},
                           !.from = p.from, !.more = p.more]
  /\ UNCHANGED <<source, plan, dirs, result, stable, runs, edits>>

\* One row is skipped or put in the batch.
Take ==
  /\ At("read") /\ run.page # {} /\ Cardinality(run.batch) < WRITE_BATCH
  /\ LET r == CHOOSE x \in run.page : \A y \in run.page : x[1] <= y[1]
     IN run' = IF would_skip(r[2])
               THEN [run EXCEPT !.page = @ \ {r}, !.skipped = @ + 1]
               ELSE [run EXCEPT !.page = @ \ {r}, !.batch = @ \cup {<<r[1], r[2].id>>}]
  /\ UNCHANGED <<source, plan, dirs, result, stable, runs, edits>>

\* Of two rows with one id the later stands.
Upserted(docs, batch) ==
  [i \in DOMAIN docs \cup {b[2] : b \in batch} |->
     IF \E b \in batch : b[2] = i THEN Max({b[1] : b \in {x \in batch : x[2] = i}}) ELSE docs[i]]

\* write_batch, when the batch is full or the rows are at an end.
Flush ==
  /\ At("read") /\ run.batch # {}
  /\ Cardinality(run.batch) >= WRITE_BATCH \/ (run.page = {} /\ ~run.more)
  /\ tmp' = [tmp EXCEPT !.docs = Upserted(@, run.batch)]
  /\ run' = [run EXCEPT !.batch = {}, !.written = @ + Cardinality(run.batch)]
  /\ UNCHANGED <<source, plan, target, replaced, result, stable, runs, edits>>

\* persist and close.
Persist ==
  /\ At("read") /\ run.page = {} /\ ~run.more /\ run.batch = {}
  /\ Go("validate")
  /\ UNCHANGED <<source, plan, dirs, result, stable, runs, edits>>

\* A validation that trusts the run's own count of written rows.
validate_written ==
  run.count = None \/ run.written + run.skipped = run.count

\* The store reopened holds what was written, and every row is accounted for.
validate_target ==
  /\ Cardinality(DOMAIN tmp.docs) = run.written
  /\ run.count = None \/ run.written + run.skipped = run.count

\* An exception while writing or validating: the temporary store is removed if
\* it can be.
CleanUp ==
  /\ tmp' \in {None, Torn(tmp), tmp}
  /\ Ending("failed")
  /\ UNCHANGED <<source, plan, target, replaced, stable, runs, edits>>

\* read_back_counts opens the store in the plan's mode, and a store of another
\* mode is an exception.
Validate ==
  /\ At("validate")
  /\ IF plan.mode # tmp.kind THEN CleanUp
     ELSE /\ run' = [run EXCEPT !.pc = "manifest", !.passed = validate_target]
          /\ UNCHANGED <<source, plan, dirs, result, stable, runs, edits>>

\* An embedding, a write or a read fails.
WriteFails == (At("read") \/ At("validate")) /\ CleanUp

to_manifest(status, d) == [status |-> status, docs |-> d.docs]

\* migration.json, replaced whole.
Manifest(status, d, store) == [d EXCEPT !.manifest = to_manifest(status, store)]

\* The manifest goes in beside the store; a run that failed validation stays.
WriteManifest ==
  /\ At("manifest")
  /\ tmp' = Manifest(IF run.passed THEN "migrated" ELSE "failed", tmp, tmp)
  /\ IF run.passed THEN Go("move") /\ UNCHANGED result ELSE Ending("failed")
  /\ UNCHANGED <<source, plan, target, replaced, stable, runs, edits>>

-----------------------------------------------------------------------------
(* _atomic_move                                                            *)

\* rmtree(ignore_errors): file by file, and what cannot be removed stays.
DropReplaced(pc, next) ==
  /\ At(pc)
  /\ \/ replaced # None /\ replaced' = Torn(replaced) /\ replaced.whole /\ UNCHANGED run
     \/ replaced # None /\ replaced' = None /\ UNCHANGED run
     \/ UNCHANGED replaced /\ Go(next)
  /\ UNCHANGED <<source, plan, target, tmp, result, stable, runs, edits>>

Replacing == At("move") /\ target # None /\ run.replace

\* A move that removes the target before the new store is in place.
SetAsideByRemoving ==
  /\ At("aside") /\ target' = None /\ Go("place")
  /\ UNCHANGED <<source, plan, tmp, replaced, result, stable, runs, edits>>

\* target.rename(backup), which fails on a directory that is still there.
SetAside ==
  /\ At("aside")
  /\ IF replaced = None
     THEN replaced' = target /\ target' = None /\ Go("place") /\ UNCHANGED result
     ELSE Ending("failed") /\ UNCHANGED <<target, replaced>>
  /\ UNCHANGED <<source, plan, tmp, stable, runs, edits>>

\* Only the branch that set a store aside has one to remove.
Placed == Go(IF At("place") THEN "publish" ELSE "return")

\* write_dir.rename(target).  Onto a directory with files it fails, and
\* shutil.move then moves the store into that directory.
Place ==
  /\ (At("move") /\ ~Replacing) \/ At("place")
  /\ IF target = None
     THEN target' = tmp /\ tmp' = None /\ Placed /\ UNCHANGED result
     ELSE IF target.inner = None
     THEN target' = [target EXCEPT !.inner = tmp] /\ tmp' = None /\ Placed /\ UNCHANGED result
     ELSE Ending("failed") /\ UNCHANGED <<target, tmp>>
  /\ UNCHANGED <<source, plan, replaced, stable, runs, edits>>

atomic_move ==
  \/ Replacing /\ Go("drop") /\ UNCHANGED <<source, plan, dirs, result, stable, runs, edits>>
  \/ DropReplaced("drop", "aside")
  \/ SetAside
  \/ Place
  \/ DropReplaced("publish", "return")

\* The store the last move put in: at the target, or inside a directory that was
\* there already and target_has_store did not know.
Moved == IF target.inner # None THEN target.inner ELSE target

\* The manifest is rewritten at the target, and the run returns.
Return ==
  /\ At("return")
  /\ target' = Manifest("migrated", target, Moved)
  /\ run' = Idle
  /\ result' = [status |-> "migrated", kept |-> stable]
  /\ UNCHANGED <<source, plan, tmp, replaced, stable, runs, edits>>

\* Whether `migrate run` exits with 0.
migrate_run(status) == status \in {"migrated", "dry-run"}

\* What is being removed may pass for a store that holds nothing.
audit_persisted_index_snapshots(d) ==
  IF d = None THEN {FALSE} ELSE IF d.whole THEN {TRUE} ELSE BOOLEAN

\* `migrate validate` audits the store at the path its manifest records, which is
\* the target's also when the run was never published.
migrate_validate ==
  /\ run = Idle
  /\ \E d \in {target, tmp, replaced} \ {None} : \E audit \in audit_persisted_index_snapshots(target) :
       /\ d.manifest # None
       /\ Ending(IF audit /\ d.manifest.status = "migrated" THEN "valid" ELSE "invalid")
  /\ UNCHANGED <<source, plan, dirs, stable, runs, edits>>

-----------------------------------------------------------------------------
(* Any other step of a run that raises, or a kill, leaves the directories. *)
Kill ==
  /\ run # Idle /\ Ending("killed")
  /\ UNCHANGED <<source, plan, dirs, stable, runs, edits>>

\* The source's application writes or deletes a row.
Edit ==
  /\ edits < MaxEdits /\ edits' = edits + 1
  /\ ~Export(plan).loaded
  /\ \E k \in Keys : \E row \in {None, [id |-> k, good |-> TRUE]} :
       source[k] # row /\ source' = [source EXCEPT ![k] = row] /\ stable' = stable \ {k}
  /\ UNCHANGED <<plan, dirs, run, result, runs>>

\* An application opens the target, also while a run goes on: a fresh store where
\* there is none.
AppOpens ==
  /\ target = None
  /\ target' = Store(plan.mode, NoDocs, plan.framework = "mem0")
  /\ UNCHANGED <<source, plan, tmp, replaced, run, result, stable, runs, edits>>

RunStep ==
  Clean \/ Fetch \/ Take \/ Flush \/ Persist \/ Validate \/ WriteManifest \/ atomic_move \/ Return

Next ==
  Start \/ Refuse \/ dry_run_probe \/ migrate_validate \/ RunStep \/ WriteFails \/ Kill \/ Edit \/ AppOpens

Spec == Init /\ [][Next]_vars /\ WF_vars(RunStep)

-----------------------------------------------------------------------------
(* Properties                                                              *)

Whole(d) == d # None /\ d.whole

\* Every directory is a store; only one being removed is torn, and the target
\* never is.
TypeOK ==
  /\ target # None => target.whole
  /\ \A d \in {target, tmp, replaced} : d # None => DOMAIN d.docs \subseteq Keys \cup {0}
  /\ result.status \in {"none", "refused", "dry-run", "failed", "killed", "migrated",
                        "valid", "invalid"}

\* However a run ends, a store is lost only to a migrated one: what is at the
\* target stays there or is set aside whole, what the run set aside goes only after
\* the validated store is in place, and no step leaves neither.
TargetKept ==
  [][/\ Whole(target) => \E d \in {target', replaced'} : Whole(d) /\ d.docs = target.docs
     /\ Whole(replaced) /\ ~Whole(replaced') =>
          Whole(target') /\ (At("publish") => target'.manifest # None \/ target'.inner # None)]_vars

\* A run that exits 0 and was no dry run has put in, in the plan's mode, every row
\* that was good and untouched while it read: nothing between two pages, in a
\* duplicate id or in an unwritten batch is lost.  A manifest at the target,
\* whichever run put it there, is that of this store and says it was migrated.
PublishedComplete ==
  /\ migrate_run(result.status) /\ result.status # "dry-run" =>
       /\ Moved.kind = plan.mode
       /\ \A k \in result.kept : \E i \in DOMAIN Moved.docs : Moved.docs[i] = k
  /\ target # None /\ target.manifest # None =>
       target.manifest = [status |-> "migrated", docs |-> Moved.docs]

\* A run always ends: the pages of a source that is being edited do too.
RunEnds == run # Idle ~> run = Idle

=============================================================================
