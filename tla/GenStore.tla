------------------------------ MODULE GenStore ------------------------------
(***************************************************************************)
(* The generation commit of one index (storage/mod.rs, state_journal.rs,   *)
(* tvim_delta.rs, text_store.rs and persist_index_generation): base files  *)
(* named by an epoch, a delta journal beside each, and one root that names *)
(* the base and the segments of every artifact.  A checksum is modelled by *)
(* the content it stands for.                                              *)
(***************************************************************************)
EXTENDS Naturals, Sequences, SequencesExt, FiniteSets, TLC

CONSTANTS
  Docs,           \* document ids
  Corrupt,        \* a load that failed its checks
  Closed,         \* no writer
  MaxGen,         \* bound: generations of a behaviour
  MaxCrashes,     \* bound: crashes and failed commits of a behaviour
  MaxSegments,    \* delta segments on a base before it is rewritten
  Retained        \* base epochs the collector keeps

ASSUME GenAssumption ==
  /\ MaxGen \in Nat /\ MaxCrashes \in Nat
  /\ MaxSegments \in Nat \ {0} /\ Retained \in Nat \ {0}

\* The state journal comes first; `tvim` stands for every journaled sidecar.
Artifacts == <<"state", "tvim">>
Arts      == {"state", "tvim"}
Epochs    == 1 .. MaxGen

\* A document's version is the generation that wrote it; 0 is no document.
Content == [Docs -> 0 .. MaxGen]
Empty   == [d \in Docs |-> 0]
Count(c) == Cardinality({d \in Docs : c[d] # 0})

VARIABLES
  root,       \* <key>.commit.json: generation, base epoch, journal manifests
  base,       \* g<epoch>.json, g<epoch>.tvim
  journal,    \* manifest.json of each base's journal directory
  segs,       \* the segment files of each base's journal directory
  writer,     \* where the writer is, and the commit it is making
  mem,        \* its index: the content of each artifact
  gen,        \* its generation
  epoch,      \* its base_epoch
  pending,    \* what changed since its last commit
  committed,  \* history: the content the last root swap published
  ahead,      \* history: the writer found a journal ahead of the root
  slips,      \* history: the two ways a commit leaves the layout's rules
  reader,     \* a lock-free reader's load in progress
  crashes     \* faults so far

diskVars   == <<root, base, journal, segs>>
memoryVars == <<mem, gen, epoch, pending>>
histVars   == <<committed, ahead, slips>>
vars == <<diskVars, writer, memoryVars, histVars, reader, crashes>>

\* A function with nothing in its domain.
Nothing == <<>>

NoChange == [a \in Arts |-> Nothing]

\* A journal manifest over a fresh base: its checksum and no segment.
FreshManifest(content, next) == [sha |-> content, deltas |-> <<>>, next |-> next]

\* No commit in progress.  A kind of "base" says that a base rewrite failed, and
\* what called for it (a flag, a compaction, a calibration) still does.
NoCommit == [pc |-> "open", kind |-> "none", at |-> 0, target |-> 0, new |-> Nothing]

NoRead == [pc |-> "idle", root |-> Nothing, want |-> Nothing, view |-> Nothing, lag |-> 0]

\* An empty store just created: its base is committed as generation 1.  The
\* handle that created it still counts from 0, or has closed since.
Init ==
  /\ root = [generation |-> 1, epoch |-> 1,
             manifests |-> [a \in Arts |-> FreshManifest(Empty, 1)]]
  /\ base = [a \in Arts |-> 1 :> Empty]
  /\ journal = [a \in Arts |-> 1 :> FreshManifest(Empty, 1)]
  /\ segs = [a \in Arts |-> [e \in Epochs |-> Nothing]]
  /\ \/ writer = NoCommit /\ epoch = 1
     \/ writer = [NoCommit EXCEPT !.pc = "closed"] /\ epoch = 0
  /\ mem = [a \in Arts |-> Empty]
  /\ gen = 0 /\ pending = NoChange
  /\ committed = [a \in Arts |-> Empty] /\ ahead = FALSE /\ slips = {}
  /\ reader = NoRead
  /\ crashes = 0

-----------------------------------------------------------------------------
(* Loading.                                                                *)

\* replay_onto_payload: one segment, checked against the root's entry, and for
\* the state journal against the document count its header records.
ReplaySegment(a, files, content, entry) ==
  IF content = Corrupt \/ entry.seq \notin DOMAIN files THEN Corrupt
  ELSE IF files[entry.seq] # entry.sha THEN Corrupt
  ELSE LET next == entry.sha.changes @@ content IN
       IF a = "state" /\ Count(next) # entry.sha.count THEN Corrupt ELSE next

\* load_generation_store: the base must have the checksum the root embeds.
Load(r, a) ==
  IF r.epoch \notin DOMAIN base[a] THEN Corrupt
  ELSE IF base[a][r.epoch] # r.manifests[a].sha THEN Corrupt
  ELSE LET deltas == r.manifests[a].deltas
           Replayed[i \in 0 .. Len(deltas)] ==
             IF i = 0 THEN base[a][r.epoch]
             ELSE ReplaySegment(a, segs[a][r.epoch], Replayed[i - 1], deltas[i])
       IN Replayed[Len(deltas)]

Loads(r) == \A a \in Arts : Load(r, a) # Corrupt

\* The live journals hold exactly what the root names.
JournalsAtRoot == \A a \in Arts : journal[a][root.epoch] = root.manifests[a]

-----------------------------------------------------------------------------
(* The writer.                                                             *)

\* An open that does not replay the journals.
OpenWithoutReplay ==
  /\ writer.pc = "closed"
  /\ Loads(root)
  /\ writer' = NoCommit
  /\ mem' = [a \in Arts |-> base[a][root.epoch]]
  /\ gen' = root.generation /\ epoch' = root.epoch /\ pending' = NoChange
  /\ ahead' = ~JournalsAtRoot
  /\ UNCHANGED <<diskVars, committed, slips, reader, crashes>>

\* open: the committed generation is loaded; a corrupt one fails the open.
OpenWriter ==
  /\ writer.pc = "closed"
  /\ Loads(root)
  /\ writer' = NoCommit
  /\ mem' = [a \in Arts |-> Load(root, a)]
  /\ gen' = root.generation /\ epoch' = root.epoch /\ pending' = NoChange
  /\ ahead' = ~JournalsAtRoot
  /\ UNCHANGED <<diskVars, committed, slips, reader, crashes>>

\* A change to some artifacts of a document, in memory.
Change(d, version, arts) ==
  /\ writer.pc = "open" /\ gen < MaxGen
  /\ mem' = [a \in Arts |-> IF a \in arts THEN [mem[a] EXCEPT ![d] = version] ELSE mem[a]]
  /\ pending' = [a \in Arts |-> IF a \in arts THEN (d :> version) @@ pending[a] ELSE pending[a]]
  /\ gen' = gen + 1
  /\ UNCHANGED <<diskVars, writer, epoch, histVars, reader, crashes>>

Upsert(d) == Change(d, gen + 1, Arts)

Delete(d) == mem["state"][d] # 0 /\ Change(d, 0, Arts)

\* update_document_payload leaves the vectors alone.
UpdatePayload(d) == mem["state"][d] # 0 /\ Change(d, gen + 1, {"state"})

\* A base rewritten in place: at the live epoch, with another content than its
\* checksum seals (the retry of a commit whose collector failed has the same).
InPlace(kind, target) ==
  kind = "base" /\ target = root.epoch /\ \E a \in Arts : mem[a] # root.manifests[a].sha

\* A delta pushed onto segments that a dead writer left and no root names.
Adopts(kind) == kind = "delta" /\ ahead

Begin(kind, target) ==
  /\ writer' = [pc |-> "files", kind |-> kind, at |-> 1, target |-> target, new |-> Nothing]
  /\ slips' = slips \cup (IF InPlace(kind, target) THEN {"in place"} ELSE {})
                   \cup (IF Adopts(kind) THEN {"adopted"} ELSE {})

\* generation_should_compact, from the journal manifest on disk.
ShouldCompact == Len(journal["state"][epoch].deltas) >= MaxSegments

\* What a commit is numbered: generation.max(1).
CommitGeneration == IF gen = 0 THEN 1 ELSE gen

\* persist with a change pending: a base rewrite at the current generation
\* (compaction, a new calibration, a first text), or a delta on the live base.
PersistBase ==
  /\ writer.pc = "open" /\ pending # NoChange
  /\ Begin("base", CommitGeneration)
  /\ UNCHANGED <<diskVars, memoryVars, committed, ahead, reader, crashes>>

PersistDelta ==
  /\ writer.pc = "open" /\ pending # NoChange
  /\ writer.kind = "none" /\ ~ShouldCompact
  /\ Begin("delta", epoch)
  /\ UNCHANGED <<diskVars, memoryVars, committed, ahead, reader, crashes>>

\* A forced rewrite takes a fresh epoch when nothing moved the generation.
FreshGeneration == IF gen <= epoch THEN epoch + 1 ELSE gen

\* persist after an operator forced a base rewrite (compact).
ForceBase ==
  /\ writer.pc = "open" /\ FreshGeneration <= MaxGen
  /\ gen' = FreshGeneration
  /\ Begin("base", FreshGeneration)
  /\ UNCHANGED <<diskVars, mem, epoch, pending, committed, ahead, reader, crashes>>

\* persist after a fold that moved only the watermark: the root is re-sealed.
PersistWatermark ==
  /\ writer.pc = "open" /\ pending = NoChange
  /\ writer.kind = "none" /\ ~ShouldCompact /\ FreshGeneration <= MaxGen
  /\ gen' = FreshGeneration
  /\ root' = [root EXCEPT !.generation = FreshGeneration]
  /\ UNCHANGED <<base, journal, segs, writer, mem, epoch, pending, histVars, reader, crashes>>

\* The segment a delta commit appends: the changes and the count after them.
Segment(a) == [changes |-> pending[a], count |-> Count(mem["state"])]

\* The artifact a commit is at: one file step, then one journal step each.
ArtAt == Artifacts[(writer.at + 1) \div 2]

AtFile == writer.pc = "files" /\ writer.at <= 2 * Len(Artifacts) /\ writer.at % 2 = 1

AtJournal == writer.pc = "files" /\ writer.at <= 2 * Len(Artifacts) /\ writer.at % 2 = 0

\* A delta leaves out a sidecar nothing touched: its manifest is carried forward.
Untouched(a) == writer.kind = "delta" /\ pending[a] = Nothing

SkipArtifact ==
  /\ AtFile /\ Untouched(ArtAt)
  /\ writer' = [writer EXCEPT !.at = writer.at + 2]
  /\ UNCHANGED <<diskVars, memoryVars, histVars, reader, crashes>>

\* write_base_json / persist_base_bytes / the segment file: an atomic rename.
WriteFile ==
  /\ AtFile /\ ~Untouched(ArtAt)
  /\ LET a == ArtAt e == writer.target IN
     IF writer.kind = "base"
     THEN base' = [base EXCEPT ![a] = (e :> mem[a]) @@ base[a]] /\ UNCHANGED segs
     ELSE /\ segs' = [segs EXCEPT ![a][e] = (journal[a][e].next :> Segment(a)) @@ segs[a][e]]
          /\ UNCHANGED base
  /\ writer' = [writer EXCEPT !.at = writer.at + 1]
  /\ UNCHANGED <<root, journal, memoryVars, histVars, reader, crashes>>

\* record_base: the sequence goes on from the manifest it replaces.
NextSeq(a, e) == IF e \in DOMAIN journal[a] THEN journal[a][e].next + 1 ELSE 1

\* append_delta: pushed onto the manifest found on disk.
Pushed(a, e) ==
  LET m == journal[a][e] IN
  [m EXCEPT !.deltas = Append(m.deltas, [seq |-> m.next, sha |-> Segment(a)]),
            !.next = m.next + 1]

\* record_base / append_delta: the journal's own manifest is replaced.
WriteJournal ==
  /\ AtJournal
  /\ LET a == ArtAt
         e == writer.target
         m == IF writer.kind = "base" THEN FreshManifest(mem[a], NextSeq(a, e)) ELSE Pushed(a, e)
     IN /\ journal' = [journal EXCEPT ![a] = (e :> m) @@ journal[a]]
        /\ writer' = [writer EXCEPT !.at = writer.at + 1, !.new = (a :> m) @@ writer.new]
  /\ UNCHANGED <<root, base, segs, memoryVars, histVars, reader, crashes>>

\* A root swapped as soon as the state is written.
RootBeforeSidecars == writer.pc = "files" /\ writer.at > 2

\* Every artifact is written before the root that names them.
ArtifactsWritten == writer.pc = "files" /\ writer.at > 2 * Len(Artifacts)

\* write_commit_manifest: the commit point.  After a base the collector is next,
\* and only then does the index take the new epoch and drop what was pending.
SwapRoot ==
  /\ ArtifactsWritten
  /\ root' = [generation |-> CommitGeneration, epoch |-> writer.target,
              manifests |-> writer.new @@ root.manifests]
  /\ committed' = mem
  /\ IF writer.kind = "base"
     THEN writer' = [writer EXCEPT !.pc = "gc"] /\ ahead' = FALSE /\ UNCHANGED pending
     ELSE writer' = NoCommit /\ pending' = NoChange /\ UNCHANGED ahead
  /\ reader' = [reader EXCEPT !.lag = IF reader.pc # "idle" /\ writer.kind = "base"
                                      THEN reader.lag + 1 ELSE reader.lag]
  /\ UNCHANGED <<base, journal, segs, mem, gen, epoch, slips, crashes>>

\* A collector that keeps nothing for readers.
KeptOnlyLive == {root.epoch}

\* gc_after_base_rewrite keeps the highest epochs on disk and the live one.
Kept ==
  LET all == DOMAIN base["state"] IN
  {e \in all : Cardinality({f \in all : f > e}) < Retained} \cup {root.epoch}

Collect ==
  /\ writer.pc = "gc"
  /\ base' = [a \in Arts |-> Restrict(base[a], Kept \cap DOMAIN base[a])]
  /\ journal' = [a \in Arts |-> Restrict(journal[a], Kept \cap DOMAIN journal[a])]
  /\ segs' = [a \in Arts |-> [e \in Epochs |-> IF e \in Kept THEN segs[a][e] ELSE Nothing]]
  /\ writer' = NoCommit
  /\ epoch' = writer.target /\ pending' = NoChange
  /\ UNCHANGED <<root, mem, gen, histVars, reader, crashes>>

\* A commit returns an error, before the root swap or, when the collector cannot
\* list the directory, after it: what is pending stays so, and the base epoch.
CommitFails ==
  /\ writer.pc \in {"files", "gc"} /\ crashes < MaxCrashes
  /\ writer' = [NoCommit EXCEPT !.kind = IF writer.kind = "base" THEN "base" ELSE "none"]
  /\ crashes' = crashes + 1
  /\ UNCHANGED <<diskVars, memoryVars, histVars, reader>>

\* The writer closes or dies, at any step; its memory goes.
Die ==
  /\ writer.pc # "closed" /\ crashes < MaxCrashes
  /\ writer' = [NoCommit EXCEPT !.pc = "closed"]
  /\ mem' = [a \in Arts |-> Empty] /\ gen' = 0 /\ epoch' = 0 /\ pending' = NoChange
  /\ ahead' = FALSE /\ crashes' = crashes + 1
  /\ UNCHANGED <<diskVars, committed, slips, reader>>

-----------------------------------------------------------------------------
(* A lock-free reader: the root, then the artifacts it names, one by one.  *)

ReadRoot ==
  /\ reader.pc = "idle"
  /\ reader' = [pc |-> "state", root |-> root, want |-> committed, view |-> Nothing, lag |-> 0]
  /\ UNCHANGED <<diskVars, writer, memoryVars, histVars, crashes>>

\* One artifact loaded: the next one, or the end when it failed.  A load that got
\* all it wanted leaves nothing behind.
Loaded(content) ==
  LET next == [reader EXCEPT
                 !.view = (reader.pc :> content) @@ reader.view,
                 !.pc = IF reader.pc = "state" /\ content # Corrupt THEN "tvim" ELSE "done"]
  IN reader' = IF next.view = reader.want THEN NoRead ELSE next

\* A reader that reads the root again for each artifact.
ReadArtifactLiveRoot ==
  /\ reader.pc \in Arts
  /\ Loaded(Load(root, reader.pc))
  /\ UNCHANGED <<diskVars, writer, memoryVars, histVars, crashes>>

\* load_generation_store: a failed artifact fails the load.
ReadArtifact ==
  /\ reader.pc \in Arts
  /\ Loaded(Load(reader.root, reader.pc))
  /\ UNCHANGED <<diskVars, writer, memoryVars, histVars, crashes>>

ReadDone ==
  /\ reader.pc = "done"
  /\ reader' = NoRead
  /\ UNCHANGED <<diskVars, writer, memoryVars, histVars, crashes>>

-----------------------------------------------------------------------------
Next ==
  \/ OpenWriter
  \/ \E d \in Docs : Upsert(d) \/ Delete(d) \/ UpdatePayload(d)
  \/ PersistBase \/ PersistDelta \/ ForceBase \/ PersistWatermark
  \/ SkipArtifact \/ WriteFile \/ WriteJournal \/ SwapRoot \/ Collect
  \/ CommitFails \/ Die
  \/ ReadRoot \/ ReadArtifact \/ ReadDone

Spec == Init /\ [][Next]_vars

-----------------------------------------------------------------------------
(* Properties.                                                             *)

\* Sequence numbers of a journal ascend and stay below the next one.
WellFormed(m) ==
  /\ m.sha \in Content
  /\ \A i \in DOMAIN m.deltas :
       m.deltas[i].seq < m.next /\ \A j \in 1 .. i - 1 : m.deltas[j].seq < m.deltas[i].seq

\* Type invariant: the root and every journal on disk are well formed, so replay
\* meets the segments in order, and writer and reader are at one of their steps.
TypeOK ==
  /\ root.generation \in Nat /\ root.epoch \in Epochs /\ \A a \in Arts : WellFormed(root.manifests[a])
  /\ \A a \in Arts : base[a] \in [DOMAIN base[a] -> Content] /\ DOMAIN base[a] \subseteq Epochs
  /\ \A a \in Arts : \A e \in DOMAIN journal[a] : e \in Epochs /\ WellFormed(journal[a][e])
  /\ writer.pc \in {"closed", "open", "files", "gc"} /\ writer.kind \in {"none", "base", "delta"}
  /\ mem \in [Arts -> Content] /\ gen \in 0 .. MaxGen /\ epoch \in 0 .. MaxGen
  /\ committed \in [Arts -> Content] /\ ahead \in BOOLEAN /\ slips \subseteq {"in place", "adopted"}
  /\ reader.pc \in {"idle", "done"} \cup Arts /\ crashes \in 0 .. MaxCrashes

\* Crash atomicity: at every instant, in the middle of any commit, after any
\* crash, failed commit or collection, what an open would load is exactly the
\* content the last root swap published, for the state and for its sidecar.  The
\* code breaks it in two ways only: a delta that adopts a dead writer's orphan
\* segment, and the creating handle's rewrite of g1 in place.
RootIntact == slips = {} => \A a \in Arts : Load(root, a) = committed[a]

\* A lock-free reader that loads across commits gets the content of the one
\* generation whose root it read, or an error; it never mixes two.
ReaderExact ==
  slips = {} => \A a \in DOMAIN reader.view : reader.view[a] \in {reader.want[a], Corrupt}

\* The retained epochs serve in-flight readers: fewer base rewrites (and
\* orphaned bases, which a crash or a failed commit leaves) than the collector
\* retains never fail a load.
ReaderServed ==
  slips = {} /\ reader.lag + crashes < Retained
    => \A a \in DOMAIN reader.view : reader.view[a] # Corrupt

\* The files implement one durable content, replaced as a whole by the root swap
\* and by nothing else, as long as no commit leaves the layout's rules.
Atomic == INSTANCE AtomicStore WITH
  Contents <- [Arts -> Content],
  durable <- IF slips = {} THEN [a \in Arts |-> Load(root, a)] ELSE committed,
  working <- IF writer.pc = "closed" THEN Closed ELSE mem

ImplementsAtomic == Atomic!ASpec

=============================================================================
