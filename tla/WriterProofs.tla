---------------------------- MODULE WriterProofs ----------------------------
(***************************************************************************)
(* Every mutation of an exclusive writer, whether or not its append fails, *)
(* keeps the invariant, and so does the start of a persist.                *)
(***************************************************************************)
EXTENDS WriterOpenProofs

\* The time the provers get for a leaf that names none of them.
USE SMTT(40), ZenonT(60)

\* A wal-mode mutation keeps the invariant: it is in memory, and its frame is in
\* the WAL above the root, or behind torn bytes.
LEMMA MutateWalKeeps ==
  ASSUME Inv, NEW w \in Writers, MutateWal(w), UNCHANGED <<appenderVars, readerVars>>
  PROVE  Inv'
<1> USE DEF Inv
<1>a. w \in Engines /\ w \notin Ckpts /\ w # None /\ Ckpts \subseteq Engines
  BY WriterDistinct
<1>b. /\ excl = w /\ \A q \in Engines \ {w} : pc[q] \notin Holding
      /\ \A a \in Appenders : apc[a] \in {"closed", "idle"}
  BY <1>a, HolderAlone DEF MutateWal, Holding
<1>c. Covers(eng[w]) /\ manifest # None /\ eng[w] \in EngineState /\ task[w] = "none" /\ mode[w] \in Modes
  BY <1>a DEF HoldersCover, Covers, MutateWal, TypeOK, EnginesTyped, EnginesLocked
<1> DEFINE x == Mutated(eng[w])
           r == OwnRecord(eng[w])
<1>d. nextId \in Ids /\ nextId + 1 \in 1 .. MaxRecs + 1
  <2>1. nextId <= MaxRecs /\ nextId \in 1 .. MaxRecs + 1
    BY DEF TypeOK, HistoryTyped, MutateWal
  <2>2. QED
    BY <2>1, BoundsAreNaturals DEF Ids
<1>e. /\ x \in EngineState /\ MustCommit(x)
      /\ x.docs = manifest.docs \cup x.pending
      /\ IdsOf(wal) \subseteq x.docs /\ nextId \in x.docs
      /\ x.applied_lsn <= x.generation /\ manifest.applied_lsn <= x.generation
      /\ r \in Record /\ r.id = nextId /\ r.lsn \in Nat /\ r.own
      /\ r.lsn > manifest.applied_lsn \/ (r.lsn = manifest.applied_lsn /\ NoWarm)
  BY <1>c, <1>d, MutatedFacts
<1>f. \A s \in wal : s.lsn \in Nat
  BY DEF TypeOK, FilesTyped, Record
<1>g. /\ eng' = [eng EXCEPT ![w] = x]
      /\ UNCHANGED <<pc, task, mode, tokens, needs, manifest, excl, shared, ctr, lease, slips>>
      /\ logged' = logged \cup {r} /\ acked' = acked \cup {r}
      /\ \/ wal' = wal \cup {r} /\ UNCHANGED <<torn, buried, behind>>
         \/ /\ wal' = wal /\ buried' = buried \cup {r} /\ behind' = behind \cup {r}
            /\ torn' \in {torn, "corrupt"}
  BY <1>e, ZenonT(60) DEF MutateWal, AppendRecord, lockVars
<1> HIDE DEF x, r
<1>1. TypeOK'
  <2>1. FilesTyped'
    BY <1>e, <1>g DEF TypeOK, FilesTyped, MutateWal, TornStates
  <2>2. LocksTyped'
    BY <1>g DEF TypeOK, LocksTyped
  <2>3. HistoryTyped'
    BY <1>d, <1>e, <1>g DEF TypeOK, HistoryTyped, MutateWal
  <2>4. EnginesTyped'
    BY <1>a, <1>e, <1>g DEF TypeOK, EnginesTyped
  <2>5. QED
    BY <2>1, <2>2, <2>3, <2>4, FrameOthers DEF TypeOK
<1>2. EnginesLocked'
  BY <1>g, FrameEngines
<1>3. /\ AppendersLocked' /\ NotBuried' /\ AppendsSound' /\ NothingYet' /\ WarmMatches'
      /\ (NoWarm => NoWarm') /\ \A q \in Engines \ {w} : pc'[q] \notin Holding
  <2>1. \A q \in Engines \ {w} : eng'[q] = eng[q]
    BY <1>g DEF TypeOK, EnginesTyped
  <2>2. QED
    BY <1>b, <1>c, <1>f, <1>g, <2>1, WriterFrame DEF appenderVars
<1>4. Bounded' /\ TailAboveRoot' /\ AckedKept'
  <2>1. Bounded'
    BY <1>e, <1>f, <1>g, AddKeepsBounded, ZenonT(60) DEF Bounded
  <2>2. TailAboveRoot'
    BY <1>e, <1>g, <1>3, ZenonT(60) DEF TailAboveRoot
  <2>3. AckedKept'
    BY <1>g, ZenonT(60) DEF AckedKept, IdsOf
  <2>4. QED
    BY <2>1, <2>2, <2>3
<1>5. HoldersCover'
  <2>1. eng'[w] = x
    BY <1>a, <1>g DEF TypeOK, EnginesTyped
  <2>2. IdsOf(wal') \subseteq x.docs
    BY <1>e, <1>g, ZenonT(60) DEF IdsOf
  <2>3. MustCommit(eng[w])'
    BY <1>e, <2>1, ZenonT(60) DEF MustCommit
  <2>4. Covers(eng[w])'
    BY <1>c, <1>e, <1>g, <2>1, <2>2, <2>3 DEF Covers
  <2>5. pc'[w] = "open" /\ mode'[w] = "wal"
    BY <1>g DEF MutateWal
  <2>6. QED
    BY <1>a, <1>3, <2>4, <2>5, WriterCovers, ZenonT(60)
<1>6. QED
  BY <1>1, <1>2, <1>3, <1>4, <1>5

\* A wal-mode mutation whose append fails keeps the invariant: memory holds it,
\* whatever part of its frame is in the file.
LEMMA MutateFailsKeeps ==
  ASSUME Inv, NEW w \in Writers, MutateFails(w), UNCHANGED <<appenderVars, readerVars>>
  PROVE  Inv'
<1> USE DEF Inv
<1>a. w \in Engines /\ w \notin Ckpts /\ w # None /\ Ckpts \subseteq Engines
  BY WriterDistinct
<1>b. /\ excl = w /\ \A q \in Engines \ {w} : pc[q] \notin Holding
      /\ \A a \in Appenders : apc[a] \in {"closed", "idle"}
  BY <1>a, HolderAlone DEF MutateFails, Holding
<1>c. Covers(eng[w]) /\ manifest # None /\ eng[w] \in EngineState /\ task[w] = "none" /\ mode[w] \in Modes
  BY <1>a DEF HoldersCover, Covers, MutateFails, TypeOK, EnginesTyped, EnginesLocked
<1> DEFINE x == Mutated(eng[w])
           r == OwnRecord(eng[w])
<1>d. nextId \in Ids /\ nextId + 1 \in 1 .. MaxRecs + 1
  <2>1. nextId <= MaxRecs /\ nextId \in 1 .. MaxRecs + 1
    BY DEF TypeOK, HistoryTyped, MutateFails
  <2>2. QED
    BY <2>1, BoundsAreNaturals DEF Ids
<1>e. /\ x \in EngineState /\ MustCommit(x)
      /\ x.docs = manifest.docs \cup x.pending
      /\ IdsOf(wal) \subseteq x.docs /\ nextId \in x.docs
      /\ x.applied_lsn <= x.generation /\ manifest.applied_lsn <= x.generation
      /\ r \in Record /\ r.id = nextId /\ r.lsn \in Nat /\ r.own
      /\ r.lsn > manifest.applied_lsn \/ (r.lsn = manifest.applied_lsn /\ NoWarm)
  BY <1>c, <1>d, MutatedFacts
<1>f. \A s \in wal : s.lsn \in Nat
  BY DEF TypeOK, FilesTyped, Record
<1>g. /\ eng' = [eng EXCEPT ![w] = x]
      /\ UNCHANGED <<pc, task, mode, tokens, needs, manifest, excl, shared, ctr, lease, slips>>
      /\ wal' \in {wal, wal \cup {r}} /\ acked' = acked
      /\ \/ logged' = logged /\ behind' = behind
         \/ logged' = logged \cup {r} /\ behind' \in {behind, behind \cup {r}}
  BY ZenonT(60) DEF MutateFails, AppendRecord, lockVars
<1>h. torn' \in TornStates /\ buried' \in {buried, buried \cup {r}}
  BY DEF MutateFails, AppendRecord, TearFrame, TypeOK, FilesTyped, TornStates
<1> HIDE DEF x, r
<1>1. TypeOK'
  <2>1. FilesTyped'
    BY <1>e, <1>g, <1>h DEF TypeOK, FilesTyped, MutateFails
  <2>2. LocksTyped'
    BY <1>g DEF TypeOK, LocksTyped
  <2>3. HistoryTyped'
    <3>1. nextId' = nextId + 1 /\ crashes' = crashes + 1 /\ crashes < MaxCrashes
      BY ZenonT(60) DEF MutateFails
    <3>2. crashes' \in 0 .. MaxCrashes
      BY <3>1, BoundsAreNaturals DEF TypeOK, HistoryTyped
    <3>3. QED
      BY <1>d, <1>e, <1>g, <3>1, <3>2 DEF TypeOK, HistoryTyped
  <2>4. EnginesTyped'
    BY <1>a, <1>e, <1>g, ZenonT(60) DEF TypeOK, EnginesTyped
  <2>5. QED
    BY <2>1, <2>2, <2>3, <2>4, FrameOthers DEF TypeOK
<1>2. EnginesLocked'
  BY <1>g, FrameEngines
<1>3. /\ AppendersLocked' /\ NotBuried' /\ AppendsSound' /\ NothingYet' /\ WarmMatches'
      /\ (NoWarm => NoWarm') /\ \A q \in Engines \ {w} : pc'[q] \notin Holding
  <2>1. \A q \in Engines \ {w} : eng'[q] = eng[q]
    BY <1>g DEF TypeOK, EnginesTyped
  <2>2. QED
    BY <1>b, <1>c, <1>f, <1>g, <2>1, WriterFrame, ZenonT(60) DEF appenderVars
<1>4. Bounded' /\ TailAboveRoot' /\ AckedKept'
  <2>1. Bounded'
    BY <1>e, <1>f, <1>g, AddKeepsBounded, ZenonT(60) DEF Bounded
  <2>2. TailAboveRoot'
    BY <1>e, <1>g, <1>3, ZenonT(60) DEF TailAboveRoot
  <2>3. AckedKept'
    BY <1>g, ZenonT(60) DEF AckedKept, IdsOf
  <2>4. QED
    BY <2>1, <2>2, <2>3
<1>5. HoldersCover'
  <2>1. eng'[w] = x
    BY <1>a, <1>g DEF TypeOK, EnginesTyped
  <2>2. IdsOf(wal') \subseteq x.docs
    BY <1>e, <1>g, ZenonT(60) DEF IdsOf
  <2>3. MustCommit(eng[w])'
    BY <1>e, <2>1 DEF MustCommit
  <2>4. Covers(eng[w])'
    BY <1>c, <1>e, <1>g, <2>1, <2>2, <2>3 DEF Covers
  <2>5. pc'[w] = "open" /\ mode'[w] = "wal"
    BY <1>g DEF MutateFails
  <2>6. QED
    BY <1>a, <1>3, <2>4, <2>5, WriterCovers
<1>6. QED
  BY <1>1, <1>2, <1>3, <1>4, <1>5

\* A generation-mode mutation keeps the invariant.
LEMMA MutateGenerationKeeps ==
  ASSUME Inv, NEW w \in Writers, MutateGeneration(w), UNCHANGED <<appenderVars, readerVars>>
  PROVE  Inv'
<1> USE DEF Inv
<1>a. w \in Engines /\ w \notin Ckpts /\ w # None /\ Ckpts \subseteq Engines
  BY WriterDistinct
<1>b. /\ excl = w /\ \A q \in Engines \ {w} : pc[q] \notin Holding
      /\ \A a \in Appenders : apc[a] \in {"closed", "idle"}
  BY <1>a, HolderAlone DEF MutateGeneration, Holding
<1>c. Covers(eng[w]) /\ manifest # None /\ eng[w] \in EngineState /\ task[w] = "none" /\ mode[w] \in Modes
  BY <1>a DEF HoldersCover, Covers, MutateGeneration, TypeOK, EnginesTyped, EnginesLocked
<1> DEFINE x == Mutated(eng[w])
           r == OwnRecord(eng[w])
<1>d. nextId \in Ids /\ nextId + 1 \in 1 .. MaxRecs + 1
  <2>1. nextId <= MaxRecs /\ nextId \in 1 .. MaxRecs + 1
    BY DEF TypeOK, HistoryTyped, MutateGeneration
  <2>2. QED
    BY <2>1, BoundsAreNaturals DEF Ids
<1>e. /\ x \in EngineState /\ MustCommit(x)
      /\ x.docs = manifest.docs \cup x.pending
      /\ IdsOf(wal) \subseteq x.docs /\ nextId \in x.docs
      /\ x.applied_lsn <= x.generation /\ manifest.applied_lsn <= x.generation
      /\ r \in Record /\ r.id = nextId /\ r.lsn \in Nat /\ r.own
      /\ r.lsn > manifest.applied_lsn \/ (r.lsn = manifest.applied_lsn /\ NoWarm)
  BY <1>c, <1>d, MutatedFacts
<1>g. /\ \A q \in Engines \ {w} : /\ pc'[q] = pc[q] /\ task'[q] = task[q] /\ mode'[q] = mode[q]
                                 /\ eng'[q] = eng[q] /\ tokens'[q] = tokens[q] /\ needs'[q] = needs[q]
      /\ pc'[w] = "commit" /\ task'[w] = "persist" /\ mode'[w] = mode[w] /\ eng'[w] = x
      /\ UNCHANGED <<manifest, wal, torn, buried, acked, behind, excl, lease, shared, ctr>>
  BY <1>a DEF MutateGeneration, TypeOK, EnginesTyped, fileVars, lockVars
<1>h. mode[w] = "generation" /\ wal = {}
  BY <1>a DEF MutateGeneration, HoldersCover, Holding
<1> HIDE DEF x, r
<1>1. TypeOK'
  <2>1. FilesTyped' /\ LocksTyped'
    BY DEF TypeOK, FilesTyped, LocksTyped, MutateGeneration, fileVars, lockVars
  <2>2. HistoryTyped'
    BY <1>d DEF TypeOK, HistoryTyped, MutateGeneration
  <2>3. EnginesTyped'
    BY <1>a, <1>e DEF TypeOK, EnginesTyped, MutateGeneration, EnginePcs, Tasks, x
  <2>4. QED
    BY <2>1, <2>2, <2>3, FrameOthers DEF TypeOK
<1>2. EnginesLocked'
  BY <1>a, <1>b, <1>c, <1>g, WriterLocks
<1>3. /\ AppendersLocked' /\ NotBuried' /\ AppendsSound' /\ NothingYet' /\ WarmMatches'
      /\ (NoWarm => NoWarm') /\ \A q \in Engines \ {w} : pc'[q] \notin Holding
  BY <1>b, <1>c, <1>g, WriterFrame DEF appenderVars, NotBuried
<1>4. Bounded' /\ TailAboveRoot' /\ AckedKept'
  BY <1>g, <1>3, FrameTailWarm, FrameKept
<1>5. HoldersCover'
  <2>1. MustCommit(eng[w])'
    BY <1>e, <1>g DEF MustCommit
  <2>2. Covers(eng[w])'
    BY <1>c, <1>e, <1>g, <2>1 DEF Covers
  <2>3. QED
    BY <1>a, <1>g, <1>h, <1>3, <2>2, WriterCovers
<1>6. QED
  BY <1>1, <1>2, <1>3, <1>4, <1>5

\* persist, as it starts, keeps the invariant.
LEMMA PersistKeeps ==
  ASSUME Inv, NEW w \in Writers, Persist(w), UNCHANGED <<appenderVars, readerVars>>
  PROVE  Inv'
<1> USE DEF Inv
<1>a. w \in Engines /\ w \notin Ckpts /\ w # None /\ Ckpts \subseteq Engines
  BY WriterDistinct
<1>b. /\ excl = w /\ \A q \in Engines \ {w} : pc[q] \notin Holding
      /\ \A a \in Appenders : apc[a] \in {"closed", "idle"}
  BY <1>a, HolderAlone DEF Persist, Holding
<1>c. Covers(eng[w]) /\ manifest # None /\ eng[w] \in EngineState /\ task[w] = "none" /\ mode[w] \in Modes
  BY <1>a DEF HoldersCover, Covers, Persist, TypeOK, EnginesTyped, EnginesLocked
<1>g. /\ \A q \in Engines \ {w} : /\ pc'[q] = pc[q] /\ task'[q] = task[q] /\ mode'[q] = mode[q]
                                 /\ eng'[q] = eng[q] /\ tokens'[q] = tokens[q] /\ needs'[q] = needs[q]
      /\ pc'[w] = "commit" /\ task'[w] = "persist" /\ mode'[w] = mode[w] /\ eng'[w] = eng[w]
      /\ UNCHANGED <<manifest, wal, torn, buried, acked, behind, excl, lease, shared, ctr>>
  BY <1>a DEF Persist, TypeOK, EnginesTyped, storeVars, fileVars, lockVars, histVars
<1>h. mode[w] = "generation" => wal = {}
  BY <1>a, ZenonT(60) DEF Persist, HoldersCover, Holding
<1>1. TypeOK'
  <2>1. FilesTyped' /\ LocksTyped' /\ HistoryTyped'
    BY DEF TypeOK, FilesTyped, LocksTyped, HistoryTyped, Persist, storeVars, fileVars, lockVars, histVars
  <2>2. EnginesTyped'
    BY <1>a DEF TypeOK, EnginesTyped, Persist, EnginePcs, Tasks
  <2>3. QED
    BY <2>1, <2>2, FrameOthers DEF TypeOK
<1>2. EnginesLocked'
  BY <1>a, <1>b, <1>c, <1>g, WriterLocks, ZenonT(60)
<1>3. /\ AppendersLocked' /\ NotBuried' /\ AppendsSound' /\ NothingYet' /\ WarmMatches'
      /\ (NoWarm => NoWarm') /\ \A q \in Engines \ {w} : pc'[q] \notin Holding
  BY <1>b, <1>c, <1>g, WriterFrame, ZenonT(60) DEF appenderVars, NotBuried
<1>4. Bounded' /\ TailAboveRoot' /\ AckedKept'
  BY <1>g, <1>3, FrameTailWarm, FrameKept, ZenonT(60)
<1>5. HoldersCover'
  <2>1. Covers(eng[w])'
    BY <1>c, <1>g, <1>3 DEF Covers, MustCommit
  <2>2. QED
    BY <1>a, <1>g, <1>h, <1>3, <2>1, WriterCovers, ZenonT(60)
<1>6. QED
  BY <1>1, <1>2, <1>3, <1>4, <1>5

=============================================================================
