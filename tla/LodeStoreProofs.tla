--------------------------- MODULE LodeStoreProofs ---------------------------
(***************************************************************************)
(* Failures and readers keep the invariant too, and with them every step.  *)
(* The store's theorems: types, durability of acknowledged mutations, and  *)
(* commits that never lose what the root holds, for any number of          *)
(* appenders, writers, checkpointers and readers.                          *)
(***************************************************************************)
EXTENDS AppenderProofs, WriterProofs, CommitProofs

\* The time the provers get for a leaf that names none of them.
USE SMTT(40), ZenonT(60)

\* A failed commit, before or after its root swap, keeps the invariant: what it
\* leaves on disk holds what was there, and an engine that lives on is either
\* still ready to commit or known to need a reload.
LEMMA PersistFailsKeeps ==
  ASSUME Inv, NEW p \in Engines, PersistFails(p), UNCHANGED <<appenderVars, readerVars>>
  PROVE  Inv'
<1> USE DEF Inv
<1>a. /\ pc[p] \in {"commit", "truncate"} /\ task[p] # "none" /\ excl = p /\ Covers(eng[p])
      /\ manifest # None /\ manifest \in Manifest /\ eng[p] \in EngineState
      /\ None \notin Engines /\ Ckpts \subseteq Engines /\ Writers \cap Ckpts = {}
  BY ProcessesDistinct
     DEF PersistFails, EnginesLocked, Holding, HoldersCover, Covers, TypeOK, FilesTyped, EnginesTyped, Engines
<1>b. UNCHANGED <<mode, wal, torn, buried, counter, shared, ctr, nextId, logged, acked, behind, slips, apc>>
  BY DEF PersistFails, appenderVars
<1>c. /\ manifest' \in Manifest /\ manifest' # None
      /\ manifest' = manifest \/ Before(manifest, manifest')
      /\ AckedKept' /\ ((NoWarm => NoWarm') => TailAboveRoot')
      /\ \/ manifest' = manifest
         \/ /\ MustCommit(eng[p]) /\ manifest'.docs = eng[p].docs
            /\ manifest'.applied_lsn = eng[p].generation
            /\ eng[p].applied_lsn <= eng[p].generation
            /\ IdsOf(wal) \subseteq manifest'.docs
  <2>1. CASE manifest' = manifest
    BY <1>a, <1>b, <2>1, FrameTailWarm, FrameKept
  <2>2. CASE pc[p] = "commit" /\ MustCommit(eng[p]) /\ manifest' \in CommitBodies(eng[p])
    BY <1>b, <2>2, RootSwap
  <2>3. QED
    BY <2>1, <2>2 DEF PersistFails
<1>d. \/ task[p] \in {"open", "warm"} /\ DropEngine(p)
      \/ /\ p \in Writers /\ pc' = [pc EXCEPT ![p] = "open"] /\ task' = [task EXCEPT ![p] = "none"]
         /\ UNCHANGED <<eng, tokens, needs, excl, lease>>
      \/ /\ p \in Ckpts /\ pc' = [pc EXCEPT ![p] = "warm"] /\ task' = [task EXCEPT ![p] = "none"]
         /\ task[p] \in {"reload", "fold"}
         /\ needs' = [needs EXCEPT ![p] = needs[p] \/ task[p] = "fold"]
         /\ excl' = None /\ UNCHANGED <<eng, tokens, lease>>
  <2>1. task[p] \in {"open", "persist", "warm", "reload", "fold"}
    BY <1>a DEF TypeOK, EnginesTyped, Tasks
  <2>2. (task[p] = "persist" => p \in Writers) /\ (task[p] \in {"reload", "fold"} => p \in Ckpts)
    BY DEF EnginesLocked, Engines
  <2>3. QED
    BY <2>1, <2>2, ZenonT(60) DEF PersistFails, Release
<1>e. /\ \A q \in Engines \ {p} : /\ pc'[q] = pc[q] /\ task'[q] = task[q] /\ eng'[q] = eng[q]
                                 /\ tokens'[q] = tokens[q] /\ needs'[q] = needs[q]
      /\ task'[p] = "none"
      /\ \/ pc'[p] = "closed" /\ excl' = None /\ tokens'[p] = None
         \/ p \in Writers /\ pc'[p] = "open" /\ excl' = p /\ eng'[p] = eng[p]
         \/ /\ p \in Ckpts /\ pc'[p] = "warm" /\ excl' = None /\ tokens'[p] = tokens[p]
            /\ task[p] \in {"reload", "fold"}
            /\ needs'[p] = (needs[p] \/ task[p] = "fold")
  BY <1>a, <1>d DEF DropEngine, TypeOK, EnginesTyped
<1>1. TypeOK'
  <2>1. FilesTyped' /\ HistoryTyped'
    BY <1>b, <1>c, BoundsAreNaturals DEF PersistFails, TypeOK, FilesTyped, HistoryTyped
  <2>2. LocksTyped'
    BY <1>b, <1>d DEF TypeOK, LocksTyped, DropEngine
  <2>3. needs' \in [Engines -> BOOLEAN]
    BY <1>d, Zenon DEF TypeOK, EnginesTyped, DropEngine
  <2>4. NoEngine \in EngineState
    BY DEF NoEngine, EngineState
  <2>5. EnginesTyped'
    BY <1>b, <1>d, <2>3, <2>4 DEF TypeOK, EnginesTyped, EnginePcs, Tasks, DropEngine
  <2>6. QED
    BY <2>1, <2>2, <2>5, FrameOthers DEF TypeOK
<1>2. /\ AppendersLocked' /\ NotBuried' /\ AppendsSound' /\ NothingYet'
      /\ \A d \in Ckpts \ {p} : WarmAt(d)'
      /\ \A q \in Engines \ {p} : pc'[q] \notin Holding
  BY <1>a, <1>b, <1>c, <1>e, HolderFrame DEF Holding
<1>3. EnginesLocked'
  <2>1. /\ \A q \in Engines \ {p} : pc[q] \notin Holding /\ mode'[q] = mode[q]
    BY <1>a, <1>b, <1>2, <1>e, HolderAlone DEF Holding
  <2>2. CASE DropEngine(p)
    BY <1>b, <2>2, DropLocks
  <2>3. CASE p \in Writers /\ pc'[p] = "open" /\ UNCHANGED <<excl, lease>>
    <3>1. mode'[p] \in Modes
      BY <1>a, <1>b, <2>3 DEF EnginesLocked
    <3>2. QED
      BY <1>a, <1>b, <1>e, <2>1, <2>3, <3>1, WriterLocks, ZenonT(60)
  <2>4. CASE p \in Ckpts /\ pc'[p] = "warm" /\ excl' = None /\ UNCHANGED lease
    BY <1>a, <1>b, <1>e, <2>1, <2>4, CkptLocks, ZenonT(60) DEF Holding
  <2>5. QED
    BY <1>d, <2>2, <2>3, <2>4 DEF TypeOK, EnginesTyped
<1>4. NoWarm => NoWarm'
  BY <1>a, <1>e DEF NoWarm
<1>5. Bounded' /\ TailAboveRoot' /\ AckedKept'
  BY <1>b, <1>c, <1>4, ZenonT(60) DEF Bounded, LsnsOf
<1>6. HoldersCover'
  <2>1. ASSUME pc'[p] = "open" PROVE Covers(eng[p])'
    <3>1. eng'[p] = eng[p]
      BY <1>e, <2>1
    <3>2. /\ eng[p].docs = manifest.docs \cup eng[p].pending /\ IdsOf(wal) \subseteq eng[p].docs
          /\ eng[p].pending \subseteq eng[p].docs
      BY <1>a DEF Covers
    <3>3. CASE manifest' = manifest
      BY <1>a, <1>b, <1>4, <3>1, <3>3 DEF Covers, MustCommit
    <3>4. CASE /\ MustCommit(eng[p]) /\ manifest'.docs = eng[p].docs
               /\ manifest'.applied_lsn = eng[p].generation
               /\ eng[p].applied_lsn <= eng[p].generation
               /\ IdsOf(wal) \subseteq manifest'.docs
      <4>1. manifest'.applied_lsn <= eng[p].generation
        <5>1. eng[p].generation \in Nat
          BY <1>a DEF EngineState
        <5>2. QED
          BY <3>4, <5>1
      <4>2. IdsOf(wal)' = IdsOf(wal)
        BY <1>b DEF IdsOf
      <4>3. QED
        BY <1>c, <3>1, <3>2, <3>4, <4>1, <4>2 DEF Covers
    <3>5. QED
      BY <1>c, <3>3, <3>4
  <2>2. wal' = wal /\ (mode'[p] = "generation" => wal = {})
    BY <1>a, <1>b DEF HoldersCover, Holding
  <2>3. QED
    BY <1>2, <1>e, <2>1, <2>2 DEF HoldersCover, Holding
<1>7. WarmMatches'
  <2>1. ASSUME p \in Ckpts PROVE WarmAt(p)'
    <3>1. CASE pc'[p] = "closed" /\ tokens'[p] = None
      BY <1>e, <3>1 DEF WarmAt
    <3>2. CASE pc'[p] = "warm" /\ tokens'[p] = tokens[p] /\ task[p] \in {"reload", "fold"}
               /\ needs'[p] = (needs[p] \/ task[p] = "fold")
      <4>1. WarmAt(p) /\ tokens[p] # None
        BY <2>1, <3>2 DEF WarmMatches, WarmAt
      <4>2. Before(tokens[p], manifest') /\ (tokens[p] # manifest => tokens[p] # manifest')
        BY <1>a, <1>c, <2>1, <4>1, TokensStayBehind, ZenonT(60)
      <4>3. Before(tokens[p], manifest)'
        BY <3>2, <4>2 DEF Before
      <4>4. ~needs'[p] => tokens'[p] # manifest'
        BY <3>2, <4>1, <4>2, ZenonT(60) DEF WarmAt
      <4>5. QED
        BY <1>c, <1>e, <3>2, <4>1, <4>3, <4>4 DEF WarmAt
    <3>3. QED
      BY <1>a, <1>e, <2>1, <3>1, <3>2
  <2>2. QED
    BY <1>2, <2>1 DEF WarmMatches
<1>8. QED
  BY <1>1, <1>2, <1>3, <1>5, <1>6, <1>7

\* discard keeps the invariant.
LEMMA DiscardKeeps ==
  ASSUME Inv, NEW w \in Writers, Discard(w), UNCHANGED <<appenderVars, readerVars>>
  PROVE  Inv'
<1>1. w \in Engines /\ DropEngine(w) /\ UNCHANGED <<mode, fileVars, shared, ctr, histVars>>
  BY DEF Discard, Engines
<1>2. crashes' \in 0 .. MaxCrashes /\ UNCHANGED <<nextId, logged, acked, behind, slips>>
  BY <1>1 DEF histVars, Inv, TypeOK, HistoryTyped
<1>3. QED
  BY <1>1, <1>2, DropEngineKeeps

\* Dropping a checkpointer between two folds keeps the invariant.
LEMMA CloseCheckpointerKeeps ==
  ASSUME Inv, NEW c \in Ckpts, CloseCheckpointer(c), UNCHANGED <<appenderVars, readerVars>>
  PROVE  Inv'
<1>1. c \in Engines /\ DropEngine(c) /\ UNCHANGED <<mode, fileVars, shared, ctr, histVars>>
  BY DEF CloseCheckpointer, Engines
<1>2. crashes' \in 0 .. MaxCrashes /\ UNCHANGED <<nextId, logged, acked, behind, slips>>
  BY <1>1 DEF histVars, Inv, TypeOK, HistoryTyped
<1>3. QED
  BY <1>1, <1>2, DropEngineKeeps

\* A crash of an engine's process, anywhere, keeps the invariant.
LEMMA CrashEngineKeeps ==
  ASSUME Inv, NEW p \in Engines, CrashEngine(p), UNCHANGED <<appenderVars, readerVars>>
  PROVE  Inv'
<1>1. DropEngine(p) /\ UNCHANGED <<mode, fileVars, shared, ctr, nextId, logged, acked, behind, slips>>
  BY DEF CrashEngine
<1>2. crashes' \in 0 .. MaxCrashes
  BY BoundsAreNaturals DEF CrashEngine, Inv, TypeOK, HistoryTyped
<1>3. QED
  BY <1>1, <1>2, DropEngineKeeps

-----------------------------------------------------------------------------
\* The view of a committed root, alone or with a WAL tail over it, is a view.
LEMMA ViewFacts ==
  ASSUME Inv, manifest # None, NEW v \in View
  PROVE  BaseView \in View /\ Overlaid(v, wal) \in View
<1> USE DEF Inv
<1>1. manifest \in Manifest /\ wal \subseteq Record
  BY DEF TypeOK, FilesTyped
<1>2. BaseView \in View
  <2>1. manifest.applied_lsn \in Nat /\ manifest.generation \in Nat /\ manifest.docs \in SUBSET Ids
    BY <1>1 DEF Manifest
  <2>2. CommittedLsn \in Nat
    BY <2>1, MaxOfTwo DEF CommittedLsn
  <2>3. QED
    BY <2>1, <2>2 DEF BaseView, View
<1>3. Overlaid(v, wal) \in View
  <2> DEFINE tail == {r \in wal : r.lsn >= v.base}
             S == {v.applied_lsn} \cup LsnsOf(tail)
             top == Max(S)
  <2>1. v.applied_lsn \in Nat /\ v.docs \in SUBSET Ids /\ IdsOf(tail) \in SUBSET Ids
    BY <1>1 DEF View, Record, IdsOf
  <2>2. S \in SUBSET Nat /\ S # {}
    BY <1>1, <2>1 DEF LsnsOf, Record
  <2>3. PICK n \in Nat : \A r \in wal : r.lsn <= n
    BY <1>1 DEF Bounded, LsnsOf, Record
  <2>4. n + v.applied_lsn \in Nat /\ \A x \in S : x <= n + v.applied_lsn
    BY <1>1, <2>1, <2>3 DEF LsnsOf, Record
  <2>5. top \in Nat
    BY <2>2, <2>4, MaxOfBounded, ZenonT(60)
  <2>6. Overlaid(v, wal) = [v EXCEPT !.docs = v.docs \cup IdsOf(tail), !.applied_lsn = top]
    BY DEF Overlaid
  <2> HIDE DEF top, S, tail
  <2>7. QED
    BY <2>1, <2>5, <2>6, ZenonT(60) DEF View
<1>4. QED
  BY <1>2, <1>3

\* A reader writes nothing: its step keeps the invariant.
LEMMA ReaderKeeps ==
  ASSUME Inv, ReadersOpened, NEW r \in Readers, ReaderStep(r), UNCHANGED <<appenderVars, engineVars>>
  PROVE  Inv' /\ ReadersOpened'
<1> USE DEF Inv
<1>1. UNCHANGED <<storeVars, appenderVars, engineVars>>
  BY DEF ReaderStep, OpenReader, OpenLoad, Probe, ReadBefore, LoadBase, Overlay, ReadAfter, RefreshFails
<1>2. manifest # None
  BY DEF ReaderStep, OpenReader, OpenLoad, Probe, ReadBefore, LoadBase, Overlay, ReadAfter, RefreshFails,
         ReadersOpened
<1>3. NoView \in View
  BY DEF NoView, View
<1>4. /\ rpc \in [Readers -> ReaderPcs]
      /\ view \in [Readers -> View] /\ fresh \in [Readers -> View]
  BY DEF TypeOK, ReadersTyped
<1>5. BaseView \in View /\ Overlaid(fresh[r], wal) \in View
  BY <1>2, <1>4, ViewFacts
<1>6. ReadersTyped'
  <2>1. CASE OpenReader(r) \/ ReadBefore(r) \/ Probe(r)
    BY <1>4, <2>1 DEF OpenReader, ReadBefore, Probe, ReadersTyped, ReaderPcs
  <2>2. CASE OpenLoad(r)
    BY <1>4, <1>5, <2>2 DEF OpenLoad, ReadersTyped, ReaderPcs
  <2>3. CASE LoadBase(r) \/ Overlay(r)
    BY <1>4, <1>5, <2>3 DEF LoadBase, Overlay, ReadersTyped, ReaderPcs
  <2>4. CASE ReadAfter(r)
    BY <1>3, <1>4, <2>4 DEF ReadAfter, EndRefresh, ReadersTyped, ReaderPcs
  <2>5. CASE RefreshFails(r)
    BY <1>3, <1>4, <2>5 DEF RefreshFails, EndRefresh, ReadersTyped, ReaderPcs
  <2>6. QED
    BY <2>1, <2>2, <2>3, <2>4, <2>5 DEF ReaderStep
<1>7. UNCHANGED <<manifest, wal, torn, buried, counter, excl, shared, ctr, lease,
                  nextId, logged, acked, behind, slips, crashes, apc, arec, pc, task, mode, eng, tokens, needs>>
  BY <1>1 DEF storeVars, fileVars, lockVars, histVars, appenderVars, engineVars
<1>8. TypeOK'
  BY <1>6, <1>7 DEF TypeOK, FilesTyped, LocksTyped, HistoryTyped, AppendersTyped, EnginesTyped
<1>9. AppendersLocked' /\ EnginesLocked' /\ NothingYet' /\ NotBuried' /\ AppendsSound'
  BY <1>7, ZenonT(60) DEF AppendersLocked, EnginesLocked, NothingYet, NotBuried, AppendsSound
<1>10. Bounded' /\ TailAboveRoot' /\ AckedKept' /\ HoldersCover'
  BY <1>7, FrameTail, FrameKept, FrameCover
<1>11. WarmMatches'
  BY <1>7, FrameWarm
<1>12. QED
  BY <1>2, <1>7, <1>8, <1>9, <1>10, <1>11 DEF ReadersOpened

\* A step that leaves every variable alone keeps the invariant.
LEMMA StutterKeeps ==
  ASSUME Inv, ReadersOpened, UNCHANGED vars
  PROVE  Inv' /\ ReadersOpened'
<1> USE DEF Inv
<1>1. UNCHANGED <<manifest, wal, torn, buried, counter, excl, shared, ctr, lease,
                  nextId, logged, acked, behind, slips, crashes, apc, arec, pc, task, mode, eng, tokens, needs,
                  rpc, view, fresh>>
  BY DEF vars, storeVars, fileVars, lockVars, histVars, appenderVars, engineVars, readerVars
<1>2. TypeOK'
  BY <1>1 DEF TypeOK, FilesTyped, LocksTyped, HistoryTyped, AppendersTyped, EnginesTyped, ReadersTyped
<1>3. AppendersLocked' /\ EnginesLocked' /\ NothingYet' /\ NotBuried' /\ AppendsSound'
  BY <1>1, ZenonT(60) DEF AppendersLocked, EnginesLocked, NothingYet, NotBuried, AppendsSound
<1>4. Bounded' /\ TailAboveRoot' /\ AckedKept' /\ HoldersCover'
  BY <1>1, FrameTail, FrameKept, FrameCover
<1>5. WarmMatches'
  BY <1>1, FrameWarm
<1>6. QED
  BY <1>1, <1>2, <1>3, <1>4, <1>5 DEF ReadersOpened

\* The empty directory satisfies the invariant.
LEMMA InitInv == Init => IndInv
<1> SUFFICES ASSUME Init PROVE IndInv
  OBVIOUS
<1> USE DEF Init, StoreInit, AppenderInit, EngineInit, ReaderInit
<1>1. Ckpts \subseteq Engines /\ Writers \subseteq Engines /\ None \notin Engines
  BY ProcessesDistinct DEF Engines
<1>2. FilesTyped /\ LocksTyped /\ HistoryTyped
  <2>1. 1 \in 1 .. MaxRecs + 1 /\ 0 \in 0 .. MaxCrashes
    BY BoundsAreNaturals
  <2>2. FilesTyped
    BY DEF FilesTyped, TornStates
  <2>3. QED
    BY <2>1, <2>2 DEF LocksTyped, HistoryTyped
<1>3. NoEngine \in EngineState /\ NoView \in View
  BY ZenonT(60) DEF NoEngine, EngineState, NoView, View
<1>4. AppendersTyped
  BY DEF AppendersTyped, AppenderPcs
<1>5. EnginesTyped
  BY <1>3 DEF EnginesTyped, EnginePcs, Tasks
<1>6. ReadersTyped
  BY <1>3 DEF ReadersTyped, ReaderPcs
<1>7. AppendersLocked /\ NothingYet /\ NotBuried /\ AppendsSound /\ ReadersOpened
  BY ProcessesDistinct DEF AppendersLocked, NothingYet, NotBuried, AppendsSound, ReadersOpened
<1>8. EnginesLocked
  BY <1>1 DEF EnginesLocked, Holding
<1>9. Bounded /\ TailAboveRoot /\ AckedKept
  BY DEF Bounded, TailAboveRoot, AckedKept, LsnsOf, IdsOf
<1>10. HoldersCover
  BY DEF HoldersCover, Holding
<1>11. WarmMatches
  BY <1>1 DEF WarmMatches, WarmAt
<1>12. QED
  BY <1>2, <1>4, <1>5, <1>6, <1>7, <1>8, <1>9, <1>10, <1>11 DEF IndInv, Inv, TypeOK

-----------------------------------------------------------------------------
\* A root is only ever replaced by one that holds all it holds, with a watermark
\* and a generation no lower; once there it stays.
LEMMA RootAdvances ==
  ASSUME Inv, Next
  PROVE  manifest # None => manifest' # None /\ manifest' \in Manifest /\ Before(manifest, manifest')
<1> SUFFICES ASSUME manifest # None
             PROVE  manifest' # None /\ manifest' \in Manifest /\ Before(manifest, manifest')
  OBVIOUS
<1>1. manifest \in Manifest /\ Before(manifest, manifest)
  BY BeforeSelf DEF Inv, TypeOK, FilesTyped
<1>2. CASE UNCHANGED manifest
  BY <1>1, <1>2
<1>3. CASE \E a \in Appenders : AppenderStep(a)
  BY <1>2, <1>3, ZenonT(60) DEF AppenderStep, Open, OpenRepair, OpenSeed, Append, Reserve, WriteFrame, Publish,
                    GiveUp, AppendFails, Drop, storeVars, fileVars, RepairTornTail, AppendRecord
<1>4. ASSUME NEW p \in Engines, EngineStep(p)
      PROVE  manifest' # None /\ manifest' \in Manifest /\ Before(manifest, manifest')
  <2>1. CASE Commit(p)
    BY <1>1, <2>1, CommitLeaves, ZenonT(60)
  <2>2. CASE PersistFails(p)
    <3>1. CASE pc[p] = "commit" /\ MustCommit(eng[p]) /\ manifest' \in CommitBodies(eng[p])
      BY <2>2, <3>1, RootSwap DEF PersistFails
    <3>2. QED
      BY <1>2, <2>2, <3>1 DEF PersistFails
  <2>3. CASE Truncate(p) \/ CrashEngine(p)
    BY <1>2, <2>3 DEF Truncate, CrashEngine, fileVars
  <2>4. CASE WriterStep(p)
    BY <1>2, <2>4, ZenonT(60) DEF WriterStep, CreateStore, OpenWal, OpenGeneration, MutateWal, MutateFails,
                      MutateGeneration, Persist, Discard, storeVars, fileVars
  <2>5. CASE CheckpointerStep(p)
    BY <1>2, <2>5, ZenonT(60) DEF CheckpointerStep, AcquireLease, OpenWarm, ReadTokens, StartCheckpoint, FoldNothing,
                      Fold, FoldRefused, CloseCheckpointer, storeVars, fileVars
  <2>6. QED
    BY <1>4, <2>1, <2>2, <2>3, <2>4, <2>5 DEF EngineStep
<1>5. CASE \E r \in Readers : ReaderStep(r)
  BY <1>2, <1>5, ZenonT(60) DEF ReaderStep, OpenReader, OpenLoad, Probe, ReadBefore, LoadBase, Overlay, ReadAfter,
                    RefreshFails, storeVars, fileVars
<1>6. QED
  BY <1>3, <1>4, <1>5 DEF Next

\* What happened stays in the history.
LEMMA SlipsStay ==
  ASSUME [Next]_vars
  PROVE  slips \subseteq slips'
<1>1. CASE \E a \in Appenders : AppenderStep(a)
  BY <1>1, ZenonT(60) DEF AppenderStep, Open, OpenRepair, OpenSeed, Append, Reserve, WriteFrame, Publish,
                    GiveUp, AppendFails, Drop, storeVars, histVars
<1>2. ASSUME NEW p \in Engines, EngineStep(p) PROVE slips \subseteq slips'
  <2>1. CASE Commit(p) \/ Truncate(p) \/ PersistFails(p) \/ CrashEngine(p)
    BY <2>1, ZenonT(60) DEF Commit, Truncate, PersistFails, CrashEngine, histVars
  <2>2. CASE WriterStep(p)
    BY <2>2, ZenonT(60) DEF WriterStep, CreateStore, OpenWal, OpenGeneration, MutateWal, MutateFails,
                      MutateGeneration, Persist, Discard, storeVars, histVars
  <2>3. CASE CheckpointerStep(p)
    BY <2>3, ZenonT(60) DEF CheckpointerStep, AcquireLease, OpenWarm, ReadTokens, StartCheckpoint, FoldNothing,
                      Fold, FoldRefused, CloseCheckpointer, storeVars, histVars
  <2>4. QED
    BY <1>2, <2>1, <2>2, <2>3 DEF EngineStep
<1>3. CASE \E r \in Readers : ReaderStep(r)
  BY <1>3, ZenonT(60) DEF ReaderStep, OpenReader, OpenLoad, Probe, ReadBefore, LoadBase, Overlay, ReadAfter,
                    RefreshFails, storeVars, histVars
<1>4. CASE UNCHANGED vars
  BY <1>4 DEF vars, storeVars, histVars
<1>5. QED
  BY <1>1, <1>2, <1>3, <1>4 DEF Next

\* Every step keeps the invariant, save for a checkpointer that takes the tokens of
\* a root it has not loaded.
LEMMA NextKeeps ==
  ASSUME Inv, ReadersOpened, Next, "base" \notin slips'
  PROVE  Inv' /\ ReadersOpened'
<1>1. CASE \E a \in Appenders : AppenderStep(a) /\ UNCHANGED <<engineVars, readerVars>>
  <2>1. Inv'
    BY <1>1, OpenKeeps, OpenRepairKeeps, OpenSeedKeeps, AppendKeeps, ReserveKeeps, WriteFrameKeeps,
       PublishKeeps, GiveUpKeeps, AppendFailsKeeps, DropKeeps DEF AppenderStep
  <2>2. ReadersOpened'
    BY <1>1, RootAdvances DEF ReadersOpened, readerVars
  <2>3. QED
    BY <2>1, <2>2
<1>2. ASSUME NEW p \in Engines, EngineStep(p), UNCHANGED <<appenderVars, readerVars>>
      PROVE  Inv' /\ ReadersOpened'
  <2>1. Inv'
    <3>1. CASE p \in Writers /\ WriterStep(p)
      BY <1>2, <3>1, CreateStoreKeeps, OpenWalKeeps, OpenGenerationKeeps, MutateWalKeeps,
         MutateFailsKeeps, MutateGenerationKeeps, PersistKeeps, DiscardKeeps DEF WriterStep
    <3>2. CASE p \in Ckpts /\ CheckpointerStep(p)
      BY <1>2, <3>2, AcquireLeaseKeeps, OpenWarmKeeps, ReadTokensKeeps, StartCheckpointKeeps,
         FoldNothingKeeps, FoldKeeps, FoldRefusedKeeps, CloseCheckpointerKeeps DEF CheckpointerStep
    <3>3. CASE Commit(p) \/ Truncate(p) \/ PersistFails(p) \/ CrashEngine(p)
      BY <1>2, <3>3, CommitKeeps, TruncateKeeps, PersistFailsKeeps, CrashEngineKeeps
    <3>4. QED
      BY <1>2, <3>1, <3>2, <3>3 DEF EngineStep
  <2>2. ReadersOpened'
    BY <1>2, RootAdvances DEF ReadersOpened, readerVars
  <2>3. QED
    BY <2>1, <2>2
<1>3. CASE \E r \in Readers : ReaderStep(r) /\ UNCHANGED <<appenderVars, engineVars>>
  BY <1>3, ReaderKeeps
<1>4. QED
  BY <1>1, <1>2, <1>3 DEF Next

\* The inductive invariant holds in every reachable state, however appends,
\* mutations, folds, commits, crashes and failed writes interleave, until a
\* checkpointer takes the tokens of a root it has not loaded.
THEOREM Invariant == Spec => []IndInv
<1>1. IndInv /\ [Next]_vars => IndInv'
  <2>1. SUFFICES ASSUME IndInv, [Next]_vars, "base" \notin slips' PROVE Inv' /\ ReadersOpened'
    BY DEF IndInv
  <2>2. Inv /\ ReadersOpened
    BY <2>1, SlipsStay DEF IndInv
  <2>3. QED
    BY <2>1, <2>2, NextKeeps, StutterKeeps
<1>2. QED
  BY InitInv, <1>1, PTL DEF Spec

\* The inductive invariant gives durability: what the root does not hold is in
\* the WAL above the root's watermark, hence among the records an open replays.
LEMMA InvDurable ==
  ASSUME Inv
  PROVE  AckedDurable
<1> USE DEF Inv
<1>1. CASE manifest = None
  BY <1>1 DEF NothingYet, AckedDurable, IdsOf
<1>2. CASE manifest # None
  <2>1. manifest.applied_lsn \in Nat /\ manifest.generation \in Nat /\ manifest.applied_lsn >= manifest.generation
    BY <1>2 DEF TypeOK, FilesTyped, Manifest, TailAboveRoot
  <2>2. ASSUME NEW r \in wal PROVE r.id \in manifest.docs \cup IdsOf(OpenReplays(wal))
    <3>1. r.lsn \in Nat
      BY DEF TypeOK, FilesTyped, Record
    <3>2. r.id \in manifest.docs \/ r.lsn >= manifest.generation
      BY <1>2, <2>1, <3>1 DEF TailAboveRoot
    <3>3. QED
      BY <3>2 DEF OpenReplays, IdsOf
  <2>3. IdsOf(wal) \subseteq manifest.docs \cup IdsOf(OpenReplays(wal))
    BY <2>2 DEF IdsOf
  <2>4. QED
    BY <1>2, <2>3 DEF AckedKept, AckedDurable, Recoverable
<1>3. QED
  BY <1>1, <1>2

\* Durability: whatever crashes, folds and failed commits come after it, a
\* mutation whose call returned is in the committed root or is replayed by the
\* next open, unless its frame went behind torn bytes or a checkpointer has taken
\* the tokens of a root it had not loaded.
THEOREM Durability == Spec => []AckedDurable
<1>1. IndInv => AckedDurable
  BY InvDurable DEF IndInv, AckedDurable
<1>2. QED
  BY Invariant, <1>1, PTL

\* No commit, of a writer, an open's replay, a reload or a fold, and no commit
\* that fails half-way, publishes a root that lacks what the last one held, until
\* a checkpointer has taken the tokens of a root it had not loaded.
THEOREM CommitsKeepBase == Spec => CommitKeepsBase
<1>1. IndInv /\ [Next]_vars => [("base" \notin slips) => KeepsBase]_vars
  <2>1. SUFFICES ASSUME IndInv, Next, "base" \notin slips, manifest # None
                 PROVE  /\ manifest.docs \subseteq manifest'.docs
                        /\ manifest'.generation >= manifest.generation
                        /\ manifest'.applied_lsn >= manifest.applied_lsn
    BY DEF KeepsBase
  <2>2. manifest \in Manifest /\ manifest' \in Manifest /\ Before(manifest, manifest')
    BY <2>1, RootAdvances DEF IndInv, Inv, TypeOK, FilesTyped
  <2>3. QED
    BY <2>2 DEF Before, Manifest
<1>2. QED
  BY Invariant, <1>1, PTL DEF Spec, CommitKeepsBase

=============================================================================
