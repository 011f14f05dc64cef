--------------------------- MODULE WriterOpenProofs --------------------------
(***************************************************************************)
(* What a step of an exclusive writer leaves alone, and that creating and  *)
(* opening a store keep the invariant.                                     *)
(***************************************************************************)
EXTENDS StoreLemmas

\* The time the provers get for a leaf that names none of them.
USE SMTT(40), ZenonT(60)

\* create_index and its seed commit keep the invariant.
LEMMA CreateStoreKeeps ==
  ASSUME Inv, NEW w \in Writers, CreateStore(w), UNCHANGED <<appenderVars, readerVars>>
  PROVE  Inv'
<1> USE DEF Inv
<1> DEFINE m == [generation |-> 1, applied_lsn |-> 1, docs |-> {}]
           e == Committed(NoEngine, m)
<1>a. w \in Engines /\ w \notin Ckpts /\ w # None /\ Ckpts \subseteq Engines
  BY WriterDistinct
<1>b. /\ \A q \in Engines : pc[q] \notin Holding
      /\ \A a \in Appenders : apc[a] \in {"closed", "idle"}
  BY LockFree DEF CreateStore, AcquireExclusive
<1>c. manifest' = m
  <2>1. Max({0, 1}) = 1
    BY MaxOfTwo
  <2>2. QED
    BY <2>1, Zenon DEF CreateStore, CommitBody
<1>d. m \in Manifest
  BY DEF Manifest
<1>e. m # None
  <2> HIDE DEF m
  <2>1. QED
    BY <1>d, NoneIsNoValue
<1>f. /\ e \in EngineState /\ ~MustCommit(e) /\ eng' = [eng EXCEPT ![w] = e]
      /\ e.docs = {} /\ e.pending = {} /\ e.generation = 0 /\ e.applied_lsn = 1
  <2>1. NoEngine \in EngineState /\ NoEngine.docs = {} /\ NoEngine.generation = 0
    BY DEF NoEngine, EngineState
  <2>2. eng' = [eng EXCEPT ![w] = e]
    BY <1>c, Zenon DEF CreateStore
  <2> HIDE DEF m
  <2>3. m.applied_lsn = 1
    BY DEF m
  <2>4. QED
    BY <1>d, <2>1, <2>2, <2>3, CommittedFacts
<1>g. pc' = [pc EXCEPT ![w] = "open"] /\ task' = task /\ tokens' = tokens /\ needs' = needs
  BY DEF CreateStore
<1>h. manifest' \in Manifest /\ manifest' # None /\ manifest'.generation = 1
      /\ manifest'.applied_lsn = 1 /\ manifest'.docs = {}
  BY <1>c, <1>d, <1>e
<1> HIDE DEF m, e
<1>1. TypeOK'
  <2>1. FilesTyped'
    BY <1>h DEF TypeOK, FilesTyped, CreateStore
  <2>2. LocksTyped'
    BY <1>a DEF TypeOK, LocksTyped, CreateStore, AcquireExclusive
  <2>3. HistoryTyped'
    BY DEF TypeOK, HistoryTyped, CreateStore, histVars
  <2>4. EnginesTyped'
    <3>1. mode' \in [Engines -> {"wal", "generation"}]
      BY EngineAssumption, Zenon DEF TypeOK, EnginesTyped, CreateStore
    <3>2. eng' \in [Engines -> EngineState]
      BY <1>f, Zenon DEF TypeOK, EnginesTyped
    <3>3. QED
      BY <1>g, <3>1, <3>2, Zenon DEF TypeOK, EnginesTyped, EnginePcs
  <2>5. QED
    BY <2>1, <2>2, <2>3, <2>4, FrameOthers DEF TypeOK
<1>2. EnginesLocked'
  <2>1. excl' = w /\ excl = None /\ lease' = lease
    BY DEF CreateStore, AcquireExclusive, ExclusiveFree
  <2>2. mode'[w] \in Modes /\ \A q \in Engines \ {w} : mode'[q] = mode[q]
    BY <1>a DEF CreateStore, TypeOK, EnginesTyped
  <2>3. pc'[w] = "open" /\ \A q \in Engines \ {w} : pc'[q] = pc[q]
    BY <1>a, <1>g DEF TypeOK, EnginesTyped
  <2>5. task[w] = "none"
    BY <1>a DEF CreateStore, EnginesLocked
  <2>6. QED
    BY <1>a, <1>b, <1>g, <2>1, <2>2, <2>3, <2>5 DEF EnginesLocked, Holding, Engines
<1>3. AppendersLocked' /\ NotBuried' /\ AppendsSound'
  BY <1>b, FrameAppends DEF CreateStore, appenderVars, NotBuried
<1>4. wal' = {} /\ acked' = {} /\ NoWarm'
  <2>1. wal' = {} /\ acked' = {}
    BY DEF NothingYet, CreateStore, histVars
  <2>2. \A c \in Ckpts : pc'[c] \in {"closed", "leased"}
    BY <1>a, <1>g DEF NothingYet, CreateStore, TypeOK, EnginesTyped
  <2>3. QED
    BY <2>1, <2>2 DEF NoWarm
<1>5. NothingYet' /\ Bounded' /\ TailAboveRoot' /\ AckedKept'
  BY <1>h, <1>4 DEF NothingYet, Bounded, TailAboveRoot, AckedKept, IdsOf
<1>6. HoldersCover'
  <2>1. eng'[w] = e /\ pc'[w] = "open"
    BY <1>a, <1>f, <1>g DEF TypeOK, EnginesTyped
  <2>2. \A q \in Engines \ {w} : pc'[q] \notin Holding
    BY <1>b, <1>g DEF TypeOK, EnginesTyped
  <2>3. IdsOf(wal') = {}
    BY <1>4 DEF IdsOf
  <2>4. ~MustCommit(eng[w])'
    BY <1>f, <2>1 DEF MustCommit
  <2>5. Covers(eng[w])'
    BY <1>f, <1>h, <1>4, <2>1, <2>3, <2>4 DEF Covers
  <2>6. QED
    BY <1>4, <2>1, <2>2, <2>5 DEF HoldersCover, Holding
<1>7. WarmMatches'
  <2>1. \A c \in Ckpts : pc'[c] \in {"closed", "leased"} /\ task'[c] = "none" /\ tokens'[c] = None
    BY <1>a, <1>g DEF NothingYet, CreateStore, TypeOK, EnginesTyped, EnginesLocked, WarmMatches, WarmAt
  <2>2. QED
    BY <2>1 DEF WarmMatches, WarmAt
<1>8. QED
  BY <1>1, <1>2, <1>3, <1>5, <1>6, <1>7

\* What a step of one writer, alone in the store, leaves true of everyone else
\* as long as it swaps no root.
LEMMA WriterFrame ==
  ASSUME Inv, NEW w \in Writers, manifest # None,
         \A q \in Engines \ {w} :
           /\ pc[q] \notin Holding
           /\ pc'[q] = pc[q] /\ task'[q] = task[q] /\ eng'[q] = eng[q]
           /\ tokens'[q] = tokens[q] /\ needs'[q] = needs[q],
         \A a \in Appenders : apc[a] \in {"closed", "idle"},
         UNCHANGED <<apc, shared, ctr, manifest>>
  PROVE  /\ AppendersLocked' /\ NotBuried' /\ AppendsSound'
         /\ NothingYet' /\ WarmMatches' /\ (NoWarm => NoWarm')
         /\ \A q \in Engines \ {w} : pc'[q] \notin Holding
<1> USE DEF Inv
<1>1. Ckpts \subseteq Engines \ {w}
  BY WriterDistinct
<1>2. AppendersLocked' /\ NotBuried' /\ AppendsSound'
  BY FrameAppends
<1>3. WarmMatches' /\ (NoWarm => NoWarm')
  BY <1>1, FrameCkpts
<1>4. NothingYet'
  BY DEF NothingYet
<1>5. QED
  BY <1>2, <1>3, <1>4

\* The lock discipline after a step of one writer, alone in the store.
LEMMA WriterLocks ==
  ASSUME EnginesLocked, NEW w \in Writers,
         \A q \in Engines \ {w} :
           /\ pc[q] \notin Holding
           /\ pc'[q] = pc[q] /\ task'[q] = task[q] /\ mode'[q] = mode[q],
         UNCHANGED lease,
         pc'[w] \in {"closed", "open", "commit", "truncate"},
         excl' = IF pc'[w] = "closed" THEN None ELSE w,
         task'[w] \in {"none", "open", "persist"},
         pc'[w] \in {"commit", "truncate"} <=> task'[w] # "none",
         pc'[w] # "closed" => mode'[w] \in Modes
  PROVE  EnginesLocked'
<1>1. w \in Engines /\ w \notin Ckpts /\ w # None /\ Ckpts \subseteq Engines \ {w} /\ Writers \subseteq Engines
  BY WriterDistinct DEF Engines
<1>2. None \notin Engines
  BY ProcessesDistinct
<1>3. \A p \in Engines : pc'[p] \in Holding <=> excl' = p
  BY <1>1, <1>2 DEF Holding
<1>4. \A p \in Engines : pc'[p] \in {"commit", "truncate"} <=> task'[p] # "none"
  BY DEF EnginesLocked
<1>5. \A v \in Writers : /\ pc'[v] \notin {"leased", "loaded", "warm", "fold"}
                         /\ task'[v] \in {"none", "open", "persist"}
                         /\ pc'[v] # "closed" => mode'[v] \in Modes
  BY <1>1 DEF EnginesLocked
<1>6. \A c \in Ckpts : /\ pc'[c] # "closed" => lease' = c
                       /\ pc'[c] # "open" /\ task'[c] \in {"none", "warm", "reload", "fold"}
                       /\ mode'[c] = "wal"
  BY <1>1 DEF EnginesLocked
<1>7. QED
  BY <1>3, <1>4, <1>5, <1>6 DEF EnginesLocked

\* A writer that holds the lock covers the store if its own index does.
LEMMA WriterCovers ==
  ASSUME NEW w \in Engines, \A q \in Engines \ {w} : pc'[q] \notin Holding,
         pc'[w] \in {"open", "commit"}, Covers(eng[w])', mode'[w] = "generation" => wal' = {}
  PROVE  HoldersCover'
BY DEF HoldersCover, Holding

\* open in generation mode keeps the invariant: the WAL it finds is empty.
LEMMA OpenGenerationKeeps ==
  ASSUME Inv, NEW w \in Writers, OpenGeneration(w), UNCHANGED <<appenderVars, readerVars>>
  PROVE  Inv'
<1> USE DEF Inv
<1>a. w \in Engines /\ w \notin Ckpts /\ w # None /\ Ckpts \subseteq Engines
  BY WriterDistinct
<1>b. /\ \A q \in Engines : pc[q] \notin Holding
      /\ \A a \in Appenders : apc[a] \in {"closed", "idle"}
  BY LockFree DEF OpenGeneration, AcquireExclusive
<1> DEFINE e == LoadedIndex
<1>c. /\ \A q \in Engines \ {w} : /\ pc'[q] = pc[q] /\ task'[q] = task[q] /\ mode'[q] = mode[q]
                                 /\ eng'[q] = eng[q] /\ tokens'[q] = tokens[q] /\ needs'[q] = needs[q]
      /\ pc'[w] = "open" /\ task'[w] = task[w] /\ mode'[w] = "generation" /\ eng'[w] = e
  BY <1>a DEF OpenGeneration, TypeOK, EnginesTyped
<1>d. task[w] = "none" /\ "generation" \in Modes
  BY <1>a DEF OpenGeneration, EnginesLocked
<1>e. /\ e \in EngineState /\ Matches(e, manifest) /\ e.pending = {}
  BY LoadFacts, Zenon DEF OpenGeneration
<1> HIDE DEF e
<1>1. TypeOK'
  <2>1. FilesTyped' /\ HistoryTyped'
    BY DEF TypeOK, FilesTyped, HistoryTyped, OpenGeneration, fileVars, histVars
  <2>2. LocksTyped'
    BY <1>a DEF TypeOK, LocksTyped, OpenGeneration, AcquireExclusive
  <2>3. EnginesTyped'
    BY <1>a, <1>e DEF TypeOK, EnginesTyped, OpenGeneration, EnginePcs, e
  <2>4. QED
    BY <2>1, <2>2, <2>3, FrameOthers DEF TypeOK
<1>2. EnginesLocked'
  BY <1>a, <1>b, <1>c, <1>d, WriterLocks DEF OpenGeneration, AcquireExclusive
<1>3. /\ AppendersLocked' /\ NotBuried' /\ AppendsSound' /\ NothingYet' /\ WarmMatches'
      /\ (NoWarm => NoWarm') /\ \A q \in Engines \ {w} : pc'[q] \notin Holding
  BY <1>b, <1>c, WriterFrame, ZenonT(60) DEF OpenGeneration, fileVars, appenderVars, NotBuried
<1>4. Bounded' /\ TailAboveRoot' /\ AckedKept'
  BY <1>3, FrameTailWarm, FrameKept DEF OpenGeneration, fileVars, histVars
<1>5. HoldersCover'
  <2>1. manifest' = manifest /\ manifest # None /\ wal' = {}
    BY DEF OpenGeneration, GenerationOpenAllowed, fileVars
  <2>2. IdsOf(wal') = {}
    BY <2>1 DEF IdsOf
  <2>3. Covers(eng[w])'
    BY <1>c, <1>e, <2>1, <2>2, Zenon DEF Covers, Matches
  <2>4. QED
    BY <1>a, <1>c, <1>3, <2>1, <2>3, WriterCovers
<1>6. QED
  BY <1>1, <1>2, <1>3, <1>4, <1>5

\* open in wal mode keeps the invariant: what it loads and replays covers the
\* root and the WAL.
LEMMA OpenWalKeeps ==
  ASSUME Inv, NEW w \in Writers, OpenWal(w), UNCHANGED <<appenderVars, readerVars>>
  PROVE  Inv'
<1> USE DEF Inv
<1>a. w \in Engines /\ w \notin Ckpts /\ w # None /\ Ckpts \subseteq Engines
  BY WriterDistinct
<1>b. /\ \A q \in Engines : pc[q] \notin Holding
      /\ \A a \in Appenders : apc[a] \in {"closed", "idle"}
  BY LockFree DEF OpenWal, AcquireExclusive
<1>c. PICK e \in EngineState :
        /\ \A q \in Engines \ {w} : /\ pc'[q] = pc[q] /\ task'[q] = task[q] /\ mode'[q] = mode[q]
                                   /\ eng'[q] = eng[q] /\ tokens'[q] = tokens[q] /\ needs'[q] = needs[q]
        /\ mode'[w] = "wal" /\ eng' = [eng EXCEPT ![w] = e] /\ Covers(e)
        /\ \/ pc' = [pc EXCEPT ![w] = "open"] /\ task' = task
           \/ pc' = [pc EXCEPT ![w] = "commit"] /\ task' = [task EXCEPT ![w] = "open"]
  <2>1. PICK e \in EngineState :
          /\ eng' = [eng EXCEPT ![w] = e] /\ Covers(e)
          /\ \/ pc' = [pc EXCEPT ![w] = "open"] /\ task' = task
             \/ pc' = [pc EXCEPT ![w] = "commit"] /\ task' = [task EXCEPT ![w] = "open"]
    BY <1>a, LoadAndReplayFacts DEF OpenWal
  <2>2. QED
    BY <1>a, <2>1, Zenon DEF OpenWal, TypeOK, EnginesTyped
<1>d. /\ pc'[w] \in {"open", "commit"} /\ task'[w] \in {"none", "open"} /\ mode'[w] \in Modes
      /\ pc'[w] \in {"commit", "truncate"} <=> task'[w] # "none"
  <2>1. task[w] = "none" /\ "wal" \in Modes
    BY <1>a, Zenon DEF OpenWal, EnginesLocked
  <2>2. QED
    BY <1>a, <1>c, <2>1 DEF TypeOK, EnginesTyped
<1>1. TypeOK'
  <2>1. FilesTyped' /\ HistoryTyped'
    BY DEF TypeOK, FilesTyped, HistoryTyped, OpenWal, fileVars, histVars
  <2>2. LocksTyped'
    BY <1>a DEF TypeOK, LocksTyped, OpenWal, AcquireExclusive
  <2>3. EnginesTyped'
    BY <1>a, <1>c DEF TypeOK, EnginesTyped, OpenWal, EnginePcs, Tasks
  <2>4. QED
    BY <2>1, <2>2, <2>3, FrameOthers DEF TypeOK
<1>2. EnginesLocked'
  BY <1>a, <1>b, <1>c, <1>d, WriterLocks, ZenonT(60) DEF OpenWal, AcquireExclusive
<1>3. /\ AppendersLocked' /\ NotBuried' /\ AppendsSound' /\ NothingYet' /\ WarmMatches'
      /\ (NoWarm => NoWarm') /\ \A q \in Engines \ {w} : pc'[q] \notin Holding
  BY <1>b, <1>c, WriterFrame, ZenonT(60) DEF OpenWal, fileVars, appenderVars, NotBuried
<1>4. Bounded' /\ TailAboveRoot' /\ AckedKept'
  BY <1>3, FrameTailWarm, FrameKept, ZenonT(60) DEF OpenWal, fileVars, histVars
<1>5. HoldersCover'
  <2>1. eng'[w] = e
    BY <1>a, <1>c, ZenonT(60) DEF TypeOK, EnginesTyped
  <2>2. Covers(eng[w])'
    BY <1>c, <1>3, <2>1, ZenonT(60) DEF Covers, MustCommit, OpenWal, fileVars
  <2>3. QED
    BY <1>a, <1>c, <1>d, <1>3, <2>2, WriterCovers, ZenonT(60)
<1>6. QED
  BY <1>1, <1>2, <1>3, <1>4, <1>5

=============================================================================
