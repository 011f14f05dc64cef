------------------------- MODULE CheckpointerProofs -------------------------
(***************************************************************************)
(* Every step of the checkpointer short of its commits keeps the           *)
(* invariant.                                                              *)
(***************************************************************************)
EXTENDS StoreLemmas

\* The time the provers get for a leaf that names none of them.
USE SMTT(40), ZenonT(60)

\* A checkpointer is an engine and no writer.
LEMMA CkptDistinct ==
  ASSUME NEW c \in Ckpts
  PROVE  c \in Engines /\ c \notin Writers /\ c # None /\ Ckpts \subseteq Engines /\ Writers \subseteq Engines
BY ProcessesDistinct DEF Engines

\* The lease elects one: while a checkpointer works the others are closed.
LEMMA OthersClosed ==
  ASSUME EnginesLocked, NEW c \in Ckpts, pc[c] # "closed" \/ lease = None, NEW d \in Ckpts \ {c}
  PROVE  pc[d] = "closed"
<1>1. d # None
  BY ProcessesDistinct DEF Engines
<1>2. QED
  BY <1>1 DEF EnginesLocked

\* What is true of a checkpointer stays true when neither it nor the root changes.
LEMMA FrameWarmAt ==
  ASSUME NEW d \in Ckpts, WarmAt(d), UNCHANGED manifest,
         pc'[d] = pc[d], task'[d] = task[d], eng'[d] = eng[d],
         tokens'[d] = tokens[d], needs'[d] = needs[d]
  PROVE  WarmAt(d)'
BY DEF WarmAt, Matches, Before, MustCommit

\* What a step of the checkpointer, alone in the store, leaves true as long as
\* it swaps no root: its own index must still be what WarmAt and Covers say.
LEMMA CkptFrame ==
  ASSUME Inv, NEW c \in Ckpts, manifest # None,
         \A q \in Engines \ {c} :
           /\ pc[q] \notin Holding
           /\ pc'[q] = pc[q] /\ task'[q] = task[q] /\ eng'[q] = eng[q]
           /\ tokens'[q] = tokens[q] /\ needs'[q] = needs[q],
         \A a \in Appenders : apc[a] \in {"closed", "idle"},
         UNCHANGED <<apc, shared, ctr, manifest, wal, torn, acked, behind>>,
         wal = {} \/ (NoWarm => NoWarm'), WarmAt(c)',
         pc'[c] \notin {"open", "truncate"}, pc'[c] = "commit" => Covers(eng[c])',
         mode'[c] = "wal"
  PROVE  /\ AppendersLocked' /\ NotBuried' /\ AppendsSound' /\ NothingYet' /\ WarmMatches'
         /\ Bounded' /\ TailAboveRoot' /\ AckedKept' /\ HoldersCover'
<1> USE DEF Inv
<1>1. c \in Engines /\ Ckpts \subseteq Engines
  BY CkptDistinct
<1>2. AppendersLocked' /\ NotBuried' /\ AppendsSound'
  BY FrameAppends DEF NotBuried
<1>3. WarmMatches'
  <2>1. \A d \in Ckpts \ {c} : WarmAt(d)'
    BY <1>1, FrameWarmAt DEF WarmMatches
  <2>2. QED
    BY <2>1 DEF WarmMatches
<1>4. NothingYet' /\ Bounded' /\ AckedKept'
  BY ZenonT(60) DEF NothingYet, Bounded, AckedKept
<1>5. TailAboveRoot'
  BY DEF TailAboveRoot
<1>6. HoldersCover'
  BY <1>1 DEF HoldersCover, Holding
<1>7. QED
  BY <1>2, <1>3, <1>4, <1>5, <1>6

\* The lock discipline after a step of the checkpointer, alone in the store.
LEMMA CkptLocks ==
  ASSUME EnginesLocked, NEW c \in Ckpts, pc[c] # "closed",
         \A q \in Engines \ {c} :
           /\ pc[q] \notin Holding
           /\ pc'[q] = pc[q] /\ task'[q] = task[q] /\ mode'[q] = mode[q],
         mode'[c] = mode[c], UNCHANGED lease,
         pc'[c] # "closed", pc'[c] # "open",
         task'[c] \in {"none", "warm", "reload", "fold"},
         pc'[c] \in {"commit", "truncate"} <=> task'[c] # "none",
         excl' = IF pc'[c] \in Holding THEN c ELSE None
  PROVE  EnginesLocked'
<1>1. c \in Engines /\ c \notin Writers /\ c # None /\ Ckpts \subseteq Engines /\ Writers \subseteq Engines
  BY CkptDistinct
<1>2. None \notin Engines
  BY ProcessesDistinct
<1>3. \A p \in Engines : pc'[p] \in Holding <=> excl' = p
  BY <1>1, <1>2
<1>4. \A p \in Engines : pc'[p] \in {"commit", "truncate"} <=> task'[p] # "none"
  BY DEF EnginesLocked
<1>5. \A v \in Writers : /\ pc'[v] \notin {"leased", "loaded", "warm", "fold"}
                         /\ task'[v] \in {"none", "open", "persist"}
                         /\ pc'[v] # "closed" => mode'[v] \in Modes
  BY <1>1 DEF EnginesLocked
<1>6. \A d \in Ckpts \ {c} : pc[d] = "closed"
  BY OthersClosed
<1>7. \A d \in Ckpts : /\ pc'[d] # "closed" => lease' = d
                       /\ pc'[d] # "open" /\ task'[d] \in {"none", "warm", "reload", "fold"}
                       /\ mode'[d] = "wal"
  BY <1>1, <1>6 DEF EnginesLocked, Holding
<1>8. QED
  BY <1>3, <1>4, <1>5, <1>7 DEF EnginesLocked

\* Taking the lease keeps the invariant.
LEMMA AcquireLeaseKeeps ==
  ASSUME Inv, NEW c \in Ckpts, AcquireLease(c), UNCHANGED <<appenderVars, readerVars>>
  PROVE  Inv'
<1> USE DEF Inv
<1>a. c \in Engines /\ c \notin Writers /\ c # None /\ Ckpts \subseteq Engines /\ Writers \subseteq Engines
  BY CkptDistinct
<1>b. /\ \A q \in Engines \ {c} : pc'[q] = pc[q]
      /\ pc[c] = "closed" /\ pc'[c] = "leased" /\ lease = None /\ lease' = c
      /\ UNCHANGED <<task, mode, eng, tokens, needs, manifest, wal, torn, buried, counter,
                     excl, shared, ctr, nextId, logged, acked, behind, slips, crashes, apc, arec>>
  BY <1>a DEF AcquireLease, TypeOK, EnginesTyped, fileVars, histVars, appenderVars
<1>c. \A d \in Ckpts : pc[d] = "closed"
  BY <1>b, OthersClosed
<1>1. TypeOK'
  <2>1. FilesTyped' /\ LocksTyped' /\ HistoryTyped'
    BY <1>b DEF TypeOK, FilesTyped, LocksTyped, HistoryTyped
  <2>2. EnginesTyped'
    BY <1>b DEF TypeOK, EnginesTyped, AcquireLease, EnginePcs
  <2>3. QED
    BY <2>1, <2>2, FrameOthers DEF TypeOK
<1>2. EnginesLocked'
  BY <1>a, <1>b, <1>c DEF EnginesLocked, Holding
<1>3. NoWarm => NoWarm'
  BY <1>a, <1>b DEF NoWarm
<1>4. AppendersLocked' /\ NotBuried' /\ AppendsSound' /\ NothingYet'
  BY <1>a, <1>b DEF AppendersLocked, NotBuried, AppendsSound, NothingYet
<1>5. Bounded' /\ TailAboveRoot' /\ AckedKept'
  BY <1>b, <1>3, FrameTailWarm, FrameKept
<1>6. HoldersCover'
  <2>1. ASSUME NEW p \in Engines, Covers(eng[p]) PROVE Covers(eng[p])'
    BY <1>b, <1>3, <2>1 DEF Covers, MustCommit
  <2>2. QED
    BY <1>b, <2>1 DEF HoldersCover, Holding
<1>7. WarmMatches'
  <2>1. WarmAt(c)'
    BY <1>a, <1>b DEF WarmMatches, WarmAt, Matches, Before, EnginesLocked
  <2>2. QED
    BY <1>a, <1>b, <2>1, FrameWarmAt DEF WarmMatches
<1>8. QED
  BY <1>1, <1>2, <1>4, <1>5, <1>6, <1>7

\* Reading the committed tokens keeps the invariant if the root is still the one
\* that was loaded.
LEMMA ReadTokensKeeps ==
  ASSUME Inv, "base" \notin slips', NEW c \in Ckpts, ReadTokens(c), UNCHANGED <<appenderVars, readerVars>>
  PROVE  Inv'
<1> USE DEF Inv
<1>a. c \in Engines /\ c \notin Writers /\ c # None /\ Ckpts \subseteq Engines /\ Writers \subseteq Engines
  BY CkptDistinct
<1>b. /\ \A q \in Engines \ {c} : pc'[q] = pc[q] /\ tokens'[q] = tokens[q]
      /\ pc[c] = "loaded" /\ pc'[c] = "warm" /\ tokens'[c] = manifest
      /\ UNCHANGED <<task, mode, eng, needs, manifest, wal, torn, buried, counter,
                     excl, shared, ctr, lease, nextId, logged, acked, behind, crashes, apc, arec>>
  BY <1>a DEF ReadTokens, TypeOK, EnginesTyped, storeVars, fileVars, lockVars, histVars, appenderVars
<1>c. manifest # None /\ Matches(eng[c], manifest) /\ task[c] = "none"
  <2>1. Matches(eng[c], manifest)
    BY DEF ReadTokens
  <2>2. QED
    BY <1>a, <1>b, <2>1 DEF EnginesLocked, Matches
<1>1. TypeOK'
  <2>1. FilesTyped' /\ LocksTyped' /\ HistoryTyped'
    BY <1>b DEF TypeOK, FilesTyped, LocksTyped, HistoryTyped, ReadTokens, Slips
  <2>2. EnginesTyped'
    BY <1>b DEF TypeOK, FilesTyped, EnginesTyped, ReadTokens, EnginePcs
  <2>3. QED
    BY <2>1, <2>2, FrameOthers DEF TypeOK
<1>2. EnginesLocked'
  BY <1>a, <1>b DEF EnginesLocked, Holding
<1>3. NoWarm => NoWarm'
  BY <1>b, <1>c DEF NoWarm
<1>4. AppendersLocked' /\ NotBuried' /\ AppendsSound' /\ NothingYet'
  BY <1>b, <1>c DEF AppendersLocked, NotBuried, AppendsSound, NothingYet
<1>5. Bounded' /\ TailAboveRoot' /\ AckedKept'
  BY <1>b, <1>3, FrameTailWarm, FrameKept
<1>6. HoldersCover'
  <2>1. ASSUME NEW p \in Engines, Covers(eng[p]) PROVE Covers(eng[p])'
    BY <1>b, <1>3, <2>1 DEF Covers, MustCommit
  <2>2. QED
    BY <1>b, <2>1 DEF HoldersCover, Holding
<1>7. WarmMatches'
  <2>1. Before(manifest, manifest)
    <3>1. manifest \in Manifest
      BY <1>c DEF TypeOK, FilesTyped
    <3>2. QED
      BY <3>1, BeforeSelf
  <2>2. WarmAt(c)'
    BY <1>b, <1>c, <2>1, ZenonT(60) DEF WarmAt, Matches, Before
  <2>3. QED
    BY <1>a, <1>b, <2>2, FrameWarmAt DEF WarmMatches
<1>8. QED
  BY <1>1, <1>2, <1>4, <1>5, <1>6, <1>7

\* open_warm keeps the invariant: without a WAL the engine is the root, with one
\* it covers both and goes on to commit.
LEMMA OpenWarmKeeps ==
  ASSUME Inv, NEW c \in Ckpts, OpenWarm(c), UNCHANGED <<appenderVars, readerVars>>
  PROVE  Inv'
<1> USE DEF Inv
<1>a. c \in Engines /\ c \notin Writers /\ c # None /\ Ckpts \subseteq Engines /\ Writers \subseteq Engines
  BY CkptDistinct
<1>b. /\ \A q \in Engines : pc[q] \notin Holding
      /\ \A a \in Appenders : apc[a] \in {"closed", "idle"}
  BY LockFree DEF OpenWarm
<1>c. manifest # None /\ task[c] = "none" /\ mode[c] = "wal" /\ pc[c] = "leased"
  BY <1>a DEF OpenWarm, EnginesLocked
<1>d. PICK e \in EngineState :
        /\ eng' = [eng EXCEPT ![c] = e] /\ Covers(e)
        /\ ~MustCommit(e) => Matches(e, manifest)
        /\ \/ /\ wal = {} /\ Matches(e, manifest)
              /\ pc' = [pc EXCEPT ![c] = "loaded"] /\ task' = task
           \/ /\ wal # {}
              /\ pc' = [pc EXCEPT ![c] = "commit"] /\ task' = [task EXCEPT ![c] = "warm"]
  BY <1>a, <1>c, LoadAndReplayFacts DEF OpenWarm
<1>e. /\ \A q \in Engines \ {c} : pc'[q] = pc[q] /\ task'[q] = task[q] /\ eng'[q] = eng[q]
      /\ eng'[c] = e
      /\ \/ wal = {} /\ pc'[c] = "loaded" /\ task'[c] = "none" /\ excl' = None
         \/ wal # {} /\ pc'[c] = "commit" /\ task'[c] = "warm" /\ excl' = c
      /\ UNCHANGED <<mode, tokens, needs, manifest, wal, torn, buried, acked, behind, lease, shared, ctr, apc>>
  BY <1>a, <1>c, <1>d DEF OpenWarm, TypeOK, EnginesTyped, fileVars, histVars, appenderVars
<1>1. TypeOK'
  <2>1. FilesTyped' /\ HistoryTyped'
    BY DEF TypeOK, FilesTyped, HistoryTyped, OpenWarm, fileVars, histVars
  <2>2. LocksTyped'
    BY <1>a DEF TypeOK, LocksTyped, OpenWarm, AcquireExclusive
  <2>3. EnginesTyped'
    BY <1>a, <1>d DEF TypeOK, FilesTyped, EnginesTyped, OpenWarm, EnginePcs, Tasks
  <2>4. QED
    BY <2>1, <2>2, <2>3, FrameOthers DEF TypeOK
<1>2. EnginesLocked'
  BY <1>a, <1>b, <1>c, <1>e, CkptLocks DEF Holding
<1>3. wal = {} \/ (NoWarm => NoWarm')
  BY <1>a, <1>e DEF NoWarm
<1>4. WarmAt(c)'
  <2>2. pc'[c] = "commit" /\ ~MustCommit(eng[c])' => Matches(eng[c], manifest)'
    BY <1>d, <1>e DEF Matches, MustCommit
  <2>3. tokens'[c] # None => manifest' # None /\ Before(tokens[c], manifest)'
    BY <1>e DEF WarmMatches, WarmAt, Before
  <2>4. QED
    BY <1>e, <2>2, <2>3 DEF WarmAt
<1>5. pc'[c] = "commit" => Covers(eng[c])'
  BY <1>c, <1>d, <1>e, <1>3, ZenonT(60) DEF Covers, MustCommit
<1>6. /\ AppendersLocked' /\ NotBuried' /\ AppendsSound' /\ NothingYet' /\ WarmMatches'
      /\ Bounded' /\ TailAboveRoot' /\ AckedKept' /\ HoldersCover'
  BY <1>b, <1>c, <1>e, <1>3, <1>4, <1>5, CkptFrame
<1>7. QED
  BY <1>1, <1>2, <1>6

\* checkpoint, up to the fold, keeps the invariant: the engine it goes on with is
\* the root on disk, reloaded if the tokens say so.
LEMMA StartCheckpointKeeps ==
  ASSUME Inv, NEW c \in Ckpts, StartCheckpoint(c), UNCHANGED <<appenderVars, readerVars>>
  PROVE  Inv'
<1> USE DEF Inv
<1>a. c \in Engines /\ c \notin Writers /\ c # None /\ Ckpts \subseteq Engines /\ Writers \subseteq Engines
  BY CkptDistinct
<1>b. /\ \A q \in Engines : pc[q] \notin Holding
      /\ \A a \in Appenders : apc[a] \in {"closed", "idle"}
  BY LockFree DEF StartCheckpoint, AcquireExclusive
<1>c. manifest # None /\ task[c] = "none" /\ mode[c] = "wal" /\ pc[c] = "warm" /\ tokens[c] # None
      /\ Before(tokens[c], manifest)
  BY <1>a, ZenonT(60) DEF StartCheckpoint, EnginesLocked, WarmMatches, WarmAt
<1>d. PICK e \in EngineState :
        /\ eng' = [eng EXCEPT ![c] = e]
        /\ \/ /\ Matches(e, manifest) /\ (wal = {} \/ ~needs[c])
              /\ pc' = [pc EXCEPT ![c] = "fold"] /\ task' = task
           \/ /\ Covers(e) /\ (~MustCommit(e) => Matches(e, manifest))
              /\ pc' = [pc EXCEPT ![c] = "commit"] /\ task' = [task EXCEPT ![c] = "reload"]
              /\ needs' = needs /\ (needs[c] \/ tokens[c] # manifest)
  <2>1. CASE MustReload(c)
    <3>1. LoadAndReplay(c, "reload", "fold") /\ needs' = [needs EXCEPT ![c] = (wal # {}) /\ needs[c]]
      BY <2>1 DEF StartCheckpoint
    <3>2. wal # {} => needs' = needs
      BY <1>a, <3>1 DEF TypeOK, EnginesTyped
    <3>3. PICK e \in EngineState :
        /\ eng' = [eng EXCEPT ![c] = e] /\ Covers(e)
        /\ ~MustCommit(e) => Matches(e, manifest)
        /\ \/ /\ wal = {} /\ Matches(e, manifest)
              /\ pc' = [pc EXCEPT ![c] = "fold"] /\ task' = task
           \/ /\ wal # {}
              /\ pc' = [pc EXCEPT ![c] = "commit"] /\ task' = [task EXCEPT ![c] = "reload"]
      BY <1>a, <1>c, <3>1, LoadAndReplayFacts, ZenonT(60)
    <3>4. QED
      BY <2>1, <3>2, <3>3, ZenonT(60) DEF MustReload
  <2>2. CASE ~MustReload(c)
    <3>1. eng' = eng /\ task' = task /\ pc' = [pc EXCEPT ![c] = "fold"]
      BY <2>2 DEF StartCheckpoint
    <3>2. eng[c] \in EngineState /\ eng' = [eng EXCEPT ![c] = eng[c]]
      BY <1>a, <3>1 DEF TypeOK, EnginesTyped
    <3>3. ~needs[c] /\ tokens[c] = manifest
      BY <2>2 DEF MustReload
    <3>4. Matches(eng[c], manifest)
      BY <1>a, <1>c, <3>3 DEF WarmMatches, WarmAt
    <3>5. QED
      BY <3>1, <3>2, <3>3, <3>4, ZenonT(60)
  <2>3. QED
    BY <2>1, <2>2, ZenonT(60)
<1>e. /\ \A q \in Engines \ {c} : /\ pc'[q] = pc[q] /\ task'[q] = task[q] /\ eng'[q] = eng[q]
                                 /\ needs'[q] = needs[q]
      /\ eng'[c] = e /\ excl' = c
      /\ \/ pc'[c] = "fold" /\ task'[c] = "none" /\ Matches(e, manifest)
         \/ /\ pc'[c] = "commit" /\ task'[c] = "reload" /\ Covers(e)
            /\ (~MustCommit(e) => Matches(e, manifest)) /\ (needs'[c] \/ tokens[c] # manifest)
      /\ UNCHANGED <<mode, tokens, manifest, wal, torn, buried, acked, behind, lease, shared, ctr, apc>>
  <2>1. \A q \in Engines \ {c} : needs'[q] = needs[q]
    BY DEF StartCheckpoint, TypeOK, EnginesTyped
  <2>2. excl' = c /\ UNCHANGED <<mode, tokens, manifest, wal, torn, buried, acked, behind, lease, shared, ctr, apc>>
    BY DEF StartCheckpoint, AcquireExclusive, fileVars, histVars, appenderVars
  <2>3. QED
    BY <1>a, <1>c, <1>d, <2>1, <2>2 DEF TypeOK, EnginesTyped
<1>1. TypeOK'
  <2>1. FilesTyped' /\ HistoryTyped'
    BY DEF TypeOK, FilesTyped, HistoryTyped, StartCheckpoint, fileVars, histVars
  <2>2. LocksTyped'
    BY <1>a DEF TypeOK, LocksTyped, StartCheckpoint, AcquireExclusive
  <2>3. EnginesTyped'
    <3>1. needs' \in [Engines -> BOOLEAN]
      BY ZenonT(60) DEF TypeOK, EnginesTyped, StartCheckpoint
    <3>2. QED
      BY <1>a, <1>d, <3>1, ZenonT(60) DEF TypeOK, EnginesTyped, StartCheckpoint, EnginePcs, Tasks
  <2>4. QED
    BY <2>1, <2>2, <2>3, FrameOthers DEF TypeOK
<1>2. EnginesLocked'
  BY <1>a, <1>b, <1>c, <1>e, CkptLocks, ZenonT(60) DEF Holding
<1>3. NoWarm => NoWarm'
  BY <1>c, ZenonT(60) DEF NoWarm
<1>4. WarmAt(c)'
  BY <1>a, <1>c, <1>e, ZenonT(60) DEF WarmAt, Matches, Before, MustCommit
<1>5. pc'[c] = "commit" => Covers(eng[c])'
  BY <1>c, <1>e, <1>3 DEF Covers, MustCommit
<1>6. /\ AppendersLocked' /\ NotBuried' /\ AppendsSound' /\ NothingYet' /\ WarmMatches'
      /\ Bounded' /\ TailAboveRoot' /\ AckedKept' /\ HoldersCover'
  BY <1>b, <1>c, <1>e, <1>3, <1>4, <1>5, CkptFrame, ZenonT(60)
<1>7. QED
  BY <1>1, <1>2, <1>6

\* fold_wal_tail with nothing to fold keeps the invariant.
LEMMA FoldNothingKeeps ==
  ASSUME Inv, NEW c \in Ckpts, FoldNothing(c), UNCHANGED <<appenderVars, readerVars>>
  PROVE  Inv'
<1> USE DEF Inv
<1>a. c \in Engines /\ c \notin Writers /\ c # None /\ Ckpts \subseteq Engines /\ Writers \subseteq Engines
  BY CkptDistinct
<1>b. /\ excl = c /\ \A q \in Engines \ {c} : pc[q] \notin Holding
      /\ \A a \in Appenders : apc[a] \in {"closed", "idle"}
  BY <1>a, HolderAlone DEF FoldNothing, Holding
<1>c. /\ manifest # None /\ task[c] = "none" /\ mode[c] = "wal" /\ pc[c] = "fold"
      /\ tokens[c] # None /\ Matches(eng[c], manifest) /\ eng[c] \in EngineState
  BY <1>a, ZenonT(60) DEF FoldNothing, EnginesLocked, WarmMatches, WarmAt, Matches, TypeOK, EnginesTyped
<1>e. /\ \A q \in Engines \ {c} : pc'[q] = pc[q] /\ tokens'[q] = tokens[q]
      /\ pc'[c] = "warm" /\ tokens'[c] = manifest /\ excl' = None
      /\ UNCHANGED <<task, mode, eng, needs, manifest, wal, torn, buried, acked, behind, lease, shared, ctr, apc>>
  BY <1>a DEF FoldNothing, Release, TypeOK, EnginesTyped, fileVars, histVars, appenderVars
<1>1. TypeOK'
  <2>1. FilesTyped' /\ HistoryTyped'
    BY DEF TypeOK, FilesTyped, HistoryTyped, FoldNothing, fileVars, histVars
  <2>2. LocksTyped'
    BY <1>e, ZenonT(60) DEF TypeOK, LocksTyped
  <2>3. EnginesTyped'
    BY ZenonT(60) DEF TypeOK, FilesTyped, EnginesTyped, FoldNothing, EnginePcs
  <2>4. QED
    BY <2>1, <2>2, <2>3, FrameOthers DEF TypeOK
<1>2. EnginesLocked'
  BY <1>a, <1>b, <1>c, <1>e, CkptLocks, ZenonT(60) DEF Holding
<1>3. NoWarm => NoWarm'
  BY <1>c, ZenonT(60) DEF NoWarm
<1>4. WarmAt(c)'
  <2>1. Before(manifest, manifest)
    <3>1. manifest \in Manifest
      BY <1>c DEF TypeOK, FilesTyped
    <3>2. QED
      BY <3>1, BeforeSelf
  <2>2. QED
    BY <1>c, <1>e, <2>1 DEF WarmAt, Matches, Before
<1>5. pc'[c] = "commit" => Covers(eng[c])'
  BY <1>e, ZenonT(60)
<1>6. /\ AppendersLocked' /\ NotBuried' /\ AppendsSound' /\ NothingYet' /\ WarmMatches'
      /\ Bounded' /\ TailAboveRoot' /\ AckedKept' /\ HoldersCover'
  BY <1>b, <1>c, <1>e, <1>3, <1>4, <1>5, CkptFrame, ZenonT(60)
<1>7. QED
  BY <1>1, <1>2, <1>6

\* fold_wal_tail with a log it cannot scan keeps the invariant: the engine is to be
\* reloaded.
LEMMA FoldRefusedKeeps ==
  ASSUME Inv, NEW c \in Ckpts, FoldRefused(c), UNCHANGED <<appenderVars, readerVars>>
  PROVE  Inv'
<1> USE DEF Inv
<1>a. c \in Engines /\ c \notin Writers /\ c # None /\ Ckpts \subseteq Engines /\ Writers \subseteq Engines
  BY CkptDistinct
<1>b. /\ excl = c /\ \A q \in Engines \ {c} : pc[q] \notin Holding
      /\ \A a \in Appenders : apc[a] \in {"closed", "idle"}
  BY <1>a, HolderAlone DEF FoldRefused, Holding
<1>c. /\ manifest # None /\ task[c] = "none" /\ mode[c] = "wal" /\ pc[c] = "fold"
      /\ tokens[c] # None /\ Before(tokens[c], manifest)
  BY <1>a, ZenonT(60) DEF FoldRefused, EnginesLocked, WarmMatches, WarmAt, Matches
<1>e. /\ \A q \in Engines \ {c} : pc'[q] = pc[q] /\ needs'[q] = needs[q]
      /\ pc'[c] = "warm" /\ needs'[c] = TRUE /\ excl' = None
      /\ UNCHANGED <<task, mode, eng, tokens, manifest, wal, torn, buried, acked, behind, lease, shared, ctr, apc>>
  BY <1>a DEF FoldRefused, Release, TypeOK, EnginesTyped, fileVars, histVars, appenderVars
<1>1. TypeOK'
  <2>1. FilesTyped' /\ HistoryTyped'
    BY DEF TypeOK, FilesTyped, HistoryTyped, FoldRefused, fileVars, histVars
  <2>2. LocksTyped'
    BY <1>e DEF TypeOK, LocksTyped
  <2>3. EnginesTyped'
    BY ZenonT(60) DEF TypeOK, EnginesTyped, FoldRefused, EnginePcs
  <2>4. QED
    BY <2>1, <2>2, <2>3, FrameOthers DEF TypeOK
<1>2. EnginesLocked'
  BY <1>a, <1>b, <1>c, <1>e, CkptLocks DEF Holding
<1>3. NoWarm => NoWarm'
  BY <1>c DEF NoWarm
<1>4. WarmAt(c)'
  <2>1. Before(tokens[c], manifest)'
    BY <1>c, <1>e DEF Before
  <2>2. QED
    BY <1>c, <1>e, <2>1, ZenonT(60) DEF WarmAt
<1>5. pc'[c] = "commit" => Covers(eng[c])'
  BY <1>e, ZenonT(60)
<1>6. /\ AppendersLocked' /\ NotBuried' /\ AppendsSound' /\ NothingYet' /\ WarmMatches'
      /\ Bounded' /\ TailAboveRoot' /\ AckedKept' /\ HoldersCover'
  BY <1>b, <1>c, <1>e, <1>3, <1>4, <1>5, CkptFrame, ZenonT(60)
<1>7. QED
  BY <1>1, <1>2, <1>6

\* fold_wal_tail keeps the invariant: the folded engine covers root and WAL.
LEMMA FoldKeeps ==
  ASSUME Inv, NEW c \in Ckpts, Fold(c), UNCHANGED <<appenderVars, readerVars>>
  PROVE  Inv'
<1> USE DEF Inv
<1>a. c \in Engines /\ c \notin Writers /\ c # None /\ Ckpts \subseteq Engines /\ Writers \subseteq Engines
  BY CkptDistinct
<1>b. /\ excl = c /\ \A q \in Engines \ {c} : pc[q] \notin Holding
      /\ \A a \in Appenders : apc[a] \in {"closed", "idle"}
  BY <1>a, HolderAlone DEF Fold, Holding
<1>c. /\ manifest # None /\ task[c] = "none" /\ mode[c] = "wal" /\ pc[c] = "fold"
      /\ tokens[c] # None /\ Matches(eng[c], manifest) /\ eng[c] \in EngineState
  BY <1>a, ZenonT(60) DEF Fold, EnginesLocked, WarmMatches, WarmAt, Matches, TypeOK, EnginesTyped
<1>d. PICK x \in EngineState : Covers(x) /\ MustCommit(x) /\ eng' = [eng EXCEPT ![c] = x]
  <2>1. PICK bump \in 0 .. MaxBump : eng' = [eng EXCEPT ![c] = Replayed(eng[c], FoldReplays(eng[c], wal), bump)]
    BY ZenonT(60) DEF Fold
  <2>2. ~NoWarm
    BY <1>c DEF NoWarm
  <2>3. FoldReplays(eng[c], wal) # {}
    BY DEF Fold
  <2>4. QED
    BY <1>c, <2>1, <2>2, <2>3, FoldFacts, ZenonT(60)
<1>e. /\ \A q \in Engines \ {c} : pc'[q] = pc[q] /\ task'[q] = task[q] /\ eng'[q] = eng[q]
      /\ pc'[c] = "commit" /\ task'[c] = "fold" /\ eng'[c] = x
      /\ UNCHANGED <<mode, tokens, needs, manifest, wal, torn, buried, acked, behind, excl, lease, shared, ctr, apc>>
  BY <1>a, <1>d DEF Fold, TypeOK, EnginesTyped, storeVars, fileVars, lockVars, histVars, appenderVars
<1>1. TypeOK'
  <2>1. FilesTyped' /\ LocksTyped' /\ HistoryTyped'
    BY DEF TypeOK, FilesTyped, LocksTyped, HistoryTyped, Fold, storeVars, fileVars, lockVars, histVars
  <2>2. EnginesTyped'
    BY <1>d, ZenonT(60) DEF TypeOK, EnginesTyped, Fold, EnginePcs, Tasks
  <2>3. QED
    BY <2>1, <2>2, FrameOthers DEF TypeOK
<1>2. EnginesLocked'
  BY <1>a, <1>b, <1>c, <1>e, CkptLocks, ZenonT(60) DEF Holding
<1>3. NoWarm => NoWarm'
  BY <1>c, ZenonT(60) DEF NoWarm
<1>4. WarmAt(c)'
  <2>1. MustCommit(eng[c])'
    BY <1>d, <1>e, ZenonT(60) DEF MustCommit
  <2>2. tokens'[c] # None /\ manifest' # None /\ Before(tokens[c], manifest)'
    BY <1>c, <1>e, ZenonT(60) DEF WarmMatches, WarmAt, Before
  <2>3. QED
    BY <1>e, <2>1, <2>2, ZenonT(60) DEF WarmAt
<1>5. pc'[c] = "commit" => Covers(eng[c])'
  BY <1>c, <1>d, <1>e, <1>3, ZenonT(60) DEF Covers, MustCommit
<1>6. /\ AppendersLocked' /\ NotBuried' /\ AppendsSound' /\ NothingYet' /\ WarmMatches'
      /\ Bounded' /\ TailAboveRoot' /\ AckedKept' /\ HoldersCover'
  BY <1>b, <1>c, <1>e, <1>3, <1>4, <1>5, CkptFrame, ZenonT(60)
<1>7. QED
  BY <1>1, <1>2, <1>6

=============================================================================
