---------------------------- MODULE CommitProofs ----------------------------
(***************************************************************************)
(* What a root swap and a dropped engine leave true; every commit and      *)
(* removal of the WAL keeps the invariant.                                 *)
(***************************************************************************)
EXTENDS WriterOpenProofs, CheckpointerProofs

\* The time the provers get for a leaf that names none of them.
USE SMTT(40), ZenonT(60)

\* Roots are ordered by Before.
LEMMA BeforeOrders ==
  ASSUME NEW s \in Manifest, NEW t \in Manifest, NEW u \in Manifest, Before(s, t), Before(t, u)
  PROVE  Before(s, u) /\ (s = u => s = t)
<1>1. /\ s.generation \in Nat /\ t.generation \in Nat /\ u.generation \in Nat
      /\ s.applied_lsn \in Nat /\ t.applied_lsn \in Nat /\ u.applied_lsn \in Nat
  BY DEF Manifest
<1>2. Before(s, u)
  BY <1>1 DEF Before
<1>3. ASSUME s = u PROVE s = t
  <2>1. s.docs \subseteq t.docs /\ t.docs \subseteq s.docs
    BY <1>3 DEF Before
  <2>2. s.generation = t.generation /\ s.applied_lsn = t.applied_lsn
    BY <1>1, <1>3 DEF Before
  <2>3. s.docs = t.docs
    BY <2>1, ZenonT(60)
  <2>4. QED
    BY <2>2, <2>3 DEF Manifest
<1>4. QED
  BY <1>2, <1>3

\* A root swap by an engine that covers the store: the new root is after the old
\* one and holds everything acknowledged.
LEMMA RootSwap ==
  ASSUME Inv, NEW p \in Engines, pc[p] = "commit", MustCommit(eng[p]),
         NEW m \in CommitBodies(eng[p]), manifest' = m, UNCHANGED <<wal, acked, behind>>
  PROVE  /\ m \in Manifest /\ m # None /\ manifest # None /\ Before(manifest, m)
         /\ m.docs = eng[p].docs /\ m.applied_lsn = eng[p].generation
         /\ eng[p].applied_lsn <= eng[p].generation
         /\ IdsOf(wal) \subseteq m.docs /\ TailAboveRoot' /\ AckedKept'
<1> USE DEF Inv
<1>1. eng[p] \in EngineState /\ Covers(eng[p])
  BY DEF TypeOK, EnginesTyped, HoldersCover
<1>2. /\ m \in Manifest /\ m.docs = eng[p].docs
      /\ m.generation = eng[p].generation /\ m.applied_lsn = eng[p].generation /\ eng[p].generation >= 1
      /\ eng[p].applied_lsn <= eng[p].generation
      /\ Before(manifest, m) /\ IdsOf(wal) \subseteq m.docs
  BY <1>1, CommitFacts
<1>3. m # None /\ manifest # None
  BY <1>1, <1>2, NoneIsNoValue DEF Covers
<1>4. eng[p].generation \in Nat
  BY <1>1 DEF EngineState
<1>5. TailAboveRoot'
  BY <1>2, <1>4 DEF TailAboveRoot, IdsOf
<1>6. AckedKept'
  BY <1>2, <1>3 DEF AckedKept, Before
<1>7. QED
  BY <1>2, <1>3, <1>5, <1>6

\* Tokens that name a root that is gone keep naming one that is gone.
LEMMA TokensStayBehind ==
  ASSUME TypeOK, NEW d \in Ckpts, WarmAt(d), manifest # None, manifest' \in Manifest,
         manifest' = manifest \/ Before(manifest, manifest'), tokens[d] # None
  PROVE  Before(tokens[d], manifest') /\ (tokens[d] # manifest => tokens[d] # manifest')
<1>1. CASE manifest' = manifest
  BY <1>1 DEF WarmAt
<1>2. CASE Before(manifest, manifest')
  <2>1. tokens[d] \in Manifest /\ manifest \in Manifest /\ Before(tokens[d], manifest)
    BY DEF TypeOK, EnginesTyped, FilesTyped, WarmAt, Engines
  <2>2. QED
    BY <1>2, <2>1, BeforeOrders
<1>3. QED
  BY <1>1, <1>2

\* What a step of the lock holder leaves true of everyone else, be the root the
\* same or a later one.
LEMMA HolderFrame ==
  ASSUME Inv, NEW p \in Engines, pc[p] \in Holding, manifest # None,
         \A q \in Engines \ {p} :
           /\ pc'[q] = pc[q] /\ task'[q] = task[q] /\ eng'[q] = eng[q]
           /\ tokens'[q] = tokens[q] /\ needs'[q] = needs[q],
         UNCHANGED <<apc, shared, ctr>>,
         manifest' \in Manifest, manifest' = manifest \/ Before(manifest, manifest')
  PROVE  /\ AppendersLocked' /\ NotBuried' /\ AppendsSound' /\ NothingYet'
         /\ \A d \in Ckpts \ {p} : WarmAt(d)'
         /\ \A q \in Engines \ {p} : pc'[q] \notin Holding
<1> USE DEF Inv
<1>1. /\ \A q \in Engines \ {p} : pc[q] \notin Holding
      /\ \A a \in Appenders : apc[a] \in {"closed", "idle"}
  BY HolderAlone
<1>2. AppendersLocked' /\ NotBuried' /\ AppendsSound'
  BY <1>1, FrameAppends
<1>3. manifest' # None
  BY NoneIsNoValue
<1>4. ASSUME NEW d \in Ckpts \ {p} PROVE WarmAt(d)'
  <2>1. d \in Engines \ {p} /\ WarmAt(d)
    BY <1>4 DEF Engines, WarmMatches
  <2>2. task[d] = "none" /\ pc[d] \notin {"fold", "commit", "truncate"}
    BY <1>1, <2>1 DEF EnginesLocked, Holding
  <2>3. tokens[d] # None => Before(tokens[d], manifest') /\ (tokens[d] # manifest => tokens[d] # manifest')
    BY <1>4, <2>1, TokensStayBehind
  <2>4. Before(tokens[d], manifest') => Before(tokens[d], manifest)'
    BY <2>1 DEF Before
  <2>5. Matches(eng[d], tokens[d]) => Matches(eng[d], tokens[d])'
    BY <2>1 DEF Matches
  <2>6. QED
    BY <1>3, <2>1, <2>2, <2>3, <2>4, <2>5 DEF WarmAt
<1>5. QED
  BY <1>1, <1>2, <1>3, <1>4 DEF NothingYet

\* Where Finish leads.
LEMMA FinishFacts ==
  ASSUME EnginesLocked, NEW p \in Engines, pc[p] \in {"commit", "truncate"}, Finish(p)
  PROVE  /\ task' = [task EXCEPT ![p] = "none"]
         /\ \/ p \in Writers /\ pc' = [pc EXCEPT ![p] = "open"] /\ UNCHANGED <<excl, tokens, needs>>
            \/ /\ p \in Ckpts /\ task[p] = "warm" /\ pc' = [pc EXCEPT ![p] = "loaded"]
               /\ excl' = None /\ UNCHANGED <<tokens, needs>>
            \/ /\ p \in Ckpts /\ task[p] = "reload" /\ pc' = [pc EXCEPT ![p] = "fold"]
               /\ needs' = [needs EXCEPT ![p] = FALSE] /\ UNCHANGED <<excl, tokens>>
            \/ /\ p \in Ckpts /\ task[p] = "fold" /\ pc' = [pc EXCEPT ![p] = "warm"]
               /\ excl' = None /\ tokens' = [tokens EXCEPT ![p] = manifest] /\ UNCHANGED needs
<1>1. CASE p \in Writers
  <2>1. task[p] \in {"open", "persist"}
    BY <1>1 DEF EnginesLocked
  <2>2. QED
    BY <1>1, <2>1, ZenonT(60) DEF Finish
<1>2. CASE p \in Ckpts
  <2>1. task[p] \in {"warm", "reload", "fold"}
    BY <1>2 DEF EnginesLocked
  <2>2. QED
    BY <1>2, <2>1, ZenonT(60) DEF Finish, Release
<1>3. QED
  BY <1>1, <1>2 DEF Engines

\* Dropping an engine leaves the locks to those who hold them.
LEMMA DropLocks ==
  ASSUME TypeOK, EnginesLocked, NEW p \in Engines, DropEngine(p), UNCHANGED mode
  PROVE  EnginesLocked'
<1>a. /\ \A q \in Engines \ {p} : pc'[q] = pc[q] /\ task'[q] = task[q]
      /\ pc'[p] = "closed" /\ task'[p] = "none"
      /\ excl' = (IF excl = p THEN None ELSE excl) /\ lease' = (IF lease = p THEN None ELSE lease)
  BY DEF DropEngine, TypeOK, EnginesTyped
<1>c. None \notin Engines /\ Ckpts \subseteq Engines /\ Writers \subseteq Engines /\ Writers \cap Ckpts = {}
  BY ProcessesDistinct DEF Engines
<1>1. \A q \in Engines : pc'[q] \in Holding <=> excl' = q
  BY <1>a, <1>c DEF EnginesLocked, Holding
<1>2. \A q \in Engines : pc'[q] \in {"commit", "truncate"} <=> task'[q] # "none"
  BY <1>a DEF EnginesLocked
<1>3. \A v \in Writers : /\ pc'[v] \notin {"leased", "loaded", "warm", "fold"}
                         /\ task'[v] \in {"none", "open", "persist"}
                         /\ pc'[v] # "closed" => mode'[v] \in Modes
  BY <1>a, <1>c DEF EnginesLocked
<1>4. \A d \in Ckpts : /\ pc'[d] # "closed" => lease' = d
                       /\ pc'[d] # "open" /\ task'[d] \in {"none", "warm", "reload", "fold"}
                       /\ mode'[d] = "wal"
  BY <1>a, <1>c DEF EnginesLocked
<1>5. QED
  BY <1>1, <1>2, <1>3, <1>4 DEF EnginesLocked

\* Dropping an engine, by discard, close or crash, keeps the invariant: the
\* files stay, and every lock of the process goes.
LEMMA DropEngineKeeps ==
  ASSUME Inv, NEW p \in Engines, DropEngine(p), crashes' \in 0 .. MaxCrashes,
         UNCHANGED <<mode, fileVars, shared, ctr, nextId, logged, acked, behind, slips, appenderVars, readerVars>>
  PROVE  Inv'
<1> USE DEF Inv
<1>a. /\ \A q \in Engines \ {p} : /\ pc'[q] = pc[q] /\ task'[q] = task[q] /\ eng'[q] = eng[q]
                                 /\ tokens'[q] = tokens[q] /\ needs'[q] = needs[q]
      /\ pc'[p] = "closed" /\ task'[p] = "none" /\ tokens'[p] = None
      /\ excl' = (IF excl = p THEN None ELSE excl) /\ lease' = (IF lease = p THEN None ELSE lease)
  BY DEF DropEngine, TypeOK, EnginesTyped
<1>b. /\ UNCHANGED <<mode, manifest, wal, torn, buried, counter, shared, ctr, nextId, logged, acked, behind, slips, apc, arec>>
  BY DEF fileVars, appenderVars
<1>c. None \notin Engines /\ Ckpts \subseteq Engines /\ Writers \subseteq Engines /\ Writers \cap Ckpts = {}
  BY ProcessesDistinct DEF Engines
<1>1. TypeOK'
  <2>1. FilesTyped' /\ HistoryTyped'
    BY <1>b DEF TypeOK, FilesTyped, HistoryTyped
  <2>2. LocksTyped'
    BY <1>a, <1>b DEF TypeOK, LocksTyped
  <2>3. EnginesTyped'
    <3>1. NoEngine \in EngineState
      BY DEF NoEngine, EngineState
    <3>2. QED
      BY <1>b, <3>1 DEF TypeOK, EnginesTyped, DropEngine, EnginePcs, Tasks
  <2>4. QED
    BY <2>1, <2>2, <2>3, FrameOthers DEF TypeOK
<1>2. EnginesLocked'
  BY DropLocks
<1>3. NoWarm => NoWarm'
  BY <1>a, <1>c DEF NoWarm
<1>4. AppendersLocked' /\ NotBuried' /\ AppendsSound' /\ NothingYet'
  BY <1>a, <1>b DEF AppendersLocked, NotBuried, AppendsSound, NothingYet
<1>5. Bounded' /\ TailAboveRoot' /\ AckedKept'
  BY <1>b, <1>3, FrameTailWarm, FrameKept
<1>6. HoldersCover'
  <2>1. ASSUME NEW q \in Engines \ {p}, Covers(eng[q]) PROVE Covers(eng[q])'
    BY <1>a, <1>b, <1>3, <2>1 DEF Covers, MustCommit
  <2>2. QED
    BY <1>a, <1>b, <2>1 DEF HoldersCover, Holding
<1>7. WarmMatches'
  <2>1. p \in Ckpts => WarmAt(p)'
    BY <1>a DEF WarmAt
  <2>2. \A d \in Ckpts \ {p} : WarmAt(d)'
    BY <1>a, <1>b, <1>c, FrameWarmAt DEF WarmMatches
  <2>3. QED
    BY <2>1, <2>2 DEF WarmMatches
<1>8. QED
  BY <1>1, <1>2, <1>4, <1>5, <1>6, <1>7

\* What a commit leaves in root and memory, whether or not it wrote a root: the
\* holder covers the store, and a checkpointer's engine is the root.
LEMMA CommitLeaves ==
  ASSUME Inv, NEW p \in Engines, Commit(p)
  PROVE  /\ manifest # None /\ manifest' \in Manifest /\ manifest' # None
         /\ manifest' = manifest \/ Before(manifest, manifest')
         /\ \E e \in EngineState :
              /\ eng' = [eng EXCEPT ![p] = e] /\ ~MustCommit(e)
              /\ e.docs = manifest'.docs \cup e.pending
              /\ p \in Ckpts => Matches(e, manifest')
              /\ \/ e.applied_lsn <= e.generation /\ manifest'.applied_lsn <= e.generation
                 \/ /\ e.generation = 0 /\ e.applied_lsn = 1
                    /\ manifest'.applied_lsn = 1 /\ NoWarm
         /\ IdsOf(wal') \subseteq manifest'.docs
         /\ AckedKept' /\ ((NoWarm => NoWarm') => TailAboveRoot')
<1> USE DEF Inv
<1>1. pc[p] = "commit" /\ UNCHANGED <<wal, acked, behind>>
  BY DEF Commit, histVars
<1>2. eng[p] \in EngineState /\ Covers(eng[p]) /\ manifest # None /\ manifest \in Manifest
  BY <1>1 DEF TypeOK, EnginesTyped, FilesTyped, HoldersCover, Covers
<1>3. CASE MustCommit(eng[p])
  <2>1. PICK m \in CommitBodies(eng[p]) : manifest' = m /\ eng' = [eng EXCEPT ![p] = Committed(eng[p], m)]
    BY <1>3 DEF Commit
  <2>2. /\ m \in Manifest /\ m # None /\ manifest # None /\ Before(manifest, m)
        /\ m.docs = eng[p].docs /\ m.applied_lsn = eng[p].generation
        /\ IdsOf(wal) \subseteq m.docs /\ TailAboveRoot' /\ AckedKept'
    BY <1>1, <1>3, <2>1, RootSwap
  <2> DEFINE e == Committed(eng[p], m)
  <2>3. /\ e \in EngineState /\ ~MustCommit(e) /\ e.docs = m.docs /\ e.pending = {}
        /\ e.generation = m.applied_lsn /\ e.applied_lsn = m.applied_lsn
        /\ e.persisted_applied_lsn = m.applied_lsn
    BY <1>2, <2>2, CommittedFacts
  <2>4. eng' = [eng EXCEPT ![p] = e]
    BY <2>1
  <2>5. m.applied_lsn \in Nat
    BY <2>2 DEF Manifest
  <2> HIDE DEF e
  <2>6. Matches(e, m)
    BY <2>2, <2>3, <2>5 DEF Matches
  <2>7. e.applied_lsn <= e.generation /\ m.applied_lsn <= e.generation /\ e.docs = m.docs \cup e.pending
    BY <2>3, <2>5
  <2>8. QED
    BY <1>1, <2>1, <2>2, <2>3, <2>4, <2>6, <2>7, ZenonT(60)
<1>4. CASE ~MustCommit(eng[p])
  <2>1. manifest' = manifest /\ eng' = eng
    BY <1>4, ZenonT(60) DEF Commit
  <2>2. eng' = [eng EXCEPT ![p] = eng[p]]
    BY <2>1 DEF TypeOK, EnginesTyped
  <2>3. IdsOf(wal) \subseteq manifest.docs
    BY <1>2, <1>4 DEF Covers
  <2>4. p \in Ckpts => Matches(eng[p], manifest)
    BY <1>1, <1>4 DEF WarmMatches, WarmAt
  <2>5. AckedKept' /\ ((NoWarm => NoWarm') => TailAboveRoot')
    BY <1>1, <2>1, FrameKept, FrameTailWarm
  <2>6. /\ eng[p].docs = manifest.docs \cup eng[p].pending
        /\ \/ eng[p].applied_lsn <= eng[p].generation /\ manifest.applied_lsn <= eng[p].generation
           \/ eng[p].generation = 0 /\ eng[p].applied_lsn = 1 /\ manifest.applied_lsn = 1 /\ NoWarm
    BY <1>2 DEF Covers
  <2>7. QED
    BY <1>1, <1>2, <1>4, <2>1, <2>2, <2>3, <2>4, <2>5, <2>6, ZenonT(60)
<1>5. QED
  BY <1>3, <1>4

\* The root swap keeps the invariant.
LEMMA CommitKeeps ==
  ASSUME Inv, NEW p \in Engines, Commit(p), UNCHANGED <<appenderVars, readerVars>>
  PROVE  Inv'
<1> USE DEF Inv
<1>a. pc[p] = "commit" /\ task[p] # "none" /\ excl = p
  BY ZenonT(60) DEF Commit, EnginesLocked, Holding
<1>b. /\ manifest # None /\ manifest' \in Manifest /\ manifest' # None
      /\ manifest' = manifest \/ Before(manifest, manifest')
      /\ IdsOf(wal') \subseteq manifest'.docs
      /\ AckedKept' /\ ((NoWarm => NoWarm') => TailAboveRoot')
  BY CommitLeaves, ZenonT(60)
<1>c. PICK e \in EngineState :
        /\ eng' = [eng EXCEPT ![p] = e] /\ ~MustCommit(e)
        /\ e.docs = manifest'.docs \cup e.pending
        /\ p \in Ckpts => Matches(e, manifest')
        /\ \/ e.applied_lsn <= e.generation /\ manifest'.applied_lsn <= e.generation
           \/ /\ e.generation = 0 /\ e.applied_lsn = 1
              /\ manifest'.applied_lsn = 1 /\ NoWarm
  BY CommitLeaves
<1>d. /\ UNCHANGED <<mode, excl, tokens, needs, lease, shared, ctr, wal, torn, buried, counter,
                     nextId, logged, acked, behind, slips, crashes, apc>>
      /\ \/ /\ pc' = [pc EXCEPT ![p] = "truncate"] /\ task' = task
         \/ /\ p \in Writers /\ pc' = [pc EXCEPT ![p] = "open"] /\ task' = [task EXCEPT ![p] = "none"]
            /\ mode[p] = "generation"
  <2>1. UNCHANGED <<mode, lease, shared, ctr, wal, torn, buried, counter, nextId, logged, acked, behind, slips, crashes, apc>>
    BY ZenonT(60) DEF Commit, histVars, appenderVars
  <2>2. CASE mode[p] = "wal"
    BY <2>1, <2>2, ZenonT(60) DEF Commit
  <2>3. CASE mode[p] # "wal"
    <3>1. Finish(p) /\ p \notin Ckpts /\ mode[p] = "generation"
      BY <2>3 DEF Commit, EnginesLocked, TypeOK, EnginesTyped
    <3>2. QED
      BY <1>a, <2>1, <3>1, FinishFacts
  <2>4. QED
    BY <2>2, <2>3
<1>e. /\ \A q \in Engines \ {p} : /\ pc'[q] = pc[q] /\ task'[q] = task[q] /\ eng'[q] = eng[q]
      /\ eng'[p] = e
      /\ \/ pc'[p] = "truncate" /\ task'[p] = task[p]
         \/ p \in Writers /\ pc'[p] = "open" /\ task'[p] = "none"
  BY <1>c, <1>d, ZenonT(60) DEF TypeOK, EnginesTyped
<1>1. TypeOK'
  <2>1. FilesTyped' /\ LocksTyped' /\ HistoryTyped'
    BY <1>b, <1>d DEF TypeOK, FilesTyped, LocksTyped, HistoryTyped
  <2>2. EnginesTyped'
    BY <1>c, <1>d, ZenonT(60) DEF TypeOK, EnginesTyped, EnginePcs, Tasks
  <2>3. QED
    BY <2>1, <2>2, FrameOthers DEF TypeOK
<1>2. /\ AppendersLocked' /\ NotBuried' /\ AppendsSound' /\ NothingYet'
      /\ \A d \in Ckpts \ {p} : WarmAt(d)'
      /\ \A q \in Engines \ {p} : pc'[q] \notin Holding
  BY <1>a, <1>b, <1>d, <1>e, HolderFrame, ZenonT(60) DEF Holding, NotBuried
<1>3. EnginesLocked'
  <2>1. \A q \in Engines \ {p} : pc[q] \notin Holding
    BY <1>2, <1>e, ZenonT(60)
  <2>3. CASE p \in Writers
    BY <1>a, <1>d, <1>e, <2>1, <2>3, WriterLocks, ZenonT(60) DEF EnginesLocked
  <2>4. CASE p \in Ckpts
    <3>1. p \notin Writers
      BY <2>4, CkptDistinct
    <3>2. QED
      BY <1>a, <1>d, <1>e, <2>1, <2>4, <3>1, CkptLocks, ZenonT(60) DEF EnginesLocked, Holding
  <2>5. QED
    BY <2>3, <2>4 DEF Engines
<1>4. NoWarm => NoWarm'
  <2>1. Ckpts \subseteq Engines /\ Writers \cap Ckpts = {}
    BY ProcessesDistinct DEF Engines
  <2>2. QED
    BY <1>a, <1>e, <2>1 DEF NoWarm
<1>5. Bounded' /\ TailAboveRoot' /\ AckedKept'
  BY <1>b, <1>d, <1>4, ZenonT(60) DEF Bounded
<1>6. HoldersCover'
  <2>1. ~MustCommit(eng[p])'
    BY <1>c, <1>e DEF MustCommit
  <2>2. Covers(eng[p])'
    BY <1>b, <1>c, <1>e, <1>4, <2>1, ZenonT(60) DEF Covers
  <2>3. mode'[p] = "generation" => wal' = {}
    BY <1>a, <1>d, ZenonT(60) DEF HoldersCover, Holding
  <2>4. QED
    BY <1>b, <1>e, <1>2, <2>2, <2>3 DEF HoldersCover, Holding
<1>7. WarmMatches'
  <2>1. ASSUME p \in Ckpts PROVE WarmAt(p)'
    <3>1. p \notin Writers /\ WarmAt(p)
      BY <2>1, CkptDistinct DEF WarmMatches
    <3>2. Matches(eng[p], manifest)' /\ pc'[p] = "truncate" /\ task'[p] = task[p]
      BY <1>c, <1>e, <2>1, <3>1, ZenonT(60) DEF Matches
    <3>3. tokens[p] # None => Before(tokens[p], manifest') /\ (tokens[p] # manifest => tokens[p] # manifest')
      BY <1>b, <2>1, <3>1, TokensStayBehind, ZenonT(60)
    <3>4. Before(tokens[p], manifest') => Before(tokens[p], manifest)'
      BY <1>d DEF Before
    <3>5. QED
      BY <1>b, <1>d, <3>1, <3>2, <3>3, <3>4, ZenonT(60) DEF WarmAt
  <2>2. QED
    BY <1>2, <2>1 DEF WarmMatches
<1>8. QED
  BY <1>1, <1>2, <1>3, <1>5, <1>6, <1>7

\* The removal of the WAL keeps the invariant: the root holds all of it.
LEMMA TruncateKeeps ==
  ASSUME Inv, NEW p \in Engines, Truncate(p), UNCHANGED <<appenderVars, readerVars>>
  PROVE  Inv'
<1> USE DEF Inv
<1>a. /\ pc[p] = "truncate" /\ excl = p /\ Covers(eng[p]) /\ IdsOf(wal) \subseteq manifest.docs
      /\ manifest # None /\ manifest \in Manifest
  BY ZenonT(60) DEF Truncate, EnginesLocked, Holding, HoldersCover, Covers, TypeOK, FilesTyped
<1>b. /\ UNCHANGED <<mode, eng, manifest, counter, shared, ctr, lease, nextId, logged, acked, behind, slips, crashes, apc>>
      /\ wal' = {} /\ torn' = "none" /\ buried' = {}
  BY DEF Truncate, TruncateWal, histVars, appenderVars
<1>c. /\ task' = [task EXCEPT ![p] = "none"]
      /\ \/ p \in Writers /\ pc' = [pc EXCEPT ![p] = "open"] /\ UNCHANGED <<excl, tokens, needs>>
         \/ /\ p \in Ckpts /\ task[p] = "warm" /\ pc' = [pc EXCEPT ![p] = "loaded"]
            /\ excl' = None /\ UNCHANGED <<tokens, needs>>
         \/ /\ p \in Ckpts /\ task[p] = "reload" /\ pc' = [pc EXCEPT ![p] = "fold"]
            /\ needs' = [needs EXCEPT ![p] = FALSE] /\ UNCHANGED <<excl, tokens>>
         \/ /\ p \in Ckpts /\ task[p] = "fold" /\ pc' = [pc EXCEPT ![p] = "warm"]
            /\ excl' = None /\ tokens' = [tokens EXCEPT ![p] = manifest] /\ UNCHANGED needs
  BY <1>a, FinishFacts, ZenonT(60) DEF Truncate
<1>d. /\ \A q \in Engines \ {p} : /\ pc'[q] = pc[q] /\ task'[q] = task[q]
                                 /\ tokens'[q] = tokens[q] /\ needs'[q] = needs[q]
      /\ task'[p] = "none"
      /\ \/ p \in Writers /\ pc'[p] = "open" /\ excl' = p
         \/ /\ p \in Ckpts /\ task[p] = "warm" /\ pc'[p] = "loaded" /\ excl' = None
            /\ tokens'[p] = tokens[p]
         \/ /\ p \in Ckpts /\ task[p] = "reload" /\ pc'[p] = "fold" /\ excl' = p
            /\ tokens'[p] = tokens[p]
         \/ /\ p \in Ckpts /\ task[p] = "fold" /\ pc'[p] = "warm" /\ excl' = None
            /\ tokens'[p] = manifest
  BY <1>a, <1>c, ZenonT(60) DEF TypeOK, EnginesTyped
<1>1. TypeOK'
  <2>1. FilesTyped' /\ HistoryTyped'
    BY <1>b DEF TypeOK, FilesTyped, HistoryTyped, TornStates
  <2>2. LocksTyped'
    BY <1>b, <1>d, ZenonT(60) DEF TypeOK, LocksTyped
  <2>3. EnginesTyped'
    BY <1>a, <1>b, <1>c, ZenonT(60) DEF TypeOK, EnginesTyped, EnginePcs, Tasks
  <2>4. QED
    BY <2>1, <2>2, <2>3, FrameOthers DEF TypeOK
<1>2. /\ AppendersLocked' /\ NotBuried' /\ AppendsSound' /\ NothingYet'
      /\ \A d \in Ckpts \ {p} : WarmAt(d)'
      /\ \A q \in Engines \ {p} : pc'[q] \notin Holding
  BY <1>a, <1>b, <1>d, HolderFrame, ZenonT(60) DEF Holding
<1>3. EnginesLocked'
  <2>1. \A q \in Engines \ {p} : pc[q] \notin Holding
    BY <1>2, <1>d, ZenonT(60)
  <2>3. CASE p \in Writers
    <3>1. p \notin Ckpts /\ mode'[p] \in Modes
      BY <1>a, <1>b, <2>3, WriterDistinct, ZenonT(60) DEF EnginesLocked
    <3>2. QED
      BY <1>a, <1>b, <1>d, <2>1, <2>3, <3>1, WriterLocks, ZenonT(60)
  <2>4. CASE p \in Ckpts
    <3>1. p \notin Writers
      BY <2>4, CkptDistinct
    <3>2. QED
      BY <1>a, <1>b, <1>d, <2>1, <2>4, <3>1, CkptLocks, ZenonT(60) DEF EnginesLocked, Holding
  <2>5. QED
    BY <2>3, <2>4 DEF Engines
<1>4. Bounded' /\ TailAboveRoot' /\ AckedKept' /\ IdsOf(wal') = {}
  BY <1>a, <1>b DEF Bounded, TailAboveRoot, AckedKept, IdsOf
<1>5. HoldersCover'
  <2>1. CASE p \in Writers
    <3>1. p \notin Ckpts /\ Ckpts \subseteq Engines
      BY <2>1, WriterDistinct
    <3>2. NoWarm => NoWarm'
      BY <1>d, <3>1, ZenonT(60) DEF NoWarm
    <3>3. Covers(eng[p])'
      BY <1>a, <1>b, <1>4, <3>2, ZenonT(60) DEF Covers, MustCommit
    <3>4. QED
      BY <1>b, <1>d, <1>2, <3>1, <3>3, WriterCovers, ZenonT(60)
  <2>2. CASE p \in Ckpts
    <3>1. p \notin Writers
      BY <2>2, CkptDistinct
    <3>2. QED
      BY <1>b, <1>d, <1>2, <3>1, ZenonT(60) DEF HoldersCover, Holding
  <2>3. QED
    BY <2>1, <2>2 DEF Engines
<1>6. WarmMatches'
  <2>1. ASSUME p \in Ckpts PROVE WarmAt(p)'
    <3>1. p \notin Writers /\ WarmAt(p)
      BY <2>1, CkptDistinct DEF WarmMatches
    <3>2. Matches(eng[p], manifest) /\ Before(manifest, manifest)
      BY <1>a, <3>1, BeforeSelf, ZenonT(60) DEF WarmAt
    <3>3. Matches(eng[p], manifest)'
      BY <1>b, <3>2, ZenonT(60) DEF Matches
    <3>4. tokens'[p] # None => Before(tokens[p], manifest)'
      BY <1>b, <1>d, <3>1, <3>2, ZenonT(60) DEF WarmAt, Before
    <3>5. tokens'[p] = manifest => Matches(eng[p], tokens[p])'
      BY <1>b, <3>2, ZenonT(60) DEF Matches
    <3>6. QED
      BY <1>a, <1>b, <1>d, <3>1, <3>3, <3>4, <3>5, ZenonT(60) DEF WarmAt
  <2>2. QED
    BY <1>2, <2>1 DEF WarmMatches
<1>7. QED
  BY <1>1, <1>2, <1>3, <1>4, <1>5, <1>6

=============================================================================
