----------------------------- MODULE StoreLemmas -----------------------------
(***************************************************************************)
(* Lemmas about the operators of the model: what Max, loads, replays,      *)
(* folds and commits return, and what a step that leaves a variable alone  *)
(* leaves true.                                                            *)
(***************************************************************************)
EXTENDS LodeStoreInv, WellFoundedInduction, TLAPS

\* The time the provers get for a leaf that names none of them.
USE SMTT(40), ZenonT(60)

\* A nonempty bounded set of naturals has a maximum, and Max returns it: the LSN
\* floor and the watermark of a replay are such maxima.
LEMMA MaxOfBounded ==
  ASSUME NEW S \in SUBSET Nat, S # {},
         NEW n \in Nat, \A x \in S : x <= n
  PROVE  Max(S) \in S /\ \A x \in S : x <= Max(S)
<1> DEFINE Bound == {m \in Nat : \A x \in S : x <= m}
<1>1. Bound # {}
  OBVIOUS
<1>2. PICK m \in Bound : \A y \in Bound : ~(<<y, m>> \in OpToRel(<, Nat))
  <2> HIDE DEF Bound
  <2>1. Bound \subseteq Nat
    BY DEF Bound
  <2>2. QED
    BY <1>1, <2>1, NatLessThanWellFounded, WFMin
<1>3. m \in S
  <2>1. SUFFICES ASSUME m \notin S PROVE FALSE
    OBVIOUS
  <2>2. \A x \in S : x < m
    BY <2>1
  <2>3. m # 0
    <3>1. PICK x \in S : TRUE
      BY Zenon
    <3>2. QED
      BY <2>2, <3>1
  <2>4. m - 1 \in Bound
    BY <2>2, <2>3
  <2>5. <<m - 1, m>> \in OpToRel(<, Nat)
    BY <2>3 DEF OpToRel
  <2>6. QED
    BY <2>4, <2>5, <1>2
<1>4. \A x \in S : m >= x
  OBVIOUS
<1>5. QED
  BY <1>3, <1>4, Zenon DEF Max

\* The maximum of two: a watermark clamped to a generation.
LEMMA MaxOfTwo ==
  ASSUME NEW a \in Nat, NEW b \in Nat
  PROVE  Max({a, b}) = IF a >= b THEN a ELSE b
<1>1. \E x \in {a, b} : \A y \in {a, b} : x >= y
  BY a >= b \/ b >= a
<1>2. QED
  BY <1>1 DEF Max

\* What apply_replay_records returns: every record applied, the watermark above
\* them all, the generation above the watermark.
LEMMA ReplayedFacts ==
  ASSUME NEW e \in EngineState, NEW recs \in SUBSET Record,
         NEW n \in Nat, \A r \in recs : r.lsn <= n,
         NEW bump \in 0 .. MaxBump
  PROVE  LET x == Replayed(e, recs, bump) IN
         /\ x \in EngineState
         /\ x.docs = e.docs \cup IdsOf(recs) /\ x.pending = e.pending \cup IdsOf(recs)
         /\ x.persisted_applied_lsn = e.persisted_applied_lsn
         /\ x.dirty = (e.dirty \/ bump > 0)
         /\ e.applied_lsn <= x.applied_lsn /\ \A r \in recs : r.lsn <= x.applied_lsn
         /\ x.applied_lsn <= x.generation /\ e.generation <= x.generation
<1> DEFINE S == {e.applied_lsn} \cup LsnsOf(recs)
           applied == Max(S)
           gen == Max({e.generation + bump, applied})
<1>0. bump \in Nat
  BY EngineAssumption
<1>1. e.applied_lsn \in Nat /\ e.generation \in Nat /\ e.docs \subseteq Ids /\ e.pending \subseteq Ids
      /\ e.dirty \in BOOLEAN /\ e.persisted_applied_lsn \in Nat
  BY DEF EngineState
<1>2. S \in SUBSET Nat /\ S # {}
  BY <1>1 DEF LsnsOf, Record
<1>3. applied \in S /\ \A x \in S : x <= applied
  <2>1. n + e.applied_lsn \in Nat /\ \A x \in S : x <= n + e.applied_lsn
    BY <1>1 DEF LsnsOf, Record
  <2>2. QED
    BY <1>2, <2>1, MaxOfBounded, Zenon
<1>4. applied \in Nat /\ e.applied_lsn <= applied /\ \A r \in recs : r.lsn <= applied
  BY <1>2, <1>3 DEF LsnsOf
<1> HIDE DEF applied
<1>5. gen \in Nat /\ e.generation <= gen /\ applied <= gen
  BY <1>0, <1>1, <1>4, MaxOfTwo
<1>6. IdsOf(recs) \subseteq Ids
  BY DEF IdsOf, Record
<1>7. Replayed(e, recs, bump) =
        [e EXCEPT !.applied_lsn = applied, !.generation = gen, !.docs = e.docs \cup IdsOf(recs),
                  !.pending = e.pending \cup IdsOf(recs), !.dirty = e.dirty \/ bump > 0]
  BY DEF Replayed, applied
<1> HIDE DEF gen
<1>8. QED
  BY <1>0, <1>1, <1>4, <1>5, <1>6, <1>7, Zenon DEF EngineState

\* The one root a commit publishes from an engine that covers the store: its
\* documents, numbered and watermarked by its generation, not before the last.
LEMMA CommitFacts ==
  ASSUME TypeOK, TailAboveRoot,
         NEW e \in EngineState, Covers(e), MustCommit(e), NEW m \in CommitBodies(e)
  PROVE  /\ m \in Manifest /\ m.docs = e.docs
         /\ m.generation = e.generation /\ m.applied_lsn = e.generation /\ e.generation >= 1
         /\ e.applied_lsn <= e.generation
         /\ Before(manifest, m) /\ IdsOf(wal) \subseteq m.docs
<1>1. manifest \in Manifest /\ manifest # None
  BY DEF TypeOK, FilesTyped, Covers
<1>2. e.applied_lsn \in Nat /\ e.generation \in Nat /\ e.docs \subseteq Ids
  BY DEF EngineState
<1>3. /\ e.applied_lsn <= e.generation /\ manifest.applied_lsn <= e.generation
      /\ manifest.generation <= manifest.applied_lsn /\ manifest.generation >= 1
      /\ manifest.generation \in Nat /\ manifest.applied_lsn \in Nat
  BY <1>1 DEF Covers, TailAboveRoot, Manifest
<1>4. e.generation >= 1 /\ manifest.generation <= e.generation
  BY <1>2, <1>3
<1>5. Max({e.generation, 1}) = e.generation /\ Max({e.applied_lsn, e.generation}) = e.generation
  BY <1>2, <1>3, <1>4, MaxOfTwo
<1>6. m = [generation |-> e.generation, applied_lsn |-> e.generation, docs |-> e.docs]
  BY <1>5 DEF CommitBodies, CommitBody, Covers
<1>7. QED
  BY <1>1, <1>2, <1>3, <1>4, <1>6 DEF Manifest, Before, Covers

\* What persist leaves in memory: the engine, clean, at the root's watermark.
LEMMA CommittedFacts ==
  ASSUME NEW e \in EngineState, NEW m \in Manifest
  PROVE  LET x == Committed(e, m) IN
         /\ x \in EngineState /\ ~MustCommit(x)
         /\ x.docs = e.docs /\ x.pending = {} /\ x.generation = e.generation
         /\ x.applied_lsn = m.applied_lsn /\ x.persisted_applied_lsn = m.applied_lsn
<1> DEFINE x == Committed(e, m)
<1>1. m.applied_lsn \in Nat
  BY DEF Manifest
<1>2. x \in EngineState
  BY <1>1, Zenon DEF EngineState, Committed
<1>3. /\ x.docs = e.docs /\ x.pending = {} /\ x.generation = e.generation
      /\ x.applied_lsn = m.applied_lsn /\ x.persisted_applied_lsn = m.applied_lsn
  BY DEF EngineState, Committed
<1>4. ~x.dirty
  BY DEF EngineState, Committed
<1> HIDE DEF x
<1>5. ~MustCommit(x)
  BY <1>1, <1>3, <1>4 DEF MustCommit
<1>6. QED
  BY <1>2, <1>3, <1>5 DEF x

\* The index a load returns is the committed root.
LEMMA LoadFacts ==
  ASSUME TypeOK, TailAboveRoot, manifest # None
  PROVE  /\ LoadedIndex \in EngineState /\ Matches(LoadedIndex, manifest)
         /\ LoadedIndex.pending = {} /\ ~LoadedIndex.dirty
<1>1. manifest \in Manifest /\ manifest.generation <= manifest.applied_lsn
  BY DEF TypeOK, FilesTyped, TailAboveRoot
<1>2. manifest.generation \in Nat /\ manifest.applied_lsn \in Nat /\ manifest.docs \subseteq Ids
  BY <1>1 DEF Manifest
<1>3. CommittedLsn = manifest.applied_lsn
  BY <1>1, <1>2, MaxOfTwo DEF CommittedLsn
<1>4. QED
  BY <1>2, <1>3 DEF LoadedIndex, EngineState, Matches

\* A load followed by the replay of the WAL covers root and WAL, and needs no
\* commit only when it is the root.
LEMMA OpenFacts ==
  ASSUME TypeOK, Bounded, TailAboveRoot, manifest # None,
         NEW bump \in 0 .. MaxBump, BumpFor(LoadedIndex, OpenReplays(wal), bump)
  PROVE  LET x == Replayed(LoadedIndex, OpenReplays(wal), bump) IN
         x \in EngineState /\ Covers(x) /\ (~MustCommit(x) => Matches(x, manifest))
<1> DEFINE l == LoadedIndex
           recs == OpenReplays(wal)
           x == Replayed(l, recs, bump)
<1>1. l \in EngineState /\ Matches(l, manifest) /\ l.pending = {} /\ ~l.dirty
  BY LoadFacts
<1>2. recs \in SUBSET Record /\ recs \subseteq wal
  BY DEF OpenReplays, TypeOK, FilesTyped
<1>3. PICK n \in Nat : \A r \in recs : r.lsn <= n
  BY <1>2 DEF Bounded, LsnsOf, TypeOK, FilesTyped, Record
<1>4. /\ x \in EngineState
      /\ x.docs = l.docs \cup IdsOf(recs) /\ x.pending = IdsOf(recs)
      /\ x.persisted_applied_lsn = manifest.applied_lsn
      /\ x.dirty = (bump > 0)
      /\ manifest.applied_lsn <= x.applied_lsn /\ \A r \in recs : r.lsn <= x.applied_lsn
      /\ x.applied_lsn <= x.generation /\ manifest.applied_lsn <= x.generation
  <2> HIDE DEF recs, l
  <2>1. /\ x \in EngineState
        /\ x.docs = l.docs \cup IdsOf(recs) /\ x.pending = l.pending \cup IdsOf(recs)
        /\ x.persisted_applied_lsn = l.persisted_applied_lsn
        /\ x.dirty = (l.dirty \/ bump > 0)
        /\ l.applied_lsn <= x.applied_lsn /\ \A r \in recs : r.lsn <= x.applied_lsn
        /\ x.applied_lsn <= x.generation /\ l.generation <= x.generation
    BY <1>1, <1>2, <1>3, ReplayedFacts, Zenon
  <2>2. x.dirty = (bump > 0)
    BY <2>1, <1>1
  <2> HIDE DEF x
  <2>3. x.applied_lsn \in Nat /\ x.generation \in Nat /\ l.generation \in Nat /\ l.applied_lsn \in Nat
    BY <1>1, <2>1 DEF EngineState
  <2>4. QED
    BY <1>1, <2>1, <2>2, <2>3 DEF Matches
<1> HIDE DEF x
<1>5. /\ manifest.applied_lsn \in Nat /\ manifest.generation \in Nat
      /\ x.applied_lsn \in Nat /\ x.generation \in Nat /\ manifest.generation <= manifest.applied_lsn
  BY <1>4 DEF TypeOK, FilesTyped, Manifest, EngineState, TailAboveRoot
<1>6. \A r \in wal : r.lsn \in Nat
  BY DEF TypeOK, FilesTyped, Record
<1>7. IdsOf(wal) \subseteq x.docs
  <2>1. SUFFICES ASSUME NEW r \in wal PROVE r.id \in x.docs
    BY DEF IdsOf
  <2>2. r.id \in manifest.docs \/ r \in recs
    BY <1>5, <1>6 DEF TailAboveRoot, OpenReplays
  <2>3. QED
    BY <1>1, <1>4, <2>2 DEF IdsOf, Matches
<1>8. ASSUME ~MustCommit(x) PROVE Matches(x, manifest)
  <2>1. x.applied_lsn = manifest.applied_lsn /\ bump = 0
    <3>1. ~x.dirty
      BY <1>8 DEF MustCommit
    <3>2. ~(x.applied_lsn > x.persisted_applied_lsn)
      BY <1>8 DEF MustCommit
    <3>3. x.applied_lsn = manifest.applied_lsn
      BY <1>4, <1>5, <3>2
    <3>4. ~(bump > 0)
      BY <1>4, <3>1, Zenon
    <3>5. QED
      BY <3>3, <3>4, EngineAssumption
  <2>2. \A r \in recs : r.id \in manifest.docs
    <3>1. SUFFICES ASSUME NEW r \in recs, r.id \notin manifest.docs PROVE FALSE
      OBVIOUS
    <3>2. r.lsn <= manifest.applied_lsn
      BY <1>4, <2>1
    <3>3. r.own
      BY <1>2, <1>5, <1>6, <3>1, <3>2 DEF TailAboveRoot
    <3>4. r.id \notin LoadedIndex.docs
      BY <1>1, <3>1 DEF Matches
    <3>5. QED
      BY <2>1, <3>3, <3>4 DEF BumpFor
  <2>3. x.docs = manifest.docs /\ x.pending \subseteq manifest.docs
    BY <1>1, <1>4, <2>2 DEF IdsOf, Matches
  <2>4. QED
    BY <1>4, <2>1, <2>3 DEF Matches
<1>9. Covers(x)
  <2>1. x.docs = manifest.docs \cup x.pending
    BY <1>1, <1>4 DEF Matches
  <2>2. ~MustCommit(x) => IdsOf(wal) \subseteq manifest.docs
    BY <1>7, <1>8 DEF Matches
  <2>3. QED
    BY <1>4, <1>7, <2>1, <2>2 DEF Covers
<1>10. QED
  BY <1>4, <1>8, <1>9 DEF x

\* A writable open or reload: the index it leaves covers root and WAL, and the
\* commit that must follow is left to the next two steps.
LEMMA LoadAndReplayFacts ==
  ASSUME TypeOK, Bounded, TailAboveRoot, manifest # None,
         NEW p \in Engines, NEW t, NEW idle, LoadAndReplay(p, t, idle)
  PROVE  \E e \in EngineState :
           /\ eng' = [eng EXCEPT ![p] = e] /\ Covers(e)
           /\ ~MustCommit(e) => Matches(e, manifest)
           /\ \/ /\ wal = {} /\ Matches(e, manifest)
                 /\ pc' = [pc EXCEPT ![p] = idle] /\ task' = task
              \/ /\ wal # {}
                 /\ pc' = [pc EXCEPT ![p] = "commit"] /\ task' = [task EXCEPT ![p] = t]
<1>1. CASE wal = {}
  <2>1. LoadedIndex \in EngineState /\ Matches(LoadedIndex, manifest) /\ LoadedIndex.pending = {}
    BY LoadFacts
  <2>2. IdsOf(wal) = {}
    BY <1>1 DEF IdsOf
  <2>3. Covers(LoadedIndex)
    BY <2>1, <2>2 DEF Covers, Matches
  <2>4. QED
    BY <1>1, <2>1, <2>3 DEF LoadAndReplay
<1>2. CASE wal # {}
  <2>1. PICK bump \in 0 .. MaxBump :
          /\ BumpFor(LoadedIndex, OpenReplays(wal), bump)
          /\ eng' = [eng EXCEPT ![p] = Replayed(LoadedIndex, OpenReplays(wal), bump)]
    BY <1>2 DEF LoadAndReplay
  <2> DEFINE x == Replayed(LoadedIndex, OpenReplays(wal), bump)
  <2>2. x \in EngineState /\ Covers(x) /\ (~MustCommit(x) => Matches(x, manifest))
    BY <2>1, OpenFacts
  <2>3. eng' = [eng EXCEPT ![p] = x]
    BY <2>1
  <2> HIDE DEF x
  <2>4. QED
    BY <1>2, <2>2, <2>3, Zenon DEF LoadAndReplay
<1>3. QED
  BY <1>1, <1>2

\* A fold onto an engine that is the root covers root and WAL, and must commit.
LEMMA FoldFacts ==
  ASSUME TypeOK, Bounded, TailAboveRoot, ~NoWarm,
         NEW e \in EngineState, Matches(e, manifest), FoldReplays(e, wal) # {},
         NEW bump \in 0 .. MaxBump
  PROVE  LET x == Replayed(e, FoldReplays(e, wal), bump) IN
         x \in EngineState /\ Covers(x) /\ MustCommit(x)
<1> DEFINE recs == FoldReplays(e, wal)
           x == Replayed(e, recs, bump)
<1>1. recs \in SUBSET Record /\ recs \subseteq wal
  BY DEF FoldReplays, TypeOK, FilesTyped
<1>2. PICK n \in Nat : \A r \in recs : r.lsn <= n
  BY <1>1 DEF Bounded, LsnsOf, TypeOK, FilesTyped, Record
<1>3. /\ x \in EngineState
      /\ x.docs = e.docs \cup IdsOf(recs) /\ x.pending = e.pending \cup IdsOf(recs)
      /\ x.persisted_applied_lsn = e.persisted_applied_lsn
      /\ e.applied_lsn <= x.applied_lsn /\ \A r \in recs : r.lsn <= x.applied_lsn
      /\ x.applied_lsn <= x.generation /\ e.generation <= x.generation
  <2> HIDE DEF recs
  <2>1. QED
    BY <1>1, <1>2, ReplayedFacts, Zenon
<1> HIDE DEF x
<1>4. /\ manifest # None /\ manifest.applied_lsn \in Nat
      /\ x.applied_lsn \in Nat /\ x.generation \in Nat /\ e.generation \in Nat
  BY <1>3 DEF TypeOK, FilesTyped, Manifest, EngineState, Matches
<1>5. \A r \in wal : r.lsn \in Nat
  BY DEF TypeOK, FilesTyped, Record
<1>6. x.applied_lsn > x.persisted_applied_lsn
  <2>1. PICK r \in recs : TRUE
    OBVIOUS
  <2>2. r.lsn > manifest.applied_lsn /\ r.lsn \in Nat
    BY <1>1, <1>5, <2>1 DEF FoldReplays, Matches
  <2>3. r.lsn <= x.applied_lsn
    BY <1>3, <2>1
  <2>4. QED
    BY <1>3, <1>4, <2>2, <2>3 DEF Matches
<1>7. IdsOf(wal) \subseteq x.docs
  <2>1. SUFFICES ASSUME NEW r \in wal PROVE r.id \in x.docs
    BY DEF IdsOf
  <2>2. r.id \in manifest.docs \/ r \in recs
    BY <1>4 DEF TailAboveRoot, FoldReplays, Matches
  <2>3. QED
    BY <1>3, <2>2 DEF IdsOf, Matches
<1>8. MustCommit(x)
  BY <1>6 DEF MustCommit
<1>9. Covers(x)
  BY <1>3, <1>4, <1>7, <1>8 DEF Covers, Matches
<1>10. QED
  BY <1>3, <1>8, <1>9 DEF x

\* A mutation in memory still covers root and WAL, and must be committed; its
\* record is above the root's watermark, or is the first of a new store.
LEMMA MutatedFacts ==
  ASSUME TypeOK, NEW e \in EngineState, Covers(e), nextId \in Ids
  PROVE  LET x == Mutated(e)
             r == OwnRecord(e) IN
         /\ x \in EngineState /\ MustCommit(x)
         /\ x.docs = manifest.docs \cup x.pending
         /\ IdsOf(wal) \subseteq x.docs /\ nextId \in x.docs
         /\ x.applied_lsn <= x.generation /\ manifest.applied_lsn <= x.generation
         /\ r \in Record /\ r.id = nextId /\ r.lsn \in Nat /\ r.own
         /\ r.lsn > manifest.applied_lsn \/ (r.lsn = manifest.applied_lsn /\ NoWarm)
<1> DEFINE x == Mutated(e)
           r == OwnRecord(e)
<1>1. /\ manifest # None /\ manifest.applied_lsn \in Nat
      /\ e.generation \in Nat /\ e.applied_lsn \in Nat /\ e.docs \subseteq Ids /\ e.pending \subseteq Ids
  BY DEF Covers, TypeOK, FilesTyped, Manifest, EngineState
<1>2. /\ x.docs = e.docs \cup {nextId} /\ x.pending = e.pending \cup {nextId}
      /\ x.generation = e.generation + 1 /\ x.applied_lsn = e.applied_lsn
  BY DEF EngineState, Mutated
<1>3. x.dirty = TRUE
  BY DEF EngineState, Mutated
<1>4. x \in EngineState
  <2>1. /\ e.generation + 1 \in Nat
        /\ e.docs \cup {nextId} \in SUBSET Ids /\ e.pending \cup {nextId} \in SUBSET Ids
    BY <1>1
  <2>2. QED
    BY <2>1, Zenon DEF EngineState, Mutated
<1>5. r \in Record /\ r.id = nextId /\ r.lsn = e.generation + 1 /\ r.own
  BY <1>1 DEF OwnRecord, Record
<1> HIDE DEF x, r
<1>6. MustCommit(x)
  BY <1>3 DEF MustCommit
<1>7. \/ e.applied_lsn <= e.generation /\ manifest.applied_lsn <= e.generation
      \/ e.generation = 0 /\ e.applied_lsn = 1 /\ manifest.applied_lsn = 1 /\ NoWarm
  BY DEF Covers
<1>8. x.docs = manifest.docs \cup x.pending /\ IdsOf(wal) \subseteq x.docs /\ nextId \in x.docs
  BY <1>2 DEF Covers
<1>9. x.applied_lsn <= x.generation /\ manifest.applied_lsn <= x.generation
  BY <1>1, <1>2, <1>7
<1>10. r.lsn > manifest.applied_lsn \/ (r.lsn = manifest.applied_lsn /\ NoWarm)
  BY <1>1, <1>5, <1>7
<1>11. r.lsn \in Nat
  BY <1>1, <1>5
<1>12. QED
  BY <1>4, <1>5, <1>6, <1>8, <1>9, <1>10, <1>11, Zenon DEF x, r

-----------------------------------------------------------------------------
(* What a step leaves alone.                                               *)

\* The tail stays above the root in a step that touches neither.
LEMMA FrameTail ==
  ASSUME Bounded, TailAboveRoot, UNCHANGED <<manifest, wal, pc, task>>
  PROVE  Bounded' /\ TailAboveRoot'
BY DEF Bounded, LsnsOf, TailAboveRoot, NoWarm

\* The lock holder still covers the store in a step that leaves both alone.
LEMMA FrameCover ==
  ASSUME HoldersCover, UNCHANGED <<manifest, wal, pc, task, mode, eng>>
  PROVE  HoldersCover'
BY DEF HoldersCover, Covers, NoWarm, MustCommit, IdsOf

\* A warm engine still matches its root in a step that changes neither.
LEMMA FrameWarm ==
  ASSUME WarmMatches, UNCHANGED <<manifest, pc, task, eng, tokens, needs>>
  PROVE  WarmMatches'
BY DEF WarmMatches, WarmAt, Matches, Before, MustCommit

\* The engines' locks are as they were in a step that takes or frees none.
LEMMA FrameEngines ==
  ASSUME EnginesLocked, UNCHANGED <<pc, task, mode, excl, lease>>
  PROVE  EnginesLocked'
BY DEF EnginesLocked

\* Memory of a process that does not step has its type still.
LEMMA FrameTyped ==
  ASSUME EnginesTyped, ReadersTyped, UNCHANGED <<engineVars, readerVars>>
  PROVE  EnginesTyped' /\ ReadersTyped'
BY DEF EnginesTyped, ReadersTyped, engineVars, readerVars

\* One more record keeps the LSNs of the WAL bounded.
LEMMA AddKeepsBounded ==
  ASSUME Bounded, NEW x, wal' = wal \cup {x}, x.lsn \in Nat, \A r \in wal : r.lsn \in Nat
  PROVE  Bounded'
<1>1. PICK n \in LsnsOf(wal) \cup {0} : \A r \in wal : r.lsn <= n
  BY DEF Bounded
<1>2. n \in Nat
  BY DEF LsnsOf
<1>3. x.lsn \in LsnsOf(wal') /\ LsnsOf(wal) \subseteq LsnsOf(wal')
  BY DEF LsnsOf
<1>4. CASE n >= x.lsn
  BY <1>1, <1>2, <1>3, <1>4 DEF Bounded
<1>5. CASE n < x.lsn
  <2>1. \A r \in wal' : r.lsn <= x.lsn
    BY <1>1, <1>2, <1>5
  <2>2. QED
    BY <1>3, <2>1 DEF Bounded
<1>6. QED
  BY <1>2, <1>4, <1>5

-----------------------------------------------------------------------------
(* Engines.                                                                *)

\* The holder of the exclusive lock has the store to itself.
LEMMA HolderAlone ==
  ASSUME TypeOK, AppendersLocked, EnginesLocked, NEW p \in Engines, pc[p] \in Holding
  PROVE  /\ excl = p /\ p # None /\ shared = {}
         /\ \A q \in Engines \ {p} : pc[q] \notin Holding
         /\ \A a \in Appenders : apc[a] \in {"closed", "idle"}
<1>1. excl = p /\ p # None
  BY ProcessesDistinct DEF EnginesLocked
<1>2. shared = {}
  BY <1>1 DEF AppendersLocked
<1>3. QED
  BY <1>1, <1>2 DEF EnginesLocked, AppendersLocked, TypeOK, AppendersTyped, AppenderPcs

\* Whoever finds the lock free finds no engine and no append at work.
LEMMA LockFree ==
  ASSUME TypeOK, AppendersLocked, EnginesLocked, ExclusiveFree
  PROVE  /\ \A q \in Engines : pc[q] \notin Holding
         /\ \A a \in Appenders : apc[a] \in {"closed", "idle"}
<1>1. None \notin Engines
  BY ProcessesDistinct
<1>2. QED
  BY <1>1 DEF EnginesLocked, AppendersLocked, TypeOK, AppendersTyped, AppenderPcs, ExclusiveFree

\* A writer is an engine and no checkpointer.
LEMMA WriterDistinct ==
  ASSUME NEW w \in Writers
  PROVE  w \in Engines /\ w \notin Ckpts /\ w # None /\ Ckpts \subseteq Engines
BY ProcessesDistinct DEF Engines

\* With no append in progress, what an engine does is no appender's concern.
LEMMA FrameAppends ==
  ASSUME TypeOK, AppendersLocked, \A a \in Appenders : apc[a] \in {"closed", "idle"},
         UNCHANGED <<apc, shared, ctr>>
  PROVE  AppendersLocked' /\ NotBuried' /\ AppendsSound'
<1>1. shared = {}
  BY DEF AppendersLocked, TypeOK, LocksTyped
<1>2. QED
  BY <1>1 DEF AppendersLocked, NotBuried, AppendsSound

\* Memory of appenders and readers keeps its type in an engine's step.
LEMMA FrameOthers ==
  ASSUME TypeOK, UNCHANGED <<appenderVars, readerVars>>
  PROVE  AppendersTyped' /\ ReadersTyped'
BY DEF TypeOK, AppendersTyped, ReadersTyped, appenderVars, readerVars

\* A writer's step that swaps no root leaves the checkpointers as they were.
LEMMA FrameCkpts ==
  ASSUME WarmMatches, UNCHANGED manifest,
         \A c \in Ckpts : /\ pc'[c] = pc[c] /\ task'[c] = task[c] /\ eng'[c] = eng[c]
                          /\ tokens'[c] = tokens[c] /\ needs'[c] = needs[c]
  PROVE  WarmMatches' /\ (NoWarm => NoWarm')
BY DEF WarmMatches, WarmAt, Matches, Before, MustCommit, NoWarm

\* The tail stays above the root in a step that makes no engine warm.
LEMMA FrameTailWarm ==
  ASSUME Bounded, TailAboveRoot, UNCHANGED <<manifest, wal>>, NoWarm => NoWarm'
  PROVE  Bounded' /\ TailAboveRoot'
BY DEF Bounded, LsnsOf, TailAboveRoot

\* An engine's step that leaves the root, the WAL and the acknowledged alone.
LEMMA FrameKept ==
  ASSUME AckedKept, UNCHANGED <<manifest, wal, acked, behind>>
  PROVE  AckedKept'
BY DEF AckedKept, IdsOf

\* A root is not after itself.
LEMMA BeforeSelf ==
  ASSUME NEW m \in Manifest
  PROVE  Before(m, m)
BY DEF Before, Manifest

=============================================================================
