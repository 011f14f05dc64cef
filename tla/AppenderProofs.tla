--------------------------- MODULE AppenderProofs ---------------------------
(***************************************************************************)
(* Every step of an appender keeps the invariant, for any number of        *)
(* processes, records and crashes.                                         *)
(***************************************************************************)
EXTENDS StoreLemmas

\* The time the provers get for a leaf that names none of them.
USE SMTT(40), ZenonT(60)

\* Steps that need the counter's lock.
Counting == {"seeding", "reserved", "framed"}

\* While the counter's lock is free, no call is past its wait for it.
LEMMA CounterFree ==
  ASSUME AppendersLocked, ctr = None
  PROVE  \A a \in Appenders : apc[a] \notin Counting
BY ProcessesDistinct DEF AppendersLocked, Counting

\* While an appender's call is in progress no engine holds the store, and one call
\* at a time is past the counter's lock.
LEMMA AppendAlone ==
  ASSUME AppendersLocked, EnginesLocked, NEW a \in Appenders, apc[a] \notin {"closed", "idle"}
  PROVE  /\ excl = None /\ \A p \in Engines : pc[p] \notin Holding
         /\ apc[a] \in Counting => \A b \in Appenders \ {a} : apc[b] \notin Counting
<1>1. excl = None
  BY DEF AppendersLocked
<1>2. \A p \in Engines : pc[p] \notin Holding
  BY <1>1, ProcessesDistinct DEF EnginesLocked, Engines
<1>3. QED
  BY <1>1, <1>2 DEF AppendersLocked, Counting

\* The floor of a reservation is not below the committed watermark.
LEMMA FloorFacts ==
  ASSUME TypeOK, Bounded, TailAboveRoot, manifest # None
  PROVE  /\ ScannedFloor \in Nat /\ LsnFloor \in Nat /\ manifest.applied_lsn <= LsnFloor
<1>1. /\ manifest.applied_lsn \in Nat /\ manifest.generation \in Nat
      /\ manifest.generation <= manifest.applied_lsn
  BY DEF TypeOK, FilesTyped, Manifest, TailAboveRoot
<1>2. CommittedLsn = manifest.applied_lsn
  BY <1>1, MaxOfTwo DEF CommittedLsn
<1>3. CounterLsn \in Nat
  BY DEF CounterLsn, TypeOK, FilesTyped
<1> DEFINE S == {CounterLsn, CommittedLsn} \cup LsnsOf(wal)
<1>4. S \in SUBSET Nat /\ S # {}
  BY <1>1, <1>2, <1>3 DEF TypeOK, FilesTyped, LsnsOf, Record
<1>5. PICK n \in Nat : \A r \in wal : r.lsn <= n
  BY DEF Bounded, LsnsOf, TypeOK, FilesTyped, Record
<1>6. n + CounterLsn + CommittedLsn \in Nat /\ \A x \in S : x <= n + CounterLsn + CommittedLsn
  BY <1>1, <1>2, <1>3, <1>4, <1>5 DEF LsnsOf
<1>7. Max(S) \in S /\ \A x \in S : x <= Max(S)
  <2> HIDE DEF S
  <2>1. QED
    BY <1>4, <1>6, MaxOfBounded, Zenon
<1>8. ScannedFloor \in Nat /\ manifest.applied_lsn <= ScannedFloor
  BY <1>2, <1>4, <1>7 DEF ScannedFloor
<1>9. Max({CounterLsn, CommittedLsn}) \in Nat /\ manifest.applied_lsn <= Max({CounterLsn, CommittedLsn})
  BY <1>1, <1>2, <1>3, MaxOfTwo
<1>10. QED
  BY <1>8, <1>9 DEF LsnFloor

\* CoreAppender.open, the shared lock, keeps the invariant.
LEMMA OpenKeeps ==
  ASSUME Inv, NEW a \in Appenders, Open(a), UNCHANGED <<engineVars, readerVars>>
  PROVE  Inv'
<1> USE DEF Inv
<1>1. TypeOK'
  <2>1. FilesTyped' /\ HistoryTyped'
    BY DEF TypeOK, FilesTyped, HistoryTyped, Open, fileVars, histVars
  <2>2. LocksTyped'
    BY DEF TypeOK, LocksTyped, Open, LockShared
  <2>3. AppendersTyped'
    BY DEF TypeOK, AppendersTyped, Open, AppenderPcs
  <2>4. QED
    BY <2>1, <2>2, <2>3, FrameTyped DEF TypeOK
<1>2. AppendersLocked'
  BY DEF AppendersLocked, Open, LockShared, SharedFree, TypeOK, AppendersTyped
<1>3. EnginesLocked' /\ NothingYet'
  BY FrameEngines DEF NothingYet, Open, engineVars, fileVars
<1>4. Bounded' /\ TailAboveRoot' /\ HoldersCover' /\ WarmMatches'
  BY FrameTail, FrameCover, FrameWarm DEF Open, engineVars, fileVars
<1>5. NotBuried' /\ AppendsSound'
  BY DEF NotBuried, AppendsSound, Open, TypeOK, AppendersTyped, fileVars, histVars
<1>6. AckedKept'
  BY FrameKept DEF Open, fileVars, histVars
<1>10. QED
  BY <1>1, <1>2, <1>3, <1>4, <1>5, <1>6

\* CoreAppender.open, the repair of a torn tail, keeps the invariant.
LEMMA OpenRepairKeeps ==
  ASSUME Inv, NEW a \in Appenders, OpenRepair(a), UNCHANGED <<engineVars, readerVars>>
  PROVE  Inv'
<1> USE DEF Inv
<1>1. TypeOK'
  <2>1. FilesTyped'
    BY DEF TypeOK, FilesTyped, OpenRepair, RepairTornTail, TornStates
  <2>2. LocksTyped'
    BY DEF TypeOK, LocksTyped, OpenRepair, LockCounter
  <2>3. HistoryTyped'
    BY DEF TypeOK, HistoryTyped, OpenRepair, histVars
  <2>4. AppendersTyped'
    BY DEF TypeOK, AppendersTyped, OpenRepair, AppenderPcs
  <2>5. QED
    BY <2>1, <2>2, <2>3, <2>4, FrameTyped DEF TypeOK
<1>2. AppendersLocked'
  BY CounterFree DEF AppendersLocked, OpenRepair, LockCounter, Counting, TypeOK, AppendersTyped
<1>3. EnginesLocked' /\ NothingYet'
  BY FrameEngines DEF NothingYet, OpenRepair, engineVars
<1>4. Bounded' /\ TailAboveRoot' /\ HoldersCover' /\ WarmMatches'
  BY FrameTail, FrameCover, FrameWarm DEF OpenRepair, RepairTornTail, engineVars
<1>5. NotBuried' /\ AppendsSound'
  BY DEF NotBuried, AppendsSound, OpenRepair, RepairTornTail, TypeOK, AppendersTyped, histVars
<1>6. AckedKept'
  BY DEF AckedKept, OpenRepair, RepairTornTail, histVars
<1>10. QED
  BY <1>1, <1>2, <1>3, <1>4, <1>5, <1>6

\* CoreAppender.open, the seeding of the counter, keeps the invariant.
LEMMA OpenSeedKeeps ==
  ASSUME Inv, NEW a \in Appenders, OpenSeed(a), UNCHANGED <<engineVars, readerVars>>
  PROVE  Inv'
<1> USE DEF Inv
<1>0. manifest # None
  BY DEF NothingYet, OpenSeed
<1>1. TypeOK'
  <2>1. FilesTyped'
    BY <1>0, FloorFacts DEF TypeOK, FilesTyped, OpenSeed
  <2>2. LocksTyped'
    BY DEF TypeOK, LocksTyped, OpenSeed, Leave
  <2>3. HistoryTyped'
    BY DEF TypeOK, HistoryTyped, OpenSeed, histVars
  <2>4. AppendersTyped'
    BY DEF TypeOK, AppendersTyped, OpenSeed, AppenderPcs
  <2>5. QED
    BY <2>1, <2>2, <2>3, <2>4, FrameTyped DEF TypeOK
<1>2. AppendersLocked'
  BY AppendAlone, ProcessesDistinct DEF AppendersLocked, OpenSeed, Leave, TypeOK, AppendersTyped
<1>3. EnginesLocked' /\ NothingYet'
  BY <1>0, FrameEngines DEF NothingYet, OpenSeed, engineVars
<1>4. Bounded' /\ TailAboveRoot' /\ HoldersCover' /\ WarmMatches'
  BY FrameTail, FrameCover, FrameWarm DEF OpenSeed, engineVars
<1>5. NotBuried' /\ AppendsSound'
  BY DEF NotBuried, AppendsSound, OpenSeed, TypeOK, AppendersTyped, histVars
<1>6. AckedKept'
  BY DEF AckedKept, OpenSeed, histVars
<1>10. QED
  BY <1>1, <1>2, <1>3, <1>4, <1>5, <1>6

\* append_one, the shared lock, keeps the invariant.
LEMMA AppendKeeps ==
  ASSUME Inv, NEW a \in Appenders, Append(a), UNCHANGED <<engineVars, readerVars>>
  PROVE  Inv'
<1> USE DEF Inv
<1>0. manifest # None
  BY DEF NothingYet, Append
<1> DEFINE rec == [lsn |-> 0, id |-> nextId, own |-> FALSE]
<1>b. nextId \in Ids /\ nextId + 1 \in 1 .. MaxRecs + 1
  BY BoundsAreNaturals DEF TypeOK, HistoryTyped, Append, Ids
<1>c. rec \in Record
  BY <1>b DEF Record
<1>d. arec' = [arec EXCEPT ![a] = rec]
  BY DEF Append
<1> HIDE DEF rec
<1>e. rec # None
  BY <1>c, NoneIsNoValue
<1>1. TypeOK'
  <2>1. FilesTyped'
    BY DEF TypeOK, FilesTyped, Append, fileVars
  <2>2. LocksTyped'
    BY DEF TypeOK, LocksTyped, Append, LockShared
  <2>3. HistoryTyped'
    BY <1>b DEF TypeOK, HistoryTyped, Append
  <2>4. AppendersTyped'
    BY <1>c, <1>d, ZenonT(60) DEF TypeOK, AppendersTyped, Append, AppenderPcs
  <2>5. QED
    BY <2>1, <2>2, <2>3, <2>4, FrameTyped DEF TypeOK
<1>2. AppendersLocked'
  BY DEF AppendersLocked, Append, LockShared, SharedFree, TypeOK, AppendersTyped
<1>3. EnginesLocked' /\ NothingYet'
  BY <1>0, FrameEngines DEF NothingYet, Append, engineVars, fileVars
<1>4. Bounded' /\ TailAboveRoot' /\ HoldersCover' /\ WarmMatches'
  BY FrameTail, FrameCover, FrameWarm DEF Append, engineVars, fileVars
<1>5. NotBuried' /\ AppendsSound'
  BY <1>d, <1>e, ZenonT(60) DEF NotBuried, AppendsSound, Append, TypeOK, AppendersTyped, fileVars
<1>6. AckedKept'
  BY FrameKept DEF Append, fileVars
<1>10. QED
  BY <1>1, <1>2, <1>3, <1>4, <1>5, <1>6

\* append_one, the reservation of an LSN, keeps the invariant: the LSN is above
\* the committed watermark.
LEMMA ReserveKeeps ==
  ASSUME Inv, NEW a \in Appenders, Reserve(a), UNCHANGED <<engineVars, readerVars>>
  PROVE  Inv'
<1> USE DEF Inv
<1>0. manifest # None
  BY DEF NothingYet, Reserve
<1> DEFINE rec == [arec[a] EXCEPT !.lsn = LsnFloor + 1]
<1>a. LsnFloor \in Nat /\ manifest.applied_lsn <= LsnFloor /\ manifest.applied_lsn \in Nat
  BY <1>0, FloorFacts DEF TypeOK, FilesTyped, Manifest
<1>b. arec[a] \in Record
  BY DEF TypeOK, AppendersTyped, AppendsSound, Reserve
<1>c. rec \in Record
  BY <1>a, <1>b DEF Record
<1>d. rec # None
  <2> HIDE DEF rec
  <2>1. QED
    BY <1>c, NoneIsNoValue
<1>e. rec.lsn > manifest.applied_lsn
  BY <1>a, <1>b DEF Record
<1>f. arec' = [arec EXCEPT ![a] = rec]
  BY DEF Reserve, TypeOK, AppendersTyped
<1> HIDE DEF rec
<1>1. TypeOK'
  <2>1. FilesTyped'
    BY DEF TypeOK, FilesTyped, Reserve, RepairTornTail, TornStates
  <2>2. LocksTyped'
    BY DEF TypeOK, LocksTyped, Reserve, LockCounter
  <2>3. HistoryTyped'
    BY DEF TypeOK, HistoryTyped, Reserve, Slips
  <2>4. AppendersTyped'
    BY <1>c, <1>f, Zenon DEF TypeOK, AppendersTyped, Reserve, AppenderPcs
  <2>5. QED
    BY <2>1, <2>2, <2>3, <2>4, FrameTyped DEF TypeOK
<1>2. AppendersLocked'
  BY CounterFree DEF AppendersLocked, Reserve, LockCounter, Counting, TypeOK, AppendersTyped
<1>3. EnginesLocked' /\ NothingYet'
  BY <1>0, FrameEngines DEF NothingYet, Reserve, engineVars
<1>4. Bounded' /\ TailAboveRoot' /\ HoldersCover' /\ WarmMatches'
  BY FrameTail, FrameCover, FrameWarm DEF Reserve, RepairTornTail, engineVars
<1>5. NotBuried' /\ AppendsSound'
  <2>1. NotBuried'
    BY DEF NotBuried, Reserve, RepairTornTail
  <2>2. QED
    BY <1>d, <1>e, <1>f, <2>1, ZenonT(60) DEF AppendsSound, Reserve, RepairTornTail, TypeOK, AppendersTyped
<1>6. AckedKept'
  BY DEF AckedKept, Reserve, RepairTornTail
<1>10. QED
  BY <1>1, <1>2, <1>3, <1>4, <1>5, <1>6

\* append_one, the write of the frame, keeps the invariant: the frame is not
\* behind torn bytes, and no engine is at work.
LEMMA WriteFrameKeeps ==
  ASSUME Inv, NEW a \in Appenders, WriteFrame(a), UNCHANGED <<engineVars, readerVars>>
  PROVE  Inv'
<1> USE DEF Inv
<1>0. manifest # None
  BY DEF NothingYet, WriteFrame
<1>a. \A p \in Engines : pc[p] \notin Holding
  BY AppendAlone DEF WriteFrame
<1>b. torn = "none" /\ arec[a] # None /\ arec[a].lsn > manifest.applied_lsn
  BY DEF NotBuried, AppendsSound, WriteFrame
<1>c. arec[a] \in Record
  BY <1>b DEF TypeOK, AppendersTyped
<1>d. arec[a].lsn \in Nat /\ \A r \in wal : r.lsn \in Nat
  BY <1>c DEF Record, TypeOK, FilesTyped
<1>e. /\ wal' = wal \cup {arec[a]} /\ logged' = logged \cup {arec[a]}
      /\ buried' = buried /\ torn' = torn /\ behind' = behind
  BY <1>b DEF WriteFrame, AppendRecord
<1>1. TypeOK'
  <2>1. FilesTyped'
    BY <1>c, <1>e DEF TypeOK, FilesTyped, WriteFrame
  <2>2. LocksTyped'
    BY DEF TypeOK, LocksTyped, WriteFrame, lockVars
  <2>3. HistoryTyped'
    BY <1>c, <1>e DEF TypeOK, HistoryTyped, WriteFrame
  <2>4. AppendersTyped'
    BY DEF TypeOK, AppendersTyped, WriteFrame, AppenderPcs
  <2>5. QED
    BY <2>1, <2>2, <2>3, <2>4, FrameTyped DEF TypeOK
<1>2. AppendersLocked'
  BY DEF AppendersLocked, WriteFrame, lockVars, TypeOK, AppendersTyped
<1>3. EnginesLocked' /\ NothingYet'
  BY <1>0, FrameEngines DEF NothingYet, WriteFrame, engineVars, lockVars
<1>4. Bounded' /\ TailAboveRoot' /\ HoldersCover' /\ WarmMatches'
  <2>1. Bounded'
    BY <1>d, <1>e, AddKeepsBounded
  <2>2. TailAboveRoot'
    BY <1>b, <1>e DEF TailAboveRoot, NoWarm, WriteFrame, engineVars
  <2>3. HoldersCover'
    BY <1>a DEF HoldersCover, engineVars, Holding
  <2>4. QED
    BY <2>1, <2>2, <2>3, FrameWarm DEF WriteFrame, engineVars
<1>5. NotBuried' /\ AppendsSound'
  <2>1. \A b \in Appenders \ {a} : apc'[b] = apc[b] /\ apc'[b] \notin Counting
    BY AppendAlone DEF WriteFrame, TypeOK, AppendersTyped, Counting
  <2>2. arec' = arec /\ apc'[a] = "framed"
    BY DEF WriteFrame, TypeOK, AppendersTyped
  <2>3. QED
    BY <1>b, <1>e, <2>1, <2>2 DEF NotBuried, AppendsSound, Counting
<1>6. AckedKept'
  BY <1>e DEF AckedKept, WriteFrame, IdsOf
<1>10. QED
  BY <1>1, <1>2, <1>3, <1>4, <1>5, <1>6

\* append_one, the return of the LSN, keeps the invariant: what it acknowledges is
\* in the WAL.
LEMMA PublishKeeps ==
  ASSUME Inv, NEW a \in Appenders, Publish(a), UNCHANGED <<engineVars, readerVars>>
  PROVE  Inv'
<1> USE DEF Inv
<1>0. manifest # None
  BY DEF NothingYet, Publish
<1>a. arec[a] # None /\ arec[a] \in wal \cap logged
  BY DEF AppendsSound, Publish
<1>b. arec[a].lsn \in Nat
  BY <1>a DEF TypeOK, FilesTyped, Record
<1>1. TypeOK'
  <2>1. FilesTyped'
    BY <1>b DEF TypeOK, FilesTyped, Publish
  <2>2. LocksTyped'
    BY DEF TypeOK, LocksTyped, Publish, Leave
  <2>3. HistoryTyped'
    BY <1>a DEF TypeOK, HistoryTyped, Publish
  <2>4. AppendersTyped'
    BY DEF TypeOK, AppendersTyped, Publish, AppenderPcs
  <2>5. QED
    BY <2>1, <2>2, <2>3, <2>4, FrameTyped DEF TypeOK
<1>2. AppendersLocked'
  BY AppendAlone, ProcessesDistinct DEF AppendersLocked, Publish, Leave, TypeOK, AppendersTyped
<1>3. EnginesLocked' /\ NothingYet'
  BY <1>0, FrameEngines DEF NothingYet, Publish, engineVars
<1>4. Bounded' /\ TailAboveRoot' /\ HoldersCover' /\ WarmMatches'
  BY FrameTail, FrameCover, FrameWarm DEF Publish, engineVars
<1>5. NotBuried' /\ AppendsSound'
  BY DEF NotBuried, AppendsSound, Publish, TypeOK, AppendersTyped
<1>6. AckedKept'
  BY <1>a DEF AckedKept, Publish, IdsOf
<1>10. QED
  BY <1>1, <1>2, <1>3, <1>4, <1>5, <1>6

\* A call that gives up keeps the invariant.
LEMMA GiveUpKeeps ==
  ASSUME Inv, NEW a \in Appenders, GiveUp(a), UNCHANGED <<engineVars, readerVars>>
  PROVE  Inv'
<1> USE DEF Inv
<1>0. manifest # None
  BY DEF NothingYet, GiveUp
<1>1. TypeOK'
  <2>1. FilesTyped' /\ HistoryTyped'
    BY DEF TypeOK, FilesTyped, HistoryTyped, GiveUp, fileVars, histVars
  <2>2. LocksTyped'
    BY DEF TypeOK, LocksTyped, GiveUp, Leave
  <2>3. AppendersTyped'
    BY DEF TypeOK, AppendersTyped, GiveUp, AppenderPcs
  <2>4. QED
    BY <2>1, <2>2, <2>3, FrameTyped DEF TypeOK
<1>2. AppendersLocked'
  BY DEF AppendersLocked, GiveUp, Leave, TypeOK, AppendersTyped
<1>3. EnginesLocked' /\ NothingYet'
  BY <1>0, FrameEngines DEF NothingYet, GiveUp, engineVars, fileVars
<1>4. Bounded' /\ TailAboveRoot' /\ HoldersCover' /\ WarmMatches'
  BY FrameTail, FrameCover, FrameWarm DEF GiveUp, engineVars, fileVars
<1>5. NotBuried' /\ AppendsSound'
  BY DEF NotBuried, AppendsSound, GiveUp, TypeOK, AppendersTyped, fileVars, histVars
<1>6. AckedKept'
  BY FrameKept DEF GiveUp, fileVars, histVars
<1>10. QED
  BY <1>1, <1>2, <1>3, <1>4, <1>5, <1>6

\* An append that fails or crashes keeps the invariant: it leaves torn bytes only
\* while it holds the counter's lock, so no other append is about to write.
LEMMA AppendFailsKeeps ==
  ASSUME Inv, NEW a \in Appenders, AppendFails(a), UNCHANGED <<engineVars, readerVars>>
  PROVE  Inv'
<1> USE DEF Inv
<1>0. manifest # None
  BY DEF NothingYet, AppendFails
<1>1. TypeOK'
  <2>1. FilesTyped'
    BY DEF TypeOK, FilesTyped, AppendFails, TearFrame, TornStates
  <2>2. LocksTyped'
    BY DEF TypeOK, LocksTyped, AppendFails, Leave
  <2>3. HistoryTyped'
    BY BoundsAreNaturals DEF TypeOK, HistoryTyped, AppendFails
  <2>4. AppendersTyped'
    BY DEF TypeOK, AppendersTyped, AppendFails, AppenderPcs
  <2>5. QED
    BY <2>1, <2>2, <2>3, <2>4, FrameTyped DEF TypeOK
<1>2. AppendersLocked'
  BY AppendAlone, ProcessesDistinct DEF AppendersLocked, AppendFails, Leave, TypeOK, AppendersTyped
<1>3. EnginesLocked' /\ NothingYet'
  BY <1>0, FrameEngines DEF NothingYet, AppendFails, engineVars
<1>4. Bounded' /\ TailAboveRoot' /\ HoldersCover' /\ WarmMatches'
  BY FrameTail, FrameCover, FrameWarm DEF AppendFails, engineVars
<1>5. NotBuried' /\ AppendsSound'
  <2>1. /\ apc'[a] \in {"closed", "idle"}
        /\ \A b \in Appenders \ {a} : apc'[b] = apc[b] /\ arec'[b] = arec[b]
        /\ UNCHANGED <<manifest, wal, logged>>
    BY DEF AppendFails, TypeOK, AppendersTyped
  <2>2. torn' # torn => \A b \in Appenders \ {a} : apc[b] \notin Counting
    BY AppendAlone DEF AppendFails, Counting
  <2>3. QED
    BY <2>1, <2>2 DEF NotBuried, AppendsSound, Counting
<1>6. AckedKept'
  BY DEF AckedKept, AppendFails
<1>10. QED
  BY <1>1, <1>2, <1>3, <1>4, <1>5, <1>6

\* Dropping an idle appender keeps the invariant.
LEMMA DropKeeps ==
  ASSUME Inv, NEW a \in Appenders, Drop(a), UNCHANGED <<engineVars, readerVars>>
  PROVE  Inv'
<1> USE DEF Inv
<1>0. manifest # None
  BY DEF NothingYet, Drop
<1>1. TypeOK'
  <2>1. FilesTyped'
    BY DEF TypeOK, FilesTyped, Drop, storeVars, fileVars
  <2>2. LocksTyped'
    BY DEF TypeOK, LocksTyped, Drop, storeVars, lockVars
  <2>3. HistoryTyped'
    BY DEF TypeOK, HistoryTyped, Drop, storeVars, histVars
  <2>4. AppendersTyped'
    BY DEF TypeOK, AppendersTyped, Drop, AppenderPcs
  <2>5. QED
    BY <2>1, <2>2, <2>3, <2>4, FrameTyped DEF TypeOK
<1>2. AppendersLocked'
  BY DEF AppendersLocked, Drop, storeVars, lockVars, TypeOK, AppendersTyped
<1>3. EnginesLocked' /\ NothingYet'
  BY <1>0, FrameEngines DEF NothingYet, Drop, engineVars, storeVars, fileVars, lockVars
<1>4. Bounded' /\ TailAboveRoot' /\ HoldersCover' /\ WarmMatches'
  BY FrameTail, FrameCover, FrameWarm DEF Drop, engineVars, storeVars, fileVars
<1>5. NotBuried' /\ AppendsSound'
  BY DEF NotBuried, AppendsSound, Drop, TypeOK, AppendersTyped, storeVars, fileVars, histVars
<1>6. AckedKept'
  BY DEF AckedKept, Drop, storeVars, fileVars, histVars
<1>10. QED
  BY <1>1, <1>2, <1>3, <1>4, <1>5, <1>6

=============================================================================
