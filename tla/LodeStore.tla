------------------------------ MODULE LodeStore ------------------------------
(***************************************************************************)
(* One store and everyone who opens it: appenders, exclusive writers, a    *)
(* checkpointer and lock-free readers, in any interleaving, with crashes   *)
(* and I/O errors between and inside their steps.                          *)
(***************************************************************************)
EXTENDS Appender, Engine, Reader

vars == <<storeVars, appenderVars, engineVars, readerVars>>

Init == StoreInit /\ AppenderInit /\ EngineInit /\ ReaderInit

Next ==
  \/ \E a \in Appenders : AppenderStep(a) /\ UNCHANGED <<engineVars, readerVars>>
  \/ \E p \in Engines : EngineStep(p) /\ UNCHANGED <<appenderVars, readerVars>>
  \/ \E r \in Readers : ReaderStep(r) /\ UNCHANGED <<appenderVars, engineVars>>

Spec == Init /\ [][Next]_vars

-----------------------------------------------------------------------------
FilesTyped ==
  /\ manifest \in Manifest \cup {None}
  /\ wal \subseteq Record /\ torn \in TornStates /\ buried \subseteq Record
  /\ counter = None \/ counter.lsn \in Nat

LocksTyped ==
  /\ excl \in Engines \cup {None} /\ shared \subseteq Appenders
  /\ ctr \in Appenders \cup {None} /\ lease \in Ckpts \cup {None}

HistoryTyped ==
  /\ nextId \in 1 .. MaxRecs + 1 /\ crashes \in 0 .. MaxCrashes
  /\ logged \subseteq Record /\ acked \subseteq logged
  /\ behind \subseteq logged /\ slips \subseteq Slips

AppendersTyped ==
  /\ apc \in [Appenders -> AppenderPcs]
  /\ arec \in [Appenders -> Record \cup {None}]

EnginesTyped ==
  /\ pc \in [Engines -> EnginePcs] /\ task \in [Engines -> Tasks]
  /\ mode \in [Engines -> {"wal", "generation"}]
  /\ eng \in [Engines -> EngineState]
  /\ tokens \in [Engines -> Manifest \cup {None}]
  /\ needs \in [Engines -> BOOLEAN]

ReadersTyped ==
  /\ rpc \in [Readers -> ReaderPcs]
  /\ view \in [Readers -> View] /\ fresh \in [Readers -> View]

\* Every variable holds what its declaration says; a commit root never loses
\* its generation or watermark, a frame is always a whole record.
TypeOK ==
  /\ FilesTyped /\ LocksTyped /\ HistoryTyped
  /\ AppendersTyped /\ EnginesTyped /\ ReadersTyped

\* What a writable wal-mode open would reconstruct if it ran now: the root's
\* records and the complete frames replay accepts.  (When a scan refuses the log
\* the open fails, and leaves both files as they are.)
Recoverable ==
  IF manifest = None THEN {} ELSE manifest.docs \cup IdsOf(OpenReplays(wal))

\* Durability: a mutation whose call returned (an append's LSN, a writer's
\* mutation in wal mode) is in the committed root, or in the WAL where the next
\* open replays it, whatever folds, crashes and failed commits came between.
\* There are two ways to lose one: a checkpointer takes the tokens of a root it
\* has not loaded, and a wal-mode writer logs on behind the frame of its own that
\* an error cut short.
AckedDurable == "base" \notin slips => IdsOf(acked \ behind) \subseteq Recoverable

\* An LSN names one record: no two frames ever completed share one, be they
\* from appenders, a writer, or a peer that crashed before it was acknowledged,
\* unless a repair took another file of the same length for the counter's own.
LsnUnique ==
  slips = {} => \A r, s \in logged \ behind : r.lsn = s.lsn => r = s

\* A new frame's LSN is above every LSN before it in the file, so replay in
\* file order is replay in LSN order, with the same exception.
AppendAscends ==
  [][slips = {} => \A r \in wal' \ wal : \A q \in wal : q.lsn < r.lsn]_vars

KeepsBase ==
  manifest # None =>
    /\ manifest.docs \subseteq manifest'.docs
    /\ manifest'.generation >= manifest.generation
    /\ manifest'.applied_lsn >= manifest.applied_lsn

\* A commit never drops what the root already holds and never moves the watermark
\* back, unless a checkpointer has taken the tokens of a root it had not loaded:
\* nothing else makes an engine commit onto a stale base.
CommitKeepsBase == [][("base" \notin slips) => KeepsBase]_vars

\* The comment in CoreCheckpointer::checkpoint: "the fold never targets a stale
\* base and cannot clobber that writer's commit", whenever the tokens were read.
FoldNeverClobbers == [][KeepsBase]_vars

\* Read your writes: once a reader's applied_lsn reaches the LSN an append
\* returned, the record is in the reader's view, where LSNs are unique.
ReadYourWrites ==
  slips = {} =>
    \A r \in Readers : \A a \in acked \ behind :
      ~a.own /\ a.lsn <= view[r].applied_lsn => a.id \in view[r].docs

\* A refresh that returns has every record acknowledged before it began: the view
\* an attempt is about to keep has them, and the view that is kept as it is when
\* the signature is the cached one has every record an appender acknowledged,
\* as long as the counter's file can be read.
RefreshIsFresh ==
  \A r \in Readers :
    /\ rpc[r] = "after" /\ Accept(r) => began[r] \subseteq fresh[r].docs
    /\ rpc[r] = "idle" /\ Signature = cache[r] /\ counter # None =>
         IdsOf({a \in acked \ behind : ~a.own}) \subseteq view[r].docs

-----------------------------------------------------------------------------
(* Progress.  A process in the middle of a call goes on with it, and a     *)
(* poll for a lock that is free again and again finds it free.             *)

Fairness ==
  /\ \A a \in Appenders :
       WF_vars((OpenRepair(a) \/ OpenSeed(a) \/ Reserve(a) \/ WriteFrame(a)
                \/ Publish(a) \/ GiveUp(a))
               /\ UNCHANGED <<engineVars, readerVars>>)
  /\ \A p \in Engines :
       WF_vars((Commit(p) \/ Truncate(p)) /\ UNCHANGED <<appenderVars, readerVars>>)
  /\ \A c \in Ckpts :
       /\ WF_vars((AcquireLease(c) \/ ReadTokens(c)
                   \/ FoldNothing(c) \/ Fold(c) \/ FoldRefused(c))
                  /\ UNCHANGED <<appenderVars, readerVars>>)
       /\ SF_vars((OpenWarm(c) \/ StartCheckpoint(c))
                  /\ UNCHANGED <<appenderVars, readerVars>>)

FairSpec == Spec /\ Fairness

\* A running checkpointer folds every acknowledged record into the committed
\* root in the end, through failed commits, crashes and reopened leases, unless
\* the log comes to refuse every scan, and if the writer lock is free again and
\* again: a writer that stays open, or appends that overlap without end, keep it
\* from the checkpointer that polls for it.
AckedFolded ==
  []<>ExclusiveFree =>
    []<>(\/ manifest # None /\ IdsOf(acked \ behind) \subseteq manifest.docs
         \/ acked = {} \/ "base" \in slips \/ ~Scannable)

=============================================================================
