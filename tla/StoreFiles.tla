----------------------------- MODULE StoreFiles -----------------------------
(***************************************************************************)
(* The files and advisory locks that the processes of a LodeDB store share *)
(* (storage/commit_manifest.rs, storage/wal.rs, storage/lsn.rs and the     *)
(* locks of engine/mod.rs), for one index key.                             *)
(*                                                                         *)
(* A mutation is a record: its payload is abstracted to an identity, and   *)
(* the state of an index to the set of identities whose effect it holds.   *)
(* What matters for durability is which record is where, under which LSN.  *)
(***************************************************************************)
EXTENDS Naturals, FiniteSets, FiniteSetsExt

CONSTANTS
  Appenders,        \* CoreAppender processes
  Writers,          \* processes that open an exclusive CoreEngine
  Ckpts,            \* CoreCheckpointer processes
  Readers,          \* processes holding a read-only CoreEngine
  None,             \* no holder, no file
  MaxRecs,          \* bound: mutations of a behaviour
  MaxCrashes,       \* bound: crashes and I/O failures of a behaviour
  TornWrites        \* TRUE: a crash or an I/O error may cut a frame short

Engines == Writers \cup Ckpts

ASSUME ProcessesDistinct ==
  /\ Appenders \cap Engines = {}
  /\ Writers \cap Ckpts = {}
  /\ None \notin Appenders \cup Engines \cup Readers

ASSUME BoundsAreNaturals == MaxRecs \in Nat /\ MaxCrashes \in Nat

ASSUME FaultsAssumption == TornWrites \in BOOLEAN

VARIABLES
  manifest,  \* <key>.commit.json: generation, applied_lsn and what they hold
  wal,       \* <key>.wal: the complete frames in front of any torn bytes
  torn,      \* what follows them: nothing, bytes of an incomplete frame, or
             \* such bytes and frames behind them that make a scan fail
  buried,    \* complete frames written behind torn bytes
  counter,   \* <key>.lsn: last LSN handed out and the WAL length it vouches for;
             \* `of` is history, the frames the file held then
  excl,      \* holder of .lodedb.lock in exclusive mode
  shared,    \* holders of .lodedb.lock in shared mode
  ctr,       \* holder of <key>.lsn.lock
  lease,     \* holder of the checkpoint lease
  nextId,    \* identity of the next mutation
  logged,    \* history: every record whose frame was written completely
  acked,     \* history: every record whose call returned success
  behind,    \* history: every record a writer logged behind torn bytes
  slips,     \* history: which checks of the code took one file for another
  crashes    \* faults so far

fileVars  == <<manifest, wal, torn, buried, counter>>
lockVars  == <<excl, shared, ctr, lease>>
histVars  == <<nextId, logged, acked, behind, slips, crashes>>
storeVars == <<fileVars, lockVars, histVars>>

Ids == 1 .. MaxRecs

TornStates == {"none", "cut", "corrupt"}

\* "length": a WAL was taken for the one the counter vouches for, by its length.
\* "base": a root was taken for the one a checkpointer had loaded.
Slips == {"length", "base"}

\* A WAL record. `own` marks one logged by an exclusive writer, which logs only
\* mutations that changed its in-memory index.
Record == [lsn : Nat, id : Ids, own : BOOLEAN]

Manifest == [generation : Nat, applied_lsn : Nat, docs : SUBSET Ids]

ASSUME NoneIsNoValue == None \notin Record \cup Manifest

IdsOf(recs)  == {r.id : r \in recs}
LsnsOf(recs) == {r.lsn : r \in recs}

StoreInit ==
  /\ manifest = None
  /\ wal = {} /\ torn = "none" /\ buried = {}
  /\ counter = None
  /\ excl = None /\ shared = {} /\ ctr = None /\ lease = None
  /\ nextId = 1 /\ logged = {} /\ acked = {} /\ behind = {} /\ slips = {} /\ crashes = 0

-----------------------------------------------------------------------------
(* Locks: flock on .lodedb.lock, exclusive for an engine or a checkpoint,  *)
(* shared for the length of one append; both are released by a crash.      *)

ExclusiveFree == excl = None /\ shared = {}

SharedFree == excl = None

AcquireExclusive(p) == ExclusiveFree /\ excl' = p

-----------------------------------------------------------------------------
(* The write-ahead log file.                                               *)

\* The file's length, where all frames are of one size: how many frames, whether
\* part of one follows them, and how many are behind it.
WalLen == <<Cardinality(wal), torn # "none", Cardinality(buried)>>

\* The length of a file that is not there.
NoLen == <<0, FALSE, 0>>

\* read_records_with_valid_len: a torn final frame is dropped; a frame that is
\* complete by its length and fails its checksum before the end is an error.
Scannable == torn # "corrupt"

\* append_record: the frame goes to the end of the file, torn bytes or not.  Once
\* frames behind the torn bytes reach past the end of the frame that was cut
\* short, a scan takes their bytes for its body and fails.
AppendRecord(r) ==
  /\ logged' = logged \cup {r}
  /\ IF torn = "none"
     THEN wal' = wal \cup {r} /\ UNCHANGED <<torn, buried, behind>>
     ELSE /\ buried' = buried \cup {r}
          /\ behind' = IF r.own THEN behind \cup {r} ELSE behind
          /\ torn' \in {torn, "corrupt"} /\ UNCHANGED wal

\* append_record fails with part of the frame in the file.
TearFrame == torn' \in IF torn = "none" THEN {"cut"} ELSE {torn, "corrupt"}

\* truncate: the file is removed.
TruncateWal == wal' = {} /\ torn' = "none" /\ buried' = {}

\* repair_torn_tail: the file is cut back to its last complete frame.
RepairTornTail == wal' = wal /\ torn' = "none" /\ buried' = {}

-----------------------------------------------------------------------------
(* The commit root.                                                        *)

\* build_commit_body: a committed watermark is never below its generation.
CommitBody(generation, applied, docs) ==
  [generation  |-> generation,
   applied_lsn |-> Max({applied, generation}),
   docs        |-> docs]

\* The LSN floor the committed root gives: applied_lsn, clamped to generation.
CommittedLsn == Max({manifest.applied_lsn, manifest.generation})

=============================================================================
