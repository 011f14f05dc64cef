---------------------------- MODULE LodeStoreInv ----------------------------
(***************************************************************************)
(* The inductive invariant behind AckedDurable and CommitKeepsBase, as a   *)
(* conjunction of named parts.                                             *)
(***************************************************************************)
EXTENDS LodeStore

\* A call in progress holds the shared lock; from its scan on it holds the
\* counter lock too, which one appender has at a time.
AppendersLocked ==
  /\ \A a \in Appenders : apc[a] \notin {"closed", "idle"} <=> a \in shared
  /\ \A a \in Appenders : apc[a] \in {"seeding", "reserved", "framed"} <=> ctr = a
  /\ excl # None => shared = {}

Holding == {"open", "fold", "commit", "truncate"}

\* An engine that reads or writes the store holds the exclusive lock; a
\* checkpointer at work holds the lease.
EnginesLocked ==
  /\ \A p \in Engines : pc[p] \in Holding <=> excl = p
  /\ \A p \in Engines : pc[p] \in {"commit", "truncate"} <=> task[p] # "none"
  /\ \A w \in Writers : pc[w] \notin {"leased", "loaded", "warm", "fold"}
  /\ \A w \in Writers : task[w] \in {"none", "open", "persist"}
  /\ \A w \in Writers : pc[w] # "closed" => mode[w] \in Modes
  /\ \A c \in Ckpts : pc[c] # "closed" => lease = c
  /\ \A c \in Ckpts : pc[c] # "open" /\ task[c] \in {"none", "warm", "reload", "fold"}
  /\ \A c \in Ckpts : mode[c] = "wal"

\* Before the store is created nothing is in it and nobody has it open.
NothingYet ==
  manifest = None =>
    /\ wal = {} /\ acked = {}
    /\ \A a \in Appenders : apc[a] = "closed"
    /\ \A p \in Engines : pc[p] \in {"closed", "leased"}

\* Nor does a reader: read-only open fails without a store.
ReadersOpened == manifest = None => \A r \in Readers : rpc[r] = "closed"

\* LSNs of the WAL are bounded, so their maximum exists.
Bounded == \E n \in LsnsOf(wal) \cup {0} : \A r \in wal : r.lsn <= n

\* No appender writes behind torn bytes.
NotBuried == \A a \in Appenders : apc[a] \in {"reserved", "framed"} => torn = "none"

\* No checkpointer has a warm engine it may fold onto.
NoWarm == \A c \in Ckpts : pc[c] \in {"closed", "leased"} \/ task[c] = "warm"

\* What the WAL holds beyond the root is above the root's watermark, save for
\* the first mutation of a new store, whose LSN is the seed's own.
TailAboveRoot ==
  manifest # None =>
    /\ manifest.applied_lsn >= manifest.generation /\ manifest.generation >= 1
    /\ \A r \in wal :
         \/ r.id \in manifest.docs
         \/ r.lsn > manifest.applied_lsn
         \/ r.lsn = manifest.applied_lsn /\ r.own /\ NoWarm

\* An acknowledged record is in the root or in the WAL, unless its frame was
\* written behind torn bytes.
AckedKept ==
  manifest # None => IdsOf(acked \ behind) \subseteq manifest.docs \cup IdsOf(wal)

\* An append has its record; a reserved LSN is above the watermark; a written
\* frame is in the WAL.
AppendsSound ==
  \A a \in Appenders :
    /\ apc[a] \in {"waiting", "reserved", "framed"} => arec[a] # None
    /\ apc[a] = "reserved" => arec[a].lsn > manifest.applied_lsn
    /\ apc[a] = "framed" => arec[a] \in wal \cap logged

\* The index of the engine that holds the lock: everything committed or logged,
\* ready to be committed on top of the root.
Covers(e) ==
  /\ manifest # None
  /\ e.docs = manifest.docs \cup e.pending
  /\ IdsOf(wal) \subseteq e.docs
  /\ ~MustCommit(e) => IdsOf(wal) \subseteq manifest.docs
  /\ \/ e.applied_lsn <= e.generation /\ manifest.applied_lsn <= e.generation
     \/ /\ e.generation = 0 /\ e.applied_lsn = 1 /\ ~MustCommit(e)
        /\ manifest.applied_lsn = 1 /\ NoWarm

HoldersCover ==
  \A p \in Engines :
    /\ pc[p] \in {"open", "commit"} => Covers(eng[p])
    /\ pc[p] = "truncate" => Covers(eng[p]) /\ IdsOf(wal) \subseteq manifest.docs
    /\ pc[p] \in Holding /\ mode[p] = "generation" => wal = {}

\* A root that is not after another.
Before(t, m) ==
  t.docs \subseteq m.docs /\ t.generation <= m.generation /\ t.applied_lsn <= m.applied_lsn

\* The engine a fold goes onto is the root on disk.  The tokens of a warm engine
\* name the root it is, or else (its reload failed) a root that is gone for good.
WarmAt(c) ==
  /\ pc[c] \in {"fold", "truncate"} => Matches(eng[c], manifest)
  /\ pc[c] = "commit" /\ ~MustCommit(eng[c]) => Matches(eng[c], manifest)
  /\ pc[c] \in {"warm", "fold"} => tokens[c] # None
  /\ tokens[c] # None => manifest # None /\ Before(tokens[c], manifest)
  /\ pc[c] = "warm" /\ ~needs[c] => Matches(eng[c], tokens[c]) \/ tokens[c] # manifest
  /\ task[c] \in {"reload", "fold"} => tokens[c] # None
  /\ task[c] = "reload" /\ ~needs[c] => tokens[c] # manifest

WarmMatches == \A c \in Ckpts : WarmAt(c)

Inv ==
  /\ TypeOK
  /\ AppendersLocked /\ EnginesLocked /\ NothingYet
  /\ Bounded /\ NotBuried /\ TailAboveRoot /\ AckedKept
  /\ AppendsSound /\ HoldersCover /\ WarmMatches

\* With the part that only the readers' own steps rest on, until a checkpointer
\* takes the tokens of a root it has not loaded.
IndInv == "base" \in slips \/ (Inv /\ ReadersOpened)

=============================================================================
