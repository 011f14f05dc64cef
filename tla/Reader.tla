------------------------------- MODULE Reader -------------------------------
(***************************************************************************)
(* CoreEngine opened read-only (engine/mod.rs): no lock, a view loaded     *)
(* from the committed root, and refresh, which reloads it and overlays the *)
(* WAL tail under a seqlock on the root's checksum.                        *)
(***************************************************************************)
EXTENDS StoreFiles

CONSTANT MaxAttempts   \* refresh gives up after this many attempts

ASSUME AttemptsAssumption == MaxAttempts \in Nat \ {0}

VARIABLES
  rpc,     \* where each reader is
  view,    \* the view it answers queries from, with its applied_lsn
  fresh,   \* the view a refresh in progress is building
  before,  \* the root token read before this attempt's load
  sig,     \* the signature read at the start of the refresh
  cache,   \* refresh_cache
  tries,   \* attempts of the refresh in progress
  began    \* history: records acknowledged when the refresh in progress began

readerVars == <<rpc, view, fresh, before, sig, cache, tries, began>>

ReaderPcs == {"closed", "opening", "idle", "before", "load", "overlay", "after"}

View == [docs : SUBSET Ids, applied_lsn : Nat, base : Nat]

NoView == [docs |-> {}, applied_lsn |-> 0, base |-> 0]

ReaderInit ==
  /\ rpc    = [r \in Readers |-> "closed"]
  /\ view   = [r \in Readers |-> NoView]
  /\ fresh  = [r \in Readers |-> NoView]
  /\ before = [r \in Readers |-> None]
  /\ sig    = [r \in Readers |-> None]
  /\ cache  = [r \in Readers |-> None]
  /\ tries  = [r \in Readers |-> 0]
  /\ began  = [r \in Readers |-> {}]

\* A signature blind to an appended tail.
SignatureWithoutWal ==
  [token |-> manifest, wal_len |-> <<>>,
   lsn |-> 0]

\* refresh_signature: root checksum, WAL length, counter LSN.
Signature ==
  [token |-> manifest, wal_len |-> WalLen,
   lsn |-> IF counter = None THEN 0 ELSE counter.lsn]

\* A view that takes its watermark from the counter, not from the root.
BaseViewAtCounter ==
  [docs |-> manifest.docs, base |-> CommittedLsn,
   applied_lsn |-> IF counter = None THEN manifest.applied_lsn ELSE counter.lsn]

\* The view of the committed root alone.
BaseView ==
  [docs |-> manifest.docs, applied_lsn |-> manifest.applied_lsn, base |-> CommittedLsn]

\* overlay_wal_tails: every complete frame from the base's generation on.
Overlaid(v, recs) ==
  LET tail == {r \in recs : r.lsn >= v.base} IN
  [v EXCEPT !.docs = v.docs \cup IdsOf(tail),
            !.applied_lsn = Max({v.applied_lsn} \cup LsnsOf(tail))]

\* The refresh ends: its scratch state goes.
EndRefresh(r) ==
  /\ rpc'    = [rpc EXCEPT ![r] = "idle"]
  /\ fresh'  = [fresh EXCEPT ![r] = NoView]
  /\ before' = [before EXCEPT ![r] = None]
  /\ sig'    = [sig EXCEPT ![r] = None]
  /\ tries'  = [tries EXCEPT ![r] = 0]
  /\ began'  = [began EXCEPT ![r] = {}]

-----------------------------------------------------------------------------
\* open_readonly: the signature first.
OpenReader(r) ==
  /\ rpc[r] = "closed" /\ manifest # None
  /\ sig' = [sig EXCEPT ![r] = Signature]
  /\ rpc' = [rpc EXCEPT ![r] = "opening"]
  /\ UNCHANGED <<view, fresh, before, cache, tries, began, storeVars>>

\* The signature primes the cache only when there was no WAL file.
CachePrimed(s) == s.wal_len = NoLen

\* open_readonly: then the committed root, without the WAL.
OpenLoad(r) ==
  /\ rpc[r] = "opening"
  /\ view'  = [view EXCEPT ![r] = BaseView]
  /\ cache' = [cache EXCEPT ![r] = IF CachePrimed(sig[r]) THEN sig[r] ELSE None]
  /\ sig'   = [sig EXCEPT ![r] = None]
  /\ rpc'   = [rpc EXCEPT ![r] = "idle"]
  /\ UNCHANGED <<fresh, before, tries, began, storeVars>>

\* refresh: the fast path returns when the signature is the cached one.
Probe(r) ==
  /\ rpc[r] = "idle"
  /\ IF Signature = cache[r]
     THEN UNCHANGED <<rpc, sig, began>>
     ELSE /\ sig' = [sig EXCEPT ![r] = Signature]
          /\ began' = [began EXCEPT ![r] = IdsOf(acked \ behind)]
          /\ rpc' = [rpc EXCEPT ![r] = "before"]
  /\ UNCHANGED <<view, fresh, before, cache, tries, storeVars>>

\* An attempt: the root token, ...
ReadBefore(r) ==
  /\ rpc[r] = "before"
  /\ before' = [before EXCEPT ![r] = manifest]
  /\ rpc' = [rpc EXCEPT ![r] = "load"]
  /\ UNCHANGED <<view, fresh, sig, cache, tries, began, storeVars>>

\* ... the base, ...
LoadBase(r) ==
  /\ rpc[r] = "load"
  /\ fresh' = [fresh EXCEPT ![r] = BaseView]
  /\ rpc' = [rpc EXCEPT ![r] = "overlay"]
  /\ UNCHANGED <<view, before, sig, cache, tries, began, storeVars>>

\* ... the WAL tail, ...
Overlay(r) ==
  /\ rpc[r] = "overlay" /\ Scannable
  /\ fresh' = [fresh EXCEPT ![r] = Overlaid(fresh[r], wal)]
  /\ rpc' = [rpc EXCEPT ![r] = "after"]
  /\ UNCHANGED <<view, before, sig, cache, tries, began, storeVars>>

\* The attempt stands: no root was swapped meanwhile, or it was the last one.
Accept(r) == manifest = before[r] \/ tries[r] + 1 = MaxAttempts

\* ... and the root token again.  The last attempt's view is kept as it is.
ReadAfter(r) ==
  /\ rpc[r] = "after"
  /\ IF Accept(r)
     THEN /\ view'  = [view EXCEPT ![r] = fresh[r]]
          /\ cache' = [cache EXCEPT ![r] = sig[r]]
          /\ EndRefresh(r)
     ELSE /\ tries' = [tries EXCEPT ![r] = tries[r] + 1]
          /\ rpc'   = [rpc EXCEPT ![r] = "before"]
          /\ fresh' = [fresh EXCEPT ![r] = NoView]
          /\ before' = [before EXCEPT ![r] = None]
          /\ UNCHANGED <<view, sig, cache, began>>
  /\ UNCHANGED storeVars

\* An error in an attempt: the refresh fails and the last good view stays.
RefreshFails(r) ==
  /\ rpc[r] \in {"before", "load", "overlay", "after"}
  /\ EndRefresh(r)
  /\ UNCHANGED <<view, cache, storeVars>>

ReaderStep(r) ==
  \/ OpenReader(r) \/ OpenLoad(r)
  \/ Probe(r) \/ ReadBefore(r) \/ LoadBase(r) \/ Overlay(r) \/ ReadAfter(r)
  \/ RefreshFails(r)

=============================================================================
