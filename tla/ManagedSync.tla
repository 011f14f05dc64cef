---------------------------- MODULE ManagedSync ----------------------------
(***************************************************************************)
(* The managed push, pull and sync verbs (cloud/transfer.py) with the      *)
(* lineage decision and the local restore they call (lodedb-cloud-core:    *)
(* sync_plan.rs, managed.rs), for several devices that share one remote    *)
(* store.  The control plane is modelled from the requests the client      *)
(* sends: a head that a push replaces by compare-and-swap.                 *)
(*                                                                         *)
(* A commit is an identity (its logical id) with its generation, the       *)
(* writes it holds and the payload stores it carries; two snapshots are    *)
(* the same snapshot id exactly when they are the same record.  A verb     *)
(* that refuses changes nothing and has no action of its own.              *)
(***************************************************************************)
EXTENDS Naturals, FiniteSets, FiniteSetsExt, TLC

CONSTANTS
  Devices,    \* directories that sync against the store
  Stores,     \* payload stores a body may carry: text, lexical
  None,       \* no commit, no head, no base
  MaxWrites,  \* bound: writes of a behaviour
  MaxCommits, \* bound: commits of a behaviour
  MaxCalls,   \* bound: verbs called in a behaviour
  MaxForces,  \* bound: verbs that overwrite on purpose, and rollbacks
  MaxFaults   \* bound: lost requests and answers, crashes, lost sidecars

VARIABLES
  local,      \* each device's commit pointer
  wal,        \* each device's write-ahead log: writes not in a commit yet
  base,       \* each device's sidecar: what it last agreed on with the remote
  op,         \* the verb each device is in
  head,       \* the remote's head
  retained,   \* the snapshots the remote was ever pointed at
  late,       \* commit requests still in the network when their caller gave up
  discarded,  \* history: writes a force or a rollback dropped on purpose
  writes, commits, calls, forces, faults

devVars    == <<local, wal, base, op>>
remoteVars == <<head, retained, late>>
counters   == <<writes, commits, calls, forces, faults>>
vars       == <<devVars, remoteVars, discarded, counters>>

Snapshots ==
  [commit : 1 .. MaxCommits, gen : Nat, docs : SUBSET (1 .. MaxWrites),
   stores : SUBSET Stores]

Docs(s) == IF s = None THEN {} ELSE s.docs
Gen(s)  == IF s = None THEN 0 ELSE s.gen

Idle == [pc |-> "idle"]

Init ==
  /\ local = [d \in Devices |-> None] /\ wal = [d \in Devices |-> {}]
  /\ base = [d \in Devices |-> None] /\ op = [d \in Devices |-> Idle]
  /\ head = None /\ retained = {} /\ late = {} /\ discarded = {}
  /\ writes = 0 /\ commits = 0 /\ calls = 0 /\ forces = 0 /\ faults = 0

-----------------------------------------------------------------------------
(* The lineage decision (sync_plan.rs, transfer_policy.rs).                *)

\* redact_body: what a transfer policy would publish of a commit.
redact(s, policy) == IF s = None THEN None ELSE [s EXCEPT !.stores = @ \cap policy]

\* Dropping s for something derived from b loses neither a write nor a store.
adds_nothing_over(s, b) == s.commit = b.commit /\ s.stores \subseteq b.stores

\* A republish whenever local has a store to add.
same_commit_any_gain(mine, theirs) ==
  IF mine.stores \subseteq theirs.stores THEN "in_sync" ELSE "republish"

\* The same commit on both ends: only which payload stores they carry may differ.
same_commit(mine, theirs) ==
  IF mine.stores \subseteq theirs.stores THEN "in_sync"
  ELSE IF theirs.stores \subseteq mine.stores THEN "republish" ELSE "unknown"

\* Different commits: the side that adds nothing over the base gives way.
moved(mine, b, theirs) ==
  CASE ~adds_nothing_over(mine, b) /\ adds_nothing_over(theirs, b)  -> "local_ahead"
    [] adds_nothing_over(mine, b) /\ ~adds_nothing_over(theirs, b)  -> "remote_ahead"
    [] ~adds_nothing_over(mine, b) /\ ~adds_nothing_over(theirs, b) -> "diverged"
    [] OTHER                                                        -> "in_sync"

regressed(s, b) == s # None /\ b # None /\ s.gen < b.gen

classify(mine, b, theirs) ==
  IF mine = None /\ theirs = None THEN "in_sync"
  ELSE IF regressed(mine, b) \/ regressed(theirs, b) THEN "unknown"
  ELSE IF theirs = None THEN "local_ahead"
  ELSE IF mine = None THEN "remote_ahead"
  ELSE IF mine.commit = theirs.commit THEN same_commit(mine, theirs)
  ELSE IF b = None THEN "unknown"
  ELSE moved(mine, b, theirs)

-----------------------------------------------------------------------------
(* The local engine.  A restore holds the directory's writer lock from its *)
(* checks to the end, so no write lands between them.                      *)

Locked(d) == op[d].pc \in {"swapped", "restored"}

LsnsOf(recs) == {r.lsn : r \in recs}

\* An acknowledged write, in the log only.
Write(d) ==
  /\ ~Locked(d) /\ writes < MaxWrites
  /\ writes' = writes + 1
  /\ wal' = [wal EXCEPT ![d] = @ \cup
               {[id |-> writes', lsn |-> 1 + Max({Gen(local[d])} \cup LsnsOf(@))]}]
  /\ UNCHANGED <<local, base, op, remoteVars, discarded, commits, calls, forces, faults>>

\* A writer opens the store: it replays the log from the committed generation
\* on, commits and removes the log.
Checkpoint(d) ==
  LET tail == {r \in wal[d] : r.lsn >= Gen(local[d])} IN
  /\ ~Locked(d) /\ wal[d] # {} /\ commits < MaxCommits
  /\ commits' = commits + 1
  /\ \E carried \in SUBSET Stores :
       /\ local[d] # None => local[d].stores \subseteq carried
       /\ local' = [local EXCEPT ![d] =
            [commit |-> commits',
             gen    |-> Max({Gen(@) + Cardinality(tail)} \cup LsnsOf(tail)),
             docs   |-> Docs(@) \cup {r.id : r \in tail},
             stores |-> carried]]
  /\ wal' = [wal EXCEPT ![d] = {}]
  /\ UNCHANGED <<base, op, remoteVars, discarded, writes, calls, forces, faults>>

-----------------------------------------------------------------------------
(* Planning: one head fetch, one classification.                           *)

Called(forced) ==
  /\ calls < MaxCalls /\ calls' = calls + 1
  /\ forced => forces < MaxForces
  /\ forces' = IF forced THEN forces + 1 ELSE forces

Step(d, o) == op' = [op EXCEPT ![d] = o]

\* What the verb carries from its plan: the head and the commit it classified.
Planned(d, verb, pc, snap) ==
  [pc |-> pc, verb |-> verb, head |-> head, local |-> local[d], snap |-> snap]

\* managed_record_base, as a plan's only effect.
RecordAgreed(d) ==
  /\ base' = [base EXCEPT ![d] = head]
  /\ UNCHANGED op

\* _push_with_plan up to its begin: a head that already is the snapshot is
\* recorded, not published again.
push_with_plan(d, verb, mine) ==
  /\ mine # None
  /\ IF head = mine
     THEN RecordAgreed(d)
     ELSE Step(d, Planned(d, verb, "push", mine)) /\ UNCHANGED base

\* _refuse_pending_wal.
NoPendingWal(d) == wal[d] = {}

managed_push(d) ==
  \E policy \in SUBSET Stores :
    /\ Called(TRUE) /\ op[d] = Idle
    /\ push_with_plan(d, "push", redact(local[d], policy))
    /\ UNCHANGED <<local, wal, remoteVars, discarded, writes, commits, faults>>

managed_pull(d) ==
  /\ Called(TRUE) /\ op[d] = Idle
  /\ Step(d, Planned(d, "pull", "pull", None))
  /\ UNCHANGED <<local, wal, base, remoteVars, discarded, writes, commits, faults>>

\* managed_sync(force_push) and managed_sync(force_pull).
ForcedSync(d, verb, policy) ==
  /\ Called(TRUE)
  /\ \/ verb = "force_push" /\ push_with_plan(d, verb, redact(local[d], policy))
     \/ verb = "force_pull" /\ head # None
        /\ Step(d, Planned(d, verb, "pull", None)) /\ UNCHANGED base

\* managed_sync: at most one transfer, in the direction the decision names.
UnforcedSync(d, policy) ==
  LET mine     == redact(local[d], policy)
      decision == classify(mine, base[d], head) IN
  /\ Called(FALSE)
  /\ \/ decision = "in_sync" /\ head # None /\ base[d] # head /\ RecordAgreed(d)
     \/ decision \in {"local_ahead", "republish"} /\ push_with_plan(d, "sync", mine)
     \/ decision = "remote_ahead" /\ head # None /\ NoPendingWal(d)
        /\ Step(d, Planned(d, "sync", "pull", None)) /\ UNCHANGED base

managed_sync(d) ==
  \E policy \in SUBSET Stores :
    /\ op[d] = Idle
    /\ \/ UnforcedSync(d, policy)
       \/ \E verb \in {"force_push", "force_pull"} : ForcedSync(d, verb, policy)
    /\ UNCHANGED <<local, wal, remoteVars, discarded, writes, commits, faults>>

-----------------------------------------------------------------------------
(* The push: begin, upload, commit.  The server swaps the head only if it  *)
(* still is the one the plan saw.                                          *)

Forced(verb) == verb # "sync"

\* The server's side of commit_push.
CompareAndSwap(expected, snap, forced) ==
  /\ head = expected
  /\ head' = snap /\ retained' = retained \cup {snap}
  /\ discarded' = IF forced THEN discarded \cup (Docs(head) \ snap.docs) ELSE discarded

\* commit_push answers: the base is recorded next.
CommitPush(d) ==
  /\ op[d].pc = "push"
  /\ CompareAndSwap(op[d].head, op[d].snap, Forced(op[d].verb))
  /\ Step(d, [op[d] EXCEPT !.pc = "published"])
  /\ UNCHANGED <<local, wal, base, late, counters>>

Fault == faults < MaxFaults /\ faults' = faults + 1

\* The commit was made and its answer lost: the abort comes too late, the verb
\* raises and the sidecar keeps the old base.
CommitAnswerLost(d) ==
  /\ Fault /\ op[d].pc = "push"
  /\ CompareAndSwap(op[d].head, op[d].snap, Forced(op[d].verb))
  /\ Step(d, Idle)
  /\ UNCHANGED <<local, wal, base, late, writes, commits, calls, forces>>

\* The commit request outlives its caller, and the abort does not reach the
\* server either.
CommitDelayed(d) ==
  /\ Fault /\ op[d].pc = "push"
  /\ late' = late \cup {[head |-> op[d].head, snap |-> op[d].snap, verb |-> op[d].verb]}
  /\ Step(d, Idle)
  /\ UNCHANGED <<local, wal, base, head, retained, discarded, writes, commits, calls, forces>>

DeliverLate ==
  \E m \in late :
    /\ CompareAndSwap(m.head, m.snap, Forced(m.verb))
    /\ late' = late \ {m}
    /\ UNCHANGED <<devVars, counters>>

\* A verb that raises, a process that dies: nothing it did so far is undone.
\* The writer lock, where it was held, is free again.
Abandon(d) ==
  /\ op[d] # Idle
  /\ IF op[d].pc \in {"published", "swapped", "restored"} THEN Fault ELSE UNCHANGED faults
  /\ Step(d, Idle)
  /\ UNCHANGED <<local, wal, base, remoteVars, discarded, writes, commits, calls, forces>>

-----------------------------------------------------------------------------
(* The pull: plan, download, restore.                                      *)

\* pull_plan: a sync takes only the head it classified.
PullPlan(d) ==
  /\ op[d].pc = "pull" /\ head # None
  /\ op[d].verb # "pull" => head = op[d].head
  /\ Step(d, [pc |-> "downloaded", verb |-> op[d].verb, head |-> op[d].head,
              local |-> op[d].local, snap |-> head])
  /\ UNCHANGED <<local, wal, base, remoteVars, discarded, counters>>

\* force_pull drops the log with the lineage.
DiscardsWal(d) == op[d].verb = "force_pull"

\* A restore that trusts the classification to be current.
Unpinned(d) == TRUE

\* expected_local_snapshot_id: the commit that was classified is still there.
Pinned(d) == op[d].verb = "pull" \/ local[d] = op[d].local

\* managed_materialize up to the pointer swap, under the writer lock.
Materialize(d) ==
  /\ op[d].pc = "downloaded"
  /\ DiscardsWal(d) \/ NoPendingWal(d)
  /\ Pinned(d)
  /\ local' = [local EXCEPT ![d] = op[d].snap]
  /\ discarded' = IF Forced(op[d].verb)
                  THEN discarded \cup
                       ((Docs(local[d]) \cup {r.id : r \in wal[d]}) \ op[d].snap.docs)
                  ELSE discarded
  /\ Step(d, [op[d] EXCEPT !.pc = IF DiscardsWal(d) THEN "swapped" ELSE "restored"])
  /\ UNCHANGED <<wal, base, remoteVars, counters>>

\* The log is truncated after the swap.
TruncateWal(d) ==
  /\ op[d].pc = "swapped"
  /\ wal' = [wal EXCEPT ![d] = {}]
  /\ Step(d, [op[d] EXCEPT !.pc = "restored"])
  /\ UNCHANGED <<local, base, remoteVars, discarded, counters>>

\* A base taken from what the device holds, not from what was transferred.
RecordRawBase(d) ==
  /\ op[d].pc \in {"published", "restored"}
  /\ base' = [base EXCEPT ![d] = local[d]]
  /\ Step(d, Idle)
  /\ UNCHANGED <<local, wal, remoteVars, discarded, counters>>

\* managed_record_base, the last step of every transfer.
RecordBase(d) ==
  /\ op[d].pc \in {"published", "restored"}
  /\ base' = [base EXCEPT ![d] = op[d].snap]
  /\ Step(d, Idle)
  /\ UNCHANGED <<local, wal, remoteVars, discarded, counters>>

-----------------------------------------------------------------------------
(* The rest of the world.                                                  *)

\* rollback_store points the head at a snapshot the store retains.
Rollback ==
  \E s \in retained \ {head} :
    /\ forces < MaxForces /\ forces' = forces + 1
    /\ head' = s
    /\ discarded' = discarded \cup (Docs(head) \ s.docs)
    /\ UNCHANGED <<devVars, retained, late, writes, commits, calls, faults>>

\* A corrupt sidecar is read as an absent one.
LoseSidecar(d) ==
  /\ Fault /\ base[d] # None
  /\ base' = [base EXCEPT ![d] = None]
  /\ UNCHANGED <<local, wal, op, remoteVars, discarded, writes, commits, calls, forces>>

Device(d) ==
  \/ Write(d) \/ Checkpoint(d) \/ LoseSidecar(d)
  \/ managed_push(d) \/ managed_pull(d) \/ managed_sync(d)
  \/ CommitPush(d) \/ CommitAnswerLost(d) \/ CommitDelayed(d) \/ Abandon(d)
  \/ PullPlan(d) \/ Materialize(d) \/ TruncateWal(d) \/ RecordBase(d)

Next == DeliverLate \/ Rollback \/ \E d \in Devices : Device(d)

Spec == Init /\ [][Next]_vars

\* Devices start alike, and so do the payload stores.
Symmetry == Permutations(Devices) \cup Permutations(Stores)

-----------------------------------------------------------------------------
(* Properties.                                                             *)

Maybe(S) == S \cup {None}

\* Type invariant: heads, commits, bases and the snapshot a verb is moving are
\* snapshots a device really made, and a log holds writes that were made.
TypeOK ==
  /\ local \in [Devices -> Maybe(Snapshots)] /\ base \in [Devices -> Maybe(Snapshots)]
  /\ head \in Maybe(Snapshots) /\ retained \subseteq Snapshots
  /\ \A d \in Devices :
       /\ \A r \in wal[d] : r.id \in 1 .. writes /\ r.lsn \in Nat
       /\ op[d].pc \in {"idle", "push", "published", "pull", "downloaded", "swapped", "restored"}
       /\ op[d].pc \notin {"idle", "pull"} => op[d].snap \in Snapshots

\* Only a force or a rollback loses a write: what leaves the head, a device's
\* commit or a device's log without going into its commit was dropped on
\* purpose (managed_sync's classification, pins and compare-and-swap, through
\* lost answers, late requests, crashed restores and lost sidecars).
NothingLostSilently ==
  [][/\ Docs(head) \ Docs(head') \subseteq discarded'
     /\ \A d \in Devices :
          (Docs(local[d]) \cup {r.id : r \in wal[d]})
            \ (Docs(local'[d]) \cup {r.id : r \in wal'[d]}) \subseteq discarded']_vars

\* The sidecar only ever claims what the remote really held, with the stores it
\* really held: a base is recorded after the head took it, never before, and
\* never from the unredacted local body.
BaseWasPublished == \A d \in Devices : base[d] # None => base[d] \in retained

\* A sync publishes.
Published(d) == op[d].pc = "push" /\ op[d].verb = "sync" /\ op'[d].pc = "published"

\* Republishing a commit never takes a payload store away from the remote: where
\* each end carries a store the other lacks, a sync refuses.
UpgradeOnlyAdds ==
  [][\A d \in Devices :
       (Published(d) /\ head # None /\ head'.commit = head.commit)
         => head.stores \subseteq head'.stores]_vars

=============================================================================
