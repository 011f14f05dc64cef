------------------------- MODULE ManagedSyncProofs -------------------------
(***************************************************************************)
(* What holds of the managed sync verbs for every number of devices,       *)
(* payload stores, writes, commits, calls, forces and faults: a sidecar    *)
(* only claims what the remote held, and republishing a commit only adds   *)
(* payload stores.  Both follow from one invariant over the verb each      *)
(* device is in.                                                           *)
(***************************************************************************)
EXTENDS ManagedSync, TLAPS

\* A verb in progress carries its plan.
Carries(o) ==
  o = [pc |-> o.pc, verb |-> o.verb, head |-> o.head, local |-> o.local, snap |-> o.snap]

Shapes ==
  /\ op = [d \in Devices |-> op[d]] /\ base = [d \in Devices |-> base[d]]
  /\ \A d \in Devices : op[d] = Idle \/ Carries(op[d])

\* The remote was pointed at the head, at every base, and at every snapshot a
\* verb has published or downloaded.
Held ==
  /\ head # None => head \in retained
  /\ \A d \in Devices : base[d] # None => base[d] \in retained
  /\ \A d \in Devices :
       op[d].pc \in {"published", "downloaded", "swapped", "restored"} => op[d].snap \in retained

\* A sync that is about to publish the commit it saw at the head carries every
\* store the head did.
Upgrades ==
  \A d \in Devices :
    op[d].pc = "push" /\ op[d].verb = "sync" /\ op[d].head # None
      /\ op[d].head.commit = op[d].snap.commit
      => op[d].head.stores \subseteq op[d].snap.stores

SyncInv == Shapes /\ Held /\ Upgrades

-----------------------------------------------------------------------------
(* The lineage decision.                                                   *)

\* classify publishes the commit of the head again only as a superset of it: the
\* one decision that does is "republish".
LEMMA PublishedUpgrades ==
  ASSUME NEW mine, NEW b, NEW theirs, mine # None, theirs # None,
         classify(mine, b, theirs) \in {"local_ahead", "republish"},
         theirs.commit = mine.commit
  PROVE  theirs.stores \subseteq mine.stores
<1>1. classify(mine, b, theirs) \in {"unknown", same_commit(mine, theirs)}
  BY DEF classify
<1>2. same_commit(mine, theirs) \in {"local_ahead", "republish"}
  BY <1>1
<1> QED
  BY <1>2 DEF same_commit

-----------------------------------------------------------------------------
(* The steps of a verb.                                                    *)

\* One device's verb moves on: what its new record must satisfy.
LEMMA StepKeeps ==
  ASSUME SyncInv, NEW d \in Devices, NEW o, Step(d, o),
         UNCHANGED <<base, head>>, retained \subseteq retained',
         o = Idle \/ Carries(o),
         o.pc \in {"published", "downloaded", "swapped", "restored"} => o.snap \in retained',
         o.pc = "push" /\ o.verb = "sync" /\ o.head # None /\ o.head.commit = o.snap.commit
           => o.head.stores \subseteq o.snap.stores
  PROVE  SyncInv'
<1>1. op' = [x \in Devices |-> IF x = d THEN o ELSE op[x]]
  BY DEF Step, SyncInv, Shapes
<1>2. Shapes'
  BY <1>1 DEF SyncInv, Shapes, Carries
<1>3. Held'
  BY <1>1 DEF SyncInv, Held
<1>4. Upgrades'
  BY <1>1 DEF SyncInv, Upgrades
<1> QED
  BY <1>2, <1>3, <1>4 DEF SyncInv

\* A step that changes neither a verb nor what the remote holds keeps it.
LEMMA Elsewhere ==
  ASSUME SyncInv, UNCHANGED <<op, base, head, retained>>
  PROVE  SyncInv'
BY DEF SyncInv, Shapes, Held, Upgrades, Carries

\* A plan that finds the two ends agreed records the head.
LEMMA AgreedKeeps ==
  ASSUME SyncInv, NEW d \in Devices, RecordAgreed(d), UNCHANGED <<head, retained>>
  PROVE  SyncInv'
<1>1. /\ base' = [x \in Devices |-> IF x = d THEN head ELSE base[x]]
      /\ op' = op
  BY DEF RecordAgreed, SyncInv, Shapes
<1>2. Shapes'
  BY <1>1 DEF SyncInv, Shapes, Carries
<1>3. Held'
  BY <1>1 DEF SyncInv, Held
<1>4. Upgrades'
  BY <1>1 DEF SyncInv, Upgrades
<1> QED
  BY <1>2, <1>3, <1>4 DEF SyncInv

\* A push is planned: forced, or by the decision.
LEMMA PushKeeps ==
  ASSUME SyncInv, NEW d \in Devices, NEW verb, NEW mine, push_with_plan(d, verb, mine),
         verb = "sync" =>
           \E b : classify(mine, b, head) \in {"local_ahead", "republish"},
         UNCHANGED <<head, retained>>
  PROVE  SyncInv'
<1>1. CASE head = mine
  <2>1. RecordAgreed(d)
    BY <1>1 DEF push_with_plan
  <2> QED
    BY <2>1, AgreedKeeps
<1>2. CASE head # mine
  <2> DEFINE o == Planned(d, verb, "push", mine)
  <2>1. Step(d, o) /\ base' = base /\ mine # None
    BY <1>2 DEF push_with_plan
  <2>2. /\ o.pc = "push" /\ o.verb = verb /\ o.head = head /\ o.snap = mine
        /\ Carries(o)
    BY DEF Planned, Carries
  <2>3. ASSUME verb = "sync", head # None, head.commit = mine.commit
        PROVE  head.stores \subseteq mine.stores
    <3>1. PICK b : classify(mine, b, head) \in {"local_ahead", "republish"}
      BY <2>3
    <3> QED
      BY <2>1, <2>3, <3>1, PublishedUpgrades
  <2> HIDE DEF o
  <2> QED
    BY <2>1, <2>2, <2>3, StepKeeps
<1> QED
  BY <1>1, <1>2

\* A pull is planned.
LEMMA PullKeeps ==
  ASSUME SyncInv, NEW d \in Devices, NEW verb, Step(d, Planned(d, verb, "pull", None)),
         UNCHANGED <<base, head, retained>>
  PROVE  SyncInv'
<1> DEFINE o == Planned(d, verb, "pull", None)
<1>1. o.pc = "pull" /\ Carries(o)
  BY DEF Planned, Carries
<1>2. Step(d, o)
  OBVIOUS
<1> HIDE DEF o
<1> QED
  BY <1>1, <1>2, StepKeeps

-----------------------------------------------------------------------------
(* The remote.                                                             *)

\* The head moves to a snapshot the remote keeps; no verb's plan changes.
LEMMA HeadKeeps ==
  ASSUME SyncInv, head' \in retained', retained \subseteq retained', UNCHANGED <<op, base>>
  PROVE  SyncInv'
BY DEF SyncInv, Shapes, Held, Upgrades, Carries

\* A commit is made: the verb of d goes on to o, with the snapshot at the head.
LEMMA SwapKeeps ==
  ASSUME SyncInv, NEW d \in Devices, NEW o, NEW expected, NEW snap, NEW forced,
         CompareAndSwap(expected, snap, forced), Step(d, o), base' = base,
         o = Idle \/ (Carries(o) /\ o.pc = "published" /\ o.snap = snap)
  PROVE  SyncInv'
<1>1. op' = [x \in Devices |-> IF x = d THEN o ELSE op[x]]
  BY DEF Step, SyncInv, Shapes
<1>2. head' = snap /\ retained' = retained \cup {snap}
  BY DEF CompareAndSwap
<1>3. o.pc \in {"idle", "published"} /\ (o.pc = "published" => o.snap = snap)
  BY DEF Idle
<1>4. Shapes'
  BY <1>1 DEF SyncInv, Shapes, Carries
<1>5. Held'
  BY <1>1, <1>2, <1>3 DEF SyncInv, Held
<1>6. Upgrades'
  BY <1>1, <1>3 DEF SyncInv, Upgrades
<1> QED
  BY <1>4, <1>5, <1>6 DEF SyncInv

-----------------------------------------------------------------------------
(* The invariant.                                                          *)

\* A verb of d that is under way carries its plan.
LEMMA UnderWay ==
  ASSUME SyncInv, NEW d \in Devices, op[d].pc # "idle"
  PROVE  Carries(op[d])
BY DEF SyncInv, Shapes, Idle

\* A plan keeps its fields when the verb moves on.
LEMMA Moved ==
  ASSUME NEW r, Carries(r), NEW pc
  PROVE  LET o == [r EXCEPT !.pc = pc] IN
         o.pc = pc /\ o.verb = r.verb /\ o.head = r.head /\ o.snap = r.snap /\ Carries(o)
<1> DEFINE o == [r EXCEPT !.pc = pc]
<1>1. PICK p, v, h, l, s : r = [pc |-> p, verb |-> v, head |-> h, local |-> l, snap |-> s]
  BY DEF Carries
<1>2. o = [pc |-> pc, verb |-> v, head |-> h, local |-> l, snap |-> s]
  BY <1>1
<1> HIDE DEF o
<1>3. o.pc = pc /\ o.verb = r.verb /\ o.head = r.head /\ o.snap = r.snap /\ Carries(o)
  BY <1>1, <1>2 DEF Carries
<1> QED
  BY <1>3 DEF o

\* The verb of d moves to another place of the same plan.
LEMMA MoveKeeps ==
  ASSUME SyncInv, NEW d \in Devices, op[d].pc # "idle", NEW pc,
         Step(d, [op[d] EXCEPT !.pc = pc]), pc \in {"swapped", "restored"},
         op[d].snap \in retained, UNCHANGED <<base, head, retained>>
  PROVE  SyncInv'
<1> DEFINE o == [op[d] EXCEPT !.pc = pc]
<1>1. o.pc = pc /\ o.snap = op[d].snap /\ Carries(o)
  BY UnderWay, Moved
<1>2. Step(d, o)
  OBVIOUS
<1> HIDE DEF o
<1> QED
  BY <1>1, <1>2, StepKeeps

\* The verb of d ends, or is given up.
LEMMA EndKeeps ==
  ASSUME SyncInv, NEW d \in Devices, Step(d, Idle), UNCHANGED <<base, head, retained>>
  PROVE  SyncInv'
<1>1. Idle.pc = "idle"
  BY DEF Idle
<1> QED
  BY <1>1, StepKeeps

LEMMA InitSync == Init => SyncInv
<1> SUFFICES ASSUME Init PROVE SyncInv
  OBVIOUS
<1>1. \A d \in Devices : op[d] = Idle /\ base[d] = None /\ op[d].pc = "idle"
  BY DEF Init, Idle
<1>2. op = [d \in Devices |-> op[d]] /\ base = [d \in Devices |-> base[d]] /\ head = None
  BY DEF Init
<1> QED
  BY <1>1, <1>2 DEF SyncInv, Shapes, Held, Upgrades

\* managed_push, managed_pull and managed_sync: planning.
LEMMA PlansKeep ==
  ASSUME SyncInv, NEW d \in Devices, managed_push(d) \/ managed_pull(d) \/ managed_sync(d)
  PROVE  SyncInv'
<1>1. CASE managed_push(d)
  <2>1. PICK policy \in SUBSET Stores :
          push_with_plan(d, "push", redact(local[d], policy)) /\ UNCHANGED <<head, retained>>
    BY <1>1 DEF managed_push, remoteVars
  <2> QED
    BY <2>1, PushKeeps
<1>2. CASE managed_pull(d)
  BY <1>2, PullKeeps DEF managed_pull, remoteVars
<1>3. CASE managed_sync(d)
  <2>1. PICK policy \in SUBSET Stores :
          /\ \/ UnforcedSync(d, policy)
             \/ \E verb \in {"force_push", "force_pull"} : ForcedSync(d, verb, policy)
          /\ UNCHANGED <<head, retained>>
    BY <1>3 DEF managed_sync, remoteVars
  <2> DEFINE mine == redact(local[d], policy)
  <2> HIDE DEF mine
  <2>2. CASE UnforcedSync(d, policy)
    <3>1. \/ RecordAgreed(d)
          \/ /\ classify(mine, base[d], head) \in {"local_ahead", "republish"}
             /\ push_with_plan(d, "sync", mine)
          \/ Step(d, Planned(d, "sync", "pull", None)) /\ UNCHANGED base
      BY <2>2 DEF UnforcedSync, mine
    <3> QED
      BY <2>1, <3>1, AgreedKeeps, PushKeeps, PullKeeps
  <2>3. CASE \E verb \in {"force_push", "force_pull"} : ForcedSync(d, verb, policy)
    <3>1. \/ push_with_plan(d, "force_push", mine)
          \/ Step(d, Planned(d, "force_pull", "pull", None)) /\ UNCHANGED base
      BY <2>3 DEF ForcedSync, mine
    <3> QED
      BY <2>1, <3>1, PushKeeps, PullKeeps
  <2> QED
    BY <2>1, <2>2, <2>3
<1> QED
  BY <1>1, <1>2, <1>3

\* The commit of a push, its answer lost or not.
LEMMA CommitsKeep ==
  ASSUME SyncInv, NEW d \in Devices, CommitPush(d) \/ CommitAnswerLost(d) \/ CommitDelayed(d)
  PROVE  SyncInv'
<1>1. CASE CommitPush(d)
  <2> DEFINE o == [op[d] EXCEPT !.pc = "published"]
  <2>1. /\ op[d].pc = "push" /\ base' = base /\ Step(d, o)
        /\ CompareAndSwap(op[d].head, op[d].snap, Forced(op[d].verb))
    BY <1>1 DEF CommitPush
  <2>2. Carries(o) /\ o.pc = "published" /\ o.snap = op[d].snap
    BY <2>1, UnderWay, Moved
  <2> HIDE DEF o
  <2> QED
    BY <2>1, <2>2, SwapKeeps
<1>2. CASE CommitAnswerLost(d)
  BY <1>2, SwapKeeps DEF CommitAnswerLost
<1>3. CASE CommitDelayed(d)
  BY <1>3, EndKeeps DEF CommitDelayed
<1> QED
  BY <1>1, <1>2, <1>3

\* The steps of a pull, and what ends a transfer.
LEMMA TransfersKeep ==
  ASSUME SyncInv, NEW d \in Devices,
         PullPlan(d) \/ Materialize(d) \/ TruncateWal(d) \/ Abandon(d)
  PROVE  SyncInv'
<1>1. CASE PullPlan(d)
  <2> DEFINE o == [pc |-> "downloaded", verb |-> op[d].verb, head |-> op[d].head,
                   local |-> op[d].local, snap |-> head]
  <2>1. /\ op[d].pc = "pull" /\ head # None /\ Step(d, o)
        /\ UNCHANGED <<base, head, retained>>
    BY <1>1 DEF PullPlan, remoteVars
  <2>2. Carries(o) /\ o.pc = "downloaded" /\ o.snap = head
    BY DEF Carries
  <2>3. head \in retained
    BY <2>1 DEF SyncInv, Held
  <2> HIDE DEF o
  <2> QED
    BY <2>1, <2>2, <2>3, StepKeeps
<1>2. CASE Materialize(d)
  <2> DEFINE pc == IF DiscardsWal(d) THEN "swapped" ELSE "restored"
  <2>1. /\ op[d].pc = "downloaded" /\ Step(d, [op[d] EXCEPT !.pc = pc])
        /\ UNCHANGED <<base, head, retained>>
    BY <1>2 DEF Materialize, remoteVars
  <2>2. pc \in {"swapped", "restored"}
    OBVIOUS
  <2>3. op[d].snap \in retained
    BY <2>1 DEF SyncInv, Held
  <2> HIDE DEF pc
  <2> QED
    BY <2>1, <2>2, <2>3, MoveKeeps
<1>3. CASE TruncateWal(d)
  <2>1. /\ op[d].pc = "swapped" /\ Step(d, [op[d] EXCEPT !.pc = "restored"])
        /\ UNCHANGED <<base, head, retained>>
    BY <1>3 DEF TruncateWal, remoteVars
  <2>2. op[d].snap \in retained
    BY <2>1 DEF SyncInv, Held
  <2> QED
    BY <2>1, <2>2, MoveKeeps
<1>4. CASE Abandon(d)
  BY <1>4, EndKeeps DEF Abandon, remoteVars
<1> QED
  BY <1>1, <1>2, <1>3, <1>4

\* The sidecar: written at the end of a transfer, or lost.
LEMMA SidecarsKeep ==
  ASSUME SyncInv, NEW d \in Devices, RecordBase(d) \/ LoseSidecar(d)
  PROVE  SyncInv'
<1>1. CASE RecordBase(d)
  <2>1. /\ base' = [x \in Devices |-> IF x = d THEN op[d].snap ELSE base[x]]
        /\ op' = [x \in Devices |-> IF x = d THEN Idle ELSE op[x]]
        /\ UNCHANGED <<head, retained>>
    BY <1>1 DEF RecordBase, Step, SyncInv, Shapes, remoteVars
  <2>2. op[d].snap \in retained
    BY <1>1 DEF RecordBase, SyncInv, Held
  <2>3. Idle.pc = "idle"
    BY DEF Idle
  <2>4. Shapes'
    BY <2>1 DEF SyncInv, Shapes, Carries
  <2>5. Held'
    BY <2>1, <2>2, <2>3 DEF SyncInv, Held
  <2>6. Upgrades'
    BY <2>1, <2>3 DEF SyncInv, Upgrades
  <2> QED
    BY <2>4, <2>5, <2>6 DEF SyncInv
<1>2. CASE LoseSidecar(d)
  <2>1. /\ base' = [x \in Devices |-> IF x = d THEN None ELSE base[x]]
        /\ UNCHANGED <<op, head, retained>>
    BY <1>2 DEF LoseSidecar, SyncInv, Shapes, remoteVars
  <2> QED
    BY <2>1 DEF SyncInv, Shapes, Held, Upgrades, Carries
<1> QED
  BY <1>1, <1>2

LEMMA SyncStep == SyncInv /\ [Next]_vars => SyncInv'
<1> SUFFICES ASSUME SyncInv, [Next]_vars PROVE SyncInv'
  OBVIOUS
<1>1. CASE DeliverLate
  <2>1. PICK m \in late :
          CompareAndSwap(m.head, m.snap, Forced(m.verb)) /\ UNCHANGED <<op, base>>
    BY <1>1 DEF DeliverLate, devVars
  <2>2. head' \in retained' /\ retained \subseteq retained'
    BY <2>1 DEF CompareAndSwap
  <2> QED
    BY <2>1, <2>2, HeadKeeps
<1>2. CASE Rollback
  <2>1. head' \in retained' /\ retained' = retained /\ UNCHANGED <<op, base>>
    BY <1>2 DEF Rollback, devVars
  <2> QED
    BY <2>1, HeadKeeps
<1>3. ASSUME NEW d \in Devices, Device(d) PROVE SyncInv'
  <2>1. CASE Write(d) \/ Checkpoint(d)
    BY <2>1, Elsewhere DEF Write, Checkpoint, remoteVars
  <2>2. CASE managed_push(d) \/ managed_pull(d) \/ managed_sync(d)
    BY <2>2, PlansKeep
  <2>3. CASE CommitPush(d) \/ CommitAnswerLost(d) \/ CommitDelayed(d)
    BY <2>3, CommitsKeep
  <2>4. CASE PullPlan(d) \/ Materialize(d) \/ TruncateWal(d) \/ Abandon(d)
    BY <2>4, TransfersKeep
  <2>5. CASE RecordBase(d) \/ LoseSidecar(d)
    BY <2>5, SidecarsKeep
  <2> QED
    BY <1>3, <2>1, <2>2, <2>3, <2>4, <2>5 DEF Device
<1>4. CASE UNCHANGED vars
  BY <1>4, Elsewhere DEF vars, devVars, remoteVars
<1> QED
  BY <1>1, <1>2, <1>3, <1>4 DEF Next

-----------------------------------------------------------------------------
(* The theorems.                                                           *)

\* The invariant of the sync verbs, whatever the devices, the payload stores and
\* the faults are.
THEOREM SyncInvariant == Spec => []SyncInv
BY InitSync, SyncStep, PTL DEF Spec

\* The sidecar never claims more than the remote held: what managed_record_base
\* writes was the head, with those payload stores, at some time before.
THEOREM BasesPublished == Spec => []BaseWasPublished
<1>1. SyncInv => BaseWasPublished
  BY DEF SyncInv, Held, BaseWasPublished
<1> QED
  BY <1>1, SyncInvariant, PTL

\* A step of another device's verb leaves the verb of d alone.
LEMMA OthersStay ==
  ASSUME SyncInv, NEW d \in Devices, NEW e \in Devices, NEW o, Step(e, o)
  PROVE  op'[d] = IF d = e THEN o ELSE op[d]
BY DEF SyncInv, Shapes, Step

\* A push becomes a published one by its own commit and by nothing else.
LEMMA PublishesByCommit ==
  ASSUME SyncInv, Next, NEW d \in Devices, Published(d)
  PROVE  CommitPush(d)
<1>1. op[d].pc = "push" /\ op'[d].pc = "published"
  BY DEF Published
<1>2. op' # op
  BY <1>1
<1>3. Idle.pc = "idle"
  BY DEF Idle
<1>4. PICK e \in Devices : Device(e)
  BY <1>2 DEF Next, DeliverLate, Rollback, devVars
<1>5. ASSUME NEW o, Step(e, o), o = Idle \/ op[e].pc # "push" PROVE FALSE
  BY <1>1, <1>3, <1>5, OthersStay
<1>6. ~(Write(e) \/ Checkpoint(e) \/ LoseSidecar(e))
  BY <1>2 DEF Write, Checkpoint, LoseSidecar
<1>7. ~(managed_push(e) \/ managed_pull(e) \/ managed_sync(e))
  <2> SUFFICES ASSUME managed_push(e) \/ managed_pull(e) \/ managed_sync(e) PROVE FALSE
    OBVIOUS
  <2>1. op[e] = Idle
    BY DEF managed_push, managed_pull, managed_sync
  <2>2. \E o : Step(e, o)
    BY <1>2 DEF managed_push, managed_pull, managed_sync, UnforcedSync, ForcedSync,
                push_with_plan, RecordAgreed
  <2> QED
    BY <1>3, <1>5, <2>1, <2>2
<1>8. ~(CommitAnswerLost(e) \/ CommitDelayed(e) \/ Abandon(e) \/ RecordBase(e))
  BY <1>5 DEF CommitAnswerLost, CommitDelayed, Abandon, RecordBase
<1>9. ~(PullPlan(e) \/ Materialize(e) \/ TruncateWal(e))
  BY <1>5 DEF PullPlan, Materialize, TruncateWal
<1>10. CommitPush(e)
  BY <1>4, <1>6, <1>7, <1>8, <1>9 DEF Device
<1>11. e = d
  BY <1>1, <1>10, OthersStay DEF CommitPush
<1> QED
  BY <1>10, <1>11

\* A sync that publishes the commit the remote already has adds payload stores
\* and takes none away, although another device may have published in between:
\* the compare-and-swap holds it to the head its decision was made on.
THEOREM UpgradesAdd == Spec => UpgradeOnlyAdds
<1> DEFINE Adds ==
      \A d \in Devices :
        (Published(d) /\ head # None /\ head'.commit = head.commit)
          => head.stores \subseteq head'.stores
<1>1. SyncInv /\ [Next]_vars => [Adds]_vars
  <2> SUFFICES ASSUME SyncInv, Next, NEW d \in Devices, Published(d),
                      head # None, head'.commit = head.commit
               PROVE  head.stores \subseteq head'.stores
    OBVIOUS
  <2>1. CommitPush(d)
    BY PublishesByCommit
  <2>2. head = op[d].head /\ head' = op[d].snap
    BY <2>1 DEF CommitPush, CompareAndSwap
  <2>3. op[d].pc = "push" /\ op[d].verb = "sync"
    BY DEF Published
  <2> QED
    BY <2>2, <2>3 DEF SyncInv, Upgrades
<1> QED
  BY <1>1, SyncInvariant, PTL DEF Spec, UpgradeOnlyAdds

=============================================================================
