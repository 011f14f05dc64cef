------------------------------ MODULE Appender ------------------------------
(***************************************************************************)
(* CoreAppender (engine/mod.rs): a process that adds records to the WAL    *)
(* tail of a store while other appenders do the same, without holding the  *)
(* exclusive writer lock.  Each append takes the shared lock, waits for    *)
(* the counter lock, and holds both until the LSN counter is rewritten.    *)
(***************************************************************************)
EXTENDS StoreFiles

VARIABLES
  apc,   \* where each appender is
  arec   \* the record an append in flight is writing

appenderVars == <<apc, arec>>

AppenderPcs ==
  {"closed", "opening", "seeding", "idle", "waiting", "reserved", "framed"}

AppenderInit ==
  /\ apc  = [a \in Appenders |-> "closed"]
  /\ arec = [a \in Appenders |-> None]

\* A missing or torn counter file reads as LSN 0 with no watermark.
CounterLsn == IF counter = None THEN 0 ELSE counter.lsn

\* The file has the length the counter vouches for, so no scan is needed.
Intact == counter # None /\ counter.mark # NoLen /\ counter.mark = WalLen

\* The floor after a scan: every LSN in the file, the counter, the root.
ScannedFloor == Max({CounterLsn, CommittedLsn} \cup LsnsOf(wal))

\* A floor that takes the counter's word for the WAL.
FloorWithoutScan == Max({CounterLsn, CommittedLsn})

\* repair_and_lsn_floor
LsnFloor ==
  IF Intact THEN Max({CounterLsn, CommittedLsn}) ELSE ScannedFloor

\* A counter that does not vouch for the file as it is.
Stale == counter # None /\ counter.of # wal

\* The two locks of a call: first the shared one, then the counter's.
LockShared(a) == SharedFree /\ shared' = shared \cup {a}

LockCounter(a) == ctr = None /\ ctr' = a

Leave(a) == shared' = shared \ {a} /\ ctr' = IF ctr = a THEN None ELSE ctr

-----------------------------------------------------------------------------
\* open: the shared lock, then the metadata of the one committed index.
Open(a) ==
  /\ apc[a] = "closed" /\ manifest # None
  /\ LockShared(a)
  /\ apc' = [apc EXCEPT ![a] = "opening"]
  /\ UNCHANGED <<arec, fileVars, excl, ctr, lease, histVars>>

\* open: the counter's lock, a scan, and the repair of a tail torn by a peer.
OpenRepair(a) ==
  /\ apc[a] = "opening"
  /\ LockCounter(a) /\ Scannable
  /\ RepairTornTail
  /\ apc' = [apc EXCEPT ![a] = "seeding"]
  /\ UNCHANGED <<arec, manifest, counter, excl, shared, lease, histVars>>

\* open: seeds the counter from everything durable, and releases the locks.
OpenSeed(a) ==
  /\ apc[a] = "seeding"
  /\ counter' = [lsn |-> ScannedFloor, mark |-> WalLen, of |-> wal]
  /\ Leave(a)
  /\ apc' = [apc EXCEPT ![a] = "idle"]
  /\ UNCHANGED <<arec, manifest, wal, torn, buried, excl, lease, histVars>>

\* append_one: the shared lock, under which the committed floor is read.
Append(a) ==
  /\ apc[a] = "idle" /\ nextId <= MaxRecs
  /\ LockShared(a)
  /\ arec' = [arec EXCEPT ![a] = [lsn |-> 0, id |-> nextId, own |-> FALSE]]
  /\ nextId' = nextId + 1
  /\ apc' = [apc EXCEPT ![a] = "waiting"]
  /\ UNCHANGED <<fileVars, excl, ctr, lease, logged, acked, behind, slips, crashes>>

\* A reservation that skips the repair.
ReserveBehindTorn(a) ==
  /\ apc[a] = "waiting"
  /\ LockCounter(a) /\ Scannable
  /\ arec' = [arec EXCEPT ![a].lsn = LsnFloor + 1]
  /\ slips' = IF Intact /\ Stale THEN slips \cup {"length"} ELSE slips
  /\ apc' = [apc EXCEPT ![a] = "reserved"]
  /\ UNCHANGED <<fileVars, excl, shared, lease, nextId, logged, acked, behind, crashes>>

\* append_one: the counter's lock, the repair unless the length is the counter's,
\* and the LSN.
Reserve(a) ==
  /\ apc[a] = "waiting"
  /\ LockCounter(a) /\ Scannable
  /\ RepairTornTail
  /\ arec' = [arec EXCEPT ![a].lsn = LsnFloor + 1]
  /\ slips' = IF Intact /\ Stale THEN slips \cup {"length"} ELSE slips
  /\ apc' = [apc EXCEPT ![a] = "reserved"]
  /\ UNCHANGED <<manifest, counter, excl, shared, lease, nextId, logged, acked, behind, crashes>>

\* A call gives up: the counter's lock is not to be had before the deadline, or
\* the log cannot be scanned.
GiveUp(a) ==
  /\ apc[a] \in {"opening", "waiting"}
  /\ ctr # None \/ ~Scannable
  /\ Leave(a)
  /\ apc' = [apc EXCEPT ![a] = IF apc[a] = "opening" THEN "closed" ELSE "idle"]
  /\ arec' = [arec EXCEPT ![a] = None]
  /\ UNCHANGED <<fileVars, excl, lease, histVars>>

\* append_one: the frame reaches the file.
WriteFrame(a) ==
  /\ apc[a] = "reserved"
  /\ AppendRecord(arec[a])
  /\ apc' = [apc EXCEPT ![a] = "framed"]
  /\ UNCHANGED <<arec, manifest, counter, lockVars, nextId, acked, slips, crashes>>

\* append_one: the counter is rewritten, the locks go, the call returns the LSN.
Publish(a) ==
  /\ apc[a] = "framed"
  /\ counter' = [lsn |-> arec[a].lsn, mark |-> WalLen, of |-> wal]
  /\ acked' = acked \cup {arec[a]}
  /\ Leave(a)
  /\ apc'  = [apc EXCEPT ![a] = "idle"]
  /\ arec' = [arec EXCEPT ![a] = None]
  /\ UNCHANGED <<manifest, wal, torn, buried, excl, lease, nextId, logged, behind, slips, crashes>>

\* A crash, or an I/O error the call returns, in the middle of open or append.
\* The frame may be cut short before it is complete, the counter may be torn
\* while it is rewritten; the locks go either way.
AppendFails(a) ==
  /\ apc[a] \notin {"closed", "idle"}
  /\ crashes < MaxCrashes
  /\ \/ UNCHANGED <<torn, counter>>
     \/ apc[a] = "reserved" /\ TornWrites /\ TearFrame /\ UNCHANGED counter
     \/ apc[a] \in {"seeding", "framed"} /\ counter' = None /\ UNCHANGED torn
  /\ Leave(a)
  /\ \E pc \in {"closed", "idle"} :
       /\ apc[a] \in {"opening", "seeding"} => pc = "closed"
       /\ apc' = [apc EXCEPT ![a] = pc]
  /\ arec' = [arec EXCEPT ![a] = None]
  /\ crashes' = crashes + 1
  /\ UNCHANGED <<manifest, wal, buried, excl, lease, nextId, logged, acked, behind, slips>>

\* The handle is dropped between appends; it holds no lock there.
Drop(a) ==
  /\ apc[a] = "idle"
  /\ apc' = [apc EXCEPT ![a] = "closed"]
  /\ UNCHANGED <<arec, storeVars>>

AppenderStep(a) ==
  \/ Open(a) \/ OpenRepair(a) \/ OpenSeed(a)
  \/ Append(a) \/ Reserve(a) \/ WriteFrame(a) \/ Publish(a)
  \/ GiveUp(a) \/ AppendFails(a) \/ Drop(a)

=============================================================================
