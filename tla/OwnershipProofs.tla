--------------------------- MODULE OwnershipProofs ---------------------------
(* One daemon has the store open, with its own schema, and every database  *)
(* that a migration replaces has a backup.                                 *)
EXTENDS Ownership, TLAPS

\* Where a daemon is inside Open with the migration lock, and where no other
\* daemon can have the database.
Locked    == {"migrate", "backup", "apply", "retain"}
Migrating == {"backup", "apply", "retain"}

\* The locks are held by the daemons that are where they are held.
LocksAreHeld ==
    \A d \in Daemons : /\ pc[d] \in Locked <=> flock = d
                       /\ pc[d] \in Opened <=> owner = d

\* Nothing changes under a migration, which goes forward from a schema that
\* it knows and has backed up.
MigrationIsAlone ==
    \A d \in Daemons :
        /\ pc[d] \in Migrating => owner = None /\ db.version <= Build[d]
        /\ pc[d] = "apply" /\ NeedsBackup(d) => db \in backups
        /\ pc[d] \in {"retain"} \cup Opened => db.version = Build[d]

IInv == TypeOK /\ LocksAreHeld /\ MigrationIsAlone /\ UpgradeKeepsThePast

-----------------------------------------------------------------------------
\* No daemon has started, so no lock is held and nothing is migrated.
LEMMA InitIInv == Init => IInv
<1> SUFFICES ASSUME Init PROVE IInv  OBVIOUS
<1>1. TypeOK
  BY BoundsAreNat DEF Init, TypeOK, Database
<1>2. LocksAreHeld
  BY NoneIsNoDaemon DEF Init, LocksAreHeld, Locked, Opened
<1>3. MigrationIsAlone /\ UpgradeKeepsThePast
  BY DEF Init, MigrationIsAlone, Migrating, Opened, UpgradeKeepsThePast
<1> QED  BY <1>1, <1>2, <1>3 DEF IInv

\* What the steps on the socket path leave alone, and where they go.
LEMMA PathSteps ==
    ASSUME IInv, NEW d \in Daemons,
           Start(d) \/ Lstat(d) \/ Dial(d) \/ Unlink(d) \/ Listen(d) \/ RemoveSocket(d) \/ CloseListener(d)
    PROVE  IInv'
<1>1. UNCHANGED <<files, locks>>
  BY DEF Start, Lstat, Dial, Unlink, Listen, RemoveSocket, CloseListener, locks, files, paths
<1>2. PICK to \in {"off", "lstat", "dial", "unlink", "listen", "flock", "close"} : pc' = [pc EXCEPT ![d] = to]
  BY DEF Start, Lstat, Dial, Unlink, Listen, RemoveSocket, CloseListener, Goes
<1>3. pc[d] \in {"off", "lstat", "dial", "unlink", "listen", "remove", "close"}
  BY DEF Start, Lstat, Dial, Unlink, Listen, RemoveSocket, CloseListener, Goes
<1>4. TypeOK'
  <2>1. pc' \in [Daemons -> {"off", "lstat", "dial", "unlink", "listen", "remove", "close"} \cup Opening \cup Opened]
    BY <1>2 DEF IInv, TypeOK, Opening
  <2>2. socket' \in Daemons \cup {None} /\ listening' \subseteq Daemons
    BY DEF IInv, TypeOK, Start, Lstat, Dial, Unlink, Listen, RemoveSocket, CloseListener, paths
  <2>3. starts' \in [Daemons -> 0 .. MaxStarts]
    BY BoundsAreNat DEF IInv, TypeOK, Start, Lstat, Dial, Unlink, Listen, RemoveSocket, CloseListener
  <2> QED  BY <1>1, <2>1, <2>2, <2>3 DEF IInv, TypeOK, files, locks
<1>5. LocksAreHeld' /\ MigrationIsAlone' /\ UpgradeKeepsThePast'
  BY <1>1, <1>2, <1>3 DEF IInv, TypeOK, LocksAreHeld, MigrationIsAlone, UpgradeKeepsThePast, NeedsBackup,
     Initialized, Locked, Migrating, Opened, files, locks
<1> QED  BY <1>4, <1>5 DEF IInv

\* Open up to the migration: the lock, the look at the schema, the backup.
LEMMA OpenSteps ==
    ASSUME IInv, NEW d \in Daemons,
           AcquireMigrationLock(d) \/ Inspect(d) \/ BackupBeforeMigration(d)
    PROVE  IInv'
<1> USE NoneIsNoDaemon, BuildsAreVersions DEF Goes, paths, locks, files
<1>1. TypeOK'
  BY DEF IInv, TypeOK, AcquireMigrationLock, Inspect, BackupBeforeMigration, Opening
<1>2. LocksAreHeld'
  BY DEF IInv, TypeOK, LocksAreHeld, AcquireMigrationLock, Inspect, BackupBeforeMigration, Locked, Opened
<1>3. MigrationIsAlone'
  <2>1. CASE AcquireMigrationLock(d)
    BY <2>1 DEF IInv, TypeOK, MigrationIsAlone, AcquireMigrationLock, Migrating, Opened, NeedsBackup, Initialized
  <2>2. CASE Inspect(d)
    BY <2>2 DEF IInv, TypeOK, MigrationIsAlone, Inspect, Supported, Migrating, Opened, NeedsBackup, Initialized
  <2>3. CASE BackupBeforeMigration(d)
    BY <2>3 DEF IInv, TypeOK, MigrationIsAlone, BackupBeforeMigration, Migrating, Opened, NeedsBackup, Initialized
  <2> QED  BY <2>1, <2>2, <2>3
<1>4. UpgradeKeepsThePast'
  BY DEF IInv, UpgradeKeepsThePast, AcquireMigrationLock, Inspect, BackupBeforeMigration
<1> QED  BY <1>1, <1>2, <1>3, <1>4 DEF IInv

\* The migration replaces a database that is in a backup, while nobody else
\* is past the lock or has the file open.
LEMMA MigrationStep ==
    ASSUME IInv, NEW d \in Daemons, ApplyMigrations(d)
    PROVE  IInv'
<1> USE NoneIsNoDaemon, BuildsAreVersions DEF Goes, paths, locks, files
<1>1. pc[d] = "apply" /\ owner = None /\ flock = d /\ db.version <= Build[d] /\ db \in Database
  BY DEF IInv, TypeOK, LocksAreHeld, MigrationIsAlone, ApplyMigrations, Locked, Migrating
<1>2. db' \in Database /\ db'.version = Build[d]
  BY <1>1 DEF ApplyMigrations, Database
<1>3. \A e \in Daemons : e # d => pc'[e] = pc[e] /\ pc[e] \notin Locked \cup Opened
  BY <1>1 DEF IInv, TypeOK, LocksAreHeld, ApplyMigrations
<1>4. pc'[d] = "retain"
  BY DEF IInv, TypeOK, ApplyMigrations
<1>5. UpgradeKeepsThePast'
  <2>1. Initialized(db) /\ db' # db => NeedsBackup(d)
    BY <1>1 DEF ApplyMigrations, Database, NeedsBackup, Initialized
  <2> QED  BY <1>1, <2>1 DEF IInv, UpgradeKeepsThePast, MigrationIsAlone, ApplyMigrations
<1>6. TypeOK'
  BY <1>1, <1>2 DEF IInv, TypeOK, ApplyMigrations, Opening
<1>7. LocksAreHeld'
  BY <1>1, <1>3, <1>4 DEF IInv, LocksAreHeld, ApplyMigrations, Locked, Opened
<1>8. MigrationIsAlone'
  BY <1>1, <1>2, <1>3, <1>4 DEF MigrationIsAlone, ApplyMigrations, Locked, Migrating, Opened
<1> QED  BY <1>5, <1>6, <1>7, <1>8 DEF IInv

\* The exclusive lock is taken before the migration lock is given up.
LEMMA RetainStep ==
    ASSUME IInv, NEW d \in Daemons, RetainLock(d)
    PROVE  IInv'
<1> USE NoneIsNoDaemon DEF Goes, paths, locks, files, retainExclusiveLock, Released
<1>1. pc[d] = "retain" /\ flock = d /\ owner = None /\ db.version = Build[d]
  BY DEF IInv, LocksAreHeld, MigrationIsAlone, RetainLock, Locked
<1>2. pc' = [pc EXCEPT ![d] = "opened"] /\ flock' = None /\ owner' = d /\ UNCHANGED <<paths, files, starts>>
  BY <1>1 DEF RetainLock
<1>3. \A e \in Daemons : e # d => pc[e] \notin Locked \cup Opened
  BY <1>1 DEF IInv, LocksAreHeld
<1>4. TypeOK'
  BY <1>2 DEF IInv, TypeOK, Opened
<1>5. LocksAreHeld' /\ MigrationIsAlone'
  BY <1>1, <1>2, <1>3 DEF IInv, TypeOK, LocksAreHeld, MigrationIsAlone, Locked, Migrating, Opened
<1> QED  BY <1>2, <1>4, <1>5 DEF IInv, UpgradeKeepsThePast

\* Serving, stopping and failing keep the locks with the daemons that are
\* where they are held.
LEMMA ServeSteps ==
    ASSUME IInv, NEW d \in Daemons, Serve(d) \/ ServeFails(d) \/ Stop(d) \/ Write(d)
    PROVE  IInv'
<1> USE NoneIsNoDaemon, BoundsAreNat DEF Goes, paths, locks, files
<1>1. TypeOK'
  BY DEF IInv, TypeOK, Serve, ServeFails, Stop, Write, Opened, Database
<1>2. pc[d] \in Opened /\ pc'[d] \in Opened /\ owner = d
      /\ \A e \in Daemons : e # d => pc'[e] = pc[e] /\ pc[e] \notin Opened \cup Migrating
  <2>1. pc[d] \in Opened /\ pc'[d] \in Opened /\ \A e \in Daemons : e # d => pc'[e] = pc[e]
    BY DEF IInv, TypeOK, Serve, ServeFails, Stop, Write, Opened
  <2> QED  BY <2>1 DEF IInv, LocksAreHeld, MigrationIsAlone
<1>3. LocksAreHeld'
  BY <1>2 DEF IInv, LocksAreHeld, Serve, ServeFails, Stop, Write, Locked, Opened
<1>4. db'.version = db.version /\ UNCHANGED <<owner, flock, migrated, backups>>
  BY DEF IInv, TypeOK, Serve, ServeFails, Stop, Write, Database
<1>5. MigrationIsAlone' /\ UpgradeKeepsThePast'
  BY <1>2, <1>4 DEF IInv, MigrationIsAlone, UpgradeKeepsThePast, Migrating, Opened
<1> QED  BY <1>1, <1>3, <1>5 DEF IInv

\* A daemon that fails, closes the store or crashes gives up what it held.
LEMMA LeaveSteps ==
    ASSUME IInv, NEW d \in Daemons, OpenFails(d) \/ CloseStore(d) \/ Crash(d)
    PROVE  IInv'
<1> USE NoneIsNoDaemon DEF paths, locks, files, Released
<1>1. pc'[d] \in {"off", "remove"} /\ pc' = [pc EXCEPT ![d] = pc'[d]]
  BY DEF IInv, TypeOK, OpenFails, CloseStore, Crash, Goes
<1>2. UNCHANGED <<socket, files, starts>> /\ listening' \subseteq listening
      /\ flock' \in {flock, None} /\ owner' \in {owner, None}
  BY DEF OpenFails, CloseStore, Crash
<1>3. flock' # d /\ owner' # d /\ (flock # d => flock' = flock) /\ (owner # d => owner' = owner)
  BY DEF IInv, LocksAreHeld, Locked, Opening, Opened, OpenFails, CloseStore, Crash, Goes
<1>4. TypeOK'
  BY <1>1, <1>2 DEF IInv, TypeOK
<1>5. LocksAreHeld' /\ MigrationIsAlone' /\ UpgradeKeepsThePast'
  BY <1>1, <1>2, <1>3 DEF IInv, TypeOK, LocksAreHeld, MigrationIsAlone, UpgradeKeepsThePast, NeedsBackup,
     Initialized, Locked, Migrating, Opened
<1> QED  BY <1>4, <1>5 DEF IInv

\* While no daemon runs, nothing depends on what is in the file.
LEMMA RestoreStep == IInv /\ RestoreBackup => IInv'
  BY DEF IInv, TypeOK, LocksAreHeld, MigrationIsAlone, UpgradeKeepsThePast, RestoreBackup, NeedsBackup,
     Initialized, Locked, Migrating, Opened, paths, locks

\* The invariant is inductive.
THEOREM Invariance == Spec => []IInv
<1>1. IInv /\ [Next]_vars => IInv'
  <2> SUFFICES ASSUME IInv, [Next]_vars PROVE IInv'  OBVIOUS
  <2>1. CASE UNCHANGED vars
    BY <2>1 DEF vars, paths, files, locks, IInv, TypeOK, LocksAreHeld, MigrationIsAlone, UpgradeKeepsThePast,
       NeedsBackup, Initialized
  <2>2. CASE RestoreBackup
    BY <2>2, RestoreStep
  <2>3. ASSUME NEW d \in Daemons, Step(d) PROVE IInv'
    BY <2>3, PathSteps, OpenSteps, MigrationStep, RetainStep, ServeSteps, LeaveSteps DEF Step
  <2> QED  BY <2>1, <2>2, <2>3 DEF Next
<1> QED  BY InitIInv, <1>1, PTL DEF Spec

\* For any number of daemons, builds, starts and commits, one daemon at a
\* time has the database open and it has the schema of that daemon's build.
THEOREM OneDaemonOwnsTheStore == Spec => []OneOwner
<1>1. IInv => OneOwner
  BY DEF IInv, LocksAreHeld, MigrationIsAlone, OneOwner
<1> QED  BY <1>1, Invariance, PTL

\* Every database that a migration replaced stays in a backup.
THEOREM UpgradesKeepThePast == Spec => []UpgradeKeepsThePast
<1>1. IInv => UpgradeKeepsThePast
  BY DEF IInv
<1> QED  BY <1>1, Invariance, PTL
=============================================================================
