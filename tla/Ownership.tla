------------------------------ MODULE Ownership ------------------------------
(***************************************************************************)
(* Who owns the socket path and the database file.  Daemons of several     *)
(* builds start, stop, fail and crash on one machine, all for the same two *)
(* paths; while none runs, the operator may put a backup in the place of   *)
(* the database.                                                           *)
(*                                                                         *)
(* A starting daemon probes the socket path, takes it, waits for the       *)
(* migration lock, looks at the schema, writes a backup if it is about to  *)
(* change it, migrates in one transaction, retains SQLite's exclusive lock *)
(* and only then serves.  Every system call on a shared path is a step.    *)
(* Waiting for a lock is a step that is not taken; giving up after the     *)
(* retry window, a signal and an I/O error all lead to OpenFails.          *)
(***************************************************************************)
EXTENDS Naturals

CONSTANTS
    Daemons,
    None,
    Build,         \* the schema version a daemon's build writes
    MaxStarts,     \* bound: starts of each daemon
    MaxWrites      \* bound: commits of serving daemons

ASSUME NoneIsNoDaemon     == None \notin Daemons
ASSUME BuildsAreVersions  == Build \in [Daemons -> Nat \ {0}]
ASSUME BoundsAreNat       == MaxStarts \in Nat /\ MaxWrites \in Nat

VARIABLES
    pc,          \* per daemon, where Run is
    socket,      \* the daemon whose socket the path names
    listening,   \* daemons whose listener is open
    flock,       \* holder of the .migrate.lock
    owner,       \* holder of SQLite's exclusive lock
    db,          \* schema version and content of the database file
    backups,     \* published .bak files
    migrated,    \* history: databases that a migration replaced
    written,     \* history: commits so far; each makes a content of its own
    starts

paths == <<socket, listening>>
files == <<db, backups, migrated, written>>
locks == <<flock, owner>>
vars  == <<pc, paths, files, locks, starts>>

-----------------------------------------------------------------------------
Database == [version : Nat, content : 0 .. MaxWrites]

\* A file that no Holler has opened has no tables.
Initialized(d) == d.version # 0

\* Open has started, and has succeeded.
Opening == {"flock", "migrate", "backup", "apply", "retain"}
Opened  == {"opened", "serving", "draining"}

Released(lock, d) == IF lock = d THEN None ELSE lock

TypeOK ==
    /\ pc \in [Daemons -> {"off", "lstat", "dial", "unlink", "listen", "remove", "close"} \cup Opening \cup Opened]
    /\ socket    \in Daemons \cup {None}
    /\ listening \subseteq Daemons
    /\ flock     \in Daemons \cup {None}
    /\ owner     \in Daemons \cup {None}
    /\ db        \in Database
    /\ backups   \subseteq Database
    /\ migrated  \subseteq Database
    /\ written   \in 0 .. MaxWrites
    /\ starts    \in [Daemons -> 0 .. MaxStarts]

Init ==
    /\ pc = [d \in Daemons |-> "off"]
    /\ socket = None /\ listening = {}
    /\ flock = None /\ owner = None
    /\ db = [version |-> 0, content |-> 0]
    /\ backups = {} /\ migrated = {} /\ written = 0
    /\ starts = [d \in Daemons |-> 0]

Goes(d, from, to) == pc[d] = from /\ pc' = [pc EXCEPT ![d] = to]

-----------------------------------------------------------------------------
(* The socket path. *)

Start(d) ==
    /\ Goes(d, "off", "lstat") /\ starts[d] < MaxStarts
    /\ starts' = [starts EXCEPT ![d] = @ + 1]
    /\ UNCHANGED <<paths, files, locks>>

Lstat(d) ==
    /\ Goes(d, "lstat", IF socket = None THEN "listen" ELSE "dial")
    /\ UNCHANGED <<paths, files, locks, starts>>

\* A daemon that answers keeps its path; a refusal, or a path that is gone
\* by now, counts as stale.
Dial(d) ==
    /\ Goes(d, "dial", IF socket \in listening THEN "off" ELSE "unlink")
    /\ UNCHANGED <<paths, files, locks, starts>>

\* os.Remove fails if the path is gone.
Unlink(d) ==
    /\ Goes(d, "unlink", IF socket = None THEN "off" ELSE "listen")
    /\ socket' = None
    /\ UNCHANGED <<listening, files, locks, starts>>

\* Binding fails if the path exists.
Listen(d) ==
    \/ /\ socket = None
       /\ Goes(d, "listen", "flock")
       /\ socket' = d /\ listening' = listening \cup {d}
       /\ UNCHANGED <<files, locks, starts>>
    \/ /\ socket # None
       /\ Goes(d, "listen", "off")
       /\ UNCHANGED <<paths, files, locks, starts>>

-----------------------------------------------------------------------------
(* Open, and the migration. *)

\* acquireMigrationLock
AcquireMigrationLock(d) ==
    /\ flock = None
    /\ Goes(d, "flock", "migrate")
    /\ flock' = d
    /\ UNCHANGED <<paths, files, owner, starts>>

Supported(d) == db.version <= Build[d]

\* Variant of NeedsBackup: a backup for this build's migration is kept, not
\* written anew.
NeedsBackup_once(d) ==
    /\ Initialized(db) /\ db.version < Build[d]
    /\ \A b \in backups : b.version # db.version

NeedsBackup(d) == Initialized(db) /\ db.version < Build[d]

\* migrationState.  Any read fails while a daemon has the exclusive lock.
Inspect(d) ==
    /\ owner = None /\ Supported(d)
    /\ Goes(d, "migrate", IF NeedsBackup(d) THEN "backup" ELSE "apply")
    /\ UNCHANGED <<paths, files, locks, starts>>

\* backupBeforeMigration publishes a verified snapshot under a new name.
BackupBeforeMigration(d) ==
    /\ Goes(d, "backup", "apply")
    /\ backups' = backups \cup {db}
    /\ UNCHANGED <<paths, db, migrated, written, locks, starts>>

\* applyMigrations, in one transaction.
ApplyMigrations(d) ==
    /\ owner = None
    /\ Goes(d, "apply", "retain")
    /\ db' = [db EXCEPT !.version = IF @ < Build[d] THEN Build[d] ELSE @]
    /\ migrated' = IF Initialized(db) /\ db' # db THEN migrated \cup {db} ELSE migrated
    /\ UNCHANGED <<paths, backups, written, locks, starts>>

\* Variant of retainExclusiveLock: the connection is closed, not kept idle.
retainExclusiveLock_closed(d) == owner = None /\ owner' = owner

retainExclusiveLock(d) == owner = None /\ owner' = d

\* The last step of Open; its deferred call releases the migration lock.
RetainLock(d) ==
    /\ Goes(d, "retain", "opened")
    /\ retainExclusiveLock(d)
    /\ flock' = Released(flock, d)
    /\ UNCHANGED <<paths, files, starts>>

\* The retry window ends, a signal comes, the schema is newer than the build,
\* or a step fails: Open returns an error and Run its deferred calls.
OpenFails(d) ==
    /\ \E from \in Opening : Goes(d, from, "remove")
    /\ flock' = Released(flock, d)
    /\ UNCHANGED <<paths, files, owner, starts>>

-----------------------------------------------------------------------------
(* Serving, and the way out. *)

Serve(d) ==
    /\ Goes(d, "opened", "serving")
    /\ UNCHANGED <<paths, files, locks, starts>>

\* The gateway cannot listen, or the ready line cannot be written.
ServeFails(d) ==
    /\ Goes(d, "opened", "draining")
    /\ UNCHANGED <<paths, files, locks, starts>>

Write(d) ==
    /\ pc[d] = "serving" /\ written < MaxWrites
    /\ written' = written + 1
    /\ db' = [db EXCEPT !.content = written + 1]
    /\ UNCHANGED <<pc, paths, backups, migrated, locks, starts>>

\* The context is cancelled: Serve closes the listener, which unlinks the
\* path, whatever it names, and waits for connections and workers.
Stop(d) ==
    /\ Goes(d, "serving", "draining")
    /\ socket' = None /\ listening' = listening \ {d}
    /\ UNCHANGED <<files, locks, starts>>

CloseStore(d) ==
    /\ Goes(d, "draining", "remove")
    /\ owner' = Released(owner, d)
    /\ UNCHANGED <<paths, files, flock, starts>>

\* Run's deferred os.Remove removes whatever the path names.
RemoveSocket(d) ==
    /\ Goes(d, "remove", IF d \in listening THEN "close" ELSE "off")
    /\ socket' = None
    /\ UNCHANGED <<listening, files, locks, starts>>

\* Run's deferred listener.Close, if Serve did not run: it unlinks once more.
CloseListener(d) ==
    /\ Goes(d, "close", "off")
    /\ socket' = None /\ listening' = listening \ {d}
    /\ UNCHANGED <<files, locks, starts>>

\* The path stays, the kernel closes the listener and releases the locks.
Crash(d) ==
    /\ pc[d] # "off" /\ pc' = [pc EXCEPT ![d] = "off"]
    /\ listening' = listening \ {d}
    /\ flock' = Released(flock, d) /\ owner' = Released(owner, d)
    /\ UNCHANGED <<socket, files, starts>>

\* The operator rolls back while no daemon runs.
RestoreBackup ==
    /\ \A d \in Daemons : pc[d] = "off"
    /\ db' \in backups
    /\ UNCHANGED <<pc, paths, backups, migrated, written, locks, starts>>

-----------------------------------------------------------------------------
Step(d) ==
    \/ Start(d) \/ Lstat(d) \/ Dial(d) \/ Unlink(d) \/ Listen(d)
    \/ AcquireMigrationLock(d) \/ Inspect(d) \/ BackupBeforeMigration(d)
    \/ ApplyMigrations(d) \/ RetainLock(d) \/ OpenFails(d)
    \/ Serve(d) \/ ServeFails(d) \/ Write(d) \/ Stop(d) \/ CloseStore(d)
    \/ RemoveSocket(d) \/ CloseListener(d) \/ Crash(d)

Next == RestoreBackup \/ \E d \in Daemons : Step(d)

Spec == Init /\ [][Next]_vars

-----------------------------------------------------------------------------
\* One daemon at a time has the database open, and it is one whose build
\* writes the schema the file has: neither a migration under a running
\* daemon nor an older build that starts after a newer one breaks it.
OneOwner ==
    \A d \in Daemons : pc[d] \in Opened => owner = d /\ db.version = Build[d]

\* Whatever a migration replaced is in a backup, also after a rollback and
\* new messages and a second upgrade, and after any crash in between.
UpgradeKeepsThePast == migrated \subseteq backups
=============================================================================
