---------------------------- MODULE DatabaseFile ----------------------------
(***************************************************************************)
(* The files of the database (databaseFileSafety.js, dbBackup.js, db.js,   *)
(* migrations.js): commits that live in the WAL until a checkpoint, online *)
(* backups and their rotation, the staging of a restore, and the start     *)
(* that installs it and brings the schema up to date, with a crash, a kill *)
(* or a failure between any two steps.                                     *)
(*                                                                         *)
(* Abstractions.                                                           *)
(*  - A database is its last commit, its schema version, whether it has    *)
(*    live sessions and whether its peer secrets are converted.            *)
(*  - A file that cp writes is partial until cp ends; rename is atomic.    *)
(*  - Whether the newest backup is younger than a day is a choice.         *)
(*  - Two backups that begin in one second at one destination, -shm files, *)
(*    file modes and disks that rot are left out.                          *)
(***************************************************************************)
EXTENDS Integers, FiniteSets, FiniteSetsExt, TLC

CONSTANTS
    Latest,       \* LATEST_SCHEMA_VERSION
    MaxBackups,   \* MAX_DB_BACKUPS
    Keep,         \* pre-restore copies kept
    MaxCommits,   \* bound: commits
    MaxRequests,  \* bound: backups and restores asked for
    MaxStaging,   \* bound: restores that are staged at once
    MaxStarts,    \* bound: starts of the process
    MaxFaults,    \* bound: crashes and failures while a start installs a restore
    None, Torn

Empty    == [id |-> 0, schema |-> 0, live |-> FALSE, sealed |-> TRUE]
Requests == 1..MaxRequests

\* Databases, WALs, files of restores and pre-restore copies, where there are any.
Databases == [id : Nat, schema : Nat, live : BOOLEAN, sealed : BOOLEAN]
Wals      == [on : Databases, holds : Databases]
Files     == [holds : Databases, whole : BOOLEAN]
Copies    == [main : Databases \cup {None}, wal : Wals \cup {None}]

ASSUME DatabaseAssumption ==
    /\ {Latest, MaxCommits, MaxRequests, MaxStaging, MaxStarts, MaxFaults} \subseteq Nat
    /\ {MaxBackups, Keep} \subseteq Nat \ {0}
    /\ {None, Torn} \cap (Nat \cup Databases \cup Wals \cup Files \cup Copies) = {}

VARIABLES
    main, wal,            \* redman.db, and the WAL with the file it was begun on
    pending, pendingTmp,  \* the staged restore and its temporary name: who copied the file
    files,                \* what each restore copies, and whether cp is done
    copies,               \* pre-restore copies, by the start that moved them
    backups, tmps,        \* the destination: finished backups in order, and temporary files
    proc, restored,       \* the process: where its start is, and whether it installed a restore
    tasks,                \* requests under way
    last,                 \* the commit a process last served, or a start installed
    commits, requested, starts, faults

disk   == <<main, wal, pending, pendingTmp, files, copies, backups, tmps>>
bounds == <<commits, requested, starts, faults>>
vars   == <<disk, proc, restored, tasks, last, bounds>>

\* What opening the two files shows: a WAL that was begun on another file tears it.
View == IF wal = None THEN main ELSE IF wal.on = main THEN wal.holds ELSE Torn

\* A transaction goes to the WAL.
Write(content) ==
    /\ wal' = [on |-> main, holds |-> content]
    /\ UNCHANGED <<main, pending, pendingTmp, files, copies, backups, tmps>>

Init ==
    /\ main \in {None, Empty, [Empty EXCEPT !.schema = Latest, !.sealed = FALSE]}
    /\ wal = None /\ pending = None /\ pendingTmp = None
    /\ files = [n \in Requests |-> None] /\ copies = [s \in 1..MaxStarts |-> None]
    /\ backups = {} /\ tmps = {}
    /\ proc = "down" /\ restored = FALSE /\ tasks = {} /\ last = 0
    /\ commits = 0 /\ requested = 0 /\ starts = 0 /\ faults = 0

-----------------------------------------------------------------------------
(* A start installs the staged restore, before anything opens the file.    *)

\* A staged file that does not validate keeps the process from starting.
startProcess ==
    /\ proc = "down" /\ starts < MaxStarts
    /\ starts' = starts + 1 /\ restored' = FALSE
    /\ proc' = IF pending = None THEN "opening"
               ELSE IF files[pending].whole THEN "moving" ELSE "down"
    /\ UNCHANGED <<disk, tasks, last, commits, requested, faults>>

Installing == UNCHANGED <<pendingTmp, files, backups, tmps, tasks, commits, requested, starts>>

moveMain ==
    /\ proc = "moving" /\ main # None
    /\ copies' = [copies EXCEPT ![starts] = [main |-> main, wal |-> None]] /\ main' = None
    /\ UNCHANGED <<wal, pending, proc, restored, last, faults>> /\ Installing

moveWal ==
    /\ proc = "moving" /\ main = None /\ wal # None
    /\ copies' = [copies EXCEPT ![starts] =
           [main |-> IF @ = None THEN None ELSE @.main, wal |-> wal]]
    /\ wal' = None
    /\ UNCHANGED <<main, pending, proc, restored, last, faults>> /\ Installing

\* Mutant of install: the WAL stays beside the file that takes its place.
installBesideWal ==
    /\ proc = "moving" /\ main = None
    /\ main' = files[pending].holds /\ pending' = None /\ proc' = "installed"
    /\ UNCHANGED <<wal, copies, restored, last, faults>> /\ Installing

install ==
    /\ proc = "moving" /\ main = None /\ wal = None
    /\ main' = files[pending].holds /\ pending' = None /\ proc' = "installed"
    /\ UNCHANGED <<wal, copies, restored, last, faults>> /\ Installing

MovedMain == IF copies[starts] = None THEN None ELSE copies[starts].main
MovedWal  == IF copies[starts] = None THEN None ELSE copies[starts].wal

\* A rename fails, or the installed file does not validate: what was moved goes back.
rollback ==
    /\ proc \in {"moving", "installed"} /\ faults < MaxFaults /\ faults' = faults + 1
    /\ main' = IF MovedMain # None \/ proc = "installed" THEN MovedMain ELSE main
    /\ wal' = IF MovedWal # None THEN MovedWal ELSE wal
    /\ copies' = [copies EXCEPT ![starts] = None]
    /\ proc' = "down"
    /\ UNCHANGED <<pending, restored, last>> /\ Installing

rotatePreRestoreCopies ==
    LET groups == {s \in 1..MaxStarts : copies[s] # None}
    IN  [s \in 1..MaxStarts |->
            IF Cardinality({g \in groups : g > s}) >= Keep THEN None ELSE copies[s]]

acceptInstalled ==
    /\ proc = "installed"
    /\ copies' = rotatePreRestoreCopies
    /\ proc' = "opening" /\ restored' = TRUE /\ last' = main.id
    /\ UNCHANGED <<main, wal, pending, faults>> /\ Installing

-----------------------------------------------------------------------------
(* The start goes on: schema, secrets, sessions.                           *)

Starting == UNCHANGED <<restored, tasks, bounds>>

\* Without a file there is a new, empty database; a WAL beside no file is dropped.
openDatabase ==
    /\ proc = "opening" /\ proc' = "migrating"
    /\ main' = IF main = None THEN Empty ELSE main
    /\ wal'  = IF main = None THEN None ELSE wal
    /\ last' = IF View' = Torn THEN Torn ELSE View'.id
    /\ UNCHANGED <<pending, pendingTmp, files, copies, backups, tmps>> /\ Starting

\* One migration, in its own transaction.
runMigrations ==
    /\ proc = "migrating" /\ View # Torn
    /\ IF View.schema < Latest
       THEN Write([View EXCEPT !.schema = @ + 1]) /\ UNCHANGED proc
       ELSE proc' = "converting" /\ UNCHANGED disk
    /\ UNCHANGED last /\ Starting

\* Too many rows or too little space: the process ends and is started again.
assertMigrationWorkloadBounded ==
    /\ proc \in {"migrating", "converting"} /\ proc' = "down"
    /\ faults < MaxFaults /\ faults' = faults + 1
    /\ UNCHANGED <<disk, restored, tasks, last, commits, requested, starts>>

migratePeerSecrets ==
    /\ proc = "converting" /\ proc' = "revoking"
    /\ IF View.sealed THEN UNCHANGED disk ELSE Write([View EXCEPT !.sealed = TRUE])
    /\ UNCHANGED last /\ Starting

revokeSessionsAfterDatabaseRestore ==
    /\ proc = "revoking" /\ proc' = "serving"
    /\ IF restored THEN Write([View EXCEPT !.live = FALSE]) ELSE UNCHANGED disk
    /\ UNCHANGED last /\ Starting

-----------------------------------------------------------------------------
(* The process serves, and ends.                                           *)

commit ==
    /\ proc = "serving" /\ commits < MaxCommits /\ commits' = commits + 1
    /\ \E live \in BOOLEAN : Write([View EXCEPT !.id = commits + 1, !.live = live])
    /\ last' = commits + 1
    /\ UNCHANGED <<proc, restored, tasks, requested, starts, faults>>

checkpoint ==
    /\ proc = "serving" /\ wal # None
    /\ main' = wal.holds /\ wal' = None
    /\ UNCHANGED <<pending, pendingTmp, files, copies, backups, tmps, proc, restored, tasks,
                   last, bounds>>

\* SIGTERM: the handle is closed, which is a checkpoint.
shutdown ==
    /\ proc = "serving" /\ proc' = "down" /\ tasks' = {}
    /\ main' = View /\ wal' = None
    /\ UNCHANGED <<pending, pendingTmp, files, copies, backups, tmps, restored, last, bounds>>

\* A kill, an out-of-memory or a power failure; a start that is cut short is a fault.
crash ==
    /\ proc # "down" /\ proc' = "down" /\ tasks' = {}
    /\ IF proc = "serving" THEN UNCHANGED faults ELSE faults < MaxFaults /\ faults' = faults + 1
    /\ last' = IF proc = "installed" THEN main.id ELSE last
    /\ UNCHANGED <<disk, restored, commits, requested, starts>>

-----------------------------------------------------------------------------
(* Backups of the running database to a destination.                       *)

Asked(task) ==
    /\ proc = "serving" /\ requested < MaxRequests
    /\ requested' = requested + 1
    /\ tasks' = tasks \cup {task}
    /\ UNCHANGED <<proc, restored, last, commits, starts, faults>>

\* The newest `keep` backups, by the order in which they were finished.
rotateBackups(set, keep) == {b \in set : Cardinality({x \in set : x.at > b.at}) < keep}

\* An automatic backup is skipped when the newest one is not a day old.
backupSkipped ==
    /\ proc = "serving" /\ requested < MaxRequests /\ requested' = requested + 1
    /\ backups # {} /\ backups' = rotateBackups(backups, MaxBackups)
    /\ UNCHANGED <<main, wal, pending, pendingTmp, files, copies, tmps, proc, restored, tasks,
                   last, commits, starts, faults>>

\* Mutant of roomFor: room is made for a backup that may fail, one too many.
roomForTwo == MaxBackups - 2

\* Room is made before the new backup is known to be good.
roomFor == MaxBackups - 1

backupBegins ==
    /\ Asked([n |-> requested + 1, op |-> "backup", step |-> "staging", holds |-> None])
    /\ backups' = rotateBackups(backups, roomFor)
    /\ UNCHANGED <<main, wal, pending, pendingTmp, files, copies, tmps>>

\* The copy beside the live file is validated: it holds the last commit before it ended.
backupStaged(task) ==
    /\ task.op = "backup" /\ task.step = "staging"
    /\ tasks' = (tasks \ {task}) \cup {[task EXCEPT !.step = "copying", !.holds = View]}
    /\ tmps' = tmps \cup {task.n}
    /\ UNCHANGED <<main, wal, pending, pendingTmp, files, copies, backups, proc, restored, last,
                   bounds>>

createOnlineDatabaseBackup(task) ==
    /\ task.op = "backup" /\ task.step = "copying"
    /\ tasks' = tasks \ {task} /\ tmps' = tmps \ {task.n}
    /\ backups' = rotateBackups(backups \cup
           {[n |-> task.n, holds |-> task.holds, at |-> 1 + Max({0} \cup {b.at : b \in backups})]},
           MaxBackups)
    /\ UNCHANGED <<main, wal, pending, pendingTmp, files, copies, proc, restored, last, bounds>>

\* It fails, times out or is cancelled: nothing of it is left, at either place.
backupFails(task) ==
    /\ task.op = "backup"
    /\ tasks' = tasks \ {task} /\ tmps' = tmps \ {task.n}
    /\ UNCHANGED <<main, wal, pending, pendingTmp, files, copies, backups, proc, restored, last,
                   bounds>>

-----------------------------------------------------------------------------
(* A restore is staged for the next start.                                 *)

Staging == UNCHANGED <<main, wal, copies, backups, tmps, proc, restored, last>>

restoreBegins(b) ==
    /\ Cardinality({t \in tasks : t.op = "restore"}) < MaxStaging
    /\ Asked([n |-> requested + 1, op |-> "restore", step |-> "copying", holds |-> b.holds])
    /\ pendingTmp' = requested + 1
    /\ files' = [files EXCEPT ![requested + 1] = [holds |-> b.holds, whole |-> FALSE]]
    /\ UNCHANGED <<main, wal, pending, copies, backups, tmps>>

\* cp is done; what is under the temporary name by now is validated.
restoreCopied(task) ==
    /\ task.op = "restore" /\ task.step = "copying"
    /\ files' = [files EXCEPT ![task.n].whole = TRUE]
    /\ IF pendingTmp # None /\ files'[pendingTmp].whole
       THEN /\ tasks' = (tasks \ {task}) \cup {[task EXCEPT !.step = "valid"]}
            /\ UNCHANGED pendingTmp
       ELSE tasks' = tasks \ {task} /\ pendingTmp' = None
    /\ UNCHANGED <<pending, bounds>> /\ Staging

\* The staged restore of before is removed; a temporary file that is gone fails the rename.
stageDatabaseRestore(task) ==
    /\ task.op = "restore" /\ task.step = "valid"
    /\ tasks' = tasks \ {task} /\ pending' = pendingTmp /\ pendingTmp' = None
    /\ UNCHANGED <<files, bounds>> /\ Staging

\* It fails or times out; the temporary file goes, whosever it is.
restoreFails(task) ==
    /\ task.op = "restore"
    /\ tasks' = tasks \ {task} /\ pendingTmp' = None
    /\ UNCHANGED <<pending, files, bounds>> /\ Staging

Next ==
    \/ startProcess \/ moveMain \/ moveWal \/ install \/ rollback \/ acceptInstalled
    \/ openDatabase \/ runMigrations \/ assertMigrationWorkloadBounded \/ migratePeerSecrets
    \/ revokeSessionsAfterDatabaseRestore
    \/ commit \/ checkpoint \/ shutdown \/ crash
    \/ backupSkipped \/ backupBegins
    \/ \E b \in backups : restoreBegins(b)
    \/ \E task \in tasks :
          \/ backupStaged(task) \/ createOnlineDatabaseBackup(task) \/ backupFails(task)
          \/ restoreCopied(task) \/ stageDatabaseRestore(task) \/ restoreFails(task)

Spec == Init /\ [][Next]_vars

-----------------------------------------------------------------------------
(* Properties.                                                             *)

Opened == {"migrating", "converting", "revoking", "serving"}

\* What a start would find: the last commit, or Torn, and what is staged for it.
Data == IF proc \in Opened THEN IF View = Torn THEN Torn ELSE View.id ELSE last

Staged == IF pending # None THEN files[pending].holds.id
          ELSE IF proc = "installed" THEN main.id ELSE None

Atomic == INSTANCE AtomicDatabase WITH
              data <- Data, staged <- Staged, open <- proc \in Opened

\* Whatever is cut short, the process opens the commit it served last or the restore that
\* was staged, whole, and never anything else.
RestoreIsAtomic == Atomic!Spec

\* A restore that could not be installed leaves the database of before, or is still staged:
\* no start finds neither and begins an empty database in place of one that had commits.
\* It takes two faults to break it (see the README).
RollbackRemains == proc = "down" /\ pending = None => main # None \/ last = 0

\* A backup that is finished goes when enough newer ones are there to take its place:
\* backups that fail, are cancelled or cut short cost no more than one.
BackupsOutliveFailures ==
    [][\A b \in backups \ backups' :
          Cardinality({x \in backups : x.at > b.at}) >= MaxBackups - 1]_vars

=============================================================================
