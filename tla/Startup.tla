------------------------------- MODULE Startup -------------------------------
(***************************************************************************)
(* What db.js does before the application serves anything: the numbered    *)
(* migrations of migrations.js, the conversion of stored peer keys         *)
(* (services/peerSecrets.js) and the reconciliation of SSH authorisations  *)
(* (services/peerSshAuthorization.js), on a database of any earlier        *)
(* version, with crashes, blocked preflights and restored backups; then    *)
(* the edits of a peer that keep its row and its authorized_keys line in   *)
(* step (routes/peers.js, services/sshManager.js).                         *)
(*                                                                         *)
(* Abstractions.                                                           *)
(*  - A schema is its tables and, of the columns, those that some          *)
(*    migration adds, as pairs <<table, column>> (one name for a group     *)
(*    that is always added together).  Of the indexes only the one a       *)
(*    preflight asks about is kept.                                        *)
(*  - A migration is what it does to the schema, to the settings and to    *)
(*    one row of each table it rewrites (two of authorized_peers).         *)
(*  - A setting is absent, its default, the operator's own, or (ntfy)      *)
(*    carried over from the key it replaces.                               *)
(*  - The row counts are kept as the tables that exceed their limit.       *)
(***************************************************************************)
EXTENDS Integers, FiniteSets

CONSTANTS
    Versions,    \* the versions a database may have, when it has one
    MaxCrashes   \* bound: crashes and restores

ASSUME StartupAssumption ==
    /\ Versions \subseteq 0..34
    /\ MaxCrashes \in Nat

LATEST == 34

VARIABLES
    db,       \* the database file
    backup,   \* a backup of it
    line,     \* the paired peer's line in authorized_keys: "none", "free"
              \* (unrestricted, as early releases wrote it) or its path
    hostKeys, \* the host's authorized_keys is mounted
    space,    \* a GiB is free
    pc,       \* "migrating", "secrets", "ssh", "serving" or "down"
    crashes

startupVars == <<db, backup, line, hostKeys, space, pc, crashes>>

-----------------------------------------------------------------------------
(* The statements migrations are written with, and the migrations.         *)

\* CREATE TABLE IF NOT EXISTS.
CreateTables(d, ts, cs) ==
    [d EXCEPT !.tables = @ \cup ts,
              !.columns = @ \cup {c \in cs : c[1] \in ts \ d.tables}]

\* ADD COLUMN, after looking for it in table_info.
AddColumns(d, cs) == [d EXCEPT !.columns = @ \cup cs]

\* INSERT OR IGNORE INTO settings.
InsertDefaults(d, ks) ==
    [d EXCEPT !.settings =
        [k \in DOMAIN @ |-> IF k \in ks /\ @[k] = "absent" THEN "default" ELSE @[k]]]

JobTables == {"ssd_backup_configs", "hyper_backup_jobs", "rclone_jobs"}
BaselineTables == JobTables \cup
    {"settings", "backup_runs", "backup_run_files", "container_metrics", "media_drives",
     "media_import_ledger", "authorized_peers", "peer_audit_log", "cache", "pairing_requests"}
RemoteAccess == <<"pairing_requests", "remote_storage_limit, remote_allowed_path">>
Handshake == <<"pairing_requests", "handshake columns">>
PeerIdentity == <<"authorized_peers", "static_pubkey">>
PeerSshKey == <<"authorized_peers", "ssh_public_key">>
StorageLimit == <<"authorized_peers", "storage_limit_bytes">>
JobIdentity == <<"hyper_backup_jobs", "peer_static_pubkey">>
RunIdentity == <<"backup_runs", "peer_static_pubkey">>
FileDate == <<"backup_run_files", "file_date">>
LastSeenIp == <<"authorized_peers", "last_seen_ip">>
Excludes == <<"ssd_backup_configs", "exclude_patterns">>
Notify == {<<t, "notify_mode, notify_on_start">> : t \in JobTables}
ProtectedKeys == {<<"authorized_peers", "api_key_hash">>,
                  <<"pairing_requests", "api_key_encrypted">>,
                  <<"hyper_backup_jobs", "remote_api_key_encrypted">>}
SsdRetention == {<<"ssd_backup_configs", c>> :
                    c \in {"retention_days", "delta columns", "retention_policy"}}
BaselineColumns == {RemoteAccess, Handshake, PeerIdentity, StorageLimit, JobIdentity,
    RunIdentity, FileDate, LastSeenIp, Excludes} \cup Notify \cup ProtectedKeys \cup SsdRetention

m0(d) == [CreateTables(d, BaselineTables, BaselineColumns) EXCEPT !.fileIndex = TRUE]
m1(d) == IF "backup_run_files" \in d.tables THEN d
         ELSE [CreateTables(d, {"backup_run_files"}, {}) EXCEPT !.fileIndex = TRUE]
m2(d) == AddColumns(d, {FileDate})
m3(d) == AddColumns(d, {LastSeenIp})
m4(d) == CreateTables(d, {"pairing_requests"}, {RemoteAccess})
m5(d) == AddColumns(d, {RemoteAccess})

\* Mutant of m6: only the columns of pairing_requests are added.
m6Pairing(d) == AddColumns(d, {Handshake})

m6(d) == AddColumns(d, {Handshake, PeerIdentity})
m7(d) == AddColumns(d, Notify)
m8(d) == AddColumns(d, {Excludes})
m9(d) == InsertDefaults(d, {"general"})
m10(d) == InsertDefaults(d, {"hidden_remote_drives"})
m11(d) == InsertDefaults(d, {"run_files_retention_days"})
m12(d) == InsertDefaults(d, {"ssd_allow_empty_source"})
\* An unbound job gets the identity of its accepted outgoing pairing, if known.
m13(d) == [AddColumns(d, {JobIdentity}) EXCEPT !.job.bound = @ \/ d.outgoing.static]
m14(d) == [AddColumns(d, {RunIdentity}) EXCEPT !.run.bound = @ \/ d.job.bound]
m15(d) == [d EXCEPT !.drive.deletes = FALSE]
m16(d) == CreateTables(d, {"media_import_ledger"}, {})
m17(d) == [d EXCEPT !.job.root = FALSE]
m18(d) == AddColumns(d, ProtectedKeys)
m19(d) == [d EXCEPT !.settings["docker_socket"] = IF @ = "default" THEN "proxy" ELSE @]
m20(d) == InsertDefaults(d, {"run_history_retention_days", "peer_audit_retention_days"})
m21(d) == CreateTables(d, {"restore_events"}, {})
m22(d) == InsertDefaults(CreateTables(d, {"auth tables"}, {}), {"auth_audit_retention_days"})

\* The single peer key of early releases becomes an enabled peer of the whole
\* filesystem without a limit.
Migrated == [enabled |-> TRUE, path |-> "/", limited |-> FALSE,
             static |-> FALSE, ssh |-> FALSE]
m23(d) ==
    LET e == [AddColumns(d, SsdRetention \cup {StorageLimit}) EXCEPT !.fileIndex = TRUE]
    IN  IF d.settings["peer_api_key"] = "absent" THEN e
        ELSE [e EXCEPT !.peers["migrated"] = {Migrated},
                       !.plain = @ \cup {"authorized_peers"},
                       !.settings["peer_api_key"] = "absent"]

\* Mutant of m24: the old URL replaces whatever server is set.
m24Overwrites(d) ==
    [d EXCEPT !.settings["ntfy_server"] = IF d.settings["ntfy_url"] = "own" THEN "legacy" ELSE @,
              !.settings["ntfy_auth_token"] =
                IF d.settings["ntfy_token"] = "own" /\ @ = "absent" THEN "legacy" ELSE @,
              !.settings["ntfy_url"] = "absent", !.settings["ntfy_token"] = "absent"]

m24(d) ==
    LET carryUrl == d.settings["ntfy_url"] = "own" /\ d.settings["ntfy_server"] # "own"
        carryToken == d.settings["ntfy_token"] = "own" /\ d.settings["ntfy_auth_token"] = "absent"
    IN  [d EXCEPT
            !.settings["ntfy_server"] = IF carryUrl THEN "legacy" ELSE @,
            !.settings["ntfy_auth_token"] = IF carryToken THEN "legacy" ELSE @,
            !.settings["ntfy_auth_type"] =
                IF carryToken /\ @ \in {"absent", "default"} THEN "token" ELSE @,
            !.settings["ntfy_url"] = "absent",
            !.settings["ntfy_token"] = "absent"]

Scoped(p) == p.path # "/" /\ p.limited
m25(d) ==
    [AddColumns(d, {PeerSshKey}) EXCEPT !.peers =
        [n \in DOMAIN @ |->
            {LET q == [p EXCEPT !.ssh = @ \/ (n = "paired" /\ d.incoming.ssh)]
             IN  [q EXCEPT !.enabled = @ /\ Scoped(q) /\ (q.static => q.ssh)] : p \in @[n]}]]
m27(d) == AddColumns(d, {<<"backup_runs", "db_backup_status">>})
m28(d) == AddColumns(d, {<<"pairing_requests", "reciprocal columns">>})
m29(d) == CreateTables(d, {"external_jobs", "external_job_runs"}, {})
m30(d) == CreateTables(d, {"events"}, {})
m31(d) == AddColumns(d, {<<"external_job_runs", "source_ref">>})
m32(d) == AddColumns(d, {<<"media_drives", "source_kind, import_mode">>})
m33(d) == AddColumns(CreateTables(d, {"media_online_import_archives"}, {}),
                     {<<"media_drives", "remote_name, remote_path">>})
m34(d) == AddColumns(d, {<<"backup_runs", "dry_run">>})

up(v, d) ==
    CASE v = 0 -> m0(d) [] v = 1 -> m1(d) [] v = 2 -> m2(d) [] v = 3 -> m3(d) [] v = 4 -> m4(d)
      [] v = 5 -> m5(d) [] v = 6 -> m6(d) [] v = 7 -> m7(d) [] v = 8 -> m8(d) [] v = 9 -> m9(d)
      [] v = 10 -> m10(d) [] v = 11 -> m11(d) [] v = 12 -> m12(d) [] v = 13 -> m13(d)
      [] v = 14 -> m14(d) [] v = 15 -> m15(d) [] v = 16 -> m16(d) [] v = 17 -> m17(d)
      [] v = 18 -> m18(d) [] v = 19 -> m19(d) [] v = 20 -> m20(d) [] v = 21 -> m21(d)
      [] v = 22 -> m22(d) [] v = 23 -> m23(d) [] v = 24 -> m24(d) [] v = 25 -> m25(d)
      [] v = 27 -> m27(d) [] v = 28 -> m28(d) [] v = 29 -> m29(d) [] v = 30 -> m30(d)
      [] v = 31 -> m31(d) [] v = 32 -> m32(d) [] v = 33 -> m33(d) [] v = 34 -> m34(d)
      [] OTHER -> d  \* 26: indexes only

\* The columns that the queries of a migration name must be there by then.
Reads(v) ==
    CASE v = 13 -> {Handshake}
      [] v = 14 -> {JobIdentity}
      [] v = 25 -> {StorageLimit, PeerIdentity}
      [] OTHER -> {}

-----------------------------------------------------------------------------
(* The databases a startup may find. *)

\* MIGRATION_TABLE_LIMITS: the tables a migration rewrites or indexes.
MigrationLimits(v) ==
    CASE v = 0  -> BaselineTables
      [] v = 13 -> {"hyper_backup_jobs", "pairing_requests"}
      [] v = 14 -> {"backup_runs", "hyper_backup_jobs"}
      [] v = 15 -> {"media_drives"}
      [] v = 16 -> {"media_import_ledger"}
      [] v = 17 -> {"hyper_backup_jobs"}
      [] v = 18 -> {"authorized_peers", "pairing_requests", "hyper_backup_jobs"}
      [] v = 21 -> {"restore_events"}
      [] v = 22 -> {"auth tables"}
      [] v = 23 -> {"ssd_backup_configs", "authorized_peers"}
      [] v = 25 -> {"authorized_peers", "pairing_requests"}
      [] v = 26 -> {"backup_runs", "peer_audit_log", "auth tables"}
      [] OTHER -> {}

Defaults == {"general", "hidden_remote_drives", "run_files_retention_days",
             "ssd_allow_empty_source", "run_history_retention_days",
             "peer_audit_retention_days", "auth_audit_retention_days"}
Aliases == {"ntfy_url", "ntfy_token", "peer_api_key"}
Keys == Defaults \cup Aliases \cup
        {"ntfy_server", "ntfy_auth_token", "ntfy_auth_type", "docker_socket"}

Peer == [enabled : BOOLEAN, path : {"/", "p", "q"}, limited : BOOLEAN,
         static : BOOLEAN, ssh : BOOLEAN]

NewFile ==
    [version |-> -1, tables |-> {}, columns |-> {}, fileIndex |-> FALSE,
     settings |-> [k \in Keys |-> "absent"],
     peers |-> [n \in {"paired", "migrated"} |-> {}],
     incoming |-> [ssh |-> FALSE], outgoing |-> [static |-> FALSE],
     job |-> [bound |-> FALSE, root |-> FALSE], run |-> [bound |-> FALSE],
     drive |-> [deletes |-> FALSE], plain |-> {}, big |-> {}]

\* The tables of the first releases, which repaired their columns inline: all
\* the columns of the baseline but some, or only some of them.
InlineColumns == {BaselineColumns} \cup {{c} : c \in BaselineColumns}
                 \cup {BaselineColumns \ {c} : c \in BaselineColumns}
Inline(cs) == [NewFile EXCEPT !.tables = BaselineTables, !.columns = cs,
                              !.settings["docker_socket"] = "default"]

\* What the migrations after version j, up to version k, make of a database.
Through(d, j, k) ==
    LET f[n \in j..LATEST] == IF n = j THEN d ELSE [up(n, f[n - 1]) EXCEPT !.version = n]
    IN  IF k <= j THEN d ELSE f[k]

\* The rows, settings and sizes the operator of an early release leaves in it.
WithPeer(d, p, s) == [d EXCEPT !.peers["paired"] = {p}, !.incoming.ssh = s]
WithJob(d, r, x, o, t) ==
    [d EXCEPT !.job.root = r, !.outgoing.static = o, !.drive.deletes = x, !.plain = t]
PeersOf(d) ==
    {WithPeer(d, p, s) : s \in BOOLEAN, p \in {q \in Peer : q.path # "q" /\ ~q.ssh}}
JobsOf(d) ==
    {WithJob(d, r, x, o, t) :
        r \in {b \in BOOLEAN : b => d.version < 17}, x \in BOOLEAN, o \in BOOLEAN,
        t \in SUBSET {u \in {"authorized_peers", "pairing_requests", "hyper_backup_jobs"} :
                         d.version < 18}}
SettingsOf(d) ==
    {[d EXCEPT !.settings = [x \in Keys |-> IF x \in own THEN "own" ELSE @[x]]] :
        own \in SUBSET (Aliases \cup {"ntfy_server", "ntfy_auth_token", "docker_socket"})}
SizesOf(d) ==
    {[d EXCEPT !.big = {t}] : t \in BaselineTables} \cup
    {[d EXCEPT !.big = {"peer keys"}, !.plain = {u \in {"authorized_peers"} : d.version < 18}]}

\* Databases of version k: a new file, one of the first releases, or one whose
\* rows an early release wrote.
Found(k) ==
    LET early == IF k < 22 THEN k ELSE 22
        old == Through(Inline(BaselineColumns), -1, early)
    IN  {Through(NewFile, -1, k)} \cup
        {Through(Inline(cs), -1, k) : cs \in InlineColumns} \cup
        {Through(d, early, k) : d \in PeersOf(old) \cup JobsOf(old) \cup SettingsOf(old)
                                      \cup SizesOf(old)}

StartupInit ==
    /\ db \in UNION {Found(k) : k \in Versions \cup {-1}}
    /\ backup = db
    /\ line \in {"none", "free"}
    /\ hostKeys \in BOOLEAN
    /\ space \in BOOLEAN
    /\ pc = "migrating"
    /\ crashes = 0

-----------------------------------------------------------------------------
(* The startup. *)

\* assertMigrationWorkloadBounded.
Bounded(v) ==
    /\ space
    /\ db.big \cap db.tables \cap MigrationLimits(v) = {}
    /\ v = 23 /\ ~db.fileIndex => "backup_run_files" \notin db.big

Pending == db.version + 1

\* Mutant of migrate: a version is recorded although its tables are too big.
migrateSkips ==
    /\ pc = "migrating" /\ Pending <= LATEST /\ space
    /\ db' = [IF Bounded(Pending) THEN up(Pending, db) ELSE db EXCEPT !.version = Pending]
    /\ UNCHANGED <<backup, line, hostKeys, space, pc, crashes>>

\* runMigrations: one pending migration and its row, in one transaction.
migrate ==
    /\ pc = "migrating"
    /\ Pending <= LATEST
    /\ Bounded(Pending)
    /\ Reads(Pending) \subseteq db.columns
    /\ db' = [up(Pending, db) EXCEPT !.version = Pending]
    /\ UNCHANGED <<backup, line, hostKeys, space, pc, crashes>>

\* A preflight or a statement throws: db.js does not load and the process ends.
migrationBlocked ==
    /\ pc = "migrating"
    /\ Pending <= LATEST
    /\ ~Bounded(Pending) \/ ~(Reads(Pending) \subseteq db.columns)
    /\ pc' = "down"
    /\ UNCHANGED <<db, backup, line, hostKeys, space, crashes>>

migrationsDone ==
    /\ pc = "migrating"
    /\ Pending > LATEST
    /\ pc' = "secrets"
    /\ UNCHANGED <<db, backup, line, hostKeys, space, crashes>>

\* assertPeerSecretMigrationBounded.
SecretsBounded == space /\ (db.plain = {} \/ "peer keys" \notin db.big)

secretsBlocked ==
    /\ pc = "secrets"
    /\ ~SecretsBounded
    /\ pc' = "down"
    /\ UNCHANGED <<db, backup, line, hostKeys, space, crashes>>

\* migrateInBatches: the keys of one table are hashed or encrypted, in
\* transactions of 100 rows; a conversion that was cut off goes on at the rows
\* that are still plain.
migrateInBatches ==
    /\ pc = "secrets"
    /\ SecretsBounded
    /\ IF db.plain = {}
       THEN pc' = "ssh" /\ UNCHANGED db
       ELSE /\ \E t \in db.plain : db' = [db EXCEPT !.plain = @ \ {t}]
            /\ UNCHANGED pc
    /\ UNCHANGED <<backup, line, hostKeys, space, crashes>>

\* reconcilePeerSshAuthorizationsAtStartup: what becomes of an enabled peer.
Reconciled(p) ==
    [p EXCEPT !.enabled = @ /\ IF p.ssh THEN Scoped(p) /\ hostKeys ELSE ~p.static]

\* Mutant of reconcileAtStartup: the lines are taken to be as they were left.
reconcileRowsOnly ==
    /\ pc = "ssh"
    /\ db' = [db EXCEPT !.peers = [n \in DOMAIN @ |-> {Reconciled(p) : p \in @[n]}]]
    /\ pc' = "serving"
    /\ UNCHANGED <<backup, line, hostKeys, space, crashes>>

reconcileAtStartup ==
    /\ pc = "ssh"
    /\ db' = [db EXCEPT !.peers = [n \in DOMAIN @ |-> {Reconciled(p) : p \in @[n]}]]
    /\ line' = IF \E p \in db'.peers["paired"] : p.enabled /\ p.ssh
               THEN (CHOOSE p \in db'.peers["paired"] : TRUE).path ELSE line
    /\ pc' = "serving"
    /\ UNCHANGED <<backup, hostKeys, space, crashes>>

-----------------------------------------------------------------------------
(* Serving: the routes that change a peer, and backups. *)

\* reconcilePeerSshAuthorization: the line it leaves, for the row as it was.
CanReconcile(p, on) == IF p.ssh THEN hostKeys ELSE ~(on /\ p.static)
LineAfter(p, on, path) == IF ~p.ssh THEN line ELSE IF on THEN path ELSE "none"

\* The row with what a request names.
PeerAfter(p, on, path, limited) == [p EXCEPT !.enabled = on, !.path = path, !.limited = limited]

\* PUT /:id.  Access is validated whenever the peer is to be enabled or the
\* request names it; the line is written before the row.
editPeer ==
    /\ pc = "serving"
    /\ \E n \in DOMAIN db.peers : \E p \in db.peers[n] :
       \E on \in BOOLEAN, path \in {"/", "p", "q"}, limited \in BOOLEAN :
          LET q == PeerAfter(p, on, path, limited)
          IN  /\ q # p
              /\ on \/ path # p.path \/ limited # p.limited => Scoped(q)
              /\ CanReconcile(p, on)
              /\ line' = LineAfter(p, on, path)
              /\ db' = [db EXCEPT !.peers[n] = {q}]
    /\ UNCHANGED <<backup, hostKeys, space, pc, crashes>>

\* DELETE /:id.
deletePeer ==
    /\ pc = "serving"
    /\ \E n \in DOMAIN db.peers : \E p \in db.peers[n] :
          /\ CanReconcile(p, FALSE)
          /\ line' = LineAfter(p, FALSE, p.path)
          /\ db' = [db EXCEPT !.peers[n] = {}]
    /\ UNCHANGED <<backup, hostKeys, space, pc, crashes>>

backupDatabase ==
    /\ pc = "serving"
    /\ backup' = db
    /\ UNCHANGED <<db, line, hostKeys, space, pc, crashes>>

-----------------------------------------------------------------------------
(* The process ends, and what the operator does before the next start. *)

killed ==
    /\ pc # "down"
    /\ crashes < MaxCrashes
    /\ crashes' = crashes + 1
    /\ pc' = "down"
    /\ UNCHANGED <<db, backup, line, hostKeys, space>>

\* It ends between the write to authorized_keys and the write to the row.
crashInEdit ==
    /\ pc = "serving"
    /\ crashes < MaxCrashes
    /\ crashes' = crashes + 1
    /\ pc' = "down"
    /\ \E p \in db.peers["paired"] : \E on \in BOOLEAN, path \in {"p", "q"} :
          /\ CanReconcile(p, on)
          /\ line' = LineAfter(p, on, path)
    /\ UNCHANGED <<db, backup, hostKeys, space>>

restart ==
    /\ pc = "down"
    /\ pc' = "migrating"
    /\ UNCHANGED <<db, backup, line, hostKeys, space, crashes>>

\* A staged backup is installed by the next start (DatabaseFile has the steps).
restore ==
    /\ pc = "down"
    /\ crashes < MaxCrashes
    /\ crashes' = crashes + 1
    /\ db' = backup
    /\ pc' = "migrating"
    /\ UNCHANGED <<backup, line, hostKeys, space>>

\* Space is freed, and what was too big is migrated offline.
relieve ==
    /\ pc = "down"
    /\ ~space \/ db.big # {}
    /\ space' = TRUE
    /\ db' = [db EXCEPT !.big = {}]
    /\ UNCHANGED <<backup, line, hostKeys, pc, crashes>>

\* The container is started with or without the host's authorized_keys.
remount ==
    /\ pc = "down"
    /\ crashes < MaxCrashes
    /\ crashes' = crashes + 1
    /\ hostKeys' = ~hostKeys
    /\ UNCHANGED <<db, backup, line, space, pc>>

startup == migrate \/ migrationBlocked \/ migrationsDone
           \/ migrateInBatches \/ secretsBlocked \/ reconcileAtStartup

StartupNext ==
    \/ startup
    \/ editPeer \/ deletePeer \/ backupDatabase
    \/ killed \/ crashInEdit \/ restart \/ restore \/ relieve \/ remount

StartupSpec == StartupInit /\ [][StartupNext]_startupVars

\* The startup is straight-line code, the supervisor restarts the process, and
\* the operator answers a blocked migration.
Fairness == WF_startupVars(startup) /\ WF_startupVars(restart) /\ SF_startupVars(relieve)

FairSpec == StartupSpec /\ Fairness

-----------------------------------------------------------------------------
(* Properties. *)

\* What the last release's queries name.
Complete ==
    LET new == Through(NewFile, -1, LATEST)
    IN  /\ new.tables \subseteq db.tables
        /\ new.columns \subseteq db.columns
        /\ \A k \in Defaults : db.settings[k] # "absent"

(* Whatever the version and the columns a database starts from, wherever    *)
(* its migration was cut off or blocked and whichever backup came back in   *)
(* between, the application only serves with the tables, columns and        *)
(* settings of a fresh installation, no early alias, and no plain key.      *)
ServesComplete ==
    pc = "serving" => /\ Complete
                      /\ \A k \in Aliases : db.settings[k] = "absent"
                      /\ db.plain = {}
                      /\ ~db.job.root

(* While it serves, every enabled peer has a directory and a limit of its   *)
(* own, and a paired one has exactly the authorized_keys line of that       *)
(* directory: after migrations 23 and 25, restored rows, and a crash        *)
(* between the two writes of an edit.                                       *)
GrantsMatchLines ==
    pc = "serving" =>
        \A n \in DOMAIN db.peers : \A p \in db.peers[n] :
            p.enabled => /\ Scoped(p)
                         /\ p.static => p.ssh
                         /\ p.ssh => line = p.path

Server(s) == IF s["ntfy_server"] \in {"own", "legacy"} THEN s["ntfy_server"]
             ELSE IF s["ntfy_url"] = "own" THEN "legacy" ELSE "default"
Token(s) == IF s["ntfy_auth_token"] # "absent" THEN s["ntfy_auth_token"]
            ELSE IF s["ntfy_token"] = "own" THEN "legacy" ELSE "absent"

(* No migration changes where notifications go or with which token, nor a   *)
(* setting that is the operator's own.                                      *)
SettingsCarriedOver ==
    [][pc = "migrating" =>
         /\ Server(db'.settings) = Server(db.settings)
         /\ Token(db'.settings) = Token(db.settings)
         /\ \A k \in Keys \ Aliases :
               db.settings[k] = "own" => db'.settings[k] = "own"]_startupVars

(* An upgrade that is not given up on succeeds: however often it was        *)
(* crashed or blocked, the application serves again and again.              *)
StartsEventually == []<>(pc = "serving")
=============================================================================
