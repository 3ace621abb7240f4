------------------------------- MODULE Access -------------------------------
(***************************************************************************)
(* Accounts and sessions (authService.js, routes/auth.js, mainAuth.js):    *)
(* logins, password changes and recoveries that await a hash between what  *)
(* they read and what they write, sessions that slide and expire, the      *)
(* operator's commands on the host, retention, and the restore of an older *)
(* database at a restart.                                                  *)
(*                                                                         *)
(* Abstractions.                                                           *)
(*  - A token is a number, never issued twice; of a password only whether  *)
(*    it matches the hash that was read is kept.                           *)
(*  - A tick is at least the minute after which a session slides.          *)
(*  - A start is over when it serves: between the install of a restored    *)
(*    database and the end of its sessions it may be cut off. The host's   *)
(*    commands are taken to run while the process serves.                  *)
(*  - Rate limits, origins, names and the audit log are left out.          *)
(***************************************************************************)
EXTENDS Integers, Sequences, FiniteSetsExt, TLC

CONSTANTS
    Local, Proxy,  \* the account names of the two providers
    AutoRole,      \* PROXY_AUTO_PROVISION_ROLE, or None
    Idle,          \* SESSION_IDLE_MINUTES, in ticks
    Absolute,      \* SESSION_ABSOLUTE_HOURS, in ticks
    RecoveryLife,  \* RECOVERY_TOKEN_MINUTES, in ticks
    LockAfter,     \* failed logins before a lock
    MaxLock,       \* the longest lock, in ticks
    RetainFor,     \* how long retention keeps an ended session, in ticks
    MaxTime,       \* bound: ticks
    MaxSessions,   \* bound: sessions opened
    MaxRecoveries, \* bound: recovery tokens issued
    MaxAsked,      \* bound: requests that await a hash
    MaxEvents,     \* bound: what administrators, operators and restarts do
    None

Roles  == {"admin", "viewer"}
Users  == Local \cup Proxy
Tokens == 1..MaxSessions

AccountRows == [role : Roles, enabled : BOOLEAN, failed : Nat, locked : Int]
SessionRows == [user : Users, seen : Nat, idle : Int, absolute : Int, ended : Nat \cup {None}]

ASSUME AccessAssumption ==
    /\ {Idle, Absolute, RecoveryLife, LockAfter, MaxLock, RetainFor} \subseteq Nat \ {0}
    /\ {MaxTime, MaxSessions, MaxRecoveries, MaxAsked, MaxEvents} \subseteq Nat
    /\ Local \cap Proxy = {}
    /\ None \notin Nat /\ None \notin AccountRows /\ None \notin SessionRows
    /\ AutoRole \in {"admin", "viewer", None}

LocalSymmetry == Permutations(Local)

VARIABLES
    now, mode,            \* the clock, and AUTH_MODE of the running process
    accounts, sessions, recoveries,   \* the tables
    issued,               \* session tokens issued so far
    tasks,                \* requests that await argon2
    saved,                \* the tables as a backup has them, or None
    asked, events,
    failures,             \* failed logins since the last success
    phase,                \* "up", or a start that has "installed" a restored database
                          \* or was "cut" off after that
    gen                   \* starts that found what such a start had left

tables  == <<accounts, sessions, recoveries>>
bound   == <<asked, events>>
process == <<phase, gen>>
vars    == <<now, mode, tables, issued, tasks, saved, bound, failures, process>>

Account(role) == [role |-> role, enabled |-> TRUE, failed |-> 0, locked |-> 0]

\* A process starts with an absolute limit that is longer than the idle one, or not at all.
getAuthConfig == {m \in {"local", "proxy"} : Absolute > Idle}

Init ==
    /\ now = 1 /\ mode \in getAuthConfig
    /\ \E first \in Local \cup {None} :     \* a new database, or one with an administrator
          accounts = [u \in Users |-> IF u = first THEN Account("admin") ELSE None]
    /\ sessions = [t \in Tokens |-> None]
    /\ recoveries = <<>>
    /\ issued = 0 /\ tasks = {} /\ saved = None
    /\ asked = 0 /\ events = 0
    /\ failures = [u \in Users |-> 0]
    /\ phase = "up" /\ gen = 0

-----------------------------------------------------------------------------
(* Sessions.                                                               *)

\* The row answers requests, if the account may.
Alive(s) == s # None /\ s.ended = None /\ s.idle > now /\ s.absolute > now

Active(t) == Alive(sessions[t]) /\ accounts[sessions[t].user].enabled

Ended(s) == IF s # None /\ s.ended = None THEN [s EXCEPT !.ended = now] ELSE s

Slid(s) == IF now > s.seen
           THEN [s EXCEPT !.seen = now, !.idle = Min({s.absolute, now + Idle})] ELSE s

\* Mutant of findActiveSession: a session that comes back late slides all the same.
findSlidSession(t) ==
    LET s == sessions[t]
    IN  IF t = None \/ s = None THEN sessions
        ELSE IF s.ended # None \/ ~accounts[s.user].enabled THEN sessions
        ELSE [sessions EXCEPT ![t] = IF s.absolute > now THEN Slid(s) ELSE Ended(s)]

\* The sessions after one was looked up: slid, or ended because it came late.
findActiveSession(t) ==
    IF t = None THEN sessions
    ELSE LET s == sessions[t]
         IN  IF s = None THEN sessions
             ELSE IF s.ended # None \/ ~accounts[s.user].enabled THEN sessions
             ELSE [sessions EXCEPT ![t] = IF Alive(s) THEN Slid(s) ELSE Ended(s)]

revokeSession(ss, t) == [ss EXCEPT ![t] = Ended(@)]

revokeUserSessions(ss, u) ==
    [t \in Tokens |-> IF ss[t] # None /\ ss[t].user = u THEN Ended(ss[t]) ELSE ss[t]]

\* The presented session makes way for a new one.
createSession(ss, u) ==
    /\ issued < MaxSessions /\ issued' = issued + 1
    /\ sessions' = [ss EXCEPT ![issued + 1] =
           [user |-> u, seen |-> now, idle |-> now + Idle, absolute |-> now + Absolute,
            ended |-> None]]

revokePresentedSession(t) ==
    IF t = None THEN sessions
    ELSE IF Active(t) THEN revokeSession(findActiveSession(t), t) ELSE findActiveSession(t)

-----------------------------------------------------------------------------
(* Requests with a session.                                                *)

request(t) ==
    /\ mode = "local" /\ sessions[t] # None
    /\ sessions' = findActiveSession(t)
    /\ UNCHANGED <<now, mode, accounts, recoveries, issued, tasks, saved, bound, failures>>

logout(t) ==
    /\ mode = "local" /\ Active(t)
    /\ sessions' = revokeSession(findActiveSession(t), t)
    /\ UNCHANGED <<now, mode, accounts, recoveries, issued, tasks, saved, bound, failures>>

\* Who may administer: the account of a live session, or one the proxy vouches for.
\* The sessions are those after the request was let in.
Administers(who, ss) ==
    \/ /\ mode = "local" /\ who \in Tokens /\ Active(who)
       /\ accounts[sessions[who].user].role = "admin"
       /\ ss = findActiveSession(who)
    \/ /\ mode = "proxy" /\ who \in Proxy /\ accounts[who] # None
       /\ accounts[who].enabled /\ accounts[who].role = "admin"
       /\ ss = sessions

Event == events < MaxEvents /\ events' = events + 1

\* The last enabled administrator of a provider can be neither disabled nor demoted.
LastAdmin(u) ==
    LET provider == IF u \in Local THEN Local ELSE Proxy
    IN  \A v \in provider \ {u} :
            accounts[v] = None \/ ~accounts[v].enabled \/ accounts[v].role # "admin"

updateAuthUser(ss, u, role, enabled) ==
    /\ Event /\ accounts[u] # None
    /\ LET was == accounts[u]
           changed == was.role # role \/ was.enabled # enabled
       IN  /\ (was.role = "admin" /\ (role # "admin" \/ ~enabled)) => ~LastAdmin(u)
           /\ accounts' = [accounts EXCEPT ![u].role = role, ![u].enabled = enabled]
           /\ sessions' = IF changed THEN revokeUserSessions(ss, u) ELSE ss
    /\ UNCHANGED <<now, mode, recoveries, issued, tasks, saved, asked, failures>>

revokeSessionsRoute(ss, u) ==
    /\ Event /\ accounts[u] # None
    /\ sessions' = revokeUserSessions(ss, u)
    /\ UNCHANGED <<now, mode, accounts, recoveries, issued, tasks, saved, asked, failures>>

\* An identity the proxy vouches for is provisioned on its first request, or refused.
resolveProxyAccount(u) ==
    /\ mode = "proxy" /\ accounts[u] = None /\ AutoRole # None
    /\ accounts' = [accounts EXCEPT ![u] = Account(AutoRole)]
    /\ UNCHANGED <<now, mode, sessions, recoveries, issued, tasks, saved, bound, failures>>

-----------------------------------------------------------------------------
(* Requests that await a hash.  What they read before is in the task.      *)

Ask(task) ==
    /\ mode = "local"
    /\ asked < MaxAsked /\ asked' = asked + 1
    /\ tasks' = tasks \cup {[n |-> asked, at |-> now, what |-> task]}
    /\ UNCHANGED <<now, mode, recoveries, issued, saved, events, accounts, failures>>

loginAsks(u, matches, t) ==
    /\ accounts[u] # None
    /\ Ask([op |-> "login", user |-> u, token |-> t, read |-> accounts[u], matches |-> matches])
    /\ UNCHANGED sessions

\* The token must be one that was issued, and neither used, revoked nor late.
recoverAsks(i) ==
    /\ recoveries[i].status = "issued" /\ recoveries[i].expires > now
    /\ Ask([op |-> "recover", id |-> i])
    /\ UNCHANGED sessions

\* A wrong current password is refused when its hash has been read: nothing changes.
passwordAsks(t) ==
    /\ Active(t) /\ sessions[t].user \in Local
    /\ Ask([op |-> "password", user |-> sessions[t].user])
    /\ sessions' = findActiveSession(t)

createUserAsks(ss, u, role) ==
    /\ Ask([op |-> "create", user |-> u, role |-> role])
    /\ sessions' = ss

bootstrapAsks(u) == Ask([op |-> "bootstrap", user |-> u]) /\ UNCHANGED sessions

Done(task) ==
    /\ tasks' = tasks \ {task}
    /\ UNCHANGED <<now, mode, saved, bound>>

Accepted(task) ==
    /\ task.what.matches /\ task.what.read.enabled
    /\ ~(task.what.read.locked > task.at)

loginSucceeds(task) ==
    LET u == task.what.user
    IN  /\ task.what.op = "login" /\ Accepted(task)
        /\ accounts' = [accounts EXCEPT ![u].failed = 0, ![u].locked = 0]
        /\ failures' = [failures EXCEPT ![u] = 0]
        /\ createSession(revokePresentedSession(task.what.token), u)
        /\ UNCHANGED recoveries
        /\ Done(task)

lockFor(attempts) ==
    IF attempts >= LockAfter THEN Min({MaxLock, 2 ^ (attempts - LockAfter)}) ELSE 0

\* Mutant of FailedAccount: the attempts are counted from the row the login read.
FailedReadAccount(task) ==
    LET attempts == task.what.read.failed + 1
    IN  [accounts[task.what.user] EXCEPT !.failed = attempts,
             !.locked = IF lockFor(attempts) > 0 THEN task.at + lockFor(attempts) ELSE 0]

FailedAccount(task) ==
    LET current  == accounts[task.what.user]
        attempts == current.failed + 1
    IN  [current EXCEPT !.failed = attempts,
             !.locked = IF lockFor(attempts) > 0 THEN task.at + lockFor(attempts) ELSE 0]

\* A failure counts unless the account is locked already.
loginFails(task) ==
    LET u == task.what.user
    IN  /\ task.what.op = "login" /\ ~Accepted(task)
        /\ IF accounts[u] = None \/ accounts[u].locked > task.at
           THEN UNCHANGED <<accounts, failures>>
           ELSE /\ accounts' = [accounts EXCEPT ![u] = FailedAccount(task)]
                /\ failures' = [failures EXCEPT ![u] = @ + 1]
        /\ UNCHANGED <<sessions, recoveries, issued>>
        /\ Done(task)

\* The token is claimed in the transaction that uses it.
Claims(task) ==
    LET r == recoveries[task.what.id]
    IN  r.status = "issued" /\ r.expires > task.at

recoverEnds(task) ==
    /\ task.what.op = "recover"
    /\ IF Claims(task)
       THEN LET u == recoveries[task.what.id].user
            IN  /\ recoveries' = [recoveries EXCEPT ![task.what.id].status = "used"]
                /\ accounts' = [accounts EXCEPT ![u].failed = 0, ![u].locked = 0]
                /\ failures' = [failures EXCEPT ![u] = 0]
                /\ sessions' = revokeUserSessions(sessions, u)
       ELSE UNCHANGED <<recoveries, accounts, failures, sessions>>
    /\ UNCHANGED issued
    /\ Done(task)

\* Everybody is logged out, and who changed the password is logged in again.
passwordEnds(task) ==
    /\ task.what.op = "password"
    /\ createSession(revokeUserSessions(sessions, task.what.user), task.what.user)
    /\ UNCHANGED <<accounts, recoveries, failures>>
    /\ Done(task)

\* Two requests for one name: the second violates the unique constraint.
createUserEnds(task) ==
    /\ task.what.op = "create"
    /\ accounts' = IF accounts[task.what.user] = None
                   THEN [accounts EXCEPT ![task.what.user] = Account(task.what.role)] ELSE accounts
    /\ UNCHANGED <<sessions, recoveries, issued, failures>>
    /\ Done(task)

\* Available as long as there is no local account.
bootstrapEnds(task) ==
    /\ task.what.op = "bootstrap"
    /\ IF \A u \in Local : accounts[u] = None
       THEN /\ accounts' = [accounts EXCEPT ![task.what.user] = Account("admin")]
            /\ createSession(sessions, task.what.user)
       ELSE UNCHANGED <<accounts, sessions, issued>>
    /\ UNCHANGED <<recoveries, failures>>
    /\ Done(task)

-----------------------------------------------------------------------------
(* The operator on the host, retention, restarts.                          *)

\* A new token revokes the ones before it.
issueRecoveryToken(u) ==
    /\ Event /\ u \in Local /\ accounts[u] # None
    /\ Len(recoveries) < MaxRecoveries
    /\ recoveries' = Append([i \in DOMAIN recoveries |->
                                IF recoveries[i].user = u /\ recoveries[i].status = "issued"
                                THEN [recoveries[i] EXCEPT !.status = "revoked"] ELSE recoveries[i]],
                            [user |-> u, status |-> "issued", expires |-> now + RecoveryLife])
    /\ UNCHANGED <<now, mode, accounts, sessions, issued, tasks, saved, asked, failures>>

\* A late token is marked when it is presented.
recoveryExpires(i) ==
    /\ mode = "local" /\ recoveries[i].status = "issued" /\ recoveries[i].expires <= now
    /\ recoveries' = [recoveries EXCEPT ![i].status = "expired"]
    /\ UNCHANGED <<now, mode, accounts, sessions, issued, tasks, saved, bound, failures>>

promoteLocalAdminForRecovery(u) ==
    /\ Event /\ u \in Local /\ accounts[u] # None
    /\ accounts' = [accounts EXCEPT ![u] = Account("admin")]
    /\ failures' = [failures EXCEPT ![u] = 0]
    /\ sessions' = revokeUserSessions(sessions, u)
    /\ UNCHANGED <<now, mode, recoveries, issued, tasks, saved, asked>>

provisionProxyAccount(u, role) ==
    /\ Event /\ u \in Proxy
    /\ accounts' = [accounts EXCEPT ![u] =
           IF @ = None THEN Account(role) ELSE [@ EXCEPT !.role = role, !.enabled = TRUE]]
    /\ sessions' = revokeUserSessions(sessions, u)
    /\ UNCHANGED <<now, mode, recoveries, issued, tasks, saved, asked, failures>>

pruneDatabaseTelemetry ==
    LET old(s) == s # None /\ (IF s.ended # None THEN s.ended < now - RetainFor
                               ELSE s.absolute < now - RetainFor)
    IN  /\ \E t \in Tokens : old(sessions[t])
        /\ sessions' = [t \in Tokens |-> IF old(sessions[t]) THEN None ELSE sessions[t]]
        /\ UNCHANGED <<now, mode, accounts, recoveries, issued, tasks, saved, bound, failures>>

backupDatabase ==
    /\ Event /\ saved = None
    /\ saved' = [accounts |-> accounts, sessions |-> sessions, recoveries |-> recoveries]
    /\ UNCHANGED <<now, mode, tables, issued, tasks, asked, failures>>

\* Mutant of revokeSessionsAfterDatabaseRestore: the restored sessions go on.
keepSessionsAfterDatabaseRestore(ss) == ss

revokeSessionsAfterDatabaseRestore(ss) == [t \in Tokens |-> Ended(ss[t])]

\* The process before is gone: it was stopped, or its start was cut off.
Stopped ==
    /\ phase \in {"up", "cut"}
    /\ IF phase = "up" THEN Event ELSE UNCHANGED events
    /\ tasks' = {}
    /\ UNCHANGED <<now, issued, saved, asked>>

\* A start with nothing staged revokes nothing, whatever the start before it left.
restart(m) ==
    /\ Stopped
    /\ mode' = m /\ phase' = "up"
    /\ gen' = IF phase = "cut" THEN gen + 1 ELSE gen
    /\ UNCHANGED <<tables, failures>>

\* A start with a staged restore installs it before it opens the database ...
installRestore(m) ==
    /\ Stopped /\ saved # None
    /\ mode' = m /\ phase' = "installed"
    /\ accounts' = saved.accounts /\ recoveries' = saved.recoveries
    /\ sessions' = saved.sessions
    /\ failures' = [u \in Users |-> IF saved.accounts[u] = None THEN 0
                                    ELSE saved.accounts[u].failed]
    /\ UNCHANGED gen

\* ... migrates it, converts keys, reconciles SSH lines, and ends its sessions last.
revokeRestored ==
    /\ phase = "installed" /\ phase' = "up"
    /\ sessions' = revokeSessionsAfterDatabaseRestore(sessions)
    /\ UNCHANGED <<now, mode, accounts, recoveries, issued, tasks, saved, bound, failures, gen>>

\* A crash, or a migration that is blocked. What was staged is installed by now.
startCutOff ==
    /\ phase = "installed" /\ phase' = "cut"
    /\ UNCHANGED <<now, mode, tables, issued, tasks, saved, bound, failures, gen>>

tick ==
    /\ now < MaxTime /\ now' = now + 1
    /\ UNCHANGED <<mode, tables, issued, tasks, saved, bound, failures>>

\* What the process, its users and its operator do while it serves.
Serves ==
    \/ \E t \in Tokens : request(t) \/ logout(t) \/ passwordAsks(t)
    \/ \E who \in Tokens \cup Proxy, ss \in {sessions} \cup {findActiveSession(t) : t \in Tokens} :
          /\ Administers(who, ss)
          /\ \E u \in Users :
                \/ revokeSessionsRoute(ss, u)
                \/ \E role \in Roles :
                      \/ \E enabled \in BOOLEAN : updateAuthUser(ss, u, role, enabled)
                      \/ u \in Local /\ createUserAsks(ss, u, role)
    \/ \E u \in Proxy : resolveProxyAccount(u) \/ (\E role \in Roles : provisionProxyAccount(u, role))
    \/ \E u \in Local :
          \/ \E matches \in BOOLEAN, t \in {None} \cup 1..issued : loginAsks(u, matches, t)
          \/ bootstrapAsks(u) \/ issueRecoveryToken(u) \/ promoteLocalAdminForRecovery(u)
    \/ \E i \in DOMAIN recoveries : recoverAsks(i) \/ recoveryExpires(i)
    \/ \E task \in tasks :
          \/ loginSucceeds(task) \/ loginFails(task) \/ recoverEnds(task)
          \/ passwordEnds(task) \/ createUserEnds(task) \/ bootstrapEnds(task)
    \/ pruneDatabaseTelemetry \/ backupDatabase

Starts == revokeRestored \/ startCutOff \/ \E m \in getAuthConfig : restart(m) \/ installRestore(m)

Next ==
    \/ phase = "up" /\ Serves /\ UNCHANGED process
    \/ Starts
    \/ tick /\ UNCHANGED process

Spec == Init /\ [][Next]_vars

-----------------------------------------------------------------------------
(* Properties.                                                             *)

\* A session answers while the process serves.
Answers(t) == phase = "up" /\ sessions[t] # None /\ Active(t)

\* What a session is worth, whoever asks. Its life begins anew with a start that finds
\* an installed restore whose sessions a cut-off start never ended: the code makes
\* them answer again.
Lives  == Tokens \X (0..MaxEvents)
Status == [l \in Lives |->
              IF l[2] > gen \/ (l[2] = gen /\ l[1] > issued) THEN "unborn"
              ELSE IF l[2] = gen /\ Answers(l[1]) THEN "live" ELSE "ended"]

Life == INSTANCE SessionLife WITH Tokens <- Lives, status <- Status

\* A session that has ended never answers again: not when it slides late, when its
\* account is enabled again or its row is pruned, nor when an older database is
\* restored and the start that installs it gets to its end.
SessionsLiveOnce == Life!Spec

\* Failed logins that end in any order all count, and a success forgives them all.
FailuresAllCount == \A u \in Users : accounts[u] # None => accounts[u].failed = failures[u]

=============================================================================
