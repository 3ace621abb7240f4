---------------------------- MODULE AccessProofs ----------------------------
(* Two facts about accounts and sessions, for any number of accounts,      *)
(* sessions, requests and restarts: every failed login counts, and a       *)
(* session that has ended stays ended, which is the refinement of          *)
(* SessionLife. Both need that the rows of the tables fit each other, in   *)
(* the database that runs and in the one that was saved.                   *)
EXTENDS Access, TLAPS

RecoveryRows == [user : Local, status : {"issued", "used", "revoked", "expired"}, expires : Int]

AccountTables  == [Users -> AccountRows \cup {None}]
SessionTables  == [Tokens -> SessionRows \cup {None}]

\* The failed logins of an account are those that were counted.
AccountsOK ==
    /\ accounts \in AccountTables
    /\ failures \in [Users -> Nat]
    /\ \A u \in Users : failures[u] = IF accounts[u] = None THEN 0 ELSE accounts[u].failed

\* A session belongs to an account.
Belong(acc, ss) == \A t \in Tokens : ss[t] # None => acc[ss[t].user] # None

\* A session has a token that was issued.
Born(ss) == \A t \in Tokens : t > issued => ss[t] = None

SessionsOK ==
    /\ now \in Nat /\ issued \in Nat /\ issued <= MaxSessions
    /\ sessions \in SessionTables
    /\ Belong(accounts, sessions)
    /\ Born(sessions)

RecoveriesFit(acc, rec) ==
    /\ rec \in Seq(RecoveryRows)
    /\ \A i \in DOMAIN rec : acc[rec[i].user] # None

RecoveriesOK == RecoveriesFit(accounts, recoveries)

\* What a request read before it awaited its hash is still there.
TaskOK(task) ==
    /\ task.at \in Nat
    /\ task.what.op \in {"login", "password", "create", "bootstrap", "recover"}
    /\ task.what.op # "recover" => task.what.user \in Local
    /\ task.what.op \in {"login", "password"} => accounts[task.what.user] # None
    /\ task.what.op = "login" => task.what.token \in Tokens \cup {None}
    /\ task.what.op = "create" => task.what.role \in Roles
    /\ task.what.op = "recover" => task.what.id \in DOMAIN recoveries

TasksOK == \A task \in tasks : TaskOK(task)

SavedOK ==
    saved # None =>
        /\ saved.accounts \in AccountTables
        /\ saved.sessions \in SessionTables
        /\ Belong(saved.accounts, saved.sessions)
        /\ Born(saved.sessions)
        /\ RecoveriesFit(saved.accounts, saved.recoveries)

AccessInv == AccountsOK /\ SessionsOK /\ RecoveriesOK /\ TasksOK /\ SavedOK

-----------------------------------------------------------------------------
(* The helpers on sessions.                                                *)

LEMMA MinOfTwo == ASSUME NEW a \in Int, NEW b \in Int PROVE Min({a, b}) \in {a, b}
<1>1. \E x \in {a, b} : \A y \in {a, b} : x <= y
  BY SMT
<1> QED
  BY <1>1 DEF Min

\* What may become of the row of a session: it goes, or it is the same session, and
\* alive only if it was.
Heir(a, b) == b = None \/ (a # None /\ b.user = a.user /\ (Alive(b) => Alive(a)))

Heirs(ss, zz) == zz \in SessionTables /\ \A t \in Tokens : Heir(ss[t], zz[t])

LEMMA HeirsChain ==
    ASSUME NEW a, NEW b, NEW c, Heirs(a, b), Heirs(b, c) PROVE Heirs(a, c)
BY DEF Heirs, Heir, Alive

LEMMA OwnHeir == ASSUME SessionsOK PROVE Heirs(sessions, sessions)
BY DEF SessionsOK, Heirs, Heir, Alive

LEMMA EndedRow ==
    ASSUME NEW s \in SessionRows, now \in Nat
    PROVE  /\ Ended(s) \in SessionRows /\ Ended(s).user = s.user
           /\ Ended(s).ended # None /\ Ended(s) # None
BY AccessAssumption DEF AccessAssumption, Ended, SessionRows

LEMMA EndedHeir ==
    ASSUME NEW s \in SessionRows \cup {None}, now \in Nat
    PROVE  Ended(s) \in SessionRows \cup {None} /\ Heir(s, Ended(s)) /\ ~Alive(Ended(s))
<1>1. CASE s = None
  BY <1>1 DEF Ended, Heir, Alive
<1>2. CASE s # None
  BY <1>2, EndedRow DEF Heir, Alive
<1> QED
  BY <1>1, <1>2

LEMMA SlidRow ==
    ASSUME NEW s \in SessionRows, now \in Nat
    PROVE  Slid(s) \in SessionRows /\ Slid(s).user = s.user /\ Slid(s) # None
<1>1. s.absolute \in Int /\ now + Idle \in Int
  BY AccessAssumption DEF AccessAssumption, SessionRows
<1>2. Min({s.absolute, now + Idle}) \in Int
  BY <1>1, MinOfTwo
<1> QED
  BY <1>2, AccessAssumption DEF AccessAssumption, Slid, SessionRows

LEMMA FoundHeirs ==
    ASSUME NEW t \in Tokens \cup {None}, SessionsOK
    PROVE  Heirs(sessions, findActiveSession(t))
<1>1. CASE findActiveSession(t) = sessions
  BY <1>1, OwnHeir
<1>2. CASE findActiveSession(t) # sessions
  <2> DEFINE s == sessions[t]
             r == IF Alive(s) THEN Slid(s) ELSE Ended(s)
  <2>1. t # None /\ s # None /\ findActiveSession(t) = [sessions EXCEPT ![t] = r]
    BY <1>2 DEF findActiveSession
  <2>2. s \in SessionRows /\ t \in Tokens
    BY <2>1 DEF SessionsOK, SessionTables
  <2>3. r \in SessionRows /\ Heir(s, r)
    BY <2>1, <2>2, SlidRow, EndedHeir, EndedRow DEF SessionsOK, Heir
  <2> HIDE DEF r
  <2> QED
    BY <2>1, <2>2, <2>3, OwnHeir DEF Heirs, SessionsOK, SessionTables
<1> QED
  BY <1>1, <1>2

LEMMA RevokedHeirs ==
    ASSUME NEW t \in Tokens, NEW ss \in SessionTables, now \in Nat
    PROVE  Heirs(ss, revokeSession(ss, t))
<1>1. ss[t] \in SessionRows \cup {None}
  BY DEF SessionTables
<1>2. Ended(ss[t]) \in SessionRows \cup {None} /\ Heir(ss[t], Ended(ss[t]))
  BY <1>1, EndedHeir
<1> QED
  BY <1>2 DEF Heirs, SessionTables, revokeSession, Heir, Alive

\* Afterwards no session of the account is alive.
LEMMA RevokedUserHeirs ==
    ASSUME NEW u, NEW ss \in SessionTables, now \in Nat
    PROVE  /\ Heirs(ss, revokeUserSessions(ss, u))
           /\ \A t \in Tokens : Alive(revokeUserSessions(ss, u)[t])
                                => revokeUserSessions(ss, u)[t].user # u
<1> DEFINE zz == revokeUserSessions(ss, u)
<1>1. ASSUME NEW t \in Tokens
      PROVE  /\ zz[t] \in SessionRows \cup {None} /\ Heir(ss[t], zz[t])
             /\ Alive(zz[t]) => zz[t].user # u
  <2>1. zz[t] = IF ss[t] # None /\ ss[t].user = u THEN Ended(ss[t]) ELSE ss[t]
    BY DEF revokeUserSessions
  <2>2. ss[t] \in SessionRows \cup {None}
    BY DEF SessionTables
  <2>3. CASE ss[t] # None /\ ss[t].user = u
    BY <2>1, <2>2, <2>3, EndedHeir
  <2>4. CASE ~(ss[t] # None /\ ss[t].user = u)
    BY <2>1, <2>2, <2>4 DEF Heir, Alive
  <2> QED
    BY <2>3, <2>4
<1>2. zz = [t \in Tokens |-> zz[t]]
  BY DEF revokeUserSessions
<1> HIDE DEF zz
<1>3. zz \in SessionTables
  BY <1>1, <1>2 DEF SessionTables
<1> QED
  BY <1>1, <1>3 DEF Heirs, zz

LEMMA PresentedHeirs ==
    ASSUME NEW t \in Tokens \cup {None}, SessionsOK
    PROVE  Heirs(sessions, revokePresentedSession(t))
<1>1. Heirs(sessions, findActiveSession(t)) /\ findActiveSession(t) \in SessionTables
  BY FoundHeirs DEF Heirs
<1>2. t \in Tokens => Heirs(sessions, revokeSession(findActiveSession(t), t))
  BY <1>1, RevokedHeirs, HeirsChain DEF SessionsOK
<1> QED
  BY <1>1, <1>2, OwnHeir DEF revokePresentedSession

-----------------------------------------------------------------------------
(* What a step must do for the tables to go on fitting.                    *)

Live(t) == sessions[t] # None /\ Active(t)

\* A step while the process serves: tokens stay issued, and none is worth more again.
Progress ==
    /\ issued <= issued'
    /\ \A t \in Tokens : t <= issued /\ Live(t)' => Live(t)

\* Accounts stay.
Grow == \A u \in Users : accounts[u] # None => accounts'[u] # None

\* The sessions there were go on as heirs, those of accounts that were disabled do not answer.
SessionsGoOn ==
    /\ issued' \in Nat /\ issued <= issued' /\ issued' <= MaxSessions
    /\ sessions' \in SessionTables
    /\ \A t \in Tokens :
          /\ t <= issued => Heir(sessions[t], sessions'[t])
          /\ t > issued /\ sessions'[t] # None => accounts'[sessions'[t].user] # None
          /\ t > issued' => sessions'[t] = None

\* No account with a session that answers was enabled by the step.
NoneEnabled ==
    \A t \in Tokens : t <= issued /\ Alive(sessions'[t]) =>
        LET u == sessions'[t].user
        IN  accounts'[u].enabled => accounts[u].enabled

LEMMA Together ==
    ASSUME AccessInv, now' = now, AccountsOK', Grow, SessionsGoOn, NoneEnabled,
           RecoveriesOK', TasksOK', SavedOK'
    PROVE  AccessInv' /\ Progress
<1>1. ASSUME NEW t \in Tokens, sessions'[t] # None PROVE accounts'[sessions'[t].user] # None
  <2>1. CASE t > issued
    BY <1>1, <2>1 DEF SessionsGoOn
  <2>2. CASE t <= issued
    <3>1. sessions[t] # None /\ sessions'[t].user = sessions[t].user
      BY <1>1, <2>2 DEF SessionsGoOn, Heir
    <3>2. sessions[t].user \in Users /\ accounts[sessions[t].user] # None
      BY <3>1 DEF AccessInv, SessionsOK, SessionTables, SessionRows, Belong
    <3> QED
      BY <3>1, <3>2 DEF Grow
  <2>3. t \in Nat /\ issued \in Nat
    BY AccessAssumption DEF AccessAssumption, Tokens, AccessInv, SessionsOK
  <2> QED
    BY <2>1, <2>2, <2>3
<1>2. SessionsOK'
  BY <1>1 DEF SessionsGoOn, AccessInv, SessionsOK, Belong, Born
<1>3. ASSUME NEW t \in Tokens, t <= issued, Live(t)' PROVE Live(t)
  <2>1. Alive(sessions'[t]) /\ accounts'[sessions'[t].user].enabled
    BY <1>3 DEF Live, Active, Alive
  <2>2. /\ sessions[t] # None /\ sessions'[t].user = sessions[t].user /\ Alive(sessions[t])
    BY <1>3, <2>1 DEF SessionsGoOn, Heir, Alive
  <2> QED
    BY <1>3, <2>1, <2>2 DEF NoneEnabled, Live, Active
<1> QED
  BY <1>2, <1>3 DEF AccessInv, SessionsGoOn, Progress

LEMMA HeirsGoOn ==
    ASSUME AccessInv, issued' = issued, Heirs(sessions, sessions') PROVE SessionsGoOn
BY DEF AccessInv, SessionsOK, Born, Heirs, Heir, SessionsGoOn

LEMMA NewGoesOn ==
    ASSUME AccessInv, NEW ss, NEW u \in Users, Heirs(sessions, ss), createSession(ss, u),
           accounts'[u] # None
    PROVE  SessionsGoOn /\ \A t \in Tokens : t <= issued => sessions'[t] = ss[t]
<1> DEFINE row == [user |-> u, seen |-> now, idle |-> now + Idle, absolute |-> now + Absolute,
                   ended |-> None]
<1>1. /\ issued + 1 \in Tokens /\ issued \in Nat /\ issued' = issued + 1
      /\ sessions' = [ss EXCEPT ![issued + 1] = row] /\ issued' <= MaxSessions
  BY AccessAssumption DEF AccessAssumption, createSession, Tokens, AccessInv, SessionsOK
<1>2. row \in SessionRows /\ row.user = u
  BY AccessAssumption DEF AccessAssumption, SessionRows, AccessInv, SessionsOK
<1> HIDE DEF row
<1>3. ss \in SessionTables /\ \A t \in Tokens : t > issued => ss[t] = None
  BY DEF Heirs, Heir, AccessInv, SessionsOK, Born
<1>4. sessions' \in SessionTables
  BY <1>1, <1>2, <1>3 DEF SessionTables
<1>5. \A t \in Tokens : t <= issued => sessions'[t] = ss[t]
  BY <1>1, <1>3 DEF SessionTables, Tokens
<1>6. \A t \in Tokens : t > issued' => sessions'[t] = None
  BY <1>1, <1>3, AccessAssumption DEF AccessAssumption, SessionTables, Tokens
<1>7. \A t \in Tokens : t > issued /\ sessions'[t] # None => sessions'[t] = row
  BY <1>1, <1>3 DEF SessionTables
<1> QED
  BY <1>1, <1>2, <1>4, <1>5, <1>6, <1>7 DEF SessionsGoOn, Heirs

LEMMA RowsOfSeq ==
    ASSUME NEW S, NEW rec \in Seq(S), NEW i \in DOMAIN rec PROVE rec[i] \in S
OBVIOUS

\* The parts that a step leaves alone.
LEMMA RecoveriesStay ==
    ASSUME AccessInv, Grow, recoveries' = recoveries PROVE RecoveriesOK'
<1>1. \A i \in DOMAIN recoveries : recoveries[i].user \in Users
  <2>1. \A i \in DOMAIN recoveries : recoveries[i] \in RecoveryRows
    BY RowsOfSeq DEF AccessInv, RecoveriesOK, RecoveriesFit
  <2> QED
    BY <2>1 DEF RecoveryRows, Users
<1> QED
  BY <1>1 DEF AccessInv, RecoveriesOK, RecoveriesFit, Grow

LEMMA TasksStay ==
    ASSUME AccessInv, Grow, DOMAIN recoveries \subseteq DOMAIN recoveries', tasks' \subseteq tasks
    PROVE  TasksOK'
BY DEF AccessInv, TasksOK, TaskOK, Grow, Users

LEMMA SavedStays ==
    ASSUME AccessInv, issued' \in Nat, issued <= issued', saved' = saved PROVE SavedOK'
<1> SUFFICES ASSUME saved # None PROVE Born(saved.sessions)'
  BY DEF AccessInv, SavedOK, RecoveriesFit, Belong
<1>1. Born(saved.sessions) /\ issued \in Nat /\ \A t \in Tokens : t \in Nat
  BY AccessAssumption DEF AccessAssumption, AccessInv, SavedOK, SessionsOK, Tokens
<1> QED
  BY <1>1 DEF Born

LEMMA AccountsStay ==
    ASSUME AccessInv, accounts' = accounts, failures' = failures
    PROVE  AccountsOK' /\ Grow /\ NoneEnabled
BY DEF AccessInv, AccountsOK, Grow, NoneEnabled

\* Only sessions move, and no token is issued.
LEMMA SessionsMove ==
    ASSUME AccessInv, UNCHANGED <<now, accounts, recoveries, issued, saved, failures>>,
           Heirs(sessions, sessions'), tasks' \subseteq tasks
    PROVE  AccessInv' /\ Progress
<1>1. issued \in Nat
  BY DEF AccessInv, SessionsOK
<1> QED
  BY <1>1, Together, HeirsGoOn, AccountsStay, RecoveriesStay, TasksStay, SavedStays
-----------------------------------------------------------------------------
(* Requests with a session, and administrators.                            *)

LEMMA RequestKeeps ==
    ASSUME AccessInv, NEW t \in Tokens, request(t) \/ logout(t)
    PROVE  AccessInv' /\ Progress
<1>1. Heirs(sessions, findActiveSession(t)) /\ findActiveSession(t) \in SessionTables
  BY FoundHeirs DEF AccessInv, Heirs
<1>2. Heirs(sessions, revokeSession(findActiveSession(t), t))
  BY <1>1, RevokedHeirs, HeirsChain DEF AccessInv, SessionsOK
<1> QED
  BY <1>1, <1>2, SessionsMove DEF request, logout, bound

\* The sessions after an administrator was let in.
LEMMA LetIn ==
    ASSUME AccessInv, NEW who \in Tokens \cup Proxy, NEW ss, Administers(who, ss)
    PROVE  Heirs(sessions, ss) /\ ss \in SessionTables
<1>1. Heirs(sessions, ss)
  BY FoundHeirs, OwnHeir DEF AccessInv, Administers
<1> QED
  BY <1>1 DEF Heirs

LEMMA RevokedLetIn ==
    ASSUME AccessInv, NEW ss, Heirs(sessions, ss), NEW u
    PROVE  /\ Heirs(sessions, revokeUserSessions(ss, u))
           /\ \A t \in Tokens : Alive(revokeUserSessions(ss, u)[t])
                                => revokeUserSessions(ss, u)[t].user # u
BY RevokedUserHeirs, HeirsChain DEF Heirs, AccessInv, SessionsOK

LEMMA RevokeKeeps ==
    ASSUME AccessInv, NEW ss, Heirs(sessions, ss), NEW u \in Users, revokeSessionsRoute(ss, u)
    PROVE  AccessInv' /\ Progress
BY RevokedLetIn, SessionsMove DEF revokeSessionsRoute

\* An account changes, and its sessions end if it may have been disabled before.
LEMMA AccountMoves ==
    ASSUME AccessInv, NEW u \in Users, NEW a \in AccountRows,
           accounts' = [accounts EXCEPT ![u] = a],
           failures' = [failures EXCEPT ![u] = a.failed],
           sessions' \in SessionTables,
           \A t \in Tokens : t <= issued /\ Alive(sessions'[t]) /\ sessions'[t].user = u
                => (a.enabled => accounts[u].enabled)
    PROVE  AccountsOK' /\ Grow /\ NoneEnabled
<1>1. a # None
  BY AccessAssumption DEF AccessAssumption
<1>2. AccountsOK'
  BY <1>1 DEF AccessInv, AccountsOK, AccountTables, AccountRows
<1>3. Grow
  BY <1>1 DEF Grow, AccessInv, AccountsOK, AccountTables
<1>4. ASSUME NEW t \in Tokens, t <= issued, Alive(sessions'[t]),
             accounts'[sessions'[t].user].enabled
      PROVE  accounts[sessions'[t].user].enabled
  <2>1. sessions'[t].user \in Users
    BY <1>4 DEF Alive, SessionTables, SessionRows
  <2> QED
    BY <1>4, <2>1 DEF AccessInv, AccountsOK, AccountTables
<1> QED
  BY <1>2, <1>3, <1>4 DEF NoneEnabled

LEMMA UpdateKeeps ==
    ASSUME AccessInv, NEW ss, Heirs(sessions, ss), NEW u \in Users, NEW role \in Roles,
           NEW enabled \in BOOLEAN, updateAuthUser(ss, u, role, enabled)
    PROVE  AccessInv' /\ Progress
<1> DEFINE was == accounts[u]
           a   == [was EXCEPT !.role = role, !.enabled = enabled]
<1>1. was \in AccountRows /\ was # None /\ failures[u] = was.failed
  BY DEF updateAuthUser, AccessInv, AccountsOK, AccountTables
<1>2. a \in AccountRows /\ a.failed = failures[u] /\ a.enabled = enabled
  BY <1>1 DEF AccountRows
<1>3. /\ accounts' = [accounts EXCEPT ![u] = a]
      /\ failures' = [failures EXCEPT ![u] = a.failed]
  BY <1>2 DEF updateAuthUser, AccessInv, AccountsOK
<1>4. /\ Heirs(sessions, sessions')
      /\ was.enabled # enabled => \A t \in Tokens : Alive(sessions'[t]) => sessions'[t].user # u
  BY RevokedLetIn DEF updateAuthUser
<1> HIDE DEF a
<1>5. AccountsOK' /\ Grow /\ NoneEnabled
  BY <1>2, <1>3, <1>4, AccountMoves DEF Heirs
<1>6. /\ UNCHANGED <<now, recoveries, issued, tasks, saved>> /\ issued \in Nat
  BY DEF updateAuthUser, AccessInv, SessionsOK
<1> QED
  BY <1>4, <1>5, <1>6, Together, HeirsGoOn, RecoveriesStay, TasksStay, SavedStays

LEMMA FreshAccount ==
    ASSUME NEW role \in Roles
    PROVE  Account(role) \in AccountRows /\ Account(role).failed = 0
BY DEF Account, AccountRows

\* An account that did not exist had no session.
LEMMA AccountComes ==
    ASSUME AccessInv, NEW u \in Users, accounts[u] = None, NEW role \in Roles, SessionsGoOn,
           accounts' = [accounts EXCEPT ![u] = Account(role)], failures' = failures
    PROVE  AccountsOK' /\ Grow /\ NoneEnabled
<1> DEFINE a == Account(role)
<1>1. a \in AccountRows /\ a.failed = 0
  BY FreshAccount
<1> HIDE DEF a
<1>2. /\ accounts' = [accounts EXCEPT ![u] = a]
      /\ failures' = [failures EXCEPT ![u] = a.failed]
  BY <1>1 DEF a, AccessInv, AccountsOK
<1>3. \A t \in Tokens : t <= issued /\ Alive(sessions'[t]) => sessions'[t].user # u
  BY DEF AccessInv, SessionsOK, Belong, SessionsGoOn, Heir, Alive
<1>4. sessions' \in SessionTables
  BY DEF SessionsGoOn
<1>5. \A t \in Tokens : t <= issued /\ Alive(sessions'[t]) /\ sessions'[t].user = u
           => (a.enabled => accounts[u].enabled)
  BY <1>3
<1>6. a \in AccountRows
  BY <1>1
<1> QED
  BY <1>2, <1>4, <1>5, <1>6, AccountMoves

LEMMA ProvisionKeeps ==
    ASSUME AccessInv, NEW u \in Proxy, resolveProxyAccount(u)
    PROVE  AccessInv' /\ Progress
<1>1. u \in Users /\ AutoRole \in Roles /\ accounts[u] = None
  BY AccessAssumption DEF AccessAssumption, resolveProxyAccount, Users, Roles
<1>2. SessionsGoOn /\ UNCHANGED <<now, sessions, recoveries, issued, tasks, saved>>
  BY OwnHeir, HeirsGoOn DEF resolveProxyAccount, AccessInv, bound
<1>3. AccountsOK' /\ Grow /\ NoneEnabled
  BY <1>1, <1>2, AccountComes DEF resolveProxyAccount
<1>4. issued \in Nat
  BY DEF AccessInv, SessionsOK
<1> QED
  BY <1>2, <1>3, <1>4, Together, RecoveriesStay, TasksStay, SavedStays

-----------------------------------------------------------------------------
(* Requests that await a hash: what they read is there when they go on.    *)

\* A request that asks, with the sessions that let it in.
LEMMA AskKeeps ==
    ASSUME AccessInv, NEW what, Ask(what), Heirs(sessions, sessions'),
           \A n : TaskOK([n |-> n, at |-> now, what |-> what])
    PROVE  AccessInv' /\ Progress
<1>1. UNCHANGED <<now, recoveries, issued, saved, accounts, failures>> /\ issued \in Nat
  BY DEF Ask, AccessInv, SessionsOK
<1>2. tasks' = tasks \cup {[n |-> asked, at |-> now, what |-> what]}
  BY DEF Ask
<1>3. TasksOK'
  BY <1>1, <1>2 DEF AccessInv, TasksOK, TaskOK
<1> QED
  BY <1>1, <1>3, Together, HeirsGoOn, AccountsStay, RecoveriesStay, SavedStays

LEMMA LoginAskKeeps ==
    ASSUME AccessInv, NEW u \in Local, NEW matches \in BOOLEAN, NEW t \in {None} \cup 1..issued,
           loginAsks(u, matches, t)
    PROVE  AccessInv' /\ Progress
<1> DEFINE what == [op |-> "login", user |-> u, token |-> t, read |-> accounts[u],
                    matches |-> matches]
<1>1. Ask(what) /\ sessions' = sessions /\ accounts[u] # None
  BY DEF loginAsks
<1>2. t \in Tokens \cup {None} /\ now \in Nat
  BY AccessAssumption DEF AccessAssumption, AccessInv, SessionsOK, Tokens
<1>3. \A n : TaskOK([n |-> n, at |-> now, what |-> what])
  BY <1>1, <1>2 DEF TaskOK
<1> QED
  BY <1>1, <1>3, OwnHeir, AskKeeps DEF AccessInv

LEMMA RecoverAskKeeps ==
    ASSUME AccessInv, NEW i \in DOMAIN recoveries, recoverAsks(i)
    PROVE  AccessInv' /\ Progress
<1> DEFINE what == [op |-> "recover", id |-> i]
<1>1. Ask(what) /\ sessions' = sessions
  BY DEF recoverAsks
<1>2. \A n : TaskOK([n |-> n, at |-> now, what |-> what])
  BY DEF TaskOK, AccessInv, SessionsOK
<1> QED
  BY <1>1, <1>2, OwnHeir, AskKeeps DEF AccessInv

LEMMA PasswordAskKeeps ==
    ASSUME AccessInv, NEW t \in Tokens, passwordAsks(t)
    PROVE  AccessInv' /\ Progress
<1> DEFINE what == [op |-> "password", user |-> sessions[t].user]
<1>1. Ask(what) /\ sessions' = findActiveSession(t) /\ what.user \in Local
  BY DEF passwordAsks
<1>2. accounts[what.user] # None
  BY DEF passwordAsks, Active, Alive, AccessInv, SessionsOK, Belong
<1>3. \A n : TaskOK([n |-> n, at |-> now, what |-> what])
  BY <1>1, <1>2 DEF TaskOK, AccessInv, SessionsOK
<1> QED
  BY <1>1, <1>3, FoundHeirs, AskKeeps DEF AccessInv

LEMMA CreateAskKeeps ==
    ASSUME AccessInv, NEW ss, Heirs(sessions, ss), NEW u \in Local, NEW role \in Roles,
           createUserAsks(ss, u, role)
    PROVE  AccessInv' /\ Progress
<1> DEFINE what == [op |-> "create", user |-> u, role |-> role]
<1>1. \A n : TaskOK([n |-> n, at |-> now, what |-> what])
  BY DEF TaskOK, AccessInv, SessionsOK
<1> QED
  BY <1>1, AskKeeps DEF createUserAsks

LEMMA BootstrapAskKeeps ==
    ASSUME AccessInv, NEW u \in Local, bootstrapAsks(u)
    PROVE  AccessInv' /\ Progress
<1> DEFINE what == [op |-> "bootstrap", user |-> u]
<1>1. \A n : TaskOK([n |-> n, at |-> now, what |-> what])
  BY DEF TaskOK, AccessInv, SessionsOK
<1> QED
  BY <1>1, OwnHeir, AskKeeps DEF bootstrapAsks, AccessInv

\* What the tasks of a step that ends one know.
LEMMA EndedTask ==
    ASSUME AccessInv, NEW task \in tasks, Done(task)
    PROVE  /\ TaskOK(task) /\ tasks' \subseteq tasks
           /\ UNCHANGED <<now, saved>> /\ issued \in Nat
BY DEF Done, AccessInv, TasksOK, SessionsOK

LEMMA ClearedRow ==
    ASSUME NEW r \in AccountRows
    PROVE  /\ [r EXCEPT !.failed = 0, !.locked = 0] \in AccountRows
           /\ [r EXCEPT !.failed = 0, !.locked = 0].failed = 0
           /\ [r EXCEPT !.failed = 0, !.locked = 0].enabled = r.enabled
<1> DEFINE q == [r EXCEPT !.failed = 0]
<1>1. q \in AccountRows /\ q.failed = 0 /\ q.enabled = r.enabled
  BY DEF AccountRows
<1>2. [r EXCEPT !.failed = 0, !.locked = 0] = [q EXCEPT !.locked = 0]
  BY DEF AccountRows
<1> HIDE DEF q
<1>3. /\ [q EXCEPT !.locked = 0] \in AccountRows
      /\ [q EXCEPT !.locked = 0].failed = q.failed
      /\ [q EXCEPT !.locked = 0].enabled = q.enabled
  BY <1>1 DEF AccountRows
<1> QED
  BY <1>1, <1>2, <1>3

LEMMA LoginKeeps ==
    ASSUME AccessInv, NEW task \in tasks, loginSucceeds(task)
    PROVE  AccessInv' /\ Progress
<1> DEFINE u == task.what.user
           a == [accounts[u] EXCEPT !.failed = 0, !.locked = 0]
           ss == revokePresentedSession(task.what.token)
<1>1. /\ Done(task) /\ TaskOK(task) /\ tasks' \subseteq tasks /\ UNCHANGED <<now, saved, recoveries>>
      /\ issued \in Nat
  BY EndedTask DEF loginSucceeds
<1>2. /\ u \in Users /\ accounts[u] \in AccountRows /\ accounts[u] # None
      /\ task.what.token \in Tokens \cup {None}
  BY <1>1 DEF loginSucceeds, TaskOK, Users, AccessInv, AccountsOK, AccountTables
<1>3. a \in AccountRows /\ a.failed = 0 /\ a.enabled = accounts[u].enabled
  BY <1>2, ClearedRow
<1>4. /\ accounts' = [accounts EXCEPT ![u] = a]
      /\ failures' = [failures EXCEPT ![u] = a.failed]
      /\ createSession(ss, u)
  BY <1>3 DEF loginSucceeds
<1>5. Heirs(sessions, ss)
  BY <1>2, PresentedHeirs DEF AccessInv
<1> HIDE DEF a, ss, u
<1>6. accounts'[u] # None
  BY <1>2, <1>3, <1>4, AccessAssumption
  DEF AccessAssumption, AccessInv, AccountsOK, AccountTables
<1>7. SessionsGoOn
  BY <1>2, <1>4, <1>5, <1>6, NewGoesOn
<1>8. AccountsOK' /\ Grow /\ NoneEnabled
  BY <1>2, <1>3, <1>4, <1>7, AccountMoves DEF SessionsGoOn
<1> QED
  BY <1>1, <1>7, <1>8, Together, RecoveriesStay, TasksStay, SavedStays DEF SessionsGoOn

LEMMA FailedRow ==
    ASSUME NEW task, task.at \in Nat, accounts[task.what.user] \in AccountRows
    PROVE  /\ FailedAccount(task) \in AccountRows
           /\ FailedAccount(task).failed = accounts[task.what.user].failed + 1
           /\ FailedAccount(task).enabled = accounts[task.what.user].enabled
<1> DEFINE k == accounts[task.what.user].failed + 1
<1>1. k \in Nat
  BY DEF AccountRows
<1>2. lockFor(k) \in Int
  <2>1. CASE k >= LockAfter
    <3>1. k - LockAfter \in Nat /\ MaxLock \in Int
      BY <1>1, <2>1, AccessAssumption DEF AccessAssumption
    <3>2. 2 ^ (k - LockAfter) \in Int
      BY <3>1, SMT
    <3> QED
      BY <2>1, <3>1, <3>2, MinOfTwo DEF lockFor
  <2>2. CASE ~(k >= LockAfter)
    BY <2>2 DEF lockFor
  <2> QED
    BY <2>1, <2>2
<1> HIDE DEF k
<1>3. FailedAccount(task) = [accounts[task.what.user] EXCEPT !.failed = k,
                                !.locked = IF lockFor(k) > 0 THEN task.at + lockFor(k) ELSE 0]
  BY DEF FailedAccount, k
<1>4. (IF lockFor(k) > 0 THEN task.at + lockFor(k) ELSE 0) \in Int
  BY <1>2
<1> QED
  BY <1>1, <1>3, <1>4 DEF AccountRows, k

LEMMA FailureKeeps ==
    ASSUME AccessInv, NEW task \in tasks, loginFails(task)
    PROVE  AccessInv' /\ Progress
<1> DEFINE u == task.what.user
           a == FailedAccount(task)
<1>1. /\ TaskOK(task) /\ tasks' \subseteq tasks /\ UNCHANGED <<now, saved, sessions, recoveries, issued>>
      /\ issued \in Nat
  BY EndedTask DEF loginFails
<1>2. SessionsGoOn
  BY <1>1, OwnHeir, HeirsGoOn DEF AccessInv
<1>3. AccountsOK' /\ Grow /\ NoneEnabled
  <2>1. CASE UNCHANGED <<accounts, failures>>
    BY <2>1, AccountsStay
  <2>2. CASE ~UNCHANGED <<accounts, failures>>
    <3>1. u \in Users /\ accounts[u] \in AccountRows /\ accounts[u] # None
      BY <1>1, <2>2 DEF loginFails, TaskOK, Users, AccessInv, AccountsOK, AccountTables
    <3>2. a \in AccountRows /\ a.failed = accounts[u].failed + 1 /\ a.enabled = accounts[u].enabled
      BY <1>1, <3>1, FailedRow DEF TaskOK
    <3>3. accounts' = [accounts EXCEPT ![u] = a] /\ failures' = [failures EXCEPT ![u] = @ + 1]
      BY <2>2 DEF loginFails
    <3>4. failures' = [failures EXCEPT ![u] = a.failed]
      BY <3>1, <3>2, <3>3 DEF AccessInv, AccountsOK
    <3> HIDE DEF a, u
    <3> QED
      BY <1>2, <3>1, <3>2, <3>3, <3>4, AccountMoves DEF SessionsGoOn
  <2> QED
    BY <2>1, <2>2
<1> QED
  BY <1>1, <1>2, <1>3, Together, RecoveriesStay, TasksStay, SavedStays

\* A row of the recoveries whose status changes.
LEMMA StatusMoves ==
    ASSUME AccessInv, Grow, NEW i \in DOMAIN recoveries, NEW st \in {"used", "expired"},
           recoveries' = [recoveries EXCEPT ![i].status = st]
    PROVE  RecoveriesOK' /\ DOMAIN recoveries' = DOMAIN recoveries
<1> DEFINE r == [recoveries[i] EXCEPT !.status = st]
<1>1. /\ recoveries \in Seq(RecoveryRows)
      /\ \A j \in DOMAIN recoveries : /\ recoveries[j] \in RecoveryRows
                                     /\ accounts[recoveries[j].user] # None
  BY RowsOfSeq DEF AccessInv, RecoveriesOK, RecoveriesFit
<1>2. r \in RecoveryRows /\ r.user = recoveries[i].user
  BY <1>1 DEF RecoveryRows
<1>3. recoveries' = [recoveries EXCEPT ![i] = r]
  OBVIOUS
<1> HIDE DEF r
<1>4. DOMAIN recoveries' = DOMAIN recoveries /\ recoveries' \in Seq(RecoveryRows)
  BY <1>1, <1>2, <1>3
<1>5. \A j \in DOMAIN recoveries : recoveries'[j].user = recoveries[j].user
  BY <1>1, <1>2, <1>3
<1>6. \A j \in DOMAIN recoveries : recoveries[j].user \in Users
  BY <1>1 DEF RecoveryRows, Users
<1> QED
  BY <1>1, <1>4, <1>5, <1>6 DEF RecoveriesOK, RecoveriesFit, Grow

LEMMA RecoverKeeps ==
    ASSUME AccessInv, NEW task \in tasks, recoverEnds(task)
    PROVE  AccessInv' /\ Progress
<1>1. /\ TaskOK(task) /\ tasks' \subseteq tasks /\ UNCHANGED <<now, saved, issued>>
      /\ issued \in Nat
  BY EndedTask DEF recoverEnds
<1>2. CASE ~Claims(task)
  BY <1>1, <1>2, OwnHeir, SessionsMove DEF recoverEnds, AccessInv
<1>3. CASE Claims(task)
  <2> DEFINE i == task.what.id
             u == recoveries[i].user
             a == [accounts[u] EXCEPT !.failed = 0, !.locked = 0]
  <2>1. i \in DOMAIN recoveries
    BY <1>1 DEF recoverEnds, TaskOK
  <2>2. recoveries[i] \in RecoveryRows /\ accounts[u] # None
    BY <2>1, RowsOfSeq DEF AccessInv, RecoveriesOK, RecoveriesFit
  <2>3. u \in Users /\ accounts[u] \in AccountRows
    BY <2>2 DEF RecoveryRows, Users, AccessInv, AccountsOK, AccountTables
  <2>4. a \in AccountRows /\ a.failed = 0 /\ a.enabled = accounts[u].enabled
    BY <2>3, ClearedRow
  <2>5. /\ recoveries' = [recoveries EXCEPT ![i].status = "used"]
        /\ accounts' = [accounts EXCEPT ![u] = a]
        /\ failures' = [failures EXCEPT ![u] = a.failed]
        /\ sessions' = revokeUserSessions(sessions, u)
    BY <1>3, <2>4 DEF recoverEnds
  <2> HIDE DEF a, u
  <2>6. Heirs(sessions, sessions')
    BY <2>5, OwnHeir, RevokedLetIn DEF AccessInv
  <2>7. AccountsOK' /\ Grow /\ NoneEnabled
    BY <2>3, <2>4, <2>5, <2>6, AccountMoves DEF Heirs
  <2>8. RecoveriesOK' /\ DOMAIN recoveries' = DOMAIN recoveries
    BY <2>1, <2>5, <2>7, StatusMoves
  <2> QED
    BY <1>1, <2>6, <2>7, <2>8, Together, HeirsGoOn, TasksStay, SavedStays
<1> QED
  BY <1>2, <1>3

LEMMA PasswordKeeps ==
    ASSUME AccessInv, NEW task \in tasks, passwordEnds(task)
    PROVE  AccessInv' /\ Progress
<1> DEFINE u == task.what.user
           ss == revokeUserSessions(sessions, u)
<1>1. /\ TaskOK(task) /\ tasks' \subseteq tasks /\ UNCHANGED <<now, saved, accounts, recoveries, failures>>
      /\ issued \in Nat
  BY EndedTask DEF passwordEnds
<1>2. u \in Users /\ accounts'[u] # None /\ createSession(ss, u)
  BY <1>1 DEF passwordEnds, TaskOK, Users
<1>3. Heirs(sessions, ss)
  BY OwnHeir, RevokedLetIn DEF AccessInv
<1> HIDE DEF ss, u
<1>4. SessionsGoOn
  BY <1>2, <1>3, NewGoesOn
<1> QED
  BY <1>1, <1>4, Together, AccountsStay, RecoveriesStay, TasksStay, SavedStays DEF SessionsGoOn

LEMMA CreateKeeps ==
    ASSUME AccessInv, NEW task \in tasks, createUserEnds(task)
    PROVE  AccessInv' /\ Progress
<1>1. /\ TaskOK(task) /\ tasks' \subseteq tasks
      /\ UNCHANGED <<now, saved, sessions, recoveries, issued, failures>>
      /\ issued \in Nat
  BY EndedTask DEF createUserEnds
<1>2. SessionsGoOn
  BY <1>1, OwnHeir, HeirsGoOn DEF AccessInv
<1>3. AccountsOK' /\ Grow /\ NoneEnabled
  <2>1. CASE accounts' = accounts
    BY <1>1, <2>1, AccountsStay
  <2>2. CASE accounts' # accounts
    <3>1. /\ task.what.user \in Users /\ task.what.role \in Roles
          /\ accounts[task.what.user] = None
          /\ accounts' = [accounts EXCEPT ![task.what.user] = Account(task.what.role)]
      BY <1>1, <2>2 DEF createUserEnds, TaskOK, Users
    <3> QED
      BY <1>1, <1>2, <3>1, AccountComes
  <2> QED
    BY <2>1, <2>2
<1> QED
  BY <1>1, <1>2, <1>3, Together, RecoveriesStay, TasksStay, SavedStays

LEMMA BootstrapKeeps ==
    ASSUME AccessInv, NEW task \in tasks, bootstrapEnds(task)
    PROVE  AccessInv' /\ Progress
<1> DEFINE u == task.what.user
<1>1. /\ TaskOK(task) /\ tasks' \subseteq tasks /\ UNCHANGED <<now, saved, recoveries, failures>>
      /\ issued \in Nat
  BY EndedTask DEF bootstrapEnds
<1>2. CASE UNCHANGED <<accounts, sessions, issued>>
  BY <1>1, <1>2, OwnHeir, SessionsMove DEF AccessInv
<1>3. CASE ~UNCHANGED <<accounts, sessions, issued>>
  <2>1. /\ u \in Users /\ accounts[u] = None /\ createSession(sessions, u)
        /\ accounts' = [accounts EXCEPT ![u] = Account("admin")]
    BY <1>1, <1>3 DEF bootstrapEnds, TaskOK, Users
  <2>2. accounts'[u] # None
    BY <2>1, FreshAccount, AccessAssumption
    DEF AccessAssumption, Roles, AccessInv, AccountsOK, AccountTables
  <2> HIDE DEF u
  <2>3. SessionsGoOn
    BY <2>1, <2>2, OwnHeir, NewGoesOn DEF AccessInv
  <2>4. AccountsOK' /\ Grow /\ NoneEnabled
    BY <1>1, <2>1, <2>3, AccountComes DEF Roles
  <2> QED
    BY <1>1, <2>3, <2>4, Together, RecoveriesStay, TasksStay, SavedStays DEF SessionsGoOn
<1> QED
  BY <1>2, <1>3
-----------------------------------------------------------------------------
(* The operator on the host, retention, restarts and time.                 *)

LEMMA AppendedRows ==
    ASSUME NEW S, NEW rec \in Seq(S), NEW r \in S
    PROVE  /\ Append(rec, r) \in Seq(S)
           /\ DOMAIN rec \subseteq DOMAIN Append(rec, r)
           /\ \A i \in DOMAIN Append(rec, r) :
                 Append(rec, r)[i] = IF i \in DOMAIN rec THEN rec[i] ELSE r
OBVIOUS

LEMMA IssueKeeps ==
    ASSUME AccessInv, NEW u \in Local, issueRecoveryToken(u)
    PROVE  AccessInv' /\ Progress
<1> DEFINE older == [i \in DOMAIN recoveries |->
                        IF recoveries[i].user = u /\ recoveries[i].status = "issued"
                        THEN [recoveries[i] EXCEPT !.status = "revoked"] ELSE recoveries[i]]
           new == [user |-> u, status |-> "issued", expires |-> now + RecoveryLife]
<1>1. /\ UNCHANGED <<now, accounts, sessions, issued, tasks, saved, failures>>
      /\ recoveries' = Append(older, new) /\ accounts[u] # None /\ issued \in Nat
  BY DEF issueRecoveryToken, AccessInv, SessionsOK
<1>2. /\ recoveries \in Seq(RecoveryRows)
      /\ \A i \in DOMAIN recoveries : /\ recoveries[i] \in RecoveryRows
                                     /\ accounts[recoveries[i].user] # None
  BY RowsOfSeq DEF AccessInv, RecoveriesOK, RecoveriesFit
<1>3. new \in RecoveryRows /\ new.user = u
  BY AccessAssumption DEF AccessAssumption, RecoveryRows, AccessInv, SessionsOK
<1>4. \A i \in DOMAIN recoveries : /\ older[i] \in RecoveryRows
                                 /\ older[i].user = recoveries[i].user
  BY <1>2 DEF RecoveryRows
<1>5. DOMAIN older = DOMAIN recoveries /\ older \in Seq(RecoveryRows)
  <2>1. DOMAIN recoveries = 1..Len(recoveries) /\ Len(recoveries) \in Nat
    BY <1>2
  <2>2. older = [i \in 1..Len(recoveries) |-> older[i]]
    BY <2>1
  <2>3. \A i \in 1..Len(recoveries) : older[i] \in RecoveryRows
    BY <1>4, <2>1
  <2> HIDE DEF older
  <2> QED
    BY <2>1, <2>2, <2>3
<1> HIDE DEF older, new
<1>6. /\ recoveries' \in Seq(RecoveryRows) /\ DOMAIN recoveries \subseteq DOMAIN recoveries'
      /\ \A i \in DOMAIN recoveries' :
            recoveries'[i] = IF i \in DOMAIN recoveries THEN older[i] ELSE new
  BY <1>1, <1>3, <1>5, AppendedRows
<1>7. RecoveriesOK'
  BY <1>1, <1>2, <1>3, <1>4, <1>6 DEF RecoveriesOK, RecoveriesFit
<1>8. AccountsOK' /\ Grow /\ NoneEnabled /\ SessionsGoOn
  BY <1>1, AccountsStay, OwnHeir, HeirsGoOn DEF AccessInv
<1> QED
  BY <1>1, <1>6, <1>7, <1>8, Together, TasksStay, SavedStays

LEMMA ExpiryKeeps ==
    ASSUME AccessInv, NEW i \in DOMAIN recoveries, recoveryExpires(i)
    PROVE  AccessInv' /\ Progress
<1>1. /\ UNCHANGED <<now, accounts, sessions, issued, tasks, saved, failures>>
      /\ recoveries' = [recoveries EXCEPT ![i].status = "expired"] /\ issued \in Nat
  BY DEF recoveryExpires, bound, AccessInv, SessionsOK
<1>2. AccountsOK' /\ Grow /\ NoneEnabled /\ SessionsGoOn
  BY <1>1, AccountsStay, OwnHeir, HeirsGoOn DEF AccessInv
<1>3. RecoveriesOK' /\ DOMAIN recoveries' = DOMAIN recoveries
  BY <1>1, <1>2, StatusMoves
<1> QED
  BY <1>1, <1>2, <1>3, Together, TasksStay, SavedStays

\* The host's commands: an account is put right and its sessions end.
LEMMA HostKeeps ==
    ASSUME AccessInv, NEW u \in Users, NEW a \in AccountRows,
           accounts' = [accounts EXCEPT ![u] = a], failures' = [failures EXCEPT ![u] = a.failed],
           sessions' = revokeUserSessions(sessions, u),
           UNCHANGED <<now, recoveries, issued, tasks, saved>>
    PROVE  AccessInv' /\ Progress
<1>1. /\ Heirs(sessions, sessions')
      /\ \A t \in Tokens : Alive(sessions'[t]) => sessions'[t].user # u
  BY OwnHeir, RevokedLetIn DEF AccessInv
<1>2. AccountsOK' /\ Grow /\ NoneEnabled
  BY <1>1, AccountMoves DEF Heirs
<1>3. issued \in Nat
  BY DEF AccessInv, SessionsOK
<1> QED
  BY <1>1, <1>2, <1>3, Together, HeirsGoOn, RecoveriesStay, TasksStay, SavedStays

LEMMA PromoteKeeps ==
    ASSUME AccessInv, NEW u \in Local, promoteLocalAdminForRecovery(u)
    PROVE  AccessInv' /\ Progress
<1> DEFINE a == Account("admin")
<1>1. a \in AccountRows /\ a.failed = 0 /\ u \in Users
  BY FreshAccount DEF Roles, Users
<1>2. accounts' = [accounts EXCEPT ![u] = a] /\ failures' = [failures EXCEPT ![u] = a.failed]
  BY <1>1 DEF promoteLocalAdminForRecovery
<1> HIDE DEF a
<1> QED
  BY <1>1, <1>2, HostKeeps DEF promoteLocalAdminForRecovery

LEMMA ProxyKeeps ==
    ASSUME AccessInv, NEW u \in Proxy, NEW role \in Roles, provisionProxyAccount(u, role)
    PROVE  AccessInv' /\ Progress
<1> DEFINE a == IF accounts[u] = None THEN Account(role)
                ELSE [accounts[u] EXCEPT !.role = role, !.enabled = TRUE]
<1>1. u \in Users /\ accounts[u] \in AccountRows \cup {None}
  BY DEF Users, AccessInv, AccountsOK, AccountTables
<1>2. a \in AccountRows /\ a.failed = failures[u]
  <2>1. CASE accounts[u] = None
    BY <1>1, <2>1, FreshAccount DEF AccessInv, AccountsOK
  <2>2. CASE accounts[u] # None
    BY <1>1, <2>2 DEF AccountRows, AccessInv, AccountsOK
  <2> QED
    BY <2>1, <2>2
<1>3. accounts' = [accounts EXCEPT ![u] = a]
  BY DEF provisionProxyAccount
<1> HIDE DEF a
<1>4. failures' = [failures EXCEPT ![u] = a.failed]
  BY <1>2 DEF provisionProxyAccount, AccessInv, AccountsOK
<1> QED
  BY <1>1, <1>2, <1>3, <1>4, HostKeeps DEF provisionProxyAccount

LEMMA RetentionKeeps == ASSUME AccessInv, pruneDatabaseTelemetry PROVE AccessInv' /\ Progress
<1>1. sessions' \in [Tokens -> SessionRows \cup {None}]
  BY DEF pruneDatabaseTelemetry, AccessInv, SessionsOK, SessionTables
<1>2. \A t \in Tokens : sessions'[t] \in {sessions[t], None}
  BY DEF pruneDatabaseTelemetry
<1>3. Heirs(sessions, sessions')
  BY <1>1, <1>2 DEF Heirs, Heir, SessionTables, Alive
<1> QED
  BY <1>3, SessionsMove DEF pruneDatabaseTelemetry, bound

LEMMA BackupKeeps == ASSUME AccessInv, backupDatabase PROVE AccessInv' /\ Progress
<1>1. /\ UNCHANGED <<now, accounts, sessions, recoveries, issued, tasks, failures>>
      /\ saved' = [accounts |-> accounts, sessions |-> sessions, recoveries |-> recoveries]
  BY DEF backupDatabase, tables
<1>2. SavedOK'
  BY <1>1 DEF SavedOK, AccessInv, AccountsOK, SessionsOK, RecoveriesOK, Belong, Born, RecoveriesFit
<1>3. issued \in Nat
  BY DEF AccessInv, SessionsOK
<1> QED
  BY <1>1, <1>2, <1>3, Together, OwnHeir, HeirsGoOn, AccountsStay, RecoveriesStay, TasksStay
  DEF AccessInv

\* A start that has nothing to install leaves the tables as they are.
LEMMA RestartKeeps ==
    ASSUME AccessInv, NEW m, restart(m) PROVE AccessInv' /\ Progress
<1>1. UNCHANGED <<now, accounts, sessions, recoveries, issued, saved, failures>> /\ tasks' = {}
  BY DEF restart, Stopped, tables
<1> QED
  BY <1>1, OwnHeir, SessionsMove DEF AccessInv

\* The tables that were saved fit each other.
LEMMA InstallKeeps ==
    ASSUME AccessInv, NEW m, installRestore(m) PROVE AccessInv'
<1>1. UNCHANGED <<now, issued, saved>> /\ tasks' = {} /\ now \in Nat /\ issued \in Nat
  BY DEF installRestore, Stopped, AccessInv, SessionsOK
<1>2. TasksOK' /\ SavedOK'
  BY <1>1, SavedStays DEF TasksOK
<1>3. /\ saved # None /\ accounts' = saved.accounts /\ recoveries' = saved.recoveries
      /\ sessions' = saved.sessions
      /\ failures' = [u \in Users |-> IF saved.accounts[u] = None THEN 0
                                     ELSE saved.accounts[u].failed]
  BY DEF installRestore
<1>4. /\ saved.accounts \in AccountTables /\ saved.sessions \in SessionTables
      /\ Belong(saved.accounts, saved.sessions) /\ Born(saved.sessions)
      /\ RecoveriesFit(saved.accounts, saved.recoveries)
  BY <1>3 DEF AccessInv, SavedOK
<1>5. AccountsOK' /\ RecoveriesOK'
  BY <1>3, <1>4 DEF AccountsOK, AccountTables, AccountRows, RecoveriesOK
<1>6. SessionsOK'
  BY <1>1, <1>3, <1>4 DEF AccessInv, SessionsOK, Belong, Born
<1> QED
  BY <1>2, <1>5, <1>6 DEF AccessInv

\* The sessions of a restored database all end.
LEMMA RevokeRestoredKeeps ==
    ASSUME AccessInv, revokeRestored
    PROVE  AccessInv' /\ Progress /\ \A t \in Tokens : ~Live(t)'
<1>1. /\ UNCHANGED <<now, accounts, recoveries, issued, tasks, saved, failures>>
      /\ sessions' = [t \in Tokens |-> Ended(sessions[t])]
      /\ sessions \in SessionTables /\ now \in Nat
  BY DEF revokeRestored, revokeSessionsAfterDatabaseRestore, AccessInv, SessionsOK
<1>2. ASSUME NEW t \in Tokens
      PROVE  /\ sessions'[t] \in SessionRows \cup {None} /\ Heir(sessions[t], sessions'[t])
             /\ ~Alive(sessions'[t])
  BY <1>1, EndedHeir DEF SessionTables
<1>3. sessions' = [t \in Tokens |-> sessions'[t]]
  BY <1>1
<1>4. Heirs(sessions, sessions')
  BY <1>2, <1>3 DEF Heirs, SessionTables
<1>5. \A t \in Tokens : ~Live(t)'
  BY <1>1, <1>2 DEF Live, Active, Alive
<1> QED
  BY <1>1, <1>4, <1>5, SessionsMove

LEMMA CutOffKeeps == ASSUME AccessInv, startCutOff PROVE AccessInv' /\ Progress
<1>1. UNCHANGED <<now, accounts, sessions, recoveries, issued, tasks, saved, failures>>
  BY DEF startCutOff, tables
<1> QED
  BY <1>1, OwnHeir, SessionsMove DEF AccessInv

\* Time only ends sessions.
LEMMA TickKeeps == ASSUME AccessInv, tick PROVE AccessInv' /\ Progress
<1>1. /\ now' = now + 1 /\ UNCHANGED <<accounts, sessions, recoveries, issued, tasks, saved, failures>>
      /\ now \in Nat /\ issued \in Nat /\ sessions \in SessionTables
  BY DEF tick, tables, bound, AccessInv, SessionsOK
<1>2. AccessInv'
  BY <1>1 DEF AccessInv, AccountsOK, SessionsOK, RecoveriesOK, RecoveriesFit, TasksOK, TaskOK, SavedOK, Belong, Born
<1>3. ASSUME NEW t \in Tokens, Live(t)' PROVE Live(t)
  <2>1. sessions[t] \in SessionRows /\ Alive(sessions[t])' /\ accounts[sessions[t].user].enabled
    BY <1>1, <1>3 DEF Live, Active, SessionTables
  <2>2. Alive(sessions[t])
    BY <1>1, <2>1 DEF Alive, SessionRows
  <2> QED
    BY <2>1, <2>2 DEF Live, Active, Alive
<1> QED
  BY <1>1, <1>2, <1>3 DEF Progress

-----------------------------------------------------------------------------
(* The theorems.                                                           *)

LEMMA AccessStarts == Init => AccessInv /\ gen = 0 /\ Status = [l \in Lives |-> "unborn"]
<1> SUFFICES ASSUME Init PROVE AccessInv /\ gen = 0 /\ Status = [l \in Lives |-> "unborn"]
  OBVIOUS
<1>1. /\ accounts \in AccountTables /\ failures = [u \in Users |-> 0]
      /\ \A u \in Users : accounts[u] = None \/ accounts[u].failed = 0
  BY FreshAccount DEF Init, AccountTables, Roles
<1>2. AccountsOK
  BY <1>1 DEF AccountsOK
<1>3. SessionsOK /\ RecoveriesOK /\ TasksOK /\ SavedOK
  BY AccessAssumption
  DEF AccessAssumption, Init, SessionsOK, SessionTables, Belong, Born, RecoveriesOK, RecoveriesFit,
      TasksOK, SavedOK
<1>4. gen = 0 /\ Status = [l \in Lives |-> "unborn"]
  <2>1. ASSUME NEW l \in Lives PROVE l[2] > gen \/ (l[2] = gen /\ l[1] > issued)
    BY <2>1, AccessAssumption DEF AccessAssumption, Init, Lives, Tokens
  <2> QED
    BY <2>1 DEF Init, Status
<1> QED
  BY <1>2, <1>3, <1>4 DEF AccessInv

LEMMA ServingStep == ASSUME AccessInv, Serves PROVE AccessInv' /\ Progress
<1>1. ASSUME NEW t \in Tokens, request(t) \/ logout(t) \/ passwordAsks(t)
      PROVE  AccessInv' /\ Progress
  BY <1>1, RequestKeeps, PasswordAskKeeps
<1>2. ASSUME NEW who \in Tokens \cup Proxy, NEW ss, Administers(who, ss), NEW u \in Users,
             \/ revokeSessionsRoute(ss, u)
             \/ \E role \in Roles :
                   \/ \E enabled \in BOOLEAN : updateAuthUser(ss, u, role, enabled)
                   \/ u \in Local /\ createUserAsks(ss, u, role)
      PROVE  AccessInv' /\ Progress
  <2>1. Heirs(sessions, ss)
    BY <1>2, LetIn
  <2> QED
    BY <1>2, <2>1, RevokeKeeps, UpdateKeeps, CreateAskKeeps
<1>3. ASSUME NEW u \in Proxy,
             resolveProxyAccount(u) \/ \E role \in Roles : provisionProxyAccount(u, role)
      PROVE  AccessInv' /\ Progress
  BY <1>3, ProvisionKeeps, ProxyKeeps
<1>4. ASSUME NEW u \in Local,
             \/ \E matches \in BOOLEAN, t \in {None} \cup 1..issued : loginAsks(u, matches, t)
             \/ bootstrapAsks(u) \/ issueRecoveryToken(u) \/ promoteLocalAdminForRecovery(u)
      PROVE  AccessInv' /\ Progress
  BY <1>4, LoginAskKeeps, BootstrapAskKeeps, IssueKeeps, PromoteKeeps
<1>5. ASSUME NEW i \in DOMAIN recoveries, recoverAsks(i) \/ recoveryExpires(i)
      PROVE  AccessInv' /\ Progress
  BY <1>5, RecoverAskKeeps, ExpiryKeeps
<1>6. ASSUME NEW task \in tasks,
             \/ loginSucceeds(task) \/ loginFails(task) \/ recoverEnds(task)
             \/ passwordEnds(task) \/ createUserEnds(task) \/ bootstrapEnds(task)
      PROVE  AccessInv' /\ Progress
  BY <1>6, LoginKeeps, FailureKeeps, RecoverKeeps, PasswordKeeps, CreateKeeps, BootstrapKeeps
<1>7. CASE pruneDatabaseTelemetry \/ backupDatabase
  BY <1>7, RetentionKeeps, BackupKeeps
<1> QED
  BY <1>1, <1>2, <1>3, <1>4, <1>5, <1>6, <1>7 DEF Serves

\* The refinement, one step of it: no session answers again, but after a start that
\* followed one that was cut off, with which every life begins anew.
Onward ==
    /\ issued <= issued'
    /\ \/ gen' = gen /\ \A t \in Tokens : t <= issued /\ Answers(t)' => Answers(t)
       \/ gen' = gen + 1

LEMMA AnswersIsLive == \A t \in Tokens : Answers(t) <=> phase = "up" /\ Live(t)
BY DEF Answers, Live

LEMMA AccessStep == AccessInv /\ [Next]_vars => AccessInv' /\ Onward
<1> SUFFICES ASSUME AccessInv, [Next]_vars PROVE AccessInv' /\ Onward
  OBVIOUS
<1>1. ASSUME AccessInv' /\ Progress, gen' = gen, phase' = phase PROVE AccessInv' /\ Onward
  BY <1>1, AnswersIsLive DEF Progress, Onward, Answers, Live
<1>2. ASSUME AccessInv', issued' = issued, gen' = gen,
             phase' # "up" \/ \A t \in Tokens : ~Live(t)'
      PROVE  AccessInv' /\ Onward
  BY <1>2, AnswersIsLive DEF Onward, Answers, Live, AccessInv, SessionsOK
<1>3. CASE phase = "up" /\ Serves /\ UNCHANGED process
  BY <1>1, <1>3, ServingStep DEF process
<1>4. CASE revokeRestored
  BY <1>2, <1>4, RevokeRestoredKeeps DEF revokeRestored
<1>5. CASE startCutOff
  BY <1>2, <1>5, CutOffKeeps DEF startCutOff
<1>6. ASSUME NEW m \in getAuthConfig, installRestore(m) PROVE AccessInv' /\ Onward
  BY <1>2, <1>6, InstallKeeps DEF installRestore, Stopped
<1>7. ASSUME NEW m \in getAuthConfig, restart(m) PROVE AccessInv' /\ Onward
  <2>1. AccessInv' /\ Progress
    BY <1>7, RestartKeeps
  <2>2. CASE phase = "cut"
    BY <1>7, <2>1, <2>2 DEF restart, Progress, Onward
  <2>3. CASE phase # "cut"
    BY <1>1, <1>7, <2>1, <2>3 DEF restart, Stopped
  <2> QED
    BY <2>2, <2>3
<1>8. CASE tick /\ UNCHANGED process
  BY <1>1, <1>8, TickKeeps DEF process
<1>9. CASE UNCHANGED vars
  BY <1>1, <1>9, OwnHeir, SessionsMove DEF vars, tables, bound, process, AccessInv
<1> QED
  BY <1>3, <1>4, <1>5, <1>6, <1>7, <1>8, <1>9 DEF Next, Starts

LEMMA OnwardIsLater ==
    ASSUME AccessInv, AccessInv', gen \in Nat, Onward PROVE Life!Next
<1>1. ASSUME NEW l \in Lives
      PROVE  Status'[l] \in Life!Stages /\ Life!Later(Status[l], Status'[l])
  <2>1. /\ l[1] \in Tokens /\ l[1] \in Nat /\ l[2] \in Nat
        /\ issued \in Nat /\ issued' \in Nat /\ issued <= issued'
        /\ gen' \in {gen, gen + 1}
    BY AccessAssumption DEF AccessAssumption, Lives, Tokens, AccessInv, SessionsOK, Onward
  <2>2. /\ Status[l] = IF l[2] > gen \/ (l[2] = gen /\ l[1] > issued) THEN "unborn"
                       ELSE IF l[2] = gen /\ Answers(l[1]) THEN "live" ELSE "ended"
        /\ Status'[l] = IF l[2] > gen' \/ (l[2] = gen' /\ l[1] > issued') THEN "unborn"
                        ELSE IF l[2] = gen' /\ Answers(l[1])' THEN "live" ELSE "ended"
    BY DEF Status
  <2>3. gen' = gen /\ l[1] <= issued /\ Answers(l[1])' => Answers(l[1])
    BY <2>1 DEF Onward
  <2> QED
    BY <2>1, <2>2, <2>3 DEF Life!Stages, Life!Later
<1>2. Status' = [l \in Lives |-> Status'[l]]
  BY DEF Status
<1> QED
  BY <1>1, <1>2 DEF Life!Next

(* The failed logins of authenticateLocalUser all count, in whatever order *)
(* the awaited hashes end, and a success, a recovery or the host's command *)
(* forgives exactly those of its account.                                  *)
THEOREM FailuresCount == Spec => []FailuresAllCount
<1>1. AccessInv => FailuresAllCount
  BY DEF AccessInv, AccountsOK, FailuresAllCount
<1> QED
  BY <1>1, AccessStarts, AccessStep, PTL DEF Spec

(* Accounts and sessions implement SessionLife: no slide, account that is  *)
(* enabled again, retention or start, with an older database to install or *)
(* without, makes a session that has ended answer again. The one way there *)
(* is in the code begins a new life in the mapping: a start after another  *)
(* that installed a database and was cut off before db.js:40.              *)
THEOREM SessionsNeverRevive == Spec => SessionsLiveOnce
<1>1. Init => Life!Init /\ gen \in Nat
  BY AccessStarts DEF Life!Init
<1>2. AccessInv /\ gen \in Nat /\ [Next]_vars => (gen \in Nat)'
  BY AccessStep DEF Onward
<1>3. AccessInv /\ AccessInv' /\ gen \in Nat /\ [Next]_vars => [Life!Next]_Status
  BY AccessStep, OnwardIsLater
<1> QED
  BY <1>1, <1>2, <1>3, AccessStarts, AccessStep, PTL DEF Spec, SessionsLiveOnce, Life!Spec
=============================================================================
