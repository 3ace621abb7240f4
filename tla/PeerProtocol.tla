---------------------------- MODULE PeerProtocol ----------------------------
(***************************************************************************)
(* The peer protocol of Hyper Backup: executeHyperBackup and callPeerApi   *)
(* at the instance that owns the jobs, prepare and complete of peerApi.js  *)
(* at the other one, with its quota evidence (quotaUsage.js), its disk     *)
(* report (storageHealth.js) and the operators of both sides, who edit,    *)
(* re-pair and unmount while calls and transfers are under way.            *)
(*                                                                         *)
(* Abstractions.                                                           *)
(*  - Sizes are small numbers, a key is the number of its generation, 0 is *)
(*    no key.  Of a copy only whether an empty source replaced it counts.  *)
(*  - Signatures, paths and SSH targets are valid or make the peer refuse. *)
(*    A revoked SSH line may, but need not, make rsync fail.               *)
(*  - RunLifecycle has claims, overlapping executors and shutdowns; here   *)
(*    an executor runs alone, and the instance that owns the jobs stays up.*)
(***************************************************************************)
EXTENDS Integers

CONSTANTS
    Pushes, Pulls,  \* the jobs, by direction
    Limits,         \* the quotas an operator may set; 0: no quota
    MaxUsed,        \* bound: the largest size of what the peer stores for us
    MaxRuns,        \* bound: how many runs start
    MaxEvents,      \* bound: how many events of the environment happen
    Attempts,       \* PEER_RETRY_ATTEMPTS
    Exits,          \* the exit codes of rsync that are looked at
    Reports,        \* what the host's report may say of the pool; missing: no report
    Pinned,         \* a rule of the host pins the share to its pool
    Enforcement,    \* the setting destination_health_enforcement
    None

ASSUME PeerProtocolAssumption ==
    /\ Pushes \cap Pulls = {}
    /\ Limits \subseteq Nat /\ Limits # {}
    /\ MaxUsed \in Nat /\ MaxRuns \in Nat /\ MaxEvents \in Nat
    /\ Attempts \in Nat \ {0} /\ Exits \subseteq Int
    /\ {"ok"} \subseteq Reports /\ Reports \subseteq {"missing", "ok", "warn", "fail", "unknown"}
    /\ Pinned \in BOOLEAN
    /\ None \notin Int

Jobs  == Pushes \cup Pulls
Sizes == 0..MaxUsed
Keys  == 0..(MaxEvents + 1)

VARIABLES
    (* the peer: its row for us, its disk, its memory of our size *)
    rKey, enabled, inPrefix, limit,
    used, report, reportStale,
    figure, fresh, scanFrom,
    (* our database, and the executors *)
    pairKey, jobKey, row, phase, runKey, attempt, status,
    (* the call of each executor, and the keys of complete calls it gave up  *)
    call, allowance, late,
    (* the data *)
    source, wiped,
    (* bounds and history *)
    runs, events,
    evidence,    \* what the last finished scan of this process found
    emptied,     \* the jobs whose source was emptied after the last check
    unmeasured   \* the pushes that wrote since the last scan that finished

peer    == <<rKey, enabled, inPrefix, limit>>
disk    == <<report, reportStale>>
usage   == <<figure, fresh, scanFrom, evidence>>
ours    == <<pairKey, jobKey>>
run     == <<row, phase, runKey, attempt, status>>
wire    == <<call, allowance, late>>
data    == <<source, wiped, emptied>>
vars    == <<peer, disk, used, usage, ours, run, wire, data, runs, events, unmeasured>>

Init ==
    /\ rKey = 1 /\ enabled = TRUE /\ inPrefix = TRUE /\ limit \in Limits
    /\ used = 0 /\ report = "ok" /\ reportStale = FALSE
    /\ figure = None /\ fresh = FALSE /\ scanFrom = None /\ evidence = None
    /\ pairKey = 1 /\ jobKey = [j \in Jobs |-> 1]
    /\ row = [j \in Jobs |-> "none"] /\ phase = [j \in Jobs |-> "idle"]
    /\ runKey = [j \in Jobs |-> 0] /\ attempt = [j \in Jobs |-> 1]
    /\ status = [j \in Jobs |-> "none"]
    /\ call = [j \in Jobs |-> "none"] /\ allowance = [j \in Jobs |-> 0] /\ late = {}
    /\ source = [j \in Jobs |-> "full"] /\ wiped = {}
    /\ runs = 0 /\ events = 0 /\ emptied = {} /\ unmeasured = {}

-----------------------------------------------------------------------------
(* What the peer knows.                                                    *)

Severity == [fail |-> 3, warn |-> 2, unknown |-> 1, ok |-> 0]
worse(a, b) == IF Severity[b] > Severity[a] THEN b ELSE a

getStorageHealth == [available |-> report # "missing", state |-> report, stale |-> reportStale]

\* No report says nothing; an old one no longer says ok, but still says fail.
describeDestination ==
    LET health  == getStorageHealth
        spilled == IF Pinned THEN health.state ELSE worse(health.state, "warn")
    IN  IF ~health.available THEN "unknown"
        ELSE IF health.stale THEN worse(spilled, "unknown") ELSE spilled

\* Mutant of Verdict: only a fresh figure counts.
VerdictIfFresh(j, known, allowed) ==
    IF j \in Pushes
       /\ \/ allowed > 0 /\ known # None /\ known >= allowed /\ fresh
          \/ describeDestination = "fail" /\ Enforcement # "warn"
    THEN "refused" ELSE "ok"

\* What prepare answers once it has a figure (None: not measured in time).
Verdict(j, known, allowed) ==
    IF j \in Pushes
       /\ \/ allowed > 0 /\ known # None /\ known >= allowed
          \/ describeDestination = "fail" /\ Enforcement # "warn"
    THEN "refused" ELSE "ok"

\* startScan joins the scan that is already running.
StartScan == scanFrom' = IF scanFrom = None THEN used ELSE scanFrom

\* Calls that wait for the first scan are answered with what came of it.
AnswerWaiting(who, known) ==
    call' = [j \in Jobs |-> IF j \in who /\ call[j] = "waiting"
                            THEN Verdict(j, known, allowance[j]) ELSE call[j]]

\* du walks the tree while transfers write into it.
Between(a, b) == IF a <= b THEN a..b ELSE b..a

scanDone ==
    /\ scanFrom # None
    /\ \E kb \in Between(scanFrom, used) :
          /\ figure' = kb
          /\ evidence' = kb
          /\ AnswerWaiting(Jobs, kb)
    /\ fresh' = TRUE
    /\ scanFrom' = None
    /\ unmeasured' = {}
    /\ UNCHANGED <<peer, disk, used, ours, run, allowance, late, data, runs, events>>

\* The scan fails or exceeds its own limit; an older figure is kept.
scanFails ==
    /\ scanFrom # None
    /\ scanFrom' = None
    /\ AnswerWaiting(Jobs, None)
    /\ UNCHANGED <<peer, disk, used, figure, fresh, evidence, ours, run, allowance, late,
                   data, runs, events, unmeasured>>

\* firstWaitMs is over: the caller is told nothing, the scan goes on.
firstWaitOver(j) ==
    /\ call[j] = "waiting"
    /\ AnswerWaiting({j}, None)
    /\ UNCHANGED <<peer, disk, used, usage, ours, run, allowance, late, data, runs, events,
                   unmeasured>>

figureAges ==
    /\ fresh /\ events < MaxEvents
    /\ fresh' = FALSE
    /\ events' = events + 1
    /\ UNCHANGED <<peer, disk, used, figure, scanFrom, evidence, ours, run, wire, data, runs,
                   unmeasured>>

-----------------------------------------------------------------------------
(* The handlers of the peer.                                               *)

assertLocalSourceHasEntries(j) == source[j] = "full"

peerAuth(j) == runKey[j] = rKey /\ enabled

\* Mutant of Admissible: the source of a pull is not looked at.
AdmissibleUnchecked(j) == peerAuth(j) /\ inPrefix

\* Key, peer and prefix are checked; the source of a pull must not be empty.
Admissible(j) ==
    /\ peerAuth(j) /\ inPrefix
    /\ j \in Pulls => assertLocalSourceHasEntries(j)

prepareRefuses(j) ==
    /\ phase[j] = "prepare" /\ call[j] = "sent"
    /\ ~Admissible(j)
    /\ call' = [call EXCEPT ![j] = "refused"]
    /\ UNCHANGED <<peer, disk, used, usage, ours, run, allowance, late, data, runs, events,
                   unmeasured>>

\* req.peer keeps the quota that was in the row when the request came in.
Admit(j) ==
    /\ phase[j] = "prepare" /\ call[j] = "sent"
    /\ Admissible(j)
    /\ allowance' = [allowance EXCEPT ![j] = limit]
    /\ emptied' = IF j \in Pulls THEN emptied \ {j} ELSE emptied

\* No quota, or a figure: answered at once, an old figure measured again behind it.
prepareDecides(j) ==
    /\ Admit(j)
    /\ limit = 0 \/ figure # None
    /\ call' = [call EXCEPT ![j] = Verdict(j, figure, limit)]
    /\ IF limit > 0 /\ ~fresh THEN StartScan ELSE UNCHANGED scanFrom
    /\ UNCHANGED <<peer, disk, used, figure, fresh, evidence, ours, run, late, source, wiped,
                   runs, events, unmeasured>>

prepareWaits(j) ==
    /\ Admit(j)
    /\ limit > 0 /\ figure = None
    /\ call' = [call EXCEPT ![j] = "waiting"]
    /\ StartScan
    /\ UNCHANGED <<peer, disk, used, figure, fresh, evidence, ours, run, late, source, wiped,
                   runs, events, unmeasured>>

\* markQuotaUsageStale: the figure stays, but is due.
markQuotaUsageStale == fresh' = FALSE

\* Mutant of completeHandled: the figure is not marked.
completeUnmarked(j) ==
    /\ phase[j] = "complete" /\ call[j] = "sent"
    /\ call' = [call EXCEPT ![j] = IF peerAuth(j) THEN "ok" ELSE "refused"]
    /\ UNCHANGED <<peer, disk, used, usage, ours, run, allowance, late, data, runs, events,
                   unmeasured>>

completeHandled(j) ==
    /\ phase[j] = "complete" /\ call[j] = "sent"
    /\ IF peerAuth(j)
       THEN markQuotaUsageStale /\ call' = [call EXCEPT ![j] = "ok"]
       ELSE UNCHANGED fresh /\ call' = [call EXCEPT ![j] = "refused"]
    /\ UNCHANGED <<peer, disk, used, figure, scanFrom, evidence, ours, run, allowance, late,
                   data, runs, events, unmeasured>>

\* A complete call is handled although its sender gave up waiting.
completeHandledLate(k) ==
    /\ k \in late /\ k = rKey /\ enabled
    /\ late' = late \ {k}
    /\ markQuotaUsageStale
    /\ UNCHANGED <<peer, disk, used, figure, scanFrom, evidence, ours, run, call, allowance,
                   data, runs, events, unmeasured>>

-----------------------------------------------------------------------------
(* The executor: executeHyperBackup and callPeerApi.                       *)

\* The newest pairing's key, else the one stored on the job (0: none).
resolvePeerBinding(j) == IF pairKey # 0 THEN pairKey ELSE jobKey[j]

\* A run is claimed; without a credential, or with an empty source, it fails.
startRun(j) ==
    /\ phase[j] = "idle" /\ runs < MaxRuns
    /\ runs' = runs + 1
    /\ emptied' = IF j \in Pushes THEN emptied \ {j} ELSE emptied
    /\ IF resolvePeerBinding(j) = 0 \/ (j \in Pushes /\ ~assertLocalSourceHasEntries(j))
       THEN /\ row' = [row EXCEPT ![j] = "failed"]
            /\ UNCHANGED <<phase, runKey, call>>
       ELSE /\ row' = [row EXCEPT ![j] = "running"]
            /\ runKey' = [runKey EXCEPT ![j] = resolvePeerBinding(j)]
            /\ phase' = [phase EXCEPT ![j] = "prepare"]
            /\ call' = [call EXCEPT ![j] = "sent"]
    /\ UNCHANGED <<peer, disk, used, usage, ours, attempt, status, allowance, late, source, wiped,
                   events, unmeasured>>

\* No connection, no answer in 15 s, or an answer lost on its way.  Nothing was
\* decided: after a pause the call is made again, up to Attempts times.
Asked(j) ==
    IF attempt[j] < Attempts THEN [attempt |-> attempt[j] + 1, call |-> "sent"]
    ELSE [attempt |-> attempt[j], call |-> "refused"]

unanswered(j) ==
    /\ call[j] \in {"sent", "waiting", "ok", "refused"}
    /\ attempt' = [attempt EXCEPT ![j] = Asked(j).attempt]
    /\ call' = [call EXCEPT ![j] = Asked(j).call]
    /\ late' = IF phase[j] = "complete" /\ call[j] = "sent" THEN late \cup {runKey[j]} ELSE late
    /\ UNCHANGED <<peer, disk, used, usage, ours, row, phase, runKey, status, allowance, data,
                   runs, events, unmeasured>>

\* The executor returns or throws: its variables are gone.
Leave(j) ==
    /\ phase' = [phase EXCEPT ![j] = "idle"]
    /\ call' = [call EXCEPT ![j] = "none"]
    /\ attempt' = [attempt EXCEPT ![j] = 1]
    /\ runKey' = [runKey EXCEPT ![j] = 0]
    /\ status' = [status EXCEPT ![j] = "none"]
    /\ allowance' = [allowance EXCEPT ![j] = 0]
    /\ UNCHANGED <<peer, disk, used, usage, ours, late, data, runs, events, unmeasured>>

\* The call threw: the catch fails the run, whatever the transfer did before.
callFails(j) ==
    /\ call[j] = "refused"
    /\ row' = [row EXCEPT ![j] = IF @ = "cancelled" THEN @ ELSE "failed"]
    /\ Leave(j)

\* The peer's answer names an SSH target or a path that cannot be its own.
answerInvalid(j) ==
    /\ phase[j] = "prepare" /\ call[j] = "ok"
    /\ row' = [row EXCEPT ![j] = IF @ = "cancelled" THEN @ ELSE "failed"]
    /\ Leave(j)

\* A cancel during prepare is not looked at: rsync starts all the same.
transferStarts(j) ==
    /\ phase[j] = "prepare" /\ call[j] = "ok"
    /\ phase' = [phase EXCEPT ![j] = "transfer"]
    /\ call' = [call EXCEPT ![j] = "none"]
    /\ attempt' = [attempt EXCEPT ![j] = 1]
    /\ UNCHANGED <<peer, disk, used, usage, ours, row, runKey, status, allowance, late, data,
                   runs, events, unmeasured>>

transferWrites(j) ==
    /\ j \in Pushes /\ phase[j] = "transfer" /\ source[j] = "full"
    /\ used < MaxUsed
    /\ used' = used + 1
    /\ unmeasured' = unmeasured \cup {j}
    /\ UNCHANGED <<peer, disk, usage, ours, run, wire, data, runs, events>>

isCancelledRun(j, exit) == row[j] = "cancelled" \/ exit = 143

\* Exit 0 mirrors the source as it is now, --delete-after included.
rsyncEnds(j, exit) ==
    /\ phase[j] = "transfer"
    /\ status' = [status EXCEPT ![j] = CASE isCancelledRun(j, exit) -> "cancelled"
                                         [] exit = 0  -> "completed"
                                         [] exit = 23 -> "partial"
                                         [] OTHER     -> "failed"]
    /\ unmeasured' = IF j \in Pushes THEN unmeasured \cup {j} ELSE unmeasured
    /\ wiped' = IF exit # 0 THEN wiped
                ELSE IF source[j] = "empty" THEN wiped \cup {j} ELSE wiped \ {j}
    /\ phase' = [phase EXCEPT ![j] = "complete"]
    /\ call' = [call EXCEPT ![j] = "sent"]
    /\ UNCHANGED <<peer, disk, used, usage, ours, row, runKey, attempt, allowance, late, source,
                   emptied, runs, events>>

completeAcknowledged(j) ==
    /\ phase[j] = "complete" /\ call[j] = "ok"
    /\ row' = [row EXCEPT ![j] = status[j]]
    /\ Leave(j)

cancelHyperRun(j) ==
    /\ row[j] = "running" /\ events < MaxEvents
    /\ row' = [row EXCEPT ![j] = "cancelled"]
    /\ events' = events + 1
    /\ UNCHANGED <<peer, disk, used, usage, ours, phase, runKey, attempt, status, wire, data,
                   runs, unmeasured>>

-----------------------------------------------------------------------------
(* Operators, hosts and failures.                                          *)

Event == events < MaxEvents /\ events' = events + 1

\* PUT /peers/:id; a quota or prefix already read by a request stays as it was.
editPeer ==
    /\ Event
    /\ enabled' \in BOOLEAN /\ inPrefix' \in BOOLEAN /\ limit' \in Limits
    /\ <<enabled, inPrefix, limit>>' # <<enabled, inPrefix, limit>>
    /\ UNCHANGED <<rKey, disk, used, usage, ours, run, wire, data, runs, unmeasured>>

regenerateKey ==
    /\ Event
    /\ rKey' = rKey + 1
    /\ UNCHANGED <<enabled, inPrefix, limit, disk, used, usage, ours, run, wire, data, runs,
                   unmeasured>>

\* The instances pair again: a new key, in force at once on both sides.
rePair ==
    /\ Event
    /\ rKey' = rKey + 1 /\ pairKey' = rKey'
    /\ UNCHANGED <<enabled, inPrefix, limit, disk, used, usage, jobKey, run, wire, data, runs,
                   unmeasured>>

unpair ==
    /\ Event
    /\ pairKey # 0 /\ pairKey' = 0
    /\ UNCHANGED <<peer, disk, used, usage, jobKey, run, wire, data, runs, unmeasured>>

\* A saved job takes over the credential of the pairing, if there is one.
updateJob(j) ==
    /\ Event
    /\ jobKey[j] # resolvePeerBinding(j)
    /\ jobKey' = [jobKey EXCEPT ![j] = resolvePeerBinding(j)]
    /\ UNCHANGED <<peer, disk, used, usage, pairKey, run, wire, data, runs, unmeasured>>

\* The collector on the host writes a report, falls silent, or its file is unreadable.
hostReports ==
    /\ Event
    /\ report' \in Reports /\ reportStale' = FALSE
    /\ disk' # disk
    /\ UNCHANGED <<peer, used, usage, ours, run, wire, data, runs, unmeasured>>

reportAges ==
    /\ Event
    /\ ~reportStale /\ reportStale' = TRUE
    /\ UNCHANGED <<peer, report, used, usage, ours, run, wire, data, runs, unmeasured>>

\* A volume is unmounted, or mounted again.
mount(j) ==
    /\ Event
    /\ source' = [source EXCEPT ![j] = IF @ = "full" THEN "empty" ELSE "full"]
    /\ emptied' = IF source[j] = "full" THEN emptied \cup {j} ELSE emptied
    /\ UNCHANGED <<peer, disk, used, usage, ours, run, wire, wiped, runs, unmeasured>>

\* The peer's process restarts: what it measured was only in memory.
peerRestarts ==
    /\ Event
    /\ figure' = None /\ fresh' = FALSE /\ scanFrom' = None /\ evidence' = None
    /\ attempt' = [j \in Jobs |-> IF call[j] = "waiting" THEN Asked(j).attempt ELSE attempt[j]]
    /\ call' = [j \in Jobs |-> IF call[j] = "waiting" THEN Asked(j).call ELSE call[j]]
    /\ late' = {}
    /\ UNCHANGED <<peer, disk, used, ours, row, phase, runKey, status, allowance, data, runs,
                   unmeasured>>

Executor(j) ==
    \/ callFails(j) \/ answerInvalid(j) \/ transferStarts(j) \/ completeAcknowledged(j)
    \/ \E exit \in Exits : rsyncEnds(j, exit)

Next ==
    \/ \E j \in Jobs :
          \/ startRun(j) \/ Executor(j) \/ transferWrites(j) \/ cancelHyperRun(j)
          \/ prepareRefuses(j) \/ prepareDecides(j) \/ prepareWaits(j) \/ firstWaitOver(j)
          \/ completeHandled(j) \/ unanswered(j)
          \/ updateJob(j) \/ mount(j)
    \/ \E k \in late : completeHandledLate(k)
    \/ scanDone \/ scanFails \/ figureAges
    \/ editPeer \/ regenerateKey \/ rePair \/ unpair
    \/ hostReports \/ reportAges \/ peerRestarts

Spec == Init /\ [][Next]_vars

-----------------------------------------------------------------------------
(* Properties.                                                             *)

Rows   == {"none", "running", "completed", "partial", "failed", "cancelled"}

Granted(j) == phase[j] = "prepare" /\ call[j] # "ok" /\ call'[j] = "ok"

(* "Refuse on evidence": no push is let in against what the process knows. *)
(* What a scan found is evidence until another scan says otherwise, however*)
(* old, and however many completes, failed scans and edits came since; and *)
(* a disk reported as failing stays so until a newer report.               *)
RefusedOnEvidence ==
    [][\A j \in Pushes : Granted(j) =>
          /\ allowance'[j] > 0 /\ evidence' # None => evidence' < allowance'[j]
          /\ report = "fail" => Enforcement = "warn"]_vars

(* A run is called completed only after the peer marked its figure due: so *)
(* no figure from before the transfer counts as fresh then, although the   *)
(* call may be lost, repeated, late, or meet a new key.                    *)
CompletedIsRemeasured ==
    \A j \in Pushes :
        row[j] = "completed" /\ phase[j] = "idle" /\ j \in unmeasured => ~fresh

(* A mirror deletes everything only if the source was emptied after it was *)
(* checked for this run; a source that was empty before never gets there.  *)
WipedOnlyIfEmptiedLate ==
    [][wiped' \ wiped \subseteq emptied]_vars
=============================================================================
