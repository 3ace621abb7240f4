---------------------------- MODULE UpgradeBridge ----------------------------
(***************************************************************************)
(* The preparation of an upgrade (upgradeReadiness.js and its wizard) over *)
(* the database it copies: verified backups with a receipt and a rotation  *)
(* of their own, the receipt of the host's helper, the saved configuration *)
(* and the wizard, whose gates judge by the assessment it fetched last.    *)
(*                                                                         *)
(* Abstractions: of the assessment only what the wizard's gates look at;   *)
(* of the configuration only that one was saved; the host's helper writes  *)
(* its receipt or an incomplete one while the process is down.             *)
(***************************************************************************)
EXTENDS DatabaseFile

CONSTANT KeepUpgrade    \* pre-upgrade backups kept

ASSUME KeepAssumption == KeepUpgrade \in Nat \ {0}

VARIABLES
    active,      \* a job runs
    prepared,    \* pre-upgrade backups, by request
    receipt,     \* the backup the receipt names, or None
    host, final, \* the host's receipt and the saved configuration
    wizard       \* the assessment fetched last, and whether it gave the host's command

bridge == <<active, prepared, receipt, host, final, wizard>>
all    == <<vars, bridge>>

-----------------------------------------------------------------------------
(* What an assessment says.                                                *)

inspectApplicationBackup ==
    IF receipt = None THEN "missing"
    ELSE IF \E b \in prepared : b.n = receipt THEN "ready" ELSE "invalid"

assessUpgradeReadiness ==
    [idle |-> ~active, backup |-> inspectApplicationBackup, host |-> host, final |-> final]

Unseen == [idle |-> FALSE, backup |-> "missing", host |-> "missing", final |-> "missing"]

finalReady(a) == a.idle /\ a.backup = "ready" /\ a.host = "ready" /\ a.final = "ready"

BridgeInit ==
    /\ Init
    /\ active = FALSE /\ prepared = {} /\ receipt = None
    /\ host = "missing" /\ final = "missing"
    /\ wizard = [seen |-> Unseen, plan |-> FALSE]

-----------------------------------------------------------------------------
(* The backup before the upgrade.                                          *)

createUpgradeBackup ==
    /\ ~active
    /\ Asked([n |-> requested + 1, op |-> "upgrade", step |-> "copying", holds |-> None])
    /\ UNCHANGED <<disk, bridge>>

\* The online copy ends; its validation and its digest are awaited.
upgradeCopied(task) ==
    /\ task.op = "upgrade" /\ task.step = "copying"
    /\ tasks' = (tasks \ {task}) \cup {[task EXCEPT !.step = "checking", !.holds = View]}
    /\ UNCHANGED <<disk, proc, restored, last, bounds, bridge>>

\* Mutant of Rotated: the names are sorted, but not turned round.
RotatedOldest(set) == {b \in set : Cardinality({x \in set : x.n < b.n}) < KeepUpgrade}

\* The newest by name, which is the time they were asked for.
Rotated(set) == {b \in set : Cardinality({x \in set : x.n > b.n}) < KeepUpgrade}

\* Rename, receipt and rotation follow each other; a crash can cut them short.
upgradePublished(task) ==
    /\ task.op = "upgrade" /\ task.step = "checking"
    /\ LET with == prepared \cup {[n |-> task.n, holds |-> task.holds]}
       IN  \/ /\ receipt' = task.n /\ prepared' = Rotated(with)
              /\ tasks' = tasks \ {task} /\ UNCHANGED proc
           \/ /\ prepared' = with /\ receipt' \in {receipt, task.n}
              /\ tasks' = {} /\ proc' = "down"
    /\ UNCHANGED <<disk, restored, last, bounds, active, host, final, wizard>>

upgradeFails(task) ==
    /\ task.op = "upgrade"
    /\ tasks' = tasks \ {task}
    /\ UNCHANGED <<disk, proc, restored, last, bounds, bridge>>

-----------------------------------------------------------------------------
(* The wizard, the host and the jobs.                                      *)

Bystanding == UNCHANGED vars

refresh ==
    /\ proc = "serving" /\ Bystanding
    /\ wizard' = [wizard EXCEPT !.seen = assessUpgradeReadiness]
    /\ UNCHANGED <<active, prepared, receipt, host, final>>

\* The command for the host is there when a backup is seen.
createHostPreparationPlan ==
    /\ proc = "serving" /\ wizard.seen.backup = "ready" /\ ~wizard.plan /\ Bystanding
    /\ wizard' = [wizard EXCEPT !.plan = TRUE]
    /\ UNCHANGED <<active, prepared, receipt, host, final>>

\* The helper stops the container, captures the database and writes its receipt.
inspectHostReceipt ==
    /\ proc = "down" /\ wizard.plan /\ host # "ready" /\ Bystanding
    /\ host' \in {"invalid", "ready"}
    /\ UNCHANGED <<active, prepared, receipt, final, wizard>>

\* The page shows the configuration as saved before it fetches again.
saveFinalConfiguration ==
    /\ proc = "serving" /\ wizard.seen.host = "ready" /\ Bystanding
    /\ final' = "ready" /\ wizard' = [wizard EXCEPT !.seen.final = "ready"]
    /\ UNCHANGED <<active, prepared, receipt, host>>

jobs ==
    /\ proc = "serving" /\ Bystanding
    /\ active' = ~active
    /\ UNCHANGED <<prepared, receipt, host, final, wizard>>

\* A start fails the rows of jobs that were cut short.
bridgeStep == Next /\ active' = (active /\ proc' # "down")
                   /\ UNCHANGED <<prepared, receipt, host, final, wizard>>

BridgeNext ==
    \/ bridgeStep \/ createUpgradeBackup
    \/ \E task \in tasks : upgradeCopied(task) \/ upgradePublished(task) \/ upgradeFails(task)
    \/ refresh \/ createHostPreparationPlan \/ inspectHostReceipt \/ saveFinalConfiguration
    \/ jobs

BridgeSpec == BridgeInit /\ [][BridgeNext]_all

-----------------------------------------------------------------------------
(* Properties.                                                             *)

\* The wizard shows the last step by an assessment of before: backups that are asked for
\* twice, cut short or rotated, restarts and restores close no gate it has seen open. Only
\* a backup that is overtaken may lose its receipt's file, and then newer ones are there.
GatesStayOpen ==
    finalReady(wizard.seen) =>
        /\ \/ inspectApplicationBackup = "ready"
           \/ Cardinality({b \in prepared : b.n > receipt}) >= KeepUpgrade
        /\ host = "ready" /\ final = "ready"

=============================================================================
