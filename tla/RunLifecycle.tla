---------------------------- MODULE RunLifecycle ----------------------------
(***************************************************************************)
(* The runs of ONE backup job, from the trigger to the terminal row of     *)
(* backup_runs: the scheduler's tick and retry loop (scheduler.js), the    *)
(* manual trigger and the cancel route (runLifecycle.js), the claim        *)
(* (runClaim.js), the three executors (rsync.js, hyperBackup.js,           *)
(* rclone.js), the peer's shutdown notice (peerRunIsolation.js) and the    *)
(* shutdown and start of the process (index.js).                           *)
(*                                                                         *)
(* A step is what the program does between two awaits.  A tick, a manual   *)
(* trigger or a retry that finds the claim taken changes nothing and is    *)
(* not an action.  A signalled child may still exit with any code, so that *)
(* a signal was sent is not part of the state.  Left out: what is          *)
(* transferred (VersionStore), progress, notifications, the skip counter   *)
(* (only an alert reads it), the enabled flag.  The status partial, a      *)
(* completed run with failures, counts as completed.                       *)
(***************************************************************************)
EXTENDS Integers, FiniteSets

CONSTANTS
    Features,     \* the features the job may be of
    MaxRuns,      \* bound: how many runs are claimed
    MaxRetries,   \* MAX_RETRIES: retries after a transient failure
    EnvEvents     \* which of the events of AllEvents may happen

AllEvents == {"cancel", "reschedule", "peerShutdown", "shutdown", "crash"}

ASSUME RunLifecycleAssumption ==
    /\ Features \subseteq {"ssd-backup", "hyper-backup", "rclone"}
    /\ MaxRuns \in Nat
    /\ MaxRetries \in Nat
    /\ EnvEvents \subseteq AllEvents

Runs     == 1..MaxRuns
Terminal == {"completed", "failed", "cancelled"}
Working  == {"prepare", "transfer", "post", "report"}

VARIABLES
    feature,     \* what the job is
    (* the table backup_runs *)
    last,        \* the id of the newest row
    status,      \* status[r], "none" before the row exists
    (* in memory *)
    phase,       \* of the process: up, draining, closing or down
    pc,          \* pc[r]: where the executor of r stands; in "transfer" its
                 \* child, rsync or rclone, is alive
    decided,     \* decided[r]: its local variable status
    aborted,     \* the runs whose AbortController was aborted
    attempt,     \* attempt[r]: 0 manual, k for the k-th try of a schedule loop
    runningKey   \* the scheduler's runningJobs has the job

memory == <<pc, decided, aborted, attempt, runningKey>>
vars   == <<feature, last, status, phase, memory>>

Alive == phase # "down"

Init ==
    /\ feature \in Features
    /\ last = 0
    /\ status = [r \in Runs |-> "none"]
    /\ phase = "up"
    /\ pc = [r \in Runs |-> "none"]
    /\ decided = [r \in Runs |-> "none"]
    /\ aborted = {}
    /\ attempt = [r \in Runs |-> 0]
    /\ runningKey = FALSE

-----------------------------------------------------------------------------
(* Triggers.                                                               *)

\* claimBackupRun: one immediate transaction over the rows of the job.
Unclaimed == \A r \in Runs : status[r] # "running"

\* The row is inserted and the executor runs up to its first await.
Claim ==
    /\ Unclaimed
    /\ last < MaxRuns
    /\ last' = last + 1
    /\ status' = [status EXCEPT ![last'] = "running"]
    /\ UNCHANGED <<feature, phase, decided, aborted>>

scheduleTick ==
    /\ phase = "up"
    /\ ~runningKey
    /\ Claim
    /\ pc' = [pc EXCEPT ![last'] = "prepare"]
    /\ attempt' = [attempt EXCEPT ![last'] = 1]
    /\ runningKey' = TRUE

manualRun ==
    /\ phase = "up"
    /\ Claim
    /\ pc' = [pc EXCEPT ![last'] = "prepare"]
    /\ UNCHANGED <<attempt, runningKey>>

\* The run is over for the program; a schedule loop gives its key back.
LoopEnds(r) ==
    /\ pc' = [pc EXCEPT ![r] = "done"]
    /\ attempt' = [attempt EXCEPT ![r] = 0]
    /\ runningKey' = (runningKey /\ attempt[r] = 0)

\* executeWithRetry wakes from its backoff: it claims a new run, or finds the
\* claim taken (a success), or the job is gone (an error): then the loop ends.
\* The backoff timer is not among those the shutdown clears.
retryWakes(r) ==
    /\ Alive
    /\ pc[r] = "backoff"
    /\ \/ /\ Claim
          /\ pc' = [pc EXCEPT ![r] = "done", ![last'] = "prepare"]
          /\ attempt' = [attempt EXCEPT ![r] = 0, ![last'] = attempt[r] + 1]
          /\ UNCHANGED runningKey
       \/ /\ LoopEnds(r)
          /\ UNCHANGED <<feature, last, status, phase, decided, aborted>>

-----------------------------------------------------------------------------
(* The executors.                                                          *)

\* Mutant of Threw: the catch clause does not look at the row again.
ThrewBlind(r) ==
    /\ status' = [status EXCEPT ![r] = "failed"]
    /\ pc' = [pc EXCEPT ![r] = "throw"]

\* Mutant of Threw: the catch clause only rethrows.
ThrewSilent(r) ==
    /\ pc' = [pc EXCEPT ![r] = "throw"]
    /\ UNCHANGED status

\* The catch clause: a cancelled row is left alone, but rclone does not look.
Threw(r) ==
    IF feature # "rclone" /\ status[r] = "cancelled"
    THEN /\ pc' = [pc EXCEPT ![r] = "return"]
         /\ UNCHANGED status
    ELSE /\ status' = [status EXCEPT ![r] = "failed"]
         /\ pc' = [pc EXCEPT ![r] = "throw"]

prepared(r) ==
    /\ Alive
    /\ pc[r] = "prepare"
    /\ pc' = [pc EXCEPT ![r] = "transfer"]
    /\ UNCHANGED <<feature, last, status, phase, decided, aborted, attempt, runningKey>>

\* A pre-flight check, the peer's prepare, spawning or reading the child fails.
executorFails(r) ==
    /\ Alive
    /\ pc[r] \in {"prepare", "transfer"}
    /\ Threw(r)
    /\ UNCHANGED <<feature, last, phase, decided, aborted, attempt, runningKey>>

\* Mutant of FinishSsd: the UPDATE has no condition on the status.
FinishSsdBlind(r, s) ==
    /\ status' = [status EXCEPT ![r] = s]
    /\ pc' = [pc EXCEPT ![r] = "return"]

\* UPDATE ... WHERE status = 'running'; no row changed is an error, unless the
\* run was cancelled.
FinishSsd(r, s) ==
    IF status[r] = "running"
    THEN /\ status' = [status EXCEPT ![r] = s]
         /\ pc' = [pc EXCEPT ![r] = "return"]
    ELSE Threw(r)

\* What the executor makes of an exit; by is what exit code and counts say,
\* "cancelled" for the codes of a terminated process.
Outcome(r, by) ==
    IF feature # "rclone" /\ status[r] = "cancelled" THEN "cancelled" ELSE by

childExits(r, by) ==
    /\ Alive
    /\ pc[r] = "transfer"
    /\ \/ /\ feature = "ssd-backup"
          /\ FinishSsd(r, Outcome(r, by))
          /\ UNCHANGED decided
       \/ /\ \/ feature = "ssd-backup" /\ Outcome(r, by) = "completed"
             \/ feature = "hyper-backup"
          /\ decided' = [decided EXCEPT ![r] = Outcome(r, by)]
          /\ pc' = [pc EXCEPT ![r] = IF feature = "ssd-backup" THEN "post" ELSE "report"]
          /\ UNCHANGED status
       \/ /\ feature = "rclone"
          /\ status' = [status EXCEPT ![r] = Outcome(r, by)]
          /\ pc' = [pc EXCEPT ![r] = "return"]
          /\ UNCHANGED decided
    /\ UNCHANGED <<feature, last, phase, aborted, attempt, runningKey>>

\* Every stage has run; one that failed only makes the outcome partial.
postProcessed(r) ==
    /\ Alive
    /\ pc[r] = "post"
    /\ r \notin aborted
    /\ FinishSsd(r, decided[r])
    /\ decided' = [decided EXCEPT ![r] = "none"]
    /\ UNCHANGED <<feature, last, phase, aborted, attempt, runningKey>>

postAborted(r) ==
    /\ Alive
    /\ pc[r] = "post"
    /\ r \in aborted
    /\ Threw(r)
    /\ decided' = [decided EXCEPT ![r] = "none"]
    /\ UNCHANGED <<feature, last, phase, aborted, attempt, runningKey>>

\* POST /peer/backup/complete was answered; the UPDATE has no condition.
reported(r) ==
    /\ Alive
    /\ pc[r] = "report"
    /\ status' = [status EXCEPT ![r] = decided[r]]
    /\ pc' = [pc EXCEPT ![r] = "return"]
    /\ decided' = [decided EXCEPT ![r] = "none"]
    /\ UNCHANGED <<feature, last, phase, aborted, attempt, runningKey>>

reportFails(r) ==
    /\ Alive
    /\ pc[r] = "report"
    /\ Threw(r)
    /\ decided' = [decided EXCEPT ![r] = "none"]
    /\ UNCHANGED <<feature, last, phase, aborted, attempt, runningKey>>

\* After the notification the executor returns; a schedule loop ends.
executorReturns(r) ==
    /\ Alive
    /\ pc[r] = "return"
    /\ LoopEnds(r)
    /\ aborted' = aborted \ {r}
    /\ UNCHANGED <<feature, last, status, phase, decided>>

\* A transient error of a schedule loop is retried after a backoff.
executorThrows(r) ==
    /\ Alive
    /\ pc[r] = "throw"
    /\ aborted' = aborted \ {r}
    /\ \/ /\ attempt[r] \in 1..MaxRetries
          /\ pc' = [pc EXCEPT ![r] = "backoff"]
          /\ UNCHANGED <<attempt, runningKey>>
       \/ LoopEnds(r)
    /\ UNCHANGED <<feature, last, status, phase, decided>>

-----------------------------------------------------------------------------
(* What happens to runs from outside.                                      *)

\* cancelFeatureRun: there must be a child to signal (or, for an SSD run, an
\* AbortController), and the row is cancelled at once.
cancel(r) ==
    /\ "cancel" \in EnvEvents
    /\ phase = "up"
    /\ status[r] = "running"
    /\ pc[r] = "transfer" \/ (feature = "ssd-backup" /\ pc[r] \notin {"none", "done", "backoff"})
    /\ status' = [status EXCEPT ![r] = "cancelled"]
    /\ aborted' = IF feature = "ssd-backup" THEN aborted \cup {r} ELSE aborted
    /\ UNCHANGED <<feature, last, phase, pc, decided, attempt, runningKey>>

FailRunning == [r \in Runs |-> IF status[r] = "running" THEN "failed" ELSE status[r]]

\* POST /peer/shutdown: failRunningHyperRunsForPeer.
peerShutdown ==
    /\ "peerShutdown" \in EnvEvents
    /\ phase = "up"
    /\ feature = "hyper-backup"
    /\ ~Unclaimed
    /\ status' = FailRunning
    /\ UNCHANGED <<feature, last, phase, memory>>

\* The job is saved: scheduleJob calls removeJob, which forgets the key.
reschedule ==
    /\ "reschedule" \in EnvEvents
    /\ phase = "up"
    /\ runningKey
    /\ runningKey' = FALSE
    /\ UNCHANGED <<feature, last, status, phase, pc, decided, aborted, attempt>>

\* Timers are cleared and the children told to stop; that the peers are notified
\* in between gives the executors a few more steps of phase up.
shutdown ==
    /\ "shutdown" \in EnvEvents
    /\ phase = "up"
    /\ phase' = "draining"
    /\ runningKey' = FALSE
    /\ aborted' = IF feature = "ssd-backup"
                  THEN {r \in Runs : pc[r] \notin {"none", "done", "backoff"}}
                  ELSE {}
    /\ UNCHANGED <<feature, last, status, pc, decided, attempt>>

\* They have ended, or the time is over: what still runs is marked failed.
sweep ==
    /\ phase = "draining"
    /\ phase' = "closing"
    /\ status' = FailRunning
    /\ UNCHANGED <<feature, last, memory>>

\* The process is gone, and its children with it.
ProcessEnds ==
    /\ phase' = "down"
    /\ pc' = [r \in Runs |-> IF pc[r] = "none" THEN "none" ELSE "done"]
    /\ decided' = [r \in Runs |-> "none"]
    /\ aborted' = {}
    /\ attempt' = [r \in Runs |-> 0]
    /\ runningKey' = FALSE
    /\ UNCHANGED <<feature, last, status>>

exit == phase = "closing" /\ ProcessEnds

crash == "crash" \in EnvEvents /\ Alive /\ ProcessEnds

\* Mutant of startup: orphaned rows are not cleaned up.
startupNoCleanup ==
    /\ phase = "down"
    /\ phase' = "up"
    /\ UNCHANGED <<feature, last, status, memory>>

\* The clean-up of orphaned rows, before the scheduler starts.
startup ==
    /\ phase = "down"
    /\ phase' = "up"
    /\ status' = FailRunning
    /\ UNCHANGED <<feature, last, memory>>

Executor(r) ==
    \/ prepared(r) \/ executorFails(r)
    \/ \E by \in Terminal : childExits(r, by)
    \/ postProcessed(r)
    \/ postAborted(r) \/ reported(r) \/ reportFails(r)
    \/ executorReturns(r) \/ executorThrows(r) \/ retryWakes(r)

Process == sweep \/ exit \/ startup

Next ==
    \/ scheduleTick
    \/ manualRun
    \/ \E r \in Runs : Executor(r) \/ cancel(r)
    \/ peerShutdown
    \/ reschedule
    \/ shutdown
    \/ Process
    \/ crash

Spec == Init /\ [][Next]_vars

\* Every await of an executor ends: rsync has a stall timeout, peer calls time
\* out, stages are bounded, timers fire.  A process that is down is restarted
\* (the container's restart policy) and a shutdown runs to its end.
Fairness ==
    /\ \A r \in Runs : WF_vars(Executor(r))
    /\ WF_vars(Process)

FairSpec == Spec /\ Fairness

-----------------------------------------------------------------------------
(* Properties.                                                             *)

TypeOK ==
    /\ feature \in Features
    /\ last \in 0..MaxRuns
    /\ status \in [Runs -> Terminal \cup {"none", "running"}]
    /\ phase \in {"up", "draining", "closing", "down"}
    /\ pc \in [Runs -> Working \cup {"none", "return", "throw", "backoff", "done"}]
    /\ decided \in [Runs -> Terminal \cup {"none"}]
    /\ aborted \in SUBSET Runs
    /\ attempt \in [Runs -> 0..(MaxRetries + 1)]
    /\ runningKey \in BOOLEAN

(* Manual triggers, ticks and retries share one claim: the job never has   *)
(* two running rows, whatever the scheduler's own key says.                *)
OneActiveRun ==
    \A r, s \in Runs : status[r] = "running" /\ status[s] = "running" => r = s

(* A running row belongs to an executor at work: the claim is never held   *)
(* by a run nothing will end, not after failures nor after a restart.      *)
RunningHasExecutor ==
    phase = "up" => \A r \in Runs : status[r] = "running" => pc[r] \in Working

(* An SSD run has one outcome: no step changes a terminal status, although *)
(* cancel, the executor and the shutdown sweep all write it (transition).  *)
SsdOutcomeFinal ==
    [][feature = "ssd-backup" =>
          \A r \in Runs : status[r] \in Terminal => status'[r] = status[r]]_vars

(* An SSD or Hyper run the user cancelled stays cancelled, whatever exit   *)
(* code its rsync ends with and whatever the executor throws.              *)
CancelledStays ==
    [][feature # "rclone" =>
          \A r \in Runs : status[r] = "cancelled" => status'[r] = "cancelled"]_vars

(* A claim is always given back: no run keeps its job from ever running    *)
(* again.                                                                  *)
ClaimReleased == ~Unclaimed ~> Unclaimed

=============================================================================
