----------------------------- MODULE JobsProofs -----------------------------
(***************************************************************************)
(* Proofs about Jobs: about RunLifecycle, for any number of runs and       *)
(* retries, any set of features and any environment; about Heartbeats, for *)
(* any windows, ages, intervals and schedule; and that Jobs implements     *)
(* both.                                                                   *)
(*                                                                         *)
(* RunInv adds to the properties what makes them inductive: rows that do   *)
(* not exist yet are blank, an executor past its child has decided on an   *)
(* outcome, only a Hyper run reports to its peer and it has decided        *)
(* "cancelled" if its row says so, an SSD run whose executor still works   *)
(* is not completed, and a loop that backs off has a retry left.           *)
(*                                                                         *)
(* HeartbeatInv adds to HealsOnNextRound that a poll has all its window    *)
(* covers, and that a line which was recorded is still in a report or can  *)
(* no longer count: its key is of the past or it is too old, because       *)
(* retention only drops a report when its line is.                         *)
(***************************************************************************)
EXTENDS Jobs, FiniteSetTheorems, WellFoundedInduction, TLAPS

FreshRows == \A r \in Runs : r > last => status[r] = "none" /\ pc[r] = "none"

Reporting ==
    \A r \in Runs :
        /\ pc[r] \in {"post", "report"} => decided[r] \in Terminal
        /\ pc[r] = "report" =>
              /\ feature = "hyper-backup"
              /\ status[r] = "cancelled" => decided[r] = "cancelled"

SsdUnfinished ==
    \A r \in Runs :
        feature = "ssd-backup" /\ pc[r] \in Working => status[r] # "completed"

BackingOff == \A r \in Runs : pc[r] = "backoff" => attempt[r] \in 1..MaxRetries

RunInv ==
    /\ TypeOK
    /\ OneActiveRun
    /\ RunningHasExecutor
    /\ FreshRows
    /\ Reporting
    /\ SsdUnfinished
    /\ BackingOff

-----------------------------------------------------------------------------
\* The initial state satisfies the invariant.
LEMMA RunInvInit == ASSUME RunLifecycleAssumption, Init PROVE RunInv
<1>1. last \in 0..MaxRuns /\ attempt \in [Runs -> 0..(MaxRetries + 1)]
  BY RunLifecycleAssumption DEF RunLifecycleAssumption, Init
<1> TypeOK
  BY <1>1 DEF Init, TypeOK
<1>2. OneActiveRun /\ RunningHasExecutor /\ FreshRows /\ Reporting /\ SsdUnfinished /\ BackingOff
  BY DEF Init, OneActiveRun, RunningHasExecutor, FreshRows, Reporting, SsdUnfinished,
         BackingOff, Working
<1> QED
  BY <1>1, <1>2 DEF RunInv

\* An executor that ends with a terminal row leaves the invariant alone.
LEMMA EndedKeeps ==
    ASSUME RunInv, TypeOK', NEW r \in Runs, pc[r] \in Working,
           status'[r] \in Terminal, pc'[r] \in {"return", "throw"},
           \A s \in Runs \ {r} : /\ status'[s] = status[s]
                                 /\ pc'[s] = pc[s]
                                 /\ decided'[s] = decided[s],
           UNCHANGED <<feature, last, phase, attempt>>
    PROVE  RunInv'
<1>1. OneActiveRun' /\ RunningHasExecutor'
  BY DEF RunInv, OneActiveRun, RunningHasExecutor, Terminal
<1>2. FreshRows'
  BY DEF RunInv, FreshRows, Working
<1>3. Reporting' /\ SsdUnfinished' /\ BackingOff'
  BY DEF RunInv, Reporting, SsdUnfinished, BackingOff, Working
<1> QED
  BY <1>1, <1>2, <1>3 DEF RunInv

\* So does what the promise chain does with a run that has ended.
LEMMA OverKeeps ==
    ASSUME RunInv, TypeOK', NEW r \in Runs, pc[r] \in {"return", "throw", "backoff"},
           pc'[r] \in {"done", "backoff"},
           pc'[r] = "backoff" => attempt'[r] \in 1..MaxRetries,
           \A s \in Runs \ {r} : pc'[s] = pc[s] /\ attempt'[s] = attempt[s],
           UNCHANGED <<feature, last, status, phase, decided>>
    PROVE  RunInv'
<1>1. OneActiveRun' /\ RunningHasExecutor'
  BY DEF RunInv, OneActiveRun, RunningHasExecutor, Working
<1>2. FreshRows'
  BY DEF RunInv, FreshRows
<1>3. Reporting' /\ SsdUnfinished' /\ BackingOff'
  BY DEF RunInv, Reporting, SsdUnfinished, BackingOff, Working
<1> QED
  BY <1>1, <1>2, <1>3 DEF RunInv

\* What the catch clause does to its run, and that it touches no other.
LEMMA ThrewResult ==
    ASSUME TypeOK, NEW r \in Runs, Threw(r)
    PROVE  /\ status' \in [Runs -> Terminal \cup {"none", "running"}]
           /\ pc' \in [Runs -> Working \cup {"none", "return", "throw", "backoff", "done"}]
           /\ status'[r] = IF feature # "rclone" /\ status[r] = "cancelled"
                           THEN "cancelled" ELSE "failed"
           /\ pc'[r] \in {"return", "throw"}
           /\ \A s \in Runs \ {r} : status'[s] = status[s] /\ pc'[s] = pc[s]
<1>1. CASE feature # "rclone" /\ status[r] = "cancelled"
  BY <1>1 DEF TypeOK, Threw, Terminal
<1>2. CASE ~(feature # "rclone" /\ status[r] = "cancelled")
  BY <1>2 DEF TypeOK, Threw, Terminal
<1> QED
  BY <1>1, <1>2

\* Likewise for the terminal UPDATE of an SSD run.
LEMMA FinishSsdResult ==
    ASSUME TypeOK, NEW r \in Runs, NEW s \in Terminal \cup {"none"}, FinishSsd(r, s)
    PROVE  /\ status' \in [Runs -> Terminal \cup {"none", "running"}]
           /\ pc' \in [Runs -> Working \cup {"none", "return", "throw", "backoff", "done"}]
           /\ status'[r] = IF status[r] = "running" THEN s
                           ELSE IF feature # "rclone" /\ status[r] = "cancelled"
                           THEN "cancelled" ELSE "failed"
           /\ pc'[r] \in {"return", "throw"}
           /\ \A t \in Runs \ {r} : status'[t] = status[t] /\ pc'[t] = pc[t]
<1>1. CASE status[r] = "running"
  BY <1>1 DEF TypeOK, FinishSsd
<1>2. CASE status[r] # "running"
  <2>1. Threw(r)
    BY <1>2 DEF FinishSsd
  <2> QED
    BY <1>2, <2>1, ThrewResult
<1> QED
  BY <1>1, <1>2

-----------------------------------------------------------------------------
\* What the end of a schedule loop, or of a manual run, changes.
LEMMA LoopEndsResult ==
    ASSUME RunLifecycleAssumption, TypeOK, NEW r \in Runs, LoopEnds(r)
    PROVE  /\ pc' \in [Runs -> Working \cup {"none", "return", "throw", "backoff", "done"}]
           /\ attempt' \in [Runs -> 0..(MaxRetries + 1)]
           /\ runningKey' \in BOOLEAN
           /\ pc'[r] = "done"
           /\ \A s \in Runs \ {r} : pc'[s] = pc[s] /\ attempt'[s] = attempt[s]
<1>1. 0 \in 0..(MaxRetries + 1)
  BY RunLifecycleAssumption DEF RunLifecycleAssumption
<1> QED
  BY <1>1 DEF TypeOK, LoopEnds

\* A trigger or a retry claims the next row, and only when no row is running.
LEMMA ClaimKeeps ==
    ASSUME RunLifecycleAssumption, RunInv, TypeOK', Claim,
           pc'[last'] = "prepare",
           \A s \in Runs \ {last'} :
              \/ pc'[s] = pc[s] /\ attempt'[s] = attempt[s]
              \/ pc[s] = "backoff" /\ pc'[s] = "done"
    PROVE  RunInv'
<1>1. /\ last' = last + 1
      /\ last' \in Runs
      /\ status'[last'] = "running"
      /\ \A s \in Runs \ {last'} : status'[s] = status[s] /\ status[s] # "running"
      /\ UNCHANGED <<feature, phase, decided>>
  BY RunLifecycleAssumption
  DEF RunLifecycleAssumption, RunInv, TypeOK, Claim, Unclaimed, Runs
<1>2. OneActiveRun' /\ RunningHasExecutor'
  BY <1>1 DEF OneActiveRun, RunningHasExecutor, Working
<1>3. FreshRows'
  BY <1>1, RunLifecycleAssumption
  DEF RunLifecycleAssumption, RunInv, TypeOK, FreshRows, Runs
<1>4. Reporting' /\ SsdUnfinished' /\ BackingOff'
  BY <1>1 DEF RunInv, Reporting, SsdUnfinished, BackingOff, Working
<1> QED
  BY <1>2, <1>3, <1>4 DEF RunInv

LEMMA ClaimType ==
    ASSUME RunLifecycleAssumption, TypeOK, Claim
    PROVE  last' \in 0..MaxRuns /\ status' \in [Runs -> Terminal \cup {"none", "running"}]
<1>1. last' \in 0..MaxRuns
  BY RunLifecycleAssumption DEF RunLifecycleAssumption, TypeOK, Claim
<1> QED
  BY <1>1 DEF TypeOK, Claim

LEMMA TriggersKeep ==
    ASSUME RunLifecycleAssumption, RunInv, scheduleTick \/ manualRun
    PROVE  RunInv'
<1>1. Claim
  BY DEF scheduleTick, manualRun
<1>2. /\ pc' = [pc EXCEPT ![last'] = "prepare"]
      /\ last' \in Runs
  BY RunLifecycleAssumption
  DEF RunLifecycleAssumption, RunInv, TypeOK, scheduleTick, manualRun, Claim, Runs
<1>3. attempt' \in [Runs -> 0..(MaxRetries + 1)] /\ runningKey' \in BOOLEAN
  <2>1. 1 \in 0..(MaxRetries + 1)
    BY RunLifecycleAssumption DEF RunLifecycleAssumption
  <2> QED
    BY <1>2, <2>1 DEF RunInv, TypeOK, scheduleTick, manualRun
<1>4. TypeOK'
  BY <1>1, <1>2, <1>3, ClaimType DEF RunInv, TypeOK, scheduleTick, manualRun, Claim, Working
<1> QED
  BY <1>1, <1>2, <1>4, ClaimKeeps DEF RunInv, TypeOK, scheduleTick, manualRun

LEMMA RetryKeeps ==
    ASSUME RunLifecycleAssumption, RunInv, NEW r \in Runs, retryWakes(r)
    PROVE  RunInv'
<1>1. CASE Claim /\ pc' = [pc EXCEPT ![r] = "done", ![last'] = "prepare"]
            /\ attempt' = [attempt EXCEPT ![r] = 0, ![last'] = attempt[r] + 1]
            /\ UNCHANGED runningKey
  <2>1. last' \in Runs /\ last' = last + 1 /\ r # last' /\ pc[r] = "backoff"
    BY <1>1, RunLifecycleAssumption
    DEF RunLifecycleAssumption, RunInv, TypeOK, FreshRows, retryWakes, Claim, Runs
  <2>2. attempt' \in [Runs -> 0..(MaxRetries + 1)]
    <3>1. attempt[r] + 1 \in 0..(MaxRetries + 1) /\ 0 \in 0..(MaxRetries + 1)
      BY <2>1, RunLifecycleAssumption DEF RunLifecycleAssumption, RunInv, BackingOff
    <3> QED
      BY <1>1, <2>1, <3>1 DEF RunInv, TypeOK
  <2>3. TypeOK'
    BY <1>1, <2>1, <2>2, ClaimType DEF RunInv, TypeOK, Claim, Working
  <2> QED
    BY <1>1, <2>1, <2>3, ClaimKeeps DEF RunInv, TypeOK
<1>2. CASE LoopEnds(r) /\ UNCHANGED <<feature, last, status, phase, decided, aborted>>
  <2>1. TypeOK'
    BY <1>2, LoopEndsResult DEF RunInv, TypeOK
  <2>2. pc[r] = "backoff"
    BY DEF retryWakes
  <2> QED
    BY <1>2, <2>1, <2>2, LoopEndsResult, OverKeeps DEF RunInv
<1> QED
  BY <1>1, <1>2 DEF retryWakes

\* What an executor does up to the end of its child.
LEMMA TransferKeeps ==
    ASSUME RunLifecycleAssumption, RunInv, NEW r \in Runs, NEW by \in Terminal,
           prepared(r) \/ executorFails(r) \/ childExits(r, by)
    PROVE  RunInv'
<1>1. CASE prepared(r)
  BY <1>1, RunLifecycleAssumption
  DEF RunLifecycleAssumption, prepared, Alive, RunInv, TypeOK, OneActiveRun,
      RunningHasExecutor, FreshRows, Reporting, SsdUnfinished, BackingOff, Runs, Terminal,
      Working
<1>2. CASE executorFails(r)
  <2>1. TypeOK /\ pc[r] \in Working /\ Threw(r)
    BY <1>2 DEF RunInv, executorFails, Working
  <2>2. TypeOK' /\ UNCHANGED <<feature, last, phase, decided, attempt>>
    BY <1>2, <2>1, ThrewResult DEF TypeOK, executorFails
  <2> QED
    BY <2>1, <2>2, ThrewResult, EndedKeeps DEF Terminal
<1>3. CASE childExits(r, by)
  <2> DEFINE d == Outcome(r, by)
  <2>1. /\ pc[r] = "transfer" /\ pc[r] \in Working
        /\ TypeOK /\ d \in Terminal
        /\ UNCHANGED <<feature, last, phase, aborted, attempt, runningKey>>
    BY <1>3 DEF RunInv, childExits, Outcome, Working, Terminal
  <2>2. CASE FinishSsd(r, d) /\ UNCHANGED decided
    <3>1. TypeOK'
      BY <2>1, <2>2, FinishSsdResult DEF TypeOK
    <3> QED
      BY <2>1, <2>2, <3>1, FinishSsdResult, EndedKeeps DEF Terminal
  <2>3. CASE /\ \/ feature = "ssd-backup" /\ d = "completed"
                \/ feature = "hyper-backup"
             /\ decided' = [decided EXCEPT ![r] = d]
             /\ pc' = [pc EXCEPT ![r] = IF feature = "ssd-backup" THEN "post" ELSE "report"]
             /\ UNCHANGED status
    <3>1. TypeOK'
      BY <2>1, <2>3 DEF TypeOK, Working
    <3>2. OneActiveRun' /\ RunningHasExecutor'
      BY <2>1, <2>3 DEF RunInv, TypeOK, OneActiveRun, RunningHasExecutor, Working
    <3>3. FreshRows'
      BY <2>1, <2>3 DEF RunInv, TypeOK, FreshRows
    <3>4. Reporting'
      BY <2>1, <2>3 DEF RunInv, TypeOK, Reporting, Outcome
    <3>5. SsdUnfinished' /\ BackingOff'
      BY <2>1, <2>3 DEF RunInv, TypeOK, SsdUnfinished, BackingOff, Working
    <3> QED
      BY <3>1, <3>2, <3>3, <3>4, <3>5 DEF RunInv
  <2>4. CASE /\ status' = [status EXCEPT ![r] = d]
             /\ pc' = [pc EXCEPT ![r] = "return"]
             /\ UNCHANGED decided
    <3>1. TypeOK'
      BY <2>1, <2>4 DEF TypeOK
    <3>2. /\ status'[r] \in Terminal /\ pc'[r] = "return"
          /\ \A s \in Runs \ {r} : status'[s] = status[s] /\ pc'[s] = pc[s]
      BY <2>1, <2>4 DEF TypeOK
    <3> QED
      BY <2>1, <2>4, <3>1, <3>2, EndedKeeps
  <2> QED
    BY <1>3, <2>2, <2>3, <2>4 DEF childExits
<1> QED
  BY <1>1, <1>2, <1>3

\* What it does after the child has ended: the terminal UPDATE or the catch clause.
LEMMA FinishKeeps ==
    ASSUME RunLifecycleAssumption, RunInv, NEW r \in Runs,
           postProcessed(r) \/ postAborted(r) \/ reported(r) \/ reportFails(r)
    PROVE  RunInv'
<1>1. /\ TypeOK /\ pc[r] \in Working
      /\ decided' = [decided EXCEPT ![r] = "none"]
      /\ UNCHANGED <<feature, last, phase, aborted, attempt, runningKey>>
  BY DEF RunInv, postProcessed, postAborted, reported, reportFails, Working
<1>2. CASE Threw(r)
  <2>1. TypeOK'
    BY <1>1, <1>2, ThrewResult DEF TypeOK
  <2> QED
    BY <1>1, <1>2, <2>1, ThrewResult, EndedKeeps DEF TypeOK, Terminal
<1>3. CASE postProcessed(r)
  <2>1. FinishSsd(r, decided[r]) /\ decided[r] \in Terminal
    BY <1>3 DEF RunInv, Reporting, postProcessed
  <2>2. TypeOK'
    BY <1>1, <2>1, FinishSsdResult DEF TypeOK
  <2> QED
    BY <1>1, <2>1, <2>2, FinishSsdResult, EndedKeeps DEF TypeOK, Terminal
<1>4. CASE reported(r)
  <2>1. decided[r] \in Terminal
    BY <1>4 DEF RunInv, Reporting, reported
  <2>2. TypeOK'
    BY <1>1, <1>4, <2>1 DEF TypeOK, reported
  <2> QED
    BY <1>1, <1>4, <2>1, <2>2, EndedKeeps DEF TypeOK, reported
<1> QED
  BY <1>2, <1>3, <1>4 DEF postAborted, reportFails

\* What the promise chain behind the executor does: the loop goes on or ends.
LEMMA ReturnKeeps ==
    ASSUME RunLifecycleAssumption, RunInv, NEW r \in Runs,
           executorReturns(r) \/ executorThrows(r)
    PROVE  RunInv'
<1>1. /\ TypeOK /\ pc[r] \in {"return", "throw"}
      /\ aborted' = aborted \ {r}
      /\ UNCHANGED <<feature, last, status, phase, decided>>
  BY DEF RunInv, executorReturns, executorThrows
<1>2. CASE LoopEnds(r)
  <2>1. TypeOK'
    BY <1>1, <1>2, LoopEndsResult DEF TypeOK
  <2> QED
    BY <1>1, <1>2, <2>1, LoopEndsResult, OverKeeps
<1>3. CASE /\ attempt[r] \in 1..MaxRetries
           /\ pc' = [pc EXCEPT ![r] = "backoff"]
           /\ UNCHANGED <<attempt, runningKey>>
  <2>1. TypeOK'
    BY <1>1, <1>3 DEF TypeOK
  <2>2. /\ pc'[r] = "backoff" /\ attempt'[r] \in 1..MaxRetries
        /\ \A s \in Runs \ {r} : pc'[s] = pc[s] /\ attempt'[s] = attempt[s]
    BY <1>1, <1>3 DEF TypeOK
  <2> QED
    BY <1>1, <2>1, <2>2, OverKeeps
<1> QED
  BY <1>2, <1>3 DEF executorReturns, executorThrows

\* FailRunning leaves no running row and touches no other status.
LEMMA FailRunningResult ==
    ASSUME TypeOK
    PROVE  /\ FailRunning \in [Runs -> Terminal \cup {"none", "running"}]
           /\ \A r \in Runs : FailRunning[r] = IF status[r] = "running" THEN "failed"
                                               ELSE status[r]
  BY DEF TypeOK, FailRunning, Terminal

\* What happens to runs from outside: cancel, a peer's notice, a saved job.
LEMMA OutsideKeeps ==
    ASSUME RunLifecycleAssumption, RunInv,
           (\E r \in Runs : cancel(r)) \/ peerShutdown \/ reschedule
    PROVE  RunInv'
<1>1. ASSUME NEW r \in Runs, cancel(r) PROVE RunInv'
  <2>1. TypeOK'
    BY <1>1 DEF RunInv, TypeOK, cancel, Terminal
  <2>2. OneActiveRun' /\ RunningHasExecutor' /\ FreshRows'
    BY <1>1 DEF RunInv, TypeOK, OneActiveRun, RunningHasExecutor, FreshRows, cancel
  <2>3. Reporting' /\ SsdUnfinished' /\ BackingOff'
    BY <1>1 DEF RunInv, TypeOK, Reporting, SsdUnfinished, BackingOff, cancel
  <2> QED
    BY <2>1, <2>2, <2>3 DEF RunInv
<1>2. CASE peerShutdown
  <2>1. TypeOK'
    BY <1>2, FailRunningResult DEF RunInv, TypeOK, peerShutdown, memory
  <2>2. OneActiveRun' /\ RunningHasExecutor' /\ FreshRows'
    BY <1>2, FailRunningResult
    DEF RunInv, OneActiveRun, RunningHasExecutor, FreshRows, peerShutdown, memory
  <2>3. Reporting' /\ SsdUnfinished' /\ BackingOff'
    BY <1>2, FailRunningResult
    DEF RunInv, Reporting, SsdUnfinished, BackingOff, peerShutdown, memory
  <2> QED
    BY <2>1, <2>2, <2>3 DEF RunInv
<1>3. CASE reschedule
  BY <1>3 DEF RunInv, TypeOK, OneActiveRun, RunningHasExecutor, FreshRows, Reporting,
              SsdUnfinished, BackingOff, reschedule
<1> QED
  BY <1>1, <1>2, <1>3

\* Shutdown, crash and start of the process.
LEMMA ProcessKeeps ==
    ASSUME RunLifecycleAssumption, RunInv, shutdown \/ Process \/ crash
    PROVE  RunInv'
<1>1. CASE shutdown
  BY <1>1 DEF RunInv, TypeOK, OneActiveRun, RunningHasExecutor, FreshRows, Reporting,
              SsdUnfinished, BackingOff, shutdown
<1>2. CASE sweep \/ startup
  <2>1. /\ status' = FailRunning /\ phase' \in {"closing", "up"}
        /\ UNCHANGED <<feature, last, memory>>
    BY <1>2 DEF sweep, startup
  <2>2. TypeOK'
    BY <2>1, FailRunningResult DEF RunInv, TypeOK, memory
  <2>3. OneActiveRun' /\ RunningHasExecutor' /\ FreshRows'
    BY <2>1, FailRunningResult
    DEF RunInv, OneActiveRun, RunningHasExecutor, FreshRows, memory
  <2>4. Reporting' /\ SsdUnfinished' /\ BackingOff'
    BY <2>1, FailRunningResult DEF RunInv, Reporting, SsdUnfinished, BackingOff, memory
  <2> QED
    BY <2>2, <2>3, <2>4 DEF RunInv
<1>3. CASE ProcessEnds
  <2>1. 0 \in 0..(MaxRetries + 1)
    BY RunLifecycleAssumption DEF RunLifecycleAssumption
  <2>2. TypeOK'
    BY <1>3, <2>1 DEF RunInv, TypeOK, ProcessEnds
  <2>3. OneActiveRun' /\ RunningHasExecutor' /\ FreshRows'
    BY <1>3 DEF RunInv, OneActiveRun, RunningHasExecutor, FreshRows, ProcessEnds
  <2>4. Reporting' /\ SsdUnfinished' /\ BackingOff'
    BY <1>3 DEF RunInv, Reporting, SsdUnfinished, BackingOff, ProcessEnds, Working
  <2> QED
    BY <2>2, <2>3, <2>4 DEF RunInv
<1> QED
  BY <1>1, <1>2, <1>3 DEF Process, exit, crash

-----------------------------------------------------------------------------
\* Every step of the specification keeps the invariant.
LEMMA RunInvStep ==
    ASSUME RunLifecycleAssumption, RunInv, [Next]_vars
    PROVE  RunInv'
<1>1. CASE scheduleTick \/ manualRun
  BY <1>1, TriggersKeep
<1>2. ASSUME NEW r \in Runs, Executor(r) PROVE RunInv'
  <2>1. CASE prepared(r) \/ executorFails(r) \/ \E by \in Terminal : childExits(r, by)
    BY <2>1, TransferKeeps DEF Terminal
  <2>2. CASE postProcessed(r) \/ postAborted(r) \/ reported(r) \/ reportFails(r)
    BY <2>2, FinishKeeps
  <2>3. CASE executorReturns(r) \/ executorThrows(r)
    BY <2>3, ReturnKeeps
  <2>4. CASE retryWakes(r)
    BY <2>4, RetryKeeps
  <2> QED
    BY <1>2, <2>1, <2>2, <2>3, <2>4 DEF Executor
<1>3. CASE (\E r \in Runs : cancel(r)) \/ peerShutdown \/ reschedule
  BY <1>3, OutsideKeeps
<1>4. CASE shutdown \/ Process \/ crash
  BY <1>4, ProcessKeeps
<1>5. CASE UNCHANGED vars
  BY <1>5 DEF RunInv, TypeOK, OneActiveRun, RunningHasExecutor, FreshRows, Reporting,
              SsdUnfinished, BackingOff, vars, memory
<1> QED
  BY <1>1, <1>2, <1>3, <1>4, <1>5 DEF Next

\* A row keeps the status a user, a peer or an executor finished it with.
Kept(r) ==
    /\ feature = "ssd-backup" /\ status[r] \in Terminal => status'[r] = status[r]
    /\ feature # "rclone" /\ status[r] = "cancelled" => status'[r] = "cancelled"

\* A claim writes a row that did not exist.
LEMMA ClaimKeepsRows ==
    ASSUME RunLifecycleAssumption, RunInv, Claim, NEW r \in Runs
    PROVE  Kept(r)
<1>1. CASE r = last + 1
  BY <1>1 DEF RunInv, TypeOK, FreshRows, Claim, Kept, Runs, Terminal
<1>2. CASE r # last + 1
  BY <1>2 DEF RunInv, TypeOK, Claim, Kept
<1> QED
  BY <1>1, <1>2

\* The catch clause and the conditional UPDATE leave a finished row as it is.
LEMMA CatchKeepsRow ==
    ASSUME RunInv, NEW r \in Runs, pc[r] \in Working, NEW s \in Terminal,
           Threw(r) \/ FinishSsd(r, s)
    PROVE  Kept(r)
<1>1. TypeOK /\ (feature = "ssd-backup" => status[r] # "completed")
  BY DEF RunInv, SsdUnfinished
<1>2. CASE Threw(r)
  BY <1>1, <1>2, ThrewResult DEF Kept, Terminal
<1>3. CASE FinishSsd(r, s)
  BY <1>1, <1>3, FinishSsdResult DEF Kept, Terminal
<1> QED
  BY <1>2, <1>3

LEMMA ExecutorKeepsRow ==
    ASSUME RunLifecycleAssumption, RunInv, NEW r \in Runs, Executor(r)
    PROVE  Kept(r)
<1>1. CASE UNCHANGED status
  BY <1>1 DEF Kept
<1>2. CASE executorFails(r) \/ postAborted(r) \/ reportFails(r)
  <2>1. Threw(r) /\ pc[r] \in Working
    BY <1>2 DEF executorFails, postAborted, reportFails, Working
  <2> QED
    BY <2>1, CatchKeepsRow DEF Terminal
<1>3. CASE postProcessed(r)
  <2>1. FinishSsd(r, decided[r]) /\ pc[r] \in Working /\ decided[r] \in Terminal
    BY <1>3 DEF RunInv, Reporting, postProcessed, Working
  <2> QED
    BY <2>1, CatchKeepsRow
<1>4. CASE reported(r)
  BY <1>4 DEF RunInv, TypeOK, Reporting, reported, Kept
<1>5. ASSUME NEW by \in Terminal, childExits(r, by) PROVE Kept(r)
  <2>1. Outcome(r, by) \in Terminal /\ pc[r] \in Working
    BY <1>5 DEF Outcome, Terminal, childExits, Working
  <2>2. CASE FinishSsd(r, Outcome(r, by))
    BY <2>1, <2>2, CatchKeepsRow
  <2>3. CASE feature = "rclone"
    BY <2>3 DEF Kept
  <2> QED
    BY <1>1, <1>5, <2>2, <2>3 DEF childExits
<1>6. CASE retryWakes(r) /\ Claim
  BY <1>6, ClaimKeepsRows
<1> QED
  BY <1>1, <1>2, <1>3, <1>4, <1>5, <1>6
  DEF Executor, prepared, executorReturns, executorThrows, retryWakes

\* An executor writes no row but its own; a retry also claims a new one.
LEMMA ExecutorKeepsOthers ==
    ASSUME RunLifecycleAssumption, RunInv, NEW q \in Runs, NEW r \in Runs \ {q}, Executor(q)
    PROVE  Kept(r)
<1>1. CASE \/ prepared(q) \/ reported(q) \/ executorReturns(q) \/ executorThrows(q)
  BY <1>1 DEF RunInv, TypeOK, prepared, reported, executorReturns, executorThrows, Kept
<1>2. CASE executorFails(q) \/ postAborted(q) \/ reportFails(q)
  BY <1>2, ThrewResult DEF RunInv, executorFails, postAborted, reportFails, Kept
<1>3. CASE postProcessed(q)
  <2>1. FinishSsd(q, decided[q]) /\ decided[q] \in Terminal
    BY <1>3 DEF RunInv, Reporting, postProcessed
  <2> QED
    BY <2>1, FinishSsdResult DEF RunInv, Kept
<1>4. ASSUME NEW by \in Terminal, childExits(q, by) PROVE Kept(r)
  <2>1. Outcome(q, by) \in Terminal
    BY DEF Outcome, Terminal
  <2>2. CASE FinishSsd(q, Outcome(q, by))
    BY <2>1, <2>2, FinishSsdResult DEF RunInv, Kept
  <2>3. CASE status' = status \/ status' = [status EXCEPT ![q] = Outcome(q, by)]
    BY <2>3 DEF RunInv, TypeOK, Kept
  <2> QED
    BY <1>4, <2>2, <2>3 DEF childExits
<1>5. CASE retryWakes(q)
  BY <1>5, ClaimKeepsRows DEF retryWakes, Kept
<1> QED
  BY <1>1, <1>2, <1>3, <1>4, <1>5 DEF Executor

LEMMA StepKeepsRows ==
    ASSUME RunLifecycleAssumption, RunInv, Next, NEW r \in Runs
    PROVE  Kept(r)
<1>1. CASE scheduleTick \/ manualRun
  BY <1>1, ClaimKeepsRows DEF scheduleTick, manualRun
<1>2. ASSUME NEW q \in Runs, Executor(q) PROVE Kept(r)
  BY <1>2, ExecutorKeepsRow, ExecutorKeepsOthers
<1>3. ASSUME NEW q \in Runs, cancel(q) PROVE Kept(r)
  BY <1>3 DEF RunInv, TypeOK, cancel, Kept, Terminal
<1>4. CASE peerShutdown \/ sweep \/ startup
  BY <1>4, FailRunningResult DEF RunInv, peerShutdown, sweep, startup, Kept, Terminal
<1>5. CASE reschedule \/ shutdown \/ exit \/ crash
  BY <1>5 DEF reschedule, shutdown, exit, crash, ProcessEnds, Kept
<1> QED
  BY <1>1, <1>2, <1>3, <1>4, <1>5 DEF Next, Process

-----------------------------------------------------------------------------
(* RunInv is an inductive invariant of the runs of a job (claimBackupRun,  *)
(* the executors, cancel, shutdown and start); the theorems below follow.  *)
THEOREM RunInvariant == Spec => []RunInv
<1>1. Init => RunInv
  BY RunLifecycleAssumption, RunInvInit
<1>2. RunInv /\ [Next]_vars => RunInv'
  BY RunLifecycleAssumption, RunInvStep
<1> QED
  BY <1>1, <1>2, PTL DEF Spec

(* The type invariant of the run lifecycle (backup_runs and the executors' *)
(* memory) holds in every reachable state.                                 *)
THEOREM TypeCorrect == Spec => []TypeOK
<1>1. RunInv => TypeOK
  BY DEF RunInv
<1> QED
  BY <1>1, RunInvariant, PTL

(* The claim of runClaim.js is exclusive: whatever triggers, retries and   *)
(* failures there are, a job never has two running rows.                   *)
THEOREM ClaimExclusive == Spec => []OneActiveRun
<1>1. RunInv => OneActiveRun
  BY DEF RunInv
<1> QED
  BY <1>1, RunInvariant, PTL

(* The claim is never held by a run that no executor works on: every exit  *)
(* of an executor, the shutdown and the start leave no such row behind.    *)
THEOREM ClaimHeldByExecutor == Spec => []RunningHasExecutor
<1>1. RunInv => RunningHasExecutor
  BY DEF RunInv
<1> QED
  BY <1>1, RunInvariant, PTL

(* No step changes the terminal status of an SSD run: the conditional      *)
(* UPDATE and the catch clause of executeSsdBackup are enough.             *)
THEOREM SsdOutcomesAreFinal == Spec => SsdOutcomeFinal
<1>1. RunInv /\ [Next]_vars =>
        [feature = "ssd-backup" =>
            \A r \in Runs : status[r] \in Terminal => status'[r] = status[r]]_vars
  BY RunLifecycleAssumption, StepKeepsRows DEF Kept
<1> QED
  BY <1>1, RunInvariant, PTL DEF Spec, SsdOutcomeFinal

(* No step takes the status cancelled from an SSD or Hyper run.            *)
THEOREM CancelledRunsStayCancelled == Spec => CancelledStays
<1>1. RunInv /\ [Next]_vars =>
        [feature # "rclone" =>
            \A r \in Runs : status[r] = "cancelled" => status'[r] = "cancelled"]_vars
  BY RunLifecycleAssumption, StepKeepsRows DEF Kept
<1> QED
  BY <1>1, RunInvariant, PTL DEF Spec, CancelledStays

-----------------------------------------------------------------------------
(* Numbers, finite sets and their order. *)

\* A nonempty set of numbers has a least one.
LEMMA LeastNumber ==
    ASSUME NEW S \in SUBSET Nat, S # {}
    PROVE  \E x \in S : \A y \in S : x <= y
<1> DEFINE less == OpToRel(<, Nat)
<1>1. IsWellFoundedOn(less, Nat)
  BY NatLessThanWellFounded
<1>2. PICK x \in S : \A y \in S : ~ (<<y, x>> \in less)
  <2> HIDE DEF less
  <2> QED BY <1>1, WFMin
<1>3. \A y \in S : ~(y < x)
  BY <1>2 DEF OpToRel
<1> QED BY <1>3

\* What holds of 0 and goes on from each number to the next holds up to n.
LEMMA CountUp ==
    ASSUME NEW n \in Nat, NEW S, 0 \in S, \A k \in 0..(n - 1) : k \in S => k + 1 \in S
    PROVE  \A k \in 0..n : k \in S
<1> DEFINE T == (0..n) \ S
<1> SUFFICES ASSUME T # {} PROVE FALSE
  OBVIOUS
<1>1. PICK x \in T : \A y \in T : x <= y
  <2>1. T \in SUBSET Nat
    OBVIOUS
  <2> HIDE DEF T
  <2> QED BY <2>1, LeastNumber
<1>2. x \in 1..n /\ x - 1 \notin T
  BY <1>1
<1>3. x - 1 \in S /\ x - 1 \in 0..(n - 1)
  BY <1>2
<1> QED BY <1>1, <1>2, <1>3

\* A finite set that is not empty has a member of the highest rank.
LEMMA Highest ==
    ASSUME NEW S, S # {}, NEW b \in Nat, NEW rank, \A x \in S : rank[x] \in 0..b
    PROVE  \E x \in S : \A y \in S : rank[y] <= rank[x]
<1> DEFINE gaps == {b - rank[x] : x \in S}
<1>1. gaps \in SUBSET Nat /\ gaps # {}
  OBVIOUS
<1>2. PICK g \in gaps : \A h \in gaps : g <= h
  <2> HIDE DEF gaps
  <2> QED BY <1>1, LeastNumber
<1>3. PICK x \in S : g = b - rank[x]
  BY <1>2
<1>4. ASSUME NEW y \in S PROVE rank[y] <= rank[x]
  <2>1. b - rank[x] <= b - rank[y]
    BY <1>2, <1>3
  <2> QED BY <2>1
<1> QED BY <1>4

Ordered(s, S, rank) ==
    /\ s \in [1..Cardinality(S) -> S]
    /\ \A x \in S : \E i \in DOMAIN s : s[i] = x
    /\ \A i, j \in DOMAIN s : i < j => rank[s[i]] <= rank[s[j]]

(* Every finite set can be put in order: of the smallest that could not, the *)
(* rest without a member of the highest rank could, and that one goes last.  *)
LEMMA CanBeOrdered ==
    ASSUME NEW S, IsFiniteSet(S), NEW b \in Nat, NEW rank, \A x \in S : rank[x] \in 0..b
    PROVE  \E s : Ordered(s, S, rank)
<1> DEFINE Sizes == {n \in 0..Cardinality(S) :
                        \A T \in SUBSET S : Cardinality(T) = n => \E s : Ordered(s, T, rank)}
<1>1. Cardinality(S) \in Nat
  BY FS_CardinalityType
<1>2. 0 \in Sizes
  <2> SUFFICES ASSUME NEW T \in SUBSET S, Cardinality(T) = 0 PROVE \E s : Ordered(s, T, rank)
    BY <1>1
  <2>1. T = {}
    BY FS_Subset, FS_EmptySet
  <2> DEFINE s == [i \in 1..0 |-> i]
  <2>2. Ordered(s, T, rank)
    BY <2>1 DEF Ordered
  <2> QED BY <2>2
<1>3. ASSUME NEW n \in 0..(Cardinality(S) - 1), n \in Sizes PROVE n + 1 \in Sizes
  <2> SUFFICES ASSUME NEW T \in SUBSET S, Cardinality(T) = n + 1
               PROVE  \E s : Ordered(s, T, rank)
    BY <1>1
  <2>1. IsFiniteSet(T)
    BY FS_Subset
  <2>2. T # {}
    BY FS_EmptySet
  <2>3. PICK x \in T : \A y \in T : rank[y] <= rank[x]
    BY <2>2, Highest
  <2>4. Cardinality(T \ {x}) = n
    <3>1. Cardinality(T \ {x}) = Cardinality(T) - 1
      BY <2>1, <2>3, FS_RemoveElement
    <3> QED BY <1>1, <3>1
  <2>5. PICK r : Ordered(r, T \ {x}, rank)
    BY <1>3, <2>4
  <2> DEFINE s == [i \in 1..(n + 1) |-> IF i = n + 1 THEN x ELSE r[i]]
  <2>6. r \in [1..n -> T \ {x}]
    BY <2>4, <2>5 DEF Ordered
  <2>7. s \in [1..(n + 1) -> T]
    BY <2>3, <2>6
  <2>8. \A y \in T : \E i \in 1..(n + 1) : s[i] = y
    <3> SUFFICES ASSUME NEW y \in T PROVE \E i \in 1..(n + 1) : s[i] = y
      OBVIOUS
    <3>1. CASE y = x
      <4>1. n + 1 \in 1..(n + 1) /\ s[n + 1] = y
        BY <3>1
      <4> QED BY <4>1
    <3>2. CASE y # x
      <4>1. PICK i \in 1..n : r[i] = y
        BY <2>5, <2>6, <3>2 DEF Ordered
      <4>2. i \in 1..(n + 1) /\ s[i] = y
        BY <4>1
      <4> QED BY <4>2
    <3> QED BY <3>1, <3>2
  <2>9. \A i, j \in 1..(n + 1) : i < j => rank[s[i]] <= rank[s[j]]
    <3> SUFFICES ASSUME NEW i \in 1..(n + 1), NEW j \in 1..(n + 1), i < j
                 PROVE  rank[s[i]] <= rank[s[j]]
      OBVIOUS
    <3>1. i \in 1..n /\ s[i] = r[i] /\ r[i] \in T
      BY <2>6
    <3>2. CASE j = n + 1
      BY <2>3, <3>1, <3>2
    <3>3. CASE j # n + 1
      <4>1. j \in 1..n /\ s[j] = r[j]
        BY <3>3
      <4>2. DOMAIN r = 1..n
        BY <2>6
      <4>3. rank[r[i]] <= rank[r[j]]
        <5> HIDE DEF s
        <5> QED BY <2>5, <3>1, <4>1, <4>2 DEF Ordered
      <4> QED BY <3>1, <4>1, <4>3
    <3> QED BY <3>2, <3>3
  <2>10. Ordered(s, T, rank)
    BY <2>7, <2>8, <2>9 DEF Ordered
  <2> QED BY <2>10
<1>4. Cardinality(S) \in Sizes
  <2> HIDE DEF Sizes
  <2> QED BY <1>1, <1>2, <1>3, CountUp
<1> QED BY <1>4

LEMMA InOrderIs ==
    ASSUME NEW S, IsFiniteSet(S), NEW b \in Nat, NEW rank, \A x \in S : rank[x] \in 0..b
    PROVE  /\ Cardinality(S) \in Nat
           /\ InOrder(S, rank) \in [1..Cardinality(S) -> S]
           /\ \A x \in S : \E i \in 1..Cardinality(S) : InOrder(S, rank)[i] = x
           /\ \A i, j \in 1..Cardinality(S) :
                 i < j => rank[InOrder(S, rank)[i]] <= rank[InOrder(S, rank)[j]]
<1>1. PICK s : Ordered(s, S, rank)
  BY CanBeOrdered
<1>2. Ordered(InOrder(S, rank), S, rank)
  BY <1>1, Zenon DEF InOrder, Ordered
<1>3. Cardinality(S) \in Nat
  BY FS_CardinalityType
<1> QED BY <1>2, <1>3 DEF Ordered

-----------------------------------------------------------------------------
(* Reports of external jobs: the invariant. *)

Row == [status : Results \cup {"running"}, at : Nat, ref : Line \cup {None}]

HeartbeatTypes ==
    /\ now \in Nat /\ created \in Nat /\ key \in Nat
    /\ beats \in Nat /\ reposts \in Nat /\ events \in Nat
    /\ mode \in {"on", "off", "absent"}
    /\ runs \in Seq(Row)
    /\ logged \in {"none", "failed", "recovered"}
    /\ topic \in SUBSET [line : Line, at : Nat] /\ IsFiniteSet(topic)
    /\ configured \in BOOLEAN
    /\ timer \in Nat \cup {None}
    /\ poll \in [at : Nat \cup {None}, reads : BOOLEAN, posts : SUBSET topic]
    /\ recorded \in SUBSET Line
    /\ round \in Nat \cup {None}

\* The broker holds what was posted by now, signed with keys the job has had.
TopicOK == \A p \in topic : p.at <= now /\ p.line.key <= key

\* Either the timer is set or a poll is under way, which has all its window covers.
PollOK ==
    /\ timer = None <=> poll # NoPoll
    /\ poll # NoPoll =>
          /\ poll.at = now
          /\ poll.reads => \A p \in topic : p.at < now /\ now - p.at <= Lookback => p \in poll.posts

RoundOK == round # None => round <= now

\* A report that came as a line was recorded, and not before the line could count.
RowsOK ==
    \A i \in DOMAIN runs : runs[i].ref # None =>
        runs[i].ref \in recorded /\ runs[i].ref.ts <= runs[i].at + MaxAge

\* A line that was recorded is in a report still, or can no longer count.
RecordedOK ==
    \A l \in recorded :
        /\ l.key <= key
        /\ isDuplicate(runs, l) \/ l.key < key \/ mode = "absent" \/ now - l.ts > MaxAge

HeartbeatInv ==
    HeartbeatTypes /\ TopicOK /\ PollOK /\ RoundOK /\ RowsOK /\ RecordedOK /\ HealsOnNextRound

-----------------------------------------------------------------------------
(* What a poll stores. *)

LEMMA AnswerIs ==
    ASSUME HeartbeatInv
    PROVE  /\ Len(readCapped) \in Nat
           /\ \A m \in 1..Len(readCapped) : readCapped[m] \in poll.posts
           /\ \A p \in poll.posts : \E m \in 1..Len(readCapped) : readCapped[m] = p
<1> DEFINE S == poll.posts
           rank == [p \in S |-> p.at]
<1>1. IsFiniteSet(S) /\ \A p \in S : p \in topic /\ p.at \in 0..now
  <2>1. S \in SUBSET topic /\ IsFiniteSet(topic) /\ now \in Nat
    BY DEF HeartbeatInv, HeartbeatTypes
  <2>2. \A p \in topic : p.at \in Nat /\ p.at <= now
    BY DEF HeartbeatInv, HeartbeatTypes, TopicOK
  <2> QED BY <2>1, <2>2, FS_Subset
<1>2. now \in Nat /\ \A p \in S : rank[p] \in 0..now
  BY <1>1 DEF HeartbeatInv, HeartbeatTypes
<1>3. /\ Cardinality(S) \in Nat
      /\ InOrder(S, rank) \in [1..Cardinality(S) -> S]
      /\ \A x \in S : \E i \in 1..Cardinality(S) : InOrder(S, rank)[i] = x
  <2> HIDE DEF S, rank
  <2> QED BY <1>1, <1>2, InOrderIs
<1>4. readCapped = InOrder(S, rank)
  BY DEF readCapped
<1> HIDE DEF S, rank
<1>5. Len(readCapped) = Cardinality(S)
  BY <1>3, <1>4
<1> QED BY <1>3, <1>4, <1>5 DEF S

\* The accumulator after line k, from the one after line k - 1.
After(f, k) ==
    IF k = 0 THEN [rs |-> runs, log |-> logged]
    ELSE recordRelayedHeartbeat(f[k - 1], readCapped[k].line)

StoredOn(n) == LET after[k \in 0..n] == After(after, k) IN after

LEMMA StoredIsLast == \A n : Stored(n) = StoredOn(n)[n]
  BY Zenon DEF Stored, StoredOn, After

LEMMA StoredUnfold == \A n : StoredOn(n) = CHOOSE f : f = [k \in 0..n |-> After(f, k)]
  BY Zenon DEF StoredOn

LEMMA StoredExists == ASSUME NEW n \in Nat PROVE \E f : f = [k \in 0..n |-> After(f, k)]
<1> DEFINE Solved == {k \in 0..n : \E f : f = [j \in 0..k |-> After(f, j)]}
<1>1. 0 \in Solved
  <2> DEFINE f == [j \in 0..0 |-> [rs |-> runs, log |-> logged]]
  <2>1. \A j \in 0..0 : After(f, j) = f[j]
    BY DEF After
  <2>2. f = [j \in 0..0 |-> After(f, j)]
    BY <2>1
  <2> QED BY <2>2
<1>2. ASSUME NEW k \in 0..(n - 1), k \in Solved PROVE k + 1 \in Solved
  <2>1. PICK f : f = [j \in 0..k |-> After(f, j)]
    BY <1>2
  <2> DEFINE g == [j \in 0..(k + 1) |-> IF j = k + 1 THEN After(f, k + 1) ELSE f[j]]
  <2>2. ASSUME NEW j \in 0..(k + 1) PROVE After(g, j) = After(f, j)
    <3>1. j # 0 => j - 1 \in 0..(k + 1) /\ j - 1 # k + 1
      OBVIOUS
    <3>2. j # 0 => g[j - 1] = f[j - 1]
      BY <3>1
    <3> HIDE DEF g
    <3> QED BY <3>2 DEF After
  <2>3. ASSUME NEW j \in 0..(k + 1) PROVE g[j] = After(g, j)
    <3>1. CASE j = k + 1
      BY <2>2, <3>1
    <3>2. CASE j # k + 1
      <4>1. j \in 0..k /\ g[j] = f[j]
        BY <3>2
      <4>2. f[j] = After(f, j)
        BY <2>1, <4>1
      <4> QED BY <2>2, <4>1, <4>2
    <3> QED BY <3>1, <3>2
  <2>4. g = [j \in 0..(k + 1) |-> After(g, j)]
    BY <2>3
  <2>5. k + 1 \in 0..n
    OBVIOUS
  <2> QED BY <2>4, <2>5
<1>3. n \in Solved
  <2> HIDE DEF Solved
  <2> QED BY <1>1, <1>2, CountUp
<1> QED BY <1>3

(* What is true of the accumulator after k lines: the reports from before, *)
(* then reports of lines that count, no line twice; and each of the first  *)
(* k lines that counts is in one of them.                                  *)
Rows(rs) ==
    /\ rs \in Seq(Row)
    /\ Len(runs) <= Len(rs)
    /\ \A i \in 1..Len(runs) : rs[i] = runs[i]
    /\ \A i \in (Len(runs) + 1)..Len(rs) :
          /\ rs[i].ref \in Line /\ acceptable(rs[i].ref) /\ rs[i].at = now
          /\ \A j \in (1..Len(rs)) \ {i} : rs[j].ref # rs[i].ref

StoredTo(acc, k) ==
    /\ Rows(acc.rs)
    /\ acc.log \in {"none", "failed", "recovered"}
    /\ \A m \in 1..k : acceptable(readCapped[m].line) => isDuplicate(acc.rs, readCapped[m].line)

LEMMA OneLine ==
    ASSUME HeartbeatInv, LineAssumption, NEW acc, NEW k \in 0..(Len(readCapped) - 1),
           StoredTo(acc, k)
    PROVE  StoredTo(recordRelayedHeartbeat(acc, readCapped[k + 1].line), k + 1)
<1> DEFINE line == readCapped[k + 1].line
           new == recordRelayedHeartbeat(acc, line)
           row == [status |-> line.result, at |-> now, ref |-> line]
<1>1. line \in Line /\ now \in Nat /\ runs \in Seq(Row)
  <2>1. Len(readCapped) \in Nat /\ k + 1 \in 1..Len(readCapped)
    BY AnswerIs
  <2>2. readCapped[k + 1] \in topic
    BY <2>1, AnswerIs DEF HeartbeatInv, HeartbeatTypes
  <2> QED BY <2>2 DEF HeartbeatInv, HeartbeatTypes
<1>2. acc.rs \in Seq(Row) /\ Len(acc.rs) \in Nat /\ Len(runs) \in Nat
  BY <1>1 DEF StoredTo, Rows
<1>3. \A m \in 1..(k + 1) : m \in 1..k \/ readCapped[m].line = line
  OBVIOUS
<1> HIDE DEF line
<1>4. CASE ~acceptable(line)
  <2>1. new = acc
    BY <1>4 DEF recordRelayedHeartbeat
  <2> QED BY <1>3, <1>4, <2>1 DEF StoredTo, line
<1>5. CASE isDuplicate(acc.rs, line)
  <2>1. new = acc
    BY <1>5 DEF recordRelayedHeartbeat
  <2> QED BY <1>3, <1>5, <2>1 DEF StoredTo, line
<1>6. CASE acceptable(line) /\ ~isDuplicate(acc.rs, line)
  <2>1. row \in Row
    BY <1>1 DEF Row, Line
  <2>2. new = [rs |-> Append(acc.rs, row), log |-> loggedAfter(acc.rs, acc.log, line.result)]
    BY <1>6 DEF recordRelayedHeartbeat, insertHeartbeat
  <2>3. new.log \in {"none", "failed", "recovered"}
    BY <2>2 DEF loggedAfter, StoredTo
  <2>4. new.rs = Append(acc.rs, row)
    BY <2>2
  <2>5. /\ new.rs \in Seq(Row) /\ Len(new.rs) = Len(acc.rs) + 1
        /\ \A i \in 1..Len(acc.rs) : new.rs[i] = acc.rs[i]
        /\ new.rs[Len(acc.rs) + 1] = row
    BY <1>2, <2>1, <2>4
  <2>6. \A i \in 1..Len(acc.rs) : acc.rs[i].ref # line
    BY <1>2, <1>6 DEF isDuplicate
  <2> HIDE DEF new
  <2>7. row.ref = line /\ row.at = now
    OBVIOUS
  <2> HIDE DEF row
  <2>8. Rows(new.rs)
    <3>1. /\ Len(runs) <= Len(acc.rs)
          /\ \A i \in 1..Len(runs) : acc.rs[i] = runs[i]
          /\ \A i \in (Len(runs) + 1)..Len(acc.rs) :
                /\ acc.rs[i].ref \in Line /\ acceptable(acc.rs[i].ref) /\ acc.rs[i].at = now
                /\ \A j \in (1..Len(acc.rs)) \ {i} : acc.rs[j].ref # acc.rs[i].ref
      BY DEF StoredTo, Rows
    <3>2. Len(runs) <= Len(new.rs) /\ \A i \in 1..Len(runs) : new.rs[i] = runs[i]
      BY <1>2, <2>5, <3>1
    <3>3. ASSUME NEW i \in (Len(runs) + 1)..Len(new.rs)
          PROVE  /\ new.rs[i].ref \in Line /\ acceptable(new.rs[i].ref) /\ new.rs[i].at = now
                 /\ \A j \in (1..Len(new.rs)) \ {i} : new.rs[j].ref # new.rs[i].ref
      <4>1. CASE i = Len(acc.rs) + 1
        <5>1. new.rs[i].ref = line /\ new.rs[i].at = now
          BY <2>5, <2>7, <4>1
        <5>2. ASSUME NEW j \in (1..Len(new.rs)) \ {i} PROVE new.rs[j].ref # line
          <6>1. j \in 1..Len(acc.rs) /\ new.rs[j] = acc.rs[j]
            BY <1>2, <2>5, <4>1
          <6> QED BY <2>6, <6>1
        <5> QED BY <1>1, <1>6, <5>1, <5>2
      <4>2. CASE i # Len(acc.rs) + 1
        <5>1. i \in (Len(runs) + 1)..Len(acc.rs) /\ i \in 1..Len(acc.rs)
          BY <1>2, <2>5, <4>2
        <5>2. new.rs[i] = acc.rs[i]
          BY <2>5, <5>1
        <5>3. ASSUME NEW j \in (1..Len(new.rs)) \ {i} PROVE new.rs[j].ref # new.rs[i].ref
          <6>1. CASE j = Len(acc.rs) + 1
            BY <2>5, <2>6, <2>7, <5>1, <5>2, <6>1
          <6>2. CASE j # Len(acc.rs) + 1
            <7>1. j \in 1..Len(acc.rs) /\ new.rs[j] = acc.rs[j]
              BY <1>2, <2>5, <6>2
            <7> QED BY <3>1, <5>1, <5>2, <7>1
          <6> QED BY <6>1, <6>2
        <5> QED BY <3>1, <5>1, <5>2, <5>3
      <4> QED BY <4>1, <4>2
    <3> QED BY <2>5, <3>2, <3>3 DEF Rows
  <2>9. ASSUME NEW l, isDuplicate(acc.rs, l) \/ l = line PROVE isDuplicate(new.rs, l)
    <3>1. DOMAIN acc.rs = 1..Len(acc.rs) /\ DOMAIN new.rs = 1..(Len(acc.rs) + 1)
      BY <1>2, <2>5
    <3>2. CASE l = line
      <4>1. Len(acc.rs) + 1 \in DOMAIN new.rs /\ new.rs[Len(acc.rs) + 1].ref = l
        BY <1>2, <2>5, <2>7, <3>1, <3>2
      <4> QED BY <4>1 DEF isDuplicate
    <3>3. CASE isDuplicate(acc.rs, l)
      <4>1. PICK i \in 1..Len(acc.rs) : acc.rs[i].ref = l
        BY <3>1, <3>3 DEF isDuplicate
      <4>2. i \in DOMAIN new.rs /\ new.rs[i].ref = l
        BY <1>2, <2>5, <3>1, <4>1
      <4> QED BY <4>2 DEF isDuplicate
    <3> QED BY <2>9, <3>2, <3>3
  <2>10. \A m \in 1..(k + 1) : acceptable(readCapped[m].line) => isDuplicate(new.rs, readCapped[m].line)
    BY <1>3, <2>9 DEF StoredTo
  <2>11. StoredTo(new, k + 1)
    BY <2>3, <2>8, <2>10 DEF StoredTo
  <2> QED BY <2>11 DEF new, line
<1> QED BY <1>4, <1>5, <1>6

LEMMA StoredIs ==
    ASSUME HeartbeatInv, LineAssumption, NEW n \in 0..Len(readCapped)
    PROVE  StoredTo(Stored(n), n)
<1> DEFINE f == StoredOn(n)
           S == {k \in 0..n : StoredTo(f[k], k)}
<1>1. Len(readCapped) \in Nat /\ n \in Nat
  BY AnswerIs
<1>2. f = [k \in 0..n |-> After(f, k)]
  BY <1>1, StoredUnfold, StoredExists, Zenon
<1> HIDE DEF f
<1>3. \A k \in 0..n : f[k] = After(f, k)
  BY <1>2
<1>4. 0 \in S
  <2>1. f[0] = [rs |-> runs, log |-> logged]
    BY <1>1, <1>3 DEF After
  <2>2. f[0].rs = runs /\ f[0].log = logged
    BY <2>1
  <2>3. runs \in Seq(Row) /\ Len(runs) \in Nat /\ logged \in {"none", "failed", "recovered"}
    BY DEF HeartbeatInv, HeartbeatTypes
  <2>4. Rows(runs)
    BY <2>3 DEF Rows
  <2>5. StoredTo(f[0], 0)
    BY <2>2, <2>3, <2>4 DEF StoredTo
  <2> QED BY <1>1, <2>5
<1>5. ASSUME NEW k \in 0..(n - 1), k \in S PROVE k + 1 \in S
  <2>1. k + 1 \in 0..n /\ k + 1 # 0 /\ (k + 1) - 1 = k /\ k \in 0..(Len(readCapped) - 1)
    BY <1>1
  <2>2. f[k + 1] = recordRelayedHeartbeat(f[k], readCapped[k + 1].line)
    BY <1>3, <2>1 DEF After
  <2>3. StoredTo(f[k + 1], k + 1)
    BY <1>5, <2>1, <2>2, OneLine
  <2> QED BY <2>1, <2>3
<1>6. n \in S
  <2> HIDE DEF S
  <2>1. \A k \in 0..(n - 1) : k \in S => k + 1 \in S
    BY <1>5
  <2>2. \A k \in 0..n : k \in S
    BY <1>1, <1>4, <2>1, CountUp
  <2> QED BY <1>1, <2>2
<1>7. StoredTo(f[n], n)
  BY <1>6
<1> QED BY <1>7, StoredIsLast, Zenon DEF f

-----------------------------------------------------------------------------
(* The invariant holds initially and is kept by every step. *)

LEMMA HeartbeatInvInit ==
    ASSUME HeartbeatsAssumption, HeartbeatInit PROVE HeartbeatInv
<1>1. HeartbeatTypes
  BY FS_EmptySet DEF HeartbeatInit, HeartbeatTypes, NoPoll
<1>2. TopicOK /\ PollOK /\ RoundOK /\ RowsOK /\ RecordedOK /\ HealsOnNextRound
  BY DEF HeartbeatsAssumption, HeartbeatInit, TopicOK, PollOK, RoundOK, RowsOK, RecordedOK,
         HealsOnNextRound
<1> QED BY <1>1, <1>2 DEF HeartbeatInv

\* A report is added that came over HTTP.
LEMMA HttpKeeps ==
    ASSUME HeartbeatInv, NEW s \in Results \cup {"running"}, recordHeartbeat(s) PROVE HeartbeatInv'
<1> DEFINE row == [status |-> s, at |-> now, ref |-> None]
<1>1. runs \in Seq(Row) /\ now \in Nat /\ Len(runs) \in Nat
  BY DEF HeartbeatInv, HeartbeatTypes
<1>2. row \in Row
  BY <1>1 DEF Row
<1>3. runs' = Append(runs, row) /\ logged' = loggedAfter(runs, logged, s)
  BY DEF recordHeartbeat, insertHeartbeat
<1>4. row.ref = None
  OBVIOUS
<1> HIDE DEF row
<1>5. /\ runs' \in Seq(Row) /\ DOMAIN runs' = 1..(Len(runs) + 1) /\ DOMAIN runs = 1..Len(runs)
      /\ \A i \in DOMAIN runs : i \in DOMAIN runs' /\ runs'[i] = runs[i]
      /\ runs'[Len(runs) + 1] = row
  BY <1>1, <1>2, <1>3
<1>6. HeartbeatTypes'
  BY <1>3, <1>5 DEF HeartbeatInv, HeartbeatTypes, recordHeartbeat, loggedAfter, job, relay
<1>7. RowsOK'
  <2> SUFFICES ASSUME NEW i \in DOMAIN runs', runs'[i].ref # None
               PROVE  runs'[i].ref \in recorded /\ runs'[i].ref.ts <= runs'[i].at + MaxAge
    BY DEF RowsOK, recordHeartbeat
  <2>1. i \in DOMAIN runs
    BY <1>1, <1>4, <1>5
  <2> QED BY <1>5, <2>1 DEF HeartbeatInv, RowsOK
<1>8. RecordedOK'
  <2>1. \A l : isDuplicate(runs, l) => isDuplicate(runs', l)
    BY <1>5 DEF isDuplicate
  <2> QED BY <2>1 DEF HeartbeatInv, RecordedOK, recordHeartbeat
<1>9. TopicOK' /\ PollOK' /\ RoundOK' /\ HealsOnNextRound'
  BY DEF HeartbeatInv, TopicOK, PollOK, RoundOK, HealsOnNextRound, recordHeartbeat, relay, NoPoll
<1> QED BY <1>6, <1>7, <1>8, <1>9 DEF HeartbeatInv

\* The operator switches the job, renews its token, deletes it and creates it anew.
LEMMA OperatorKeeps ==
    ASSUME HeartbeatInv,
           updateExternalJob \/ regenerateIngestToken \/ deleteExternalJob \/ createExternalJob
    PROVE  HeartbeatInv'
<1> USE DEF updateExternalJob, regenerateIngestToken, deleteExternalJob, createExternalJob, Event,
            relay, bound
<1>1. HeartbeatTypes'
  <2>1. runs' \in Seq(Row)
    <3>1. runs' = runs \/ runs' = <<>>
      OBVIOUS
    <3>2. runs \in Seq(Row) /\ <<>> \in Seq(Row)
      BY DEF HeartbeatInv, HeartbeatTypes
    <3> QED BY <3>1, <3>2
  <2>2. key' \in Nat /\ created' \in Nat /\ mode' \in {"on", "off", "absent"}
    BY DEF HeartbeatInv, HeartbeatTypes
  <2>3. events' \in Nat /\ UNCHANGED <<now, beats, reposts, logged, topic, relay, recorded, round>>
    BY DEF HeartbeatInv, HeartbeatTypes
  <2> QED BY <2>1, <2>2, <2>3 DEF HeartbeatInv, HeartbeatTypes
<1>2. TopicOK' /\ PollOK' /\ RoundOK'
  BY DEF HeartbeatInv, HeartbeatTypes, TopicOK, PollOK, RoundOK, NoPoll, Line
<1>3. RowsOK'
  BY DEF HeartbeatInv, RowsOK
<1>4. RecordedOK'
  BY DEF HeartbeatInv, HeartbeatTypes, RecordedOK, Line
<1>5. HealsOnNextRound'
  BY DEF HeartbeatInv, HeartbeatTypes, TopicOK, HealsOnNextRound, Line
<1> QED BY <1>1, <1>2, <1>3, <1>4, <1>5 DEF HeartbeatInv

\* The relay is switched, RedMan restarted, a poll fails or begins.
LEMMA RelayKeeps ==
    ASSUME HeartbeatsAssumption, HeartbeatInv,
           switchRelay \/ restart \/ pollFails \/ pollRelayOnce
    PROVE  HeartbeatInv'
<1> USE DEF switchRelay, restart, pollFails, pollRelayOnce, Event, schedule, job, bound
<1>1. now \in Nat /\ None \notin Nat /\ Backoff \in Nat /\ Lookback \in Nat
  BY DEF HeartbeatInv, HeartbeatTypes, HeartbeatsAssumption
<1>2. HeartbeatTypes'
  <2>4. configured \in BOOLEAN /\ configured' \in BOOLEAN
    <3>1. configured \in BOOLEAN
      BY DEF HeartbeatInv, HeartbeatTypes
    <3>2. configured' = configured \/ configured' = ~configured
      BY Zenon
    <3> QED BY <3>1, <3>2
  <2>1. poll' \in [at : Nat \cup {None}, reads : BOOLEAN, posts : SUBSET topic]
    <3>1. CASE switchRelay
      BY <3>1 DEF HeartbeatInv, HeartbeatTypes
    <3>2. CASE restart \/ pollFails
      <4>1. poll' = NoPoll
        BY <3>2
      <4>2. NoPoll \in [at : Nat \cup {None}, reads : BOOLEAN, posts : SUBSET topic]
        BY DEF NoPoll
      <4> QED BY <4>1, <4>2
    <3>3. CASE pollRelayOnce
      BY <1>1, <2>4, <3>3
    <3> QED BY <3>1, <3>2, <3>3
  <2>2. timer' \in Nat \cup {None} /\ events' \in Nat
    <3>1. CASE switchRelay
      BY <3>1 DEF HeartbeatInv, HeartbeatTypes
    <3>2. CASE restart
      BY <1>1, <3>2 DEF HeartbeatInv, HeartbeatTypes
    <3>4. CASE pollFails
      <4>1. timer' = now + Backoff /\ events' = events + 1
        BY <3>4
      <4>2. events \in Nat
        BY DEF HeartbeatInv, HeartbeatTypes
      <4> QED BY <1>1, <4>1, <4>2
    <3>3. CASE pollRelayOnce
      BY <1>1, <3>3 DEF HeartbeatInv, HeartbeatTypes
    <3> QED BY <3>1, <3>2, <3>3, <3>4
  <2>3. UNCHANGED <<now, job, topic, beats, reposts, recorded, round>>
    OBVIOUS
  <2> QED BY <2>1, <2>2, <2>3, <2>4 DEF HeartbeatInv, HeartbeatTypes
<1>3. PollOK'
  <2>1. CASE switchRelay
    BY <2>1 DEF HeartbeatInv, PollOK, NoPoll
  <2>2. CASE restart \/ pollFails
    BY <1>1, <2>2 DEF HeartbeatInv, PollOK, NoPoll
  <2>3. CASE pollRelayOnce
    <3>1. poll'.at = now /\ timer' = None /\ poll' # NoPoll
      BY <1>1, <2>3 DEF NoPoll
    <3>2. ASSUME NEW p \in topic, p.at < now, now - p.at <= Lookback, configured PROVE p \in poll'.posts
      <4>1. p.at \in Nat
        BY DEF HeartbeatInv, HeartbeatTypes
      <4> QED BY <1>1, <2>3, <3>2, <4>1
    <3> QED BY <2>3, <3>1, <3>2 DEF PollOK, NoPoll
  <2> QED BY <2>1, <2>2, <2>3
<1>4. TopicOK' /\ RoundOK' /\ RowsOK' /\ RecordedOK' /\ HealsOnNextRound'
  BY DEF HeartbeatInv, TopicOK, RoundOK, RowsOK, RecordedOK, HealsOnNextRound
<1> QED BY <1>2, <1>3, <1>4 DEF HeartbeatInv

\* A line is posted, or posted again.
LEMMA PostKeeps ==
    ASSUME HeartbeatsAssumption, HeartbeatInv,
           NEW new, topic' = topic \cup {new}, new \in [line : Line, at : Nat],
           new.at = now, new.line.key <= key, beats' \in Nat, reposts' \in Nat,
           UNCHANGED <<now, job, relay, events, recorded, round>>
    PROVE  HeartbeatInv'
<1> USE DEF job, relay
<1>1. HeartbeatTypes'
  <2>1. IsFiniteSet(topic') /\ topic' \in SUBSET [line : Line, at : Nat]
    BY FS_AddElement DEF HeartbeatInv, HeartbeatTypes
  <2>2. poll \in [at : Nat \cup {None}, reads : BOOLEAN, posts : SUBSET topic']
    BY DEF HeartbeatInv, HeartbeatTypes
  <2> QED BY <2>1, <2>2 DEF HeartbeatInv, HeartbeatTypes
<1>2. TopicOK'
  BY DEF HeartbeatInv, HeartbeatTypes, TopicOK
<1>5. RoundOK' /\ RowsOK' /\ RecordedOK'
  BY DEF HeartbeatInv, RoundOK, RowsOK, RecordedOK
<1>4. PollOK'
  <2>1. UNCHANGED <<timer, poll, now>> /\ NoPoll' = NoPoll
    BY DEF NoPoll
  <2>2. PollOK
    BY DEF HeartbeatInv
  <2>3. now \in Nat /\ ~(new.at < now)
    BY DEF HeartbeatInv, HeartbeatTypes
  <2>4. \A p \in topic' : p.at < now => p \in topic
    BY <2>3
  <2> HIDE DEF NoPoll, job, relay
  <2> QED BY <2>1, <2>2, <2>4 DEF PollOK
<1>3. HealsOnNextRound'
  <2>1. now \in Nat /\ (round # None => round \in Nat /\ round <= now)
    BY DEF HeartbeatInv, HeartbeatTypes, RoundOK
  <2>2. round # None => ~(new.at < round)
    BY <2>1
  <2> QED BY <2>2 DEF HeartbeatInv, HealsOnNextRound
<1> QED BY <1>1, <1>2, <1>3, <1>4, <1>5 DEF HeartbeatInv

LEMMA TickKeeps == ASSUME HeartbeatInv, tick PROVE HeartbeatInv'
<1> USE DEF tick, job, relay, bound
<1>1. HeartbeatTypes'
  BY DEF HeartbeatInv, HeartbeatTypes
<1>2. TopicOK' /\ PollOK' /\ RowsOK' /\ HealsOnNextRound'
  BY DEF HeartbeatInv, HeartbeatTypes, TopicOK, PollOK, RowsOK, HealsOnNextRound, NoPoll
<1>3. RoundOK'
  BY DEF HeartbeatInv, HeartbeatTypes, RoundOK
<1>4. RecordedOK'
  <2>1. now \in Nat /\ now' = now + 1 /\ \A l \in recorded : l.ts \in Nat
    BY DEF HeartbeatInv, HeartbeatTypes, Line
  <2>2. \A l \in recorded : now - l.ts > MaxAge => now' - l.ts > MaxAge
    <3>1. MaxAge \in Nat
      BY HeartbeatsAssumption DEF HeartbeatsAssumption
    <3> QED BY <2>1, <3>1
  <2> QED BY <2>2 DEF HeartbeatInv, RecordedOK
<1> QED BY <1>1, <1>2, <1>3, <1>4 DEF HeartbeatInv

LEMMA SeqOfRows ==
    ASSUME NEW s \in Seq(Row)
    PROVE  Len(s) \in Nat /\ DOMAIN s = 1..Len(s) /\ \A i \in 1..Len(s) : s[i] \in Row
OBVIOUS

LEMMA BeyondOf == ASSUME NEW a \in Nat, NEW b \in Nat, NEW i \in 1..b, i \notin 1..a PROVE i \in (a + 1)..b
OBVIOUS

LEMMA LastOf == ASSUME NEW a \in Nat, NEW i \in 1..a PROVE a # 0 /\ a \in 1..a
OBVIOUS

LEMMA AgeOf == ASSUME NEW a \in Nat, NEW t \in Nat, NEW m \in Nat, a - t \in (-m)..m PROVE t <= a + m
OBVIOUS

\* The rows that a batch of the retention leaves, in their order; the last stays.
LEMMA PruneIs ==
    ASSUME HeartbeatInv, NEW gone \in SUBSET Prunable, pruneDatabaseTelemetry(gone)
    PROVE  /\ runs # <<>> /\ runs' \in Seq(Row) /\ runs' # <<>>
           /\ \A i \in DOMAIN runs' : \E j \in DOMAIN runs \ gone : runs'[i] = runs[j]
           /\ \A j \in DOMAIN runs \ gone : \E i \in DOMAIN runs' : runs'[i] = runs[j]
           /\ runs'[Len(runs')] = runs[Len(runs)]
           /\ Len(runs') <= Len(runs)
           /\ \A i, k \in DOMAIN runs' : i < k =>
                 \E a, b \in DOMAIN runs : a <= b /\ runs'[i] = runs[a] /\ runs'[k] = runs[b]
<1> DEFINE S == DOMAIN runs \ gone
           rank == [i \in DOMAIN runs |-> i]
           n == Cardinality(S)
           kept == InOrder(S, rank)
<1>1. /\ runs \in Seq(Row) /\ Len(runs) \in Nat \ {0} /\ DOMAIN runs = 1..Len(runs)
      /\ Len(runs) \in S /\ S \subseteq 1..Len(runs)
  <2>1. runs \in Seq(Row) /\ Len(runs) \in Nat /\ DOMAIN runs = 1..Len(runs)
    BY SeqOfRows DEF HeartbeatInv, HeartbeatTypes
  <2>2. gone # {} /\ gone \subseteq (1..Len(runs)) \ {Len(runs)}
    BY <2>1 DEF pruneDatabaseTelemetry, Prunable
  <2>3. PICK x \in 1..Len(runs) : x # Len(runs)
    BY <2>2
  <2>4. Len(runs) \in 1..Len(runs)
    BY <2>1, <2>3, LastOf
  <2>5. Len(runs) # 0
    BY <2>1, <2>3, LastOf
  <2> QED BY <2>1, <2>2, <2>4, <2>5
<1>2. IsFiniteSet(S)
  <2>1. IsFiniteSet(1..Len(runs))
    BY <1>1, FS_Interval
  <2> HIDE DEF S
  <2> QED BY <1>1, <2>1, FS_Subset
<1>3. \A x \in S : rank[x] = x /\ rank[x] \in 0..Len(runs)
  BY <1>1
<1>4. runs' = [i \in DOMAIN kept |-> runs[kept[i]]]
  BY DEF pruneDatabaseTelemetry
<1> HIDE DEF S, rank
<1>5. /\ n \in Nat /\ kept \in [1..n -> S]
      /\ \A x \in S : \E i \in 1..n : kept[i] = x
      /\ \A i, j \in 1..n : i < j => rank[kept[i]] <= rank[kept[j]]
  <2>1. Len(runs) \in Nat /\ \A x \in S : rank[x] \in 0..Len(runs)
    BY <1>1, <1>3
  <2> QED BY <1>2, <2>1, InOrderIs
<1> HIDE DEF n, kept
<1>6. DOMAIN runs' = 1..n /\ \A i \in 1..n : runs'[i] = runs[kept[i]] /\ runs'[i] \in Row
  <2>1. DOMAIN kept = 1..n /\ \A i \in 1..n : kept[i] \in 1..Len(runs)
    BY <1>1, <1>5
  <2>2. \A i \in 1..Len(runs) : runs[i] \in Row
    BY <1>1, SeqOfRows
  <2> QED BY <1>4, <2>1, <2>2
<1>7. runs' \in Seq(Row) /\ Len(runs') = n
  <2>1. runs' \in [1..n -> Row]
    BY <1>4, <1>5, <1>6
  <2> QED BY <1>5, <2>1
<1>8. PICK top \in 1..n : kept[top] = Len(runs)
  BY <1>1, <1>5
<1>9. kept[n] = Len(runs)
  <2>1. n \in 1..n /\ kept[n] \in S /\ kept[top] \in S
    BY <1>5, <1>8
  <2>2. top < n => kept[top] <= kept[n]
    BY <1>3, <1>5, <2>1
  <2>3. kept[n] <= Len(runs) /\ kept[n] \in Nat
    <3>1. kept[n] \in 1..Len(runs) /\ Len(runs) \in Nat
      BY <1>1, <2>1
    <3> QED BY <3>1
  <2> QED BY <1>5, <1>8, <2>2, <2>3
<1>10. \A i \in DOMAIN runs' : \E j \in S : runs'[i] = runs[j]
  BY <1>5, <1>6
<1>11. \A j \in S : \E i \in DOMAIN runs' : runs'[i] = runs[j]
  BY <1>5, <1>6
<1>12. n \in 1..n /\ runs'[n] = runs[Len(runs)]
  BY <1>5, <1>6, <1>8, <1>9
<1>13. runs # <<>> /\ runs' # <<>>
  BY <1>1, <1>7, <1>12
<1>14. n <= Len(runs)
  <2>1. IsFiniteSet(1..Len(runs)) /\ Cardinality(1..Len(runs)) = Len(runs)
    BY <1>1, FS_Interval
  <2>2. Cardinality(S) <= Cardinality(1..Len(runs))
    BY <1>1, <2>1, FS_Subset
  <2> QED BY <2>1, <2>2 DEF n
<1>15. ASSUME NEW i \in DOMAIN runs', NEW k \in DOMAIN runs', i < k
       PROVE  \E a, b \in DOMAIN runs : a <= b /\ runs'[i] = runs[a] /\ runs'[k] = runs[b]
  <2>1. i \in 1..n /\ k \in 1..n /\ kept[i] \in S /\ kept[k] \in S
    BY <1>5, <1>6, <1>15
  <2>2. rank[kept[i]] <= rank[kept[k]]
    BY <1>5, <1>15, <2>1
  <2>3. kept[i] <= kept[k] /\ kept[i] \in DOMAIN runs /\ kept[k] \in DOMAIN runs
    BY <1>1, <1>3, <2>1, <2>2
  <2> QED BY <1>6, <2>1, <2>3
<1> QED BY <1>1, <1>7, <1>10, <1>11, <1>12, <1>13, <1>14, <1>15 DEF S

LEMMA PruneKeeps ==
    ASSUME HeartbeatsAssumption, LineAssumption, HeartbeatInv,
           NEW gone \in SUBSET Prunable, pruneDatabaseTelemetry(gone)
    PROVE  HeartbeatInv'
<1>1. HeartbeatTypes'
  BY PruneIs DEF HeartbeatInv, HeartbeatTypes, pruneDatabaseTelemetry, relay, bound
<1>2. TopicOK' /\ PollOK' /\ RoundOK' /\ HealsOnNextRound'
  BY DEF HeartbeatInv, TopicOK, PollOK, RoundOK, HealsOnNextRound, NoPoll, pruneDatabaseTelemetry,
         relay
<1>3. RowsOK'
  <2> SUFFICES ASSUME NEW i \in DOMAIN runs', runs'[i].ref # None
               PROVE  runs'[i].ref \in recorded /\ runs'[i].ref.ts <= runs'[i].at + MaxAge
    BY DEF RowsOK, pruneDatabaseTelemetry
  <2>1. PICK j \in DOMAIN runs : runs'[i] = runs[j]
    BY PruneIs
  <2> QED BY <2>1 DEF HeartbeatInv, RowsOK
<1>4. RecordedOK'
  <2> SUFFICES ASSUME NEW l \in recorded, isDuplicate(runs, l)
               PROVE  isDuplicate(runs', l) \/ now - l.ts > MaxAge
    BY DEF HeartbeatInv, RecordedOK, pruneDatabaseTelemetry
  <2>1. PICK j \in DOMAIN runs : runs[j].ref = l
    BY DEF isDuplicate
  <2>2. CASE j \notin gone
    <3>1. PICK i \in DOMAIN runs' : runs'[i] = runs[j]
      BY <2>2, PruneIs
    <3> QED BY <2>1, <3>1 DEF isDuplicate
  <2>3. CASE j \in gone
    <3>1. now - runs[j].at > Keep
      BY <2>3 DEF Prunable
    <3>2. l \in Line /\ l # None /\ l.ts \in Nat /\ now \in Nat
      BY LineAssumption DEF HeartbeatInv, HeartbeatTypes, Line
    <3>3. l.ts <= runs[j].at + MaxAge
      BY <2>1, <3>2 DEF HeartbeatInv, RowsOK
    <3>4. runs[j].at \in Nat
      <4>1. runs[j] \in Row
        BY SeqOfRows DEF HeartbeatInv, HeartbeatTypes
      <4> QED BY <4>1 DEF Row
    <3>5. MaxAge \in Nat /\ Keep \in Nat /\ 2 * MaxAge <= Keep
      BY DEF HeartbeatsAssumption
    <3> QED BY <3>1, <3>2, <3>3, <3>4, <3>5
  <2> QED BY <2>2, <2>3
<1> QED BY <1>1, <1>2, <1>3, <1>4 DEF HeartbeatInv

\* What a poll leaves when n lines of its answer were stored.
LEMMA StoreIs ==
    ASSUME HeartbeatInv, LineAssumption, NEW n \in 0..Len(readCapped), store(n)
    PROVE  /\ Rows(runs') /\ logged' \in {"none", "failed", "recovered"}
           /\ recorded \subseteq recorded' /\ recorded' \subseteq Line
           /\ \A l \in recorded' : l \in recorded \/ isDuplicate(runs', l)
           /\ \A l \in Line : isDuplicate(runs', l) => l \in recorded'
           /\ \A l : isDuplicate(runs, l) => isDuplicate(runs', l)
           /\ \A m \in 1..n : acceptable(readCapped[m].line) => isDuplicate(runs', readCapped[m].line)
           /\ Len(runs) \in Nat /\ DOMAIN runs = 1..Len(runs)
           /\ Len(runs') \in Nat /\ DOMAIN runs' = 1..Len(runs') /\ runs' \in Seq(Row)
           /\ Len(runs) <= Len(runs')
           /\ \A i \in 1..Len(runs) : i \in DOMAIN runs' /\ runs'[i] = runs[i]
<1>1. StoredTo(Stored(n), n)
  BY StoredIs
<1>2. runs' = Stored(n).rs /\ logged' = Stored(n).log
  BY DEF store
<1>3. /\ Rows(runs') /\ logged' \in {"none", "failed", "recovered"}
      /\ \A m \in 1..n : acceptable(readCapped[m].line) => isDuplicate(runs', readCapped[m].line)
  BY <1>1, <1>2 DEF StoredTo
<1>4. recorded' = recorded \cup ({runs'[i].ref : i \in DOMAIN runs'} \ {None})
  BY DEF store
<1>5. runs' \in Seq(Row) /\ \A i \in DOMAIN runs' : runs'[i].ref \in Line \cup {None}
  <2>1. runs' \in Seq(Row)
    BY <1>3 DEF Rows
  <2>2. \A i \in DOMAIN runs' : runs'[i] \in Row
    BY <2>1
  <2> QED BY <2>1, <2>2 DEF Row
<1>6. recorded \subseteq recorded' /\ recorded' \subseteq Line
  BY <1>4, <1>5 DEF HeartbeatInv, HeartbeatTypes
<1>7. \A l \in recorded' : l \in recorded \/ isDuplicate(runs', l)
  BY <1>4 DEF isDuplicate
<1>8. \A l \in Line : isDuplicate(runs', l) => l \in recorded'
  BY <1>4, LineAssumption DEF isDuplicate
<1>10. /\ Len(runs) \in Nat /\ DOMAIN runs = 1..Len(runs)
       /\ Len(runs') \in Nat /\ DOMAIN runs' = 1..Len(runs')
       /\ Len(runs) <= Len(runs')
       /\ \A i \in 1..Len(runs) : i \in DOMAIN runs' /\ runs'[i] = runs[i]
  <2>1. runs \in Seq(Row) /\ Len(runs) <= Len(runs') /\ \A i \in 1..Len(runs) : runs'[i] = runs[i]
    BY <1>3 DEF Rows, HeartbeatInv, HeartbeatTypes
  <2>2. /\ Len(runs) \in Nat /\ DOMAIN runs = 1..Len(runs)
        /\ Len(runs') \in Nat /\ DOMAIN runs' = 1..Len(runs')
    BY <1>5, <2>1, SeqOfRows
  <2> QED BY <2>1, <2>2
<1>9. ASSUME NEW l, isDuplicate(runs, l) PROVE isDuplicate(runs', l)
  <2>1. PICK i \in DOMAIN runs : runs[i].ref = l
    BY <1>9 DEF isDuplicate
  <2>2. i \in DOMAIN runs' /\ runs'[i].ref = l
    BY <1>10, <2>1
  <2> QED BY <2>2 DEF isDuplicate
<1> QED BY <1>3, <1>5, <1>6, <1>7, <1>8, <1>9, <1>10

\* A poll ends, well or half-way.
LEMMA StoreKeeps ==
    ASSUME HeartbeatsAssumption, LineAssumption, HeartbeatInv, poll # NoPoll,
           NEW n \in 0..Len(readCapped), store(n), NEW delay \in Nat, schedule(delay),
           UNCHANGED <<now, mode, created, key, topic, configured, beats, reposts>>,
           events' \in Nat,
           round' = round \/ (poll.reads /\ round' = poll.at /\ n = Len(readCapped))
    PROVE  HeartbeatInv'
<1>1. now \in Nat /\ None \notin Nat /\ poll.at = now
  BY DEF HeartbeatInv, HeartbeatTypes, HeartbeatsAssumption, PollOK
<1>2. HeartbeatTypes'
  <2>1. runs' \in Seq(Row) /\ logged' \in {"none", "failed", "recovered"} /\ recorded' \in SUBSET Line
    BY StoreIs DEF Rows
  <2>2. poll' \in [at : Nat \cup {None}, reads : BOOLEAN, posts : SUBSET topic] /\ timer' \in Nat
    <3>1. NoPoll \in [at : Nat \cup {None}, reads : BOOLEAN, posts : SUBSET topic]
      BY DEF NoPoll
    <3>2. poll' = NoPoll /\ timer' = now + delay
      BY DEF schedule
    <3>3. now + delay \in Nat
      BY <1>1
    <3> QED BY <3>1, <3>2, <3>3
  <2>3. round' \in Nat \cup {None}
    BY <1>1 DEF HeartbeatInv, HeartbeatTypes
  <2> QED BY <2>1, <2>2, <2>3 DEF HeartbeatInv, HeartbeatTypes
<1>3. TopicOK' /\ RoundOK'
  BY <1>1 DEF HeartbeatInv, TopicOK, RoundOK
<1>4. PollOK'
  <2>1. poll' = NoPoll /\ timer' = now + delay
    BY DEF schedule
  <2>2. timer' # None
    <3>1. now + delay \in Nat
      BY <1>1
    <3> QED BY <1>1, <2>1, <3>1
  <2> QED BY <2>1, <2>2 DEF PollOK, NoPoll
<1>5. \A l : acceptable(l) => l.key = key /\ mode # "absent" /\ now - l.ts \in (-MaxAge)..MaxAge
  BY <1>1 DEF acceptable
<1>6. RowsOK'
  <2> SUFFICES ASSUME NEW i \in DOMAIN runs', runs'[i].ref # None
               PROVE  runs'[i].ref \in recorded' /\ runs'[i].ref.ts <= runs'[i].at + MaxAge
    BY DEF RowsOK
  <2>1. /\ Len(runs) \in Nat /\ DOMAIN runs = 1..Len(runs)
        /\ Len(runs') \in Nat /\ DOMAIN runs' = 1..Len(runs')
        /\ \A k \in 1..Len(runs) : runs'[k] = runs[k]
    BY StoreIs
  <2>2. CASE i \in 1..Len(runs)
    <3>1. i \in DOMAIN runs /\ runs'[i] = runs[i]
      BY <2>1, <2>2
    <3>2. runs[i].ref \in recorded /\ runs[i].ref.ts <= runs[i].at + MaxAge
      BY <3>1 DEF HeartbeatInv, RowsOK
    <3>3. recorded \subseteq recorded'
      BY StoreIs
    <3> QED BY <3>1, <3>2, <3>3
  <2>3. CASE i \notin 1..Len(runs)
    <3>1. i \in (Len(runs) + 1)..Len(runs')
      BY <2>1, <2>3, BeyondOf
    <3>2. runs'[i].ref \in Line /\ acceptable(runs'[i].ref) /\ runs'[i].at = now
      BY <3>1, StoreIs DEF Rows
    <3>3. isDuplicate(runs', runs'[i].ref)
      BY DEF isDuplicate
    <3>4. runs'[i].ref.ts \in Nat /\ MaxAge \in Nat
      BY <3>2 DEF Line, HeartbeatsAssumption
    <3>5. runs'[i].ref \in recorded'
      BY <3>2, <3>3, StoreIs
    <3>6. now - runs'[i].ref.ts \in (-MaxAge)..MaxAge
      BY <1>5, <3>2
    <3>7. runs'[i].ref.ts <= now + MaxAge
      BY <1>1, <3>4, <3>6, AgeOf
    <3> QED BY <3>2, <3>5, <3>7
  <2> QED BY <2>2, <2>3
<1>7. RecordedOK'
  <2> SUFFICES ASSUME NEW l \in recorded'
               PROVE  /\ l.key <= key
                      /\ isDuplicate(runs', l) \/ l.key < key \/ mode = "absent" \/ now - l.ts > MaxAge
    BY DEF RecordedOK
  <2>1. CASE l \in recorded
    BY <2>1, StoreIs DEF HeartbeatInv, RecordedOK
  <2>2. CASE l \notin recorded
    <3>1. isDuplicate(runs', l) /\ l \in Line
      BY <2>2, StoreIs
    <3>2. PICK i \in DOMAIN runs' : runs'[i].ref = l
      BY <3>1 DEF isDuplicate
    <3>3. /\ Len(runs) \in Nat /\ DOMAIN runs = 1..Len(runs)
          /\ Len(runs') \in Nat /\ DOMAIN runs' = 1..Len(runs')
          /\ \A k \in 1..Len(runs) : runs'[k] = runs[k]
      BY StoreIs
    <3>4. i \notin 1..Len(runs)
      <4> SUFFICES ASSUME i \in 1..Len(runs) PROVE FALSE
        OBVIOUS
      <4>1. i \in DOMAIN runs /\ runs[i].ref = l
        BY <3>2, <3>3
      <4> QED BY <2>2, <3>1, <4>1, LineAssumption DEF HeartbeatInv, RowsOK
    <3>5. i \in (Len(runs) + 1)..Len(runs')
      BY <3>2, <3>3, <3>4, BeyondOf
    <3>6. acceptable(l)
      BY <3>2, <3>5, StoreIs DEF Rows
    <3>7. key \in Nat
      BY DEF HeartbeatInv, HeartbeatTypes
    <3> QED BY <1>5, <3>1, <3>6, <3>7
  <2> QED BY <2>1, <2>2
<1>8. HealsOnNextRound'
  <2>1. CASE round' = round
    BY <2>1, StoreIs DEF HeartbeatInv, HealsOnNextRound
  <2>2. CASE poll.reads /\ round' = poll.at /\ n = Len(readCapped)
    <3> SUFFICES ASSUME NEW p \in topic, p.at < now, now - p.at <= Lookback,
                        now - p.line.ts \in (-MaxAge)..MaxAge, mode # "absent", p.line.key = key
                 PROVE  p.line \in recorded'
      BY <1>1, <2>2 DEF HealsOnNextRound
    <3>1. p \in poll.posts
      BY <2>2 DEF HeartbeatInv, PollOK
    <3>2. PICK m \in 1..Len(readCapped) : readCapped[m] = p
      BY <3>1, AnswerIs
    <3>3. acceptable(p.line)
      BY <1>1 DEF acceptable
    <3>4. p.line \in Line
      BY DEF HeartbeatInv, HeartbeatTypes
    <3> QED BY <2>2, <3>2, <3>3, <3>4, StoreIs
  <2> QED BY <2>1, <2>2
<1> QED BY <1>2, <1>3, <1>4, <1>6, <1>7, <1>8 DEF HeartbeatInv

LEMMA HeartbeatInvStep ==
    ASSUME HeartbeatsAssumption, LineAssumption, HeartbeatInv, [HeartbeatNext]_heartbeatVars
    PROVE  HeartbeatInv'
<1>1. CASE UNCHANGED heartbeatVars
  <2>1. HeartbeatTypes' /\ TopicOK' /\ RoundOK' /\ RowsOK' /\ RecordedOK' /\ HealsOnNextRound'
    BY <1>1 DEF HeartbeatInv, HeartbeatTypes, TopicOK, RoundOK, RowsOK, RecordedOK,
                HealsOnNextRound, heartbeatVars, job, relay, bound
  <2>2. PollOK'
    BY <1>1 DEF HeartbeatInv, PollOK, heartbeatVars, relay, NoPoll
  <2> QED BY <2>1, <2>2 DEF HeartbeatInv
<1>2. CASE \E s \in Results \cup {"running"} : recordHeartbeat(s)
  BY <1>2, HttpKeeps
<1>3. CASE updateExternalJob \/ regenerateIngestToken \/ deleteExternalJob \/ createExternalJob
  BY <1>3, OperatorKeeps
<1>4. CASE switchRelay \/ restart \/ pollRelayOnce \/ pollFails
  BY <1>4, RelayKeeps
<1>5. CASE \E gone \in SUBSET Prunable : pruneDatabaseTelemetry(gone)
  BY <1>5, PruneKeeps
<1>6. CASE \E r \in Results, ts \in {now, now + Ahead} : hostPosts(r, ts)
  <2>1. PICK r \in Results, ts \in {now, now + Ahead} : hostPosts(r, ts)
    BY <1>6
  <2> DEFINE new == [line |-> [ts |-> ts, result |-> r, key |-> key], at |-> now]
  <2>2. now \in Nat /\ key \in Nat /\ Ahead \in Nat /\ beats \in Nat /\ reposts \in Nat
    BY DEF HeartbeatInv, HeartbeatTypes, HeartbeatsAssumption
  <2>3. ts \in Nat
    BY <2>2
  <2>4. new \in [line : Line, at : Nat] /\ new.at = now /\ new.line.key <= key
    BY <2>2, <2>3 DEF Line
  <2>5. /\ topic' = topic \cup {new} /\ beats' \in Nat /\ reposts' \in Nat
        /\ UNCHANGED <<now, job, relay, events, recorded, round>>
    BY <2>1, <2>2 DEF hostPosts
  <2> HIDE DEF new
  <2> QED BY <2>4, <2>5, PostKeeps
<1>7. CASE \E p \in topic : repost(p)
  <2>1. PICK p \in topic : repost(p)
    BY <1>7
  <2> DEFINE new == [p EXCEPT !.at = now]
  <2>2. now \in Nat /\ p \in [line : Line, at : Nat] /\ p.line.key <= key /\ beats \in Nat /\ reposts \in Nat
    BY DEF HeartbeatInv, HeartbeatTypes, TopicOK
  <2>3. new \in [line : Line, at : Nat] /\ new.at = now /\ new.line = p.line
    BY <2>2
  <2>4. /\ topic' = topic \cup {new} /\ beats' \in Nat /\ reposts' \in Nat
        /\ UNCHANGED <<now, job, relay, events, recorded, round>>
    BY <2>1, <2>2 DEF repost
  <2> HIDE DEF new
  <2> QED BY <2>2, <2>3, <2>4, PostKeeps
<1>8. CASE \E d \in Intervals : runCycle(d)
  <2>1. PICK d \in Intervals : runCycle(d)
    BY <1>8
  <2>2. d \in Nat /\ Len(readCapped) \in 0..Len(readCapped)
    BY AnswerIs DEF HeartbeatsAssumption
  <2>3. events' \in Nat
    BY <2>1 DEF runCycle, bound, HeartbeatInv, HeartbeatTypes
  <2> QED BY <2>1, <2>2, <2>3, StoreKeeps DEF runCycle, bound
<1>9. CASE \E n \in 0..(Len(readCapped) - 1) : cycleThrows(n)
  <2>1. PICK n \in 0..(Len(readCapped) - 1) : cycleThrows(n)
    BY <1>9
  <2>2. Backoff \in Nat /\ n \in 0..Len(readCapped)
    BY AnswerIs DEF HeartbeatsAssumption
  <2>3. events' \in Nat
    BY <2>1 DEF cycleThrows, Event, HeartbeatInv, HeartbeatTypes
  <2> QED BY <2>1, <2>2, <2>3, StoreKeeps DEF cycleThrows
<1>10. CASE tick
  BY <1>10, TickKeeps
<1> QED
  BY <1>1, <1>2, <1>3, <1>4, <1>5, <1>6, <1>7, <1>8, <1>9, <1>10 DEF HeartbeatNext

LEMMA HeartbeatInvariant == HeartbeatSpec => []HeartbeatInv
<1>1. HeartbeatInit => HeartbeatInv
  BY HeartbeatsAssumption, HeartbeatInvInit
<1>2. HeartbeatInv /\ [HeartbeatNext]_heartbeatVars => HeartbeatInv'
  BY HeartbeatsAssumption, LineAssumption, HeartbeatInvStep
<1> QED
  BY <1>1, <1>2, PTL DEF HeartbeatSpec

-----------------------------------------------------------------------------
(* Theorems. *)

(* The types of the job's row, its reports, the broker and the relay.      *)
THEOREM HeartbeatTypesCorrect == HeartbeatSpec => []HeartbeatTypes
<1>1. HeartbeatInv => HeartbeatTypes
  BY DEF HeartbeatInv
<1> QED
  BY <1>1, HeartbeatInvariant, PTL

(* A missed, failed or interrupted poll is made good by the next round     *)
(* that ends well: all it covers is recorded then, for any window, age,    *)
(* backoff and schedule, however often lines are posted, again or at once. *)
THEOREM RoundsHeal == HeartbeatSpec => []HealsOnNextRound
<1>1. HeartbeatInv => HealsOnNextRound
  BY DEF HeartbeatInv
<1> QED
  BY <1>1, HeartbeatInvariant, PTL

(* A line is recorded at most once, although windows overlap and rows that *)
(* remember lines are pruned: a pruned line is too old to be accepted, one *)
(* of a deleted job or an older token is signed with a key of the past.    *)
THEOREM LinesCountOnce == HeartbeatSpec => RecordedOnce
<1> DEFINE Once ==
        \A i \in (Len(runs) + 1)..Len(runs') : runs'[i].ref # None =>
            /\ runs'[i].ref \notin recorded
            /\ \A j \in DOMAIN runs' \ {i} : runs'[j].ref # runs'[i].ref
<1>1. ASSUME HeartbeatInv, HeartbeatInv', HeartbeatNext PROVE Once
  <2>0. /\ Len(runs) \in Nat /\ Len(runs') \in Nat /\ runs \in Seq(Row) /\ now \in Nat
        /\ DOMAIN runs' = 1..Len(runs')
    BY <1>1, SeqOfRows DEF HeartbeatInv, HeartbeatTypes
  <2>1. CASE \E s \in Results \cup {"running"} : recordHeartbeat(s)
    <3>1. PICK s \in Results \cup {"running"} : recordHeartbeat(s)
      BY <2>1
    <3> DEFINE row == [status |-> s, at |-> now, ref |-> None]
    <3>2. runs' = Append(runs, row) /\ row \in Row /\ row.ref = None
      BY <2>0, <3>1 DEF recordHeartbeat, insertHeartbeat, Row
    <3> HIDE DEF row
    <3>3. Len(runs') = Len(runs) + 1 /\ runs'[Len(runs) + 1] = row
      BY <2>0, <3>2
    <3> QED BY <2>0, <3>2, <3>3
  <2>2. CASE UNCHANGED runs \/ runs' = <<>>
    BY <2>0, <2>2
  <2>3. CASE \E gone \in SUBSET Prunable : pruneDatabaseTelemetry(gone)
    <3> SUFFICES Len(runs') <= Len(runs)
      BY <2>0
    <3> QED BY <1>1, <2>3, PruneIs
  <2>4. CASE \E n \in 0..Len(readCapped) : poll # NoPoll /\ store(n)
    <3>1. PICK n \in 0..Len(readCapped) : poll # NoPoll /\ store(n)
      BY <2>4
    <3>2. /\ Rows(runs') /\ DOMAIN runs = 1..Len(runs)
          /\ \A i \in 1..Len(runs) : i \in DOMAIN runs' /\ runs'[i] = runs[i]
      BY <1>1, <3>1, LineAssumption, StoreIs
    <3> SUFFICES ASSUME NEW i \in (Len(runs) + 1)..Len(runs')
                 PROVE  /\ runs'[i].ref \notin recorded
                        /\ \A j \in DOMAIN runs' \ {i} : runs'[j].ref # runs'[i].ref
      OBVIOUS
    <3> DEFINE l == runs'[i].ref
    <3>3. acceptable(l) /\ l \in Line /\ \A j \in DOMAIN runs' \ {i} : runs'[j].ref # l
      BY <2>0, <3>2 DEF Rows
    <3> HIDE DEF l
    <3>4. l.key = key /\ key \in Nat /\ mode # "absent" /\ now - l.ts \in (-MaxAge)..MaxAge
      BY <1>1, <3>1, <3>3 DEF acceptable, HeartbeatInv, HeartbeatTypes, PollOK
    <3>5. ~isDuplicate(runs, l)
      <4> SUFFICES ASSUME NEW j \in DOMAIN runs, runs[j].ref = l PROVE FALSE
        BY DEF isDuplicate
      <4>1. j \in DOMAIN runs' /\ runs'[j].ref = l /\ j # i
        BY <2>0, <3>2
      <4> QED BY <3>3, <4>1
    <3>6. ~(l.key < key) /\ ~(now - l.ts > MaxAge)
      <4>1. l.ts \in Nat /\ MaxAge \in Nat
        BY <3>3, HeartbeatsAssumption DEF Line, HeartbeatsAssumption
      <4> QED BY <2>0, <3>4, <4>1
    <3>7. l \notin recorded
      BY <1>1, <3>4, <3>5, <3>6 DEF HeartbeatInv, RecordedOK
    <3> QED BY <3>3, <3>7 DEF l
  <2>5. CASE \/ updateExternalJob \/ regenerateIngestToken \/ deleteExternalJob \/ createExternalJob
             \/ switchRelay \/ restart \/ pollRelayOnce \/ pollFails \/ tick
    BY <2>2, <2>5 DEF updateExternalJob, regenerateIngestToken, deleteExternalJob, createExternalJob,
                      switchRelay, restart, pollRelayOnce, pollFails, tick, job
  <2>6. CASE \/ \E r \in Results, ts \in {now, now + Ahead} : hostPosts(r, ts)
             \/ \E p \in topic : repost(p)
    BY <2>2, <2>6 DEF hostPosts, repost, job
  <2>7. CASE \/ \E d \in Intervals : runCycle(d)
             \/ \E n \in 0..(Len(readCapped) - 1) : cycleThrows(n)
    <3>1. Len(readCapped) \in Nat
      BY <1>1, AnswerIs
    <3> QED BY <2>4, <2>7, <3>1 DEF runCycle, cycleThrows
  <2> QED BY <1>1, <2>1, <2>3, <2>5, <2>6, <2>7 DEF HeartbeatNext
<1>2. HeartbeatInv /\ HeartbeatInv' /\ [HeartbeatNext]_heartbeatVars => [Once]_heartbeatVars
  BY <1>1
<1> QED
  BY <1>2, HeartbeatInvariant, PTL DEF HeartbeatSpec, RecordedOnce

\* The last report of some statuses, if there is one.
LEMMA LatestIs ==
    ASSUME NEW rs \in Seq(Row), NEW statuses
    PROVE  /\ latestRun(rs, statuses) \in 0..Len(rs)
           /\ latestRun(rs, statuses) # 0 => rs[latestRun(rs, statuses)].status \in statuses
           /\ \A i \in 1..Len(rs) : rs[i].status \in statuses => i <= latestRun(rs, statuses)
<1> DEFINE found == {i \in DOMAIN rs : rs[i].status \in statuses}
           IsLast(i) == i \in found /\ \A j \in found : j <= i
<1>1. Len(rs) \in Nat /\ DOMAIN rs = 1..Len(rs)
  BY SeqOfRows
<1>2. CASE found = {}
  <2>1. latestRun(rs, statuses) = 0
    BY <1>2 DEF latestRun
  <2> QED BY <1>1, <1>2, <2>1
<1>3. CASE found # {}
  <2> DEFINE rank == [i \in DOMAIN rs |-> i]
  <2>1. \A i \in found : rank[i] = i /\ rank[i] \in 0..Len(rs)
    BY <1>1
  <2>2. PICK x \in found : \A y \in found : rank[y] <= rank[x]
    <3> HIDE DEF found, rank
    <3> QED BY <1>1, <1>3, <2>1, Highest
  <2>3. IsLast(x)
    BY <2>1, <2>2
  <2>4. latestRun(rs, statuses) = CHOOSE i \in found : \A j \in found : j <= i
    BY <1>3 DEF latestRun
  <2>5. IsLast(latestRun(rs, statuses))
    <3> HIDE DEF found
    <3> QED BY <2>3, <2>4
  <2> QED BY <1>1, <2>5
<1> QED BY <1>2, <1>3

\* Reports are kept in the order of their arrival, and none is older than the job.
TimesOK ==
    /\ created <= now
    /\ \A i \in DOMAIN runs : created <= runs[i].at /\ runs[i].at <= now
    /\ \A i, j \in DOMAIN runs : i <= j => runs[i].at <= runs[j].at
    /\ mode = "absent" => runs = <<>>

\* A report that arrives is younger than those before it.
LEMMA NewRowsAreLate ==
    ASSUME HeartbeatInv, TimesOK, runs' \in Seq(Row), Len(runs) <= Len(runs'),
           \A i \in 1..Len(runs) : runs'[i] = runs[i],
           \A i \in (Len(runs) + 1)..Len(runs') : runs'[i].at = now /\ mode # "absent",
           UNCHANGED <<now, created, mode>>
    PROVE  TimesOK'
<1>1. /\ Len(runs) \in Nat /\ DOMAIN runs = 1..Len(runs) /\ runs \in Seq(Row)
      /\ Len(runs') \in Nat /\ DOMAIN runs' = 1..Len(runs')
      /\ now \in Nat /\ created \in Nat
  BY SeqOfRows DEF HeartbeatInv, HeartbeatTypes
<1>2. ASSUME NEW i \in 1..Len(runs')
      PROVE  \/ i \in 1..Len(runs) /\ runs'[i] = runs[i]
             \/ i \notin 1..Len(runs) /\ runs'[i].at = now
  BY <1>1, <1>2, BeyondOf
<1>3. created <= now /\ \A i \in DOMAIN runs' : created <= runs'[i].at /\ runs'[i].at <= now
  BY <1>1, <1>2 DEF TimesOK
<1>4. ASSUME NEW i \in DOMAIN runs', NEW j \in DOMAIN runs', i <= j
      PROVE  runs'[i].at <= runs'[j].at
  <2>1. CASE j \notin 1..Len(runs)
    BY <1>1, <1>2, <1>3, <2>1
  <2>2. CASE j \in 1..Len(runs)
    <3>1. i \in 1..Len(runs)
      BY <1>1, <1>4, <2>2
    <3> QED BY <1>1, <1>2, <1>4, <2>2, <3>1 DEF TimesOK
  <2> QED BY <2>1, <2>2
<1>5. mode = "absent" => runs' = <<>>
  <2> SUFFICES ASSUME mode = "absent" PROVE Len(runs') = 0
    BY <1>1
  <2>1. Len(runs) = 0
    BY DEF TimesOK
  <2>2. Len(runs') # 0 => 1 \in (Len(runs) + 1)..Len(runs')
    BY <1>1, <2>1
  <2> QED BY <2>2
<1> QED BY <1>3, <1>4, <1>5 DEF TimesOK

LEMMA TimesStep ==
    ASSUME HeartbeatsAssumption, LineAssumption, HeartbeatInv, TimesOK,
           [HeartbeatNext]_heartbeatVars
    PROVE  TimesOK'
<1>1. /\ Len(runs) \in Nat /\ DOMAIN runs = 1..Len(runs) /\ runs \in Seq(Row)
      /\ now \in Nat /\ created \in Nat
  BY SeqOfRows DEF HeartbeatInv, HeartbeatTypes
<1>2. CASE UNCHANGED <<now, created, runs>> /\ (mode' = "absent" => mode = "absent")
  BY <1>2 DEF TimesOK
<1>3. CASE \E s \in Results \cup {"running"} : recordHeartbeat(s)
  <2>1. PICK s \in Results \cup {"running"} : recordHeartbeat(s)
    BY <1>3
  <2> DEFINE row == [status |-> s, at |-> now, ref |-> None]
  <2>2. /\ runs' = Append(runs, row) /\ row \in Row /\ row.at = now
        /\ mode # "absent" /\ UNCHANGED <<now, created, mode>>
    BY <1>1, <2>1 DEF recordHeartbeat, insertHeartbeat, Row
  <2> HIDE DEF row
  <2>3. /\ runs' \in Seq(Row) /\ Len(runs') = Len(runs) + 1
        /\ \A i \in 1..Len(runs) : runs'[i] = runs[i]
        /\ runs'[Len(runs) + 1] = row
    BY <1>1, <2>2
  <2>4. \A i \in (Len(runs) + 1)..Len(runs') : i = Len(runs) + 1
    BY <1>1, <2>3
  <2>5. Len(runs) <= Len(runs')
    BY <1>1, <2>3
  <2> QED BY <2>2, <2>3, <2>4, <2>5, NewRowsAreLate
<1>4. CASE deleteExternalJob \/ createExternalJob
  BY <1>1, <1>4 DEF deleteExternalJob, createExternalJob, TimesOK
<1>5. CASE \E gone \in SUBSET Prunable : pruneDatabaseTelemetry(gone)
  <2>1. UNCHANGED <<now, created, mode>>
    BY <1>5 DEF pruneDatabaseTelemetry
  <2>2. /\ runs # <<>>
        /\ \A i \in DOMAIN runs' : \E j \in DOMAIN runs : runs'[i] = runs[j]
        /\ \A i, k \in DOMAIN runs' : i < k =>
              \E a, b \in DOMAIN runs : a <= b /\ runs'[i] = runs[a] /\ runs'[k] = runs[b]
    BY <1>5, PruneIs
  <2>3. runs' \in Seq(Row)
    BY <1>5, PruneIs
  <2>4. created <= now /\ \A i \in DOMAIN runs' : created <= runs'[i].at /\ runs'[i].at <= now
    BY <2>2 DEF TimesOK
  <2>5. ASSUME NEW i \in DOMAIN runs', NEW k \in DOMAIN runs', i <= k
        PROVE  runs'[i].at <= runs'[k].at
    <3>1. CASE i < k
      BY <2>2, <3>1 DEF TimesOK
    <3>2. CASE i = k
      <4>1. runs'[i] \in Row
        BY <2>3, SeqOfRows
      <4>2. runs'[i].at \in Nat
        BY <4>1 DEF Row
      <4> QED BY <3>2, <4>2
    <3>3. DOMAIN runs' = 1..Len(runs') /\ Len(runs') \in Nat
      BY <2>3, SeqOfRows
    <3> QED BY <2>5, <3>1, <3>2, <3>3
  <2>6. mode' # "absent"
    BY <2>1, <2>2 DEF TimesOK
  <2> QED BY <2>1, <2>4, <2>5, <2>6 DEF TimesOK
<1>6. CASE \E n \in 0..Len(readCapped) :
              poll # NoPoll /\ store(n) /\ UNCHANGED <<now, created, mode>>
  <2>1. PICK n \in 0..Len(readCapped) : store(n)
    BY <1>6
  <2>2. Rows(runs')
    BY <2>1, LineAssumption, StoreIs
  <2>3. \A i \in (Len(runs) + 1)..Len(runs') : runs'[i].at = now /\ mode # "absent"
    BY <2>2 DEF Rows, acceptable
  <2> QED BY <1>6, <2>2, <2>3, NewRowsAreLate DEF Rows
<1>7. CASE \/ \E d \in Intervals : runCycle(d)
           \/ \E n \in 0..(Len(readCapped) - 1) : cycleThrows(n)
  <2>1. Len(readCapped) \in Nat
    BY AnswerIs
  <2>2. CASE \E d \in Intervals : runCycle(d)
    <3>1. poll # NoPoll /\ store(Len(readCapped)) /\ UNCHANGED <<now, created, mode>>
      BY <2>2 DEF runCycle
    <3>2. Len(readCapped) \in 0..Len(readCapped)
      BY <2>1
    <3> QED BY <1>6, <3>1, <3>2
  <2>3. CASE \E n \in 0..(Len(readCapped) - 1) : cycleThrows(n)
    <3>1. PICK n \in 0..(Len(readCapped) - 1) : cycleThrows(n)
      BY <2>3
    <3>2. poll # NoPoll /\ store(n) /\ UNCHANGED <<now, created, mode>>
      BY <3>1 DEF cycleThrows
    <3>3. n \in 0..Len(readCapped)
      BY <2>1
    <3> QED BY <1>6, <3>2, <3>3
  <2> QED BY <1>7, <2>2, <2>3
<1>8. CASE tick
  <2>1. now' = now + 1 /\ UNCHANGED <<created, mode, runs>>
    BY <1>8 DEF tick, job
  <2>2. \A i \in DOMAIN runs : runs[i].at \in Nat
    <3>1. \A i \in DOMAIN runs : runs[i] \in Row
      BY <1>1, SeqOfRows
    <3> QED BY <3>1 DEF Row
  <2>3. created <= now' /\ \A i \in DOMAIN runs : runs[i].at <= now'
    <3>1. created <= now /\ \A i \in DOMAIN runs : runs[i].at <= now
      BY DEF TimesOK
    <3>2. \A x \in Nat : x <= now => x <= now'
      BY <1>1, <2>1
    <3> QED BY <1>1, <2>2, <3>1, <3>2
  <2> QED BY <2>1, <2>3 DEF TimesOK
<1>9. CASE \/ updateExternalJob \/ regenerateIngestToken \/ switchRelay \/ restart
           \/ pollRelayOnce \/ pollFails \/ UNCHANGED heartbeatVars
  BY <1>2, <1>9 DEF updateExternalJob, regenerateIngestToken, switchRelay, restart, pollRelayOnce,
                    pollFails, heartbeatVars, job
<1>10. CASE \/ \E r \in Results, ts \in {now, now + Ahead} : hostPosts(r, ts)
            \/ \E p \in topic : repost(p)
  BY <1>2, <1>10 DEF hostPosts, repost, job
<1> QED
  BY <1>3, <1>4, <1>5, <1>7, <1>8, <1>9, <1>10 DEF HeartbeatNext

LEMMA TimesInvariant == HeartbeatSpec => []TimesOK
<1>1. HeartbeatInit => TimesOK
  BY DEF HeartbeatInit, TimesOK
<1>2. HeartbeatInv /\ TimesOK /\ [HeartbeatNext]_heartbeatVars => TimesOK'
  BY HeartbeatsAssumption, LineAssumption, TimesStep
<1> QED
  BY <1>1, <1>2, HeartbeatInvariant, PTL DEF HeartbeatSpec

\* An earlier moment has no later occurrence of the schedule.
LEMMA OccurrencesInOrder ==
    ASSUME HeartbeatsAssumption, NEW a \in Nat, NEW b \in Nat, a <= b
    PROVE  /\ nextCronOccurrence(a) \in Nat /\ nextCronOccurrence(b) \in Nat
           /\ nextCronOccurrence(a) <= nextCronOccurrence(b)
<1>1. Period \in Nat \ {0}
  BY DEF HeartbeatsAssumption
<1>2. a \div Period \in Nat /\ b \div Period \in Nat /\ a \div Period <= b \div Period
  BY <1>1
<1>3. ASSUME NEW p \in Nat, NEW x \in Nat, NEW y \in Nat, x <= y
      PROVE  (x + 1) * p \in Nat /\ (y + 1) * p \in Nat /\ (x + 1) * p <= (y + 1) * p
  <2>1. PICK d \in Nat : y = x + d
    <3>1. y - x \in Nat /\ y = x + (y - x)
      BY <1>3
    <3> QED BY <3>1
  <2>2. (y + 1) * p = (x + 1) * p + d * p
    BY <2>1
  <2>3. (x + 1) * p \in Nat /\ d * p \in Nat
    OBVIOUS
  <2> QED BY <2>2, <2>3
<1> QED BY <1>1, <1>2, <1>3 DEF nextCronOccurrence

\* What the last report decides of the health, and when it decides all of it.
LEMMA LastDecides ==
    ASSUME NEW rs \in Seq(Row), rs # <<>>, NEW t \in Nat
    PROVE  LET latest == rs[Len(rs)]
               health == getExternalJobHealth(rs, t)
               due    == nextCronOccurrence(latest.at) + Grace
           IN  /\ latest.status \in {"running", "completed", "failed"}
               /\ health.stale = (mode # "off" /\ latest.status # "running" /\ t > Deadline(rs))
               /\ health.overdueSince = IF t > Deadline(rs) THEN Deadline(rs) ELSE None
               /\ latest.status # "running" => health.neverReported = FALSE
               /\ latest.status = "completed" => Deadline(rs) = due
               /\ health.state = IF mode = "off" THEN "paused"
                                 ELSE IF latest.status = "running" THEN "running"
                                 ELSE IF latest.status = "failed" THEN "attention"
                                 ELSE IF t > due THEN "attention"
                                 ELSE "healthy"
<1> DEFINE n == Len(rs)
           success == latestRun(rs, {"completed"})
           issue == latestRun(rs, {"failed"})
           active == latestRun(rs, {"running"})
           running == active > success /\ active > issue
           missed == mode # "off" /\ ~running /\ t > Deadline(rs)
<1>1. n \in Nat /\ n # 0 /\ n \in 1..n /\ rs[n].status \in {"running", "completed", "failed"}
  <2>1. n \in Nat /\ n # 0
    BY SeqOfRows
  <2>2. rs[n] \in Row
    BY <2>1
  <2> QED BY <2>1, <2>2 DEF Row, Results
<1>2. /\ success \in 0..n /\ issue \in 0..n /\ active \in 0..n
      /\ success # 0 => rs[success].status = "completed"
      /\ issue # 0 => rs[issue].status = "failed"
      /\ active # 0 => rs[active].status = "running"
      /\ rs[n].status = "completed" => n <= success
      /\ rs[n].status = "failed" => n <= issue
      /\ rs[n].status = "running" => n <= active
  BY <1>1, LatestIs
<1>3. getExternalJobHealth(rs, t) =
        [state |-> IF mode = "off" THEN "paused"
                   ELSE IF running THEN "running"
                   ELSE IF missed \/ issue > success THEN "attention"
                   ELSE "healthy",
         stale |-> missed,
         neverReported |-> success = 0 /\ issue = 0,
         overdueSince |-> IF t > Deadline(rs) THEN Deadline(rs) ELSE None]
  BY DEF getExternalJobHealth
<1>4. Deadline(rs) = nextCronOccurrence(IF success = 0 THEN created ELSE rs[success].at) + Grace
  BY DEF Deadline
<1> DEFINE health == getExternalJobHealth(rs, t)
<1>8. /\ health.state = IF mode = "off" THEN "paused"
                        ELSE IF running THEN "running"
                        ELSE IF missed \/ issue > success THEN "attention"
                        ELSE "healthy"
      /\ health.stale = missed
      /\ health.neverReported = (success = 0 /\ issue = 0)
      /\ health.overdueSince = IF t > Deadline(rs) THEN Deadline(rs) ELSE None
  BY <1>3
<1> HIDE DEF n, success, issue, active, health
<1>5. CASE rs[n].status = "running"
  <2>1. active = n /\ success # n /\ issue # n
    BY <1>1, <1>2, <1>5
  <2>2. active > success /\ active > issue
    BY <1>1, <1>2, <2>1
  <2> QED BY <1>1, <1>5, <1>8, <2>2 DEF n, health
<1>6. CASE rs[n].status = "failed"
  <2>1. issue = n /\ success # n /\ active # n
    BY <1>1, <1>2, <1>6
  <2>2. ~(active > issue) /\ issue > success /\ issue # 0
    BY <1>1, <1>2, <2>1
  <2> QED BY <1>1, <1>6, <1>8, <2>2 DEF n, health
<1>7. CASE rs[n].status = "completed"
  <2>1. success = n /\ issue # n /\ active # n /\ success # 0
    BY <1>1, <1>2, <1>7
  <2>2. ~(active > success) /\ ~(issue > success)
    BY <1>1, <1>2, <2>1
  <2> QED BY <1>1, <1>4, <1>7, <1>8, <2>1, <2>2 DEF n, health
<1> QED BY <1>1, <1>5, <1>6, <1>7 DEF n

\* A batch of the retention can only move the deadline forward.
LEMMA PruneBringsForward ==
    ASSUME HeartbeatsAssumption, HeartbeatInv, TimesOK,
           NEW gone \in SUBSET Prunable, pruneDatabaseTelemetry(gone)
    PROVE  Deadline(runs) \in Nat /\ Deadline(runs)' \in Nat /\ Deadline(runs)' <= Deadline(runs)
<1> DEFINE before == latestRun(runs, {"completed"})
           after == latestRun(runs', {"completed"})
           from == IF before = 0 THEN created ELSE runs[before].at
           upTo == IF after = 0 THEN created ELSE runs'[after].at
<1>1. /\ runs \in Seq(Row) /\ runs' \in Seq(Row) /\ created \in Nat /\ created' = created
      /\ Len(runs) \in Nat /\ DOMAIN runs = 1..Len(runs)
      /\ Len(runs') \in Nat /\ DOMAIN runs' = 1..Len(runs')
  BY PruneIs, SeqOfRows DEF HeartbeatInv, HeartbeatTypes, pruneDatabaseTelemetry
<1>2. /\ before \in 0..Len(runs)
      /\ \A i \in 1..Len(runs) : runs[i].status = "completed" => i <= before
      /\ after \in 0..Len(runs')
      /\ after # 0 => runs'[after].status = "completed"
  BY <1>1, LatestIs
<1>3. Deadline(runs) = nextCronOccurrence(from) + Grace
  BY DEF Deadline
<1>4. Deadline(runs)' = nextCronOccurrence(upTo) + Grace
  BY <1>1 DEF Deadline, latestRun, nextCronOccurrence
<1>5. \A i \in 1..Len(runs) : runs[i].at \in Nat
  <2>1. \A i \in 1..Len(runs) : runs[i] \in Row
    BY <1>1, SeqOfRows
  <2> QED BY <2>1 DEF Row
<1> HIDE DEF before, after
<1>6. created <= created
  BY <1>1
<1>7. from \in Nat /\ upTo \in Nat /\ upTo <= from
  <2>1. CASE after = 0
    <3>1. CASE before = 0
      BY <1>1, <1>6, <2>1, <3>1
    <3>2. CASE before # 0
      <4>1. before \in 1..Len(runs)
        BY <1>1, <1>2, <3>2
      <4>2. created <= runs[before].at
        BY <1>1, <4>1 DEF TimesOK
      <4> QED BY <1>1, <1>5, <2>1, <3>2, <4>1, <4>2
    <3> QED BY <3>1, <3>2
  <2>2. CASE after # 0
    <3>1. after \in 1..Len(runs') /\ runs'[after].status = "completed"
      BY <1>1, <1>2, <2>2
    <3>2. PICK j \in 1..Len(runs) : runs'[after] = runs[j]
      BY <1>1, <3>1, PruneIs
    <3>3. j <= before /\ before \in 1..Len(runs)
      BY <1>1, <1>2, <3>1, <3>2
    <3>4. runs[j].at <= runs[before].at
      BY <1>1, <3>2, <3>3 DEF TimesOK
    <3>5. before # 0
      BY <3>3, <1>1
    <3> QED BY <1>5, <2>2, <3>2, <3>3, <3>4, <3>5
  <2> QED BY <2>1, <2>2
<1>8. Grace \in Nat
  BY DEF HeartbeatsAssumption
<1> HIDE DEF from, upTo
<1> QED BY <1>3, <1>4, <1>7, <1>8, OccurrencesInOrder

(* Retention leaves the health of a job as it was if its last report is a  *)
(* success, which decides it; after a failure it can only bring an alarm   *)
(* forward; and a job whose last report is a result has reported. The      *)
(* state stays in every case.                                              *)
THEOREM HealthOutlivesPruning == HeartbeatSpec => PruneKeepsHealth
<1> DEFINE before == getExternalJobHealth(runs, now)
           after == getExternalJobHealth(runs', now)
           latest == runs[Len(runs)].status
           Survives == /\ after.state = before.state
                       /\ before.stale => after.stale /\ after.overdueSince <= before.overdueSince
                       /\ latest # "running" => after.neverReported = before.neverReported
                       /\ latest = "completed" => after = before
           Same == (now' = now /\ mode' = mode /\ Len(runs') < Len(runs)) => Survives
<1>1. ASSUME HeartbeatInv, TimesOK, HeartbeatNext PROVE Same
  <2>1. now \in Nat /\ Len(runs) \in Nat /\ runs \in Seq(Row)
    BY <1>1, SeqOfRows DEF HeartbeatInv, HeartbeatTypes
  <2>2. CASE Len(runs) <= Len(runs')
    <3> SUFFICES ASSUME Len(runs') < Len(runs) PROVE FALSE
      OBVIOUS
    <3> QED BY <2>1, <2>2
  <2>3. CASE deleteExternalJob
    BY <2>3 DEF deleteExternalJob
  <2>4. CASE \E gone \in SUBSET Prunable : pruneDatabaseTelemetry(gone)
    <3>1. /\ runs # <<>> /\ runs' \in Seq(Row) /\ runs' # <<>>
          /\ runs'[Len(runs')] = runs[Len(runs)]
      BY <1>1, <2>4, PruneIs
    <3>2. created' = created
      BY <2>4 DEF pruneDatabaseTelemetry
    <3>3. Deadline(runs)' = Deadline(runs')
      BY <3>2 DEF Deadline, latestRun, nextCronOccurrence
    <3>4. /\ Deadline(runs) \in Nat /\ Deadline(runs') \in Nat
          /\ Deadline(runs') <= Deadline(runs)
      BY <1>1, <2>4, <3>3, HeartbeatsAssumption, PruneBringsForward
    <3> DEFINE due == nextCronOccurrence(runs[Len(runs)].at) + Grace
               State == IF mode = "off" THEN "paused"
                        ELSE IF latest = "running" THEN "running"
                        ELSE IF latest = "failed" THEN "attention"
                        ELSE IF now > due THEN "attention"
                        ELSE "healthy"
    <3>5. /\ before.state = State
          /\ before.stale = (mode # "off" /\ latest # "running" /\ now > Deadline(runs))
          /\ before.overdueSince = IF now > Deadline(runs) THEN Deadline(runs) ELSE None
          /\ latest # "running" => before.neverReported = FALSE
          /\ latest = "completed" => Deadline(runs) = due
      BY <2>1, <3>1, LastDecides
    <3>6. /\ after.state = State
          /\ after.stale = (mode # "off" /\ latest # "running" /\ now > Deadline(runs'))
          /\ after.overdueSince = IF now > Deadline(runs') THEN Deadline(runs') ELSE None
          /\ latest # "running" => after.neverReported = FALSE
          /\ latest = "completed" => Deadline(runs') = due
      BY <2>1, <3>1, LastDecides
    <3>7. /\ before = [state |-> before.state, stale |-> before.stale,
                       neverReported |-> before.neverReported,
                       overdueSince |-> before.overdueSince]
          /\ after = [state |-> after.state, stale |-> after.stale,
                      neverReported |-> after.neverReported,
                      overdueSince |-> after.overdueSince]
      BY DEF getExternalJobHealth
    <3> HIDE DEF before, after, latest, due, State
    <3>8. before.stale => after.stale /\ after.overdueSince <= before.overdueSince
      <4>1. now > Deadline(runs) => now > Deadline(runs')
        BY <2>1, <3>4
      <4> QED BY <3>4, <3>5, <3>6, <4>1
    <3>9. latest = "completed" => after = before
      BY <3>5, <3>6, <3>7
    <3> QED BY <3>5, <3>6, <3>8, <3>9
  <2>5. CASE UNCHANGED runs
    BY <2>1, <2>5
  <2>6. CASE \E s \in Results \cup {"running"} : recordHeartbeat(s)
    <3>1. PICK s \in Results \cup {"running"} : recordHeartbeat(s)
      BY <2>6
    <3> DEFINE row == [status |-> s, at |-> now, ref |-> None]
    <3>2. runs' = Append(runs, row) /\ row \in Row
      BY <2>1, <3>1 DEF recordHeartbeat, insertHeartbeat, Row
    <3> HIDE DEF row
    <3>3. Len(runs) <= Len(runs')
      BY <2>1, <3>2
    <3> QED BY <2>2, <3>3
  <2>7. CASE \/ \E d \in Intervals : runCycle(d)
             \/ \E n \in 0..(Len(readCapped) - 1) : cycleThrows(n)
    <3>1. Len(readCapped) \in Nat
      BY <1>1, AnswerIs
    <3>2. PICK n \in 0..Len(readCapped) : store(n)
      BY <2>7, <3>1 DEF runCycle, cycleThrows
    <3>3. Len(runs) <= Len(runs')
      BY <1>1, <3>2, LineAssumption, StoreIs
    <3> QED BY <2>2, <3>3
  <2>8. CASE \/ updateExternalJob \/ regenerateIngestToken \/ createExternalJob
             \/ switchRelay \/ restart \/ pollRelayOnce \/ pollFails \/ tick
    BY <2>5, <2>8 DEF updateExternalJob, regenerateIngestToken, createExternalJob,
                      switchRelay, restart, pollRelayOnce, pollFails, tick, job
  <2>9. CASE \/ \E r \in Results, ts \in {now, now + Ahead} : hostPosts(r, ts)
             \/ \E p \in topic : repost(p)
    BY <2>5, <2>9 DEF hostPosts, repost, job
  <2> HIDE DEF Same
  <2> QED BY <1>1, <2>3, <2>4, <2>6, <2>7, <2>8, <2>9 DEF HeartbeatNext
<1>2. HeartbeatInv /\ TimesOK /\ [HeartbeatNext]_heartbeatVars => [Same]_heartbeatVars
  BY <1>1
<1> QED
  BY <1>2, HeartbeatInvariant, TimesInvariant, PTL DEF HeartbeatSpec, PruneKeepsHealth

-----------------------------------------------------------------------------
(* Jobs implements both of its parts: the steps of one leave the other     *)
(* alone. So what was proved of each holds of them together.               *)

LEMMA JobsStepParts == [JobsNext]_jobsVars => [Next]_vars /\ [HeartbeatNext]_heartbeatVars
BY DEF JobsNext, jobsVars

LEMMA JobsImplementParts == JobsSpec => Spec /\ HeartbeatSpec
<1>1. JobsInit => Init /\ HeartbeatInit
  BY DEF JobsInit
<1> QED
  BY <1>1, JobsStepParts, PTL DEF JobsSpec, Spec, HeartbeatSpec

(* The safety of both kinds of job: the claim, the outcomes of runs, and   *)
(* what is recorded of jobs that RedMan only hears of.                     *)
THEOREM JobsAreSafe ==
    JobsSpec => /\ [](OneActiveRun /\ RunningHasExecutor /\ HealsOnNextRound)
                /\ SsdOutcomeFinal /\ CancelledStays /\ RecordedOnce /\ PruneKeepsHealth
BY JobsImplementParts, ClaimExclusive, ClaimHeldByExecutor, SsdOutcomesAreFinal,
   CancelledRunsStayCancelled, RoundsHeal, LinesCountOnce, HealthOutlivesPruning, PTL
=============================================================================
