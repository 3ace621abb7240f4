------------------------- MODULE PeerProtocolProofs -------------------------
(* The promises of the peer protocol, for any number of jobs, runs, events *)
(* and attempts, any sizes and quotas. None of the three is inductive: the *)
(* refusals need that a call only waits while nothing was ever measured,   *)
(* the completed runs that the mark outlives the answer that speaks of it, *)
(* and the mirrors that no step of a run forgets an emptied source.        *)
EXTENDS PeerProtocol, TLAPS

Calls  == {"none", "sent", "waiting", "ok", "refused"}
Phases == {"idle", "prepare", "transfer", "complete"}
Ends   == {"none", "completed", "partial", "failed", "cancelled"}

PeerTypeOK ==
    /\ limit \in Limits /\ used \in Nat /\ report \in Reports
    /\ figure \in Nat \cup {None} /\ scanFrom \in Nat \cup {None} /\ fresh \in BOOLEAN
    /\ row \in [Jobs -> Rows] /\ phase \in [Jobs -> Phases] /\ status \in [Jobs -> Ends]
    /\ call \in [Jobs -> Calls] /\ allowance \in [Jobs -> Nat]
    /\ source \in [Jobs -> {"full", "empty"}]

\* The figure in memory is what the last scan of this process found, and while a
\* prepare waits there is none.
FigureIsEvidence ==
    /\ evidence = figure
    /\ \A j \in Jobs : call[j] = "waiting" => phase[j] = "prepare" /\ figure = None

\* A complete that was answered has marked the figure, and only a scan that saw
\* the transfer makes it fresh again.
AnswerMarked ==
    \A j \in Pushes :
        phase[j] = "complete" /\ call[j] = "ok" /\ j \in unmeasured => ~fresh

\* Where the source was looked at for this run, and what became of it since is known.
Looked(j) ==
    \/ phase[j] = "transfer"
    \/ phase[j] = "prepare" /\ (j \in Pushes \/ call[j] \in {"waiting", "ok"})

EmptiedKnown == \A j \in Jobs : Looked(j) /\ source[j] = "empty" => j \in emptied

PeerInv ==
    PeerTypeOK /\ FigureIsEvidence /\ AnswerMarked /\ EmptiedKnown /\ CompletedIsRemeasured

LEMMA PeerFacts ==
    /\ Pushes \subseteq Jobs /\ Pulls \subseteq Jobs /\ Limits \subseteq Nat
    /\ \A j \in Jobs : j \in Pushes \/ j \in Pulls
    /\ \A j \in Pulls : j \notin Pushes
    /\ None \notin Nat /\ "ok" \in Reports
BY PeerProtocolAssumption DEF PeerProtocolAssumption, Jobs

LEMMA PeerStarts == Init => PeerInv
<1> SUFFICES ASSUME Init PROVE PeerInv
  OBVIOUS
<1>1. PeerTypeOK
  BY PeerFacts DEF Init, PeerTypeOK, Calls, Phases, Ends, Rows
<1>2. FigureIsEvidence /\ AnswerMarked /\ CompletedIsRemeasured
  BY PeerFacts DEF Init, FigureIsEvidence, AnswerMarked, CompletedIsRemeasured
<1>3. EmptiedKnown
  BY DEF Init, EmptiedKnown
<1> QED
  BY <1>1, <1>2, <1>3 DEF PeerInv

-----------------------------------------------------------------------------
(* What the peer answers.                                                  *)

LEMMA VerdictAnswers ==
    ASSUME NEW j, NEW known, NEW allowed PROVE Verdict(j, known, allowed) \in {"ok", "refused"}
BY DEF Verdict

\* A disk that was reported as failing is failing, whatever the age of the report.
LEMMA FailIsWorst == report = "fail" => describeDestination = "fail"
<1>1. worse("fail", "warn") = "fail" /\ worse("fail", "unknown") = "fail"
  BY DEF worse, Severity
<1>2. SUFFICES ASSUME report = "fail" PROVE describeDestination = "fail"
  OBVIOUS
<1>3. getStorageHealth.available /\ getStorageHealth.state = "fail"
  BY <1>2 DEF getStorageHealth
<1> QED
  BY <1>1, <1>3 DEF describeDestination

\* Who is let in has a quota that the known figure is below, and no failing disk.
LEMMA VerdictOnEvidence ==
    ASSUME NEW j \in Pushes, NEW known \in Nat \cup {None}, NEW allowed \in Nat,
           Verdict(j, known, allowed) = "ok"
    PROVE  /\ allowed > 0 /\ known # None => known < allowed
           /\ report = "fail" => Enforcement = "warn"
BY FailIsWorst, PeerFacts DEF Verdict

LEMMA Answered ==
    ASSUME NEW who, NEW known, PeerTypeOK, AnswerWaiting(who, known)
    PROVE  /\ call' \in [Jobs -> Calls]
           /\ \A j \in Jobs : call'[j] = "waiting" => call[j] = "waiting" /\ j \notin who
           /\ \A j \in Jobs : call'[j] # call[j] =>
                 call[j] = "waiting" /\ call'[j] = Verdict(j, known, allowance[j])
BY VerdictAnswers DEF AnswerWaiting, PeerTypeOK, Calls

-----------------------------------------------------------------------------
(* The scans of the peer.                                                  *)

LEMMA Walked ==
    ASSUME PeerTypeOK, scanFrom # None PROVE Between(scanFrom, used) \subseteq Nat
BY DEF PeerTypeOK, Between

LEMMA ScanDoneKeeps == PeerInv /\ scanDone => PeerInv'
<1> SUFFICES ASSUME PeerInv, scanDone PROVE PeerInv'
  OBVIOUS
<1>1. PICK kb \in Between(scanFrom, used) :
          figure' = kb /\ evidence' = kb /\ AnswerWaiting(Jobs, kb)
  BY DEF scanDone
<1>2. kb \in Nat /\ PeerTypeOK
  BY <1>1, Walked DEF scanDone, PeerInv
<1>3. /\ call' \in [Jobs -> Calls]
      /\ \A j \in Jobs : call'[j] # "waiting"
      /\ \A j \in Jobs : call'[j] # call[j] => call[j] = "waiting"
  BY <1>1, <1>2, Answered
<1>4. PeerTypeOK'
  BY <1>1, <1>2, <1>3 DEF scanDone, PeerTypeOK, peer, disk, run, data
<1>5. FigureIsEvidence' /\ AnswerMarked' /\ CompletedIsRemeasured'
  BY <1>1, <1>3 DEF scanDone, FigureIsEvidence, AnswerMarked, CompletedIsRemeasured
<1>6. EmptiedKnown'
  BY <1>3 DEF scanDone, PeerInv, EmptiedKnown, Looked, FigureIsEvidence, run, data
<1> QED
  BY <1>4, <1>5, <1>6 DEF PeerInv

\* Calls that wait are answered although nothing was measured.
LEMMA UnmeasuredKeeps ==
    ASSUME PeerInv, NEW who \in SUBSET Jobs, AnswerWaiting(who, None),
           scanFrom' \in Nat \cup {None},
           UNCHANGED <<peer, disk, used, figure, fresh, evidence, run, allowance, data, unmeasured>>
    PROVE  PeerInv'
<1>1. PeerTypeOK
  BY DEF PeerInv
<1>2. /\ call' \in [Jobs -> Calls]
      /\ \A j \in Jobs : call'[j] = "waiting" => call[j] = "waiting"
      /\ \A j \in Jobs : call'[j] # call[j] => call[j] = "waiting"
  BY <1>1, Answered
<1>3. PeerTypeOK'
  BY <1>1, <1>2 DEF PeerTypeOK, peer, disk, run, data
<1>4. FigureIsEvidence' /\ AnswerMarked' /\ CompletedIsRemeasured'
  BY <1>2, PeerFacts
  DEF PeerInv, FigureIsEvidence, AnswerMarked, CompletedIsRemeasured, run
<1>5. EmptiedKnown'
  BY <1>2 DEF PeerInv, EmptiedKnown, Looked, FigureIsEvidence, run, data
<1> QED
  BY <1>3, <1>4, <1>5 DEF PeerInv

LEMMA ScanFailsKeeps == PeerInv /\ scanFails => PeerInv'
BY UnmeasuredKeeps DEF scanFails

LEMMA FirstWaitKeeps == ASSUME NEW j \in Jobs, PeerInv, firstWaitOver(j) PROVE PeerInv'
BY UnmeasuredKeeps DEF firstWaitOver, usage, PeerInv, PeerTypeOK

LEMMA AgingKeeps == PeerInv /\ figureAges => PeerInv'
BY DEF figureAges, PeerInv, PeerTypeOK, FigureIsEvidence, AnswerMarked, EmptiedKnown, Looked,
    CompletedIsRemeasured, peer, disk, run, wire, data

-----------------------------------------------------------------------------
(* The handlers of the peer.                                               *)

LEMMA RefusingKeeps == ASSUME NEW j \in Jobs, PeerInv, prepareRefuses(j) PROVE PeerInv'
BY PeerFacts
DEF Calls, Phases, Ends, Rows, prepareRefuses, peer, disk, usage, run, data, PeerInv, PeerTypeOK, FigureIsEvidence, AnswerMarked, EmptiedKnown, Looked,
    CompletedIsRemeasured

\* A prepare that is let in, at once or when a scan has ended.
LEMMA AdmittedKeeps ==
    ASSUME NEW j \in Jobs, PeerInv, Admit(j), NEW answer \in {"ok", "refused", "waiting"},
           answer = "waiting" => figure = None,
           call' = [call EXCEPT ![j] = answer], scanFrom' \in Nat \cup {None},
           UNCHANGED <<peer, disk, used, figure, fresh, evidence, run, source, wiped, unmeasured>>
    PROVE  PeerInv'
<1>1. PeerTypeOK'
  BY PeerFacts DEF PeerInv, PeerTypeOK, Admit, Calls, peer, disk, run
<1>2. FigureIsEvidence'
  BY DEF PeerInv, PeerTypeOK, FigureIsEvidence, Admit, run
<1>3. AnswerMarked' /\ CompletedIsRemeasured'
  BY PeerFacts DEF PeerInv, PeerTypeOK, AnswerMarked, CompletedIsRemeasured, Admit, run
<1>4. EmptiedKnown'
  BY PeerFacts
  DEF PeerInv, PeerTypeOK, EmptiedKnown, Looked, Admit, Admissible,
      assertLocalSourceHasEntries, run
<1> QED
  BY <1>1, <1>2, <1>3, <1>4 DEF PeerInv

LEMMA ScanTypes == PeerTypeOK /\ StartScan => scanFrom' \in Nat \cup {None}
BY DEF PeerTypeOK, StartScan

LEMMA DecidingKeeps == ASSUME NEW j \in Jobs, PeerInv, prepareDecides(j) PROVE PeerInv'
<1>1. scanFrom' \in Nat \cup {None}
  BY ScanTypes DEF prepareDecides, PeerInv, PeerTypeOK
<1> QED
  BY <1>1, VerdictAnswers, AdmittedKeeps DEF prepareDecides

LEMMA WaitingKeeps == ASSUME NEW j \in Jobs, PeerInv, prepareWaits(j) PROVE PeerInv'
<1>1. scanFrom' \in Nat \cup {None}
  BY ScanTypes DEF prepareWaits, PeerInv
<1> QED
  BY <1>1, AdmittedKeeps DEF prepareWaits

LEMMA CompletingKeeps == ASSUME NEW j \in Jobs, PeerInv, completeHandled(j) PROVE PeerInv'
BY PeerFacts
DEF Calls, Phases, Ends, Rows, completeHandled, markQuotaUsageStale, peer, disk, run, data, PeerInv, PeerTypeOK, FigureIsEvidence, AnswerMarked, EmptiedKnown, Looked,
    CompletedIsRemeasured

LEMMA LateCompleteKeeps == ASSUME NEW k \in late, PeerInv, completeHandledLate(k) PROVE PeerInv'
BY PeerFacts
DEF Calls, Phases, Ends, Rows, completeHandledLate, markQuotaUsageStale, peer, disk, run, data, PeerInv, PeerTypeOK, FigureIsEvidence, AnswerMarked, EmptiedKnown, Looked,
    CompletedIsRemeasured

-----------------------------------------------------------------------------
(* The executor.                                                           *)

LEMMA StartingKeeps == ASSUME NEW j \in Jobs, PeerInv, startRun(j) PROVE PeerInv'
BY PeerFacts
DEF Calls, Phases, Ends, Rows, startRun, assertLocalSourceHasEntries, peer, disk, usage, PeerInv, PeerTypeOK, FigureIsEvidence, AnswerMarked, EmptiedKnown, Looked,
    CompletedIsRemeasured

LEMMA UnansweredKeeps == ASSUME NEW j \in Jobs, PeerInv, unanswered(j) PROVE PeerInv'
BY PeerFacts
DEF Calls, Phases, Ends, Rows, unanswered, Asked, peer, disk, usage, data, PeerInv, PeerTypeOK, FigureIsEvidence, AnswerMarked, EmptiedKnown, Looked,
    CompletedIsRemeasured

\* A run that ends leaves nothing to be looked at but its row.
LEMMA LeavingKeeps ==
    ASSUME NEW j \in Jobs, PeerInv, Leave(j), NEW end \in Rows, row' = [row EXCEPT ![j] = end],
           end = "completed" => phase[j] = "complete" /\ call[j] = "ok"
    PROVE  PeerInv'
BY PeerFacts
DEF Calls, Phases, Ends, Rows, Leave, peer, disk, usage, data, PeerInv, PeerTypeOK, FigureIsEvidence, AnswerMarked, EmptiedKnown, Looked,
    CompletedIsRemeasured

LEMMA EndingKeeps ==
    ASSUME NEW j \in Jobs, PeerInv, callFails(j) \/ answerInvalid(j) \/ completeAcknowledged(j)
    PROVE  PeerInv'
<1>1. status[j] \in Rows /\ {"cancelled", "failed"} \subseteq Rows
  BY DEF PeerInv, PeerTypeOK, Ends, Rows
<1>2. CASE callFails(j) \/ answerInvalid(j)
  BY <1>1, <1>2, LeavingKeeps DEF callFails, answerInvalid, PeerInv, PeerTypeOK
<1>3. CASE completeAcknowledged(j)
  BY <1>1, <1>3, LeavingKeeps DEF completeAcknowledged
<1> QED
  BY <1>2, <1>3

LEMMA TransferStartKeeps == ASSUME NEW j \in Jobs, PeerInv, transferStarts(j) PROVE PeerInv'
BY PeerFacts
DEF Calls, Phases, Ends, Rows, transferStarts, peer, disk, usage, data, PeerInv, PeerTypeOK, FigureIsEvidence, AnswerMarked, EmptiedKnown, Looked,
    CompletedIsRemeasured

LEMMA WritingKeeps == ASSUME NEW j \in Jobs, PeerInv, transferWrites(j) PROVE PeerInv'
BY PeerFacts
DEF Calls, Phases, Ends, Rows, transferWrites, peer, disk, usage, run, wire, data, PeerInv, PeerTypeOK, FigureIsEvidence, AnswerMarked, EmptiedKnown, Looked,
    CompletedIsRemeasured

LEMMA RsyncEndKeeps == ASSUME NEW j \in Jobs, NEW exit \in Exits, PeerInv, rsyncEnds(j, exit) PROVE PeerInv'
BY PeerFacts
DEF Calls, Phases, Ends, Rows, rsyncEnds, peer, disk, usage, PeerInv, PeerTypeOK, FigureIsEvidence, AnswerMarked, EmptiedKnown, Looked,
    CompletedIsRemeasured

LEMMA CancelKeeps == ASSUME NEW j \in Jobs, PeerInv, cancelHyperRun(j) PROVE PeerInv'
BY PeerFacts
DEF Calls, Phases, Ends, Rows, cancelHyperRun, peer, disk, usage, wire, data, PeerInv, PeerTypeOK, FigureIsEvidence, AnswerMarked, EmptiedKnown, Looked,
    CompletedIsRemeasured

-----------------------------------------------------------------------------
(* Operators, hosts and failures.                                          *)

LEMMA OperatorsKeep ==
    ASSUME PeerInv, \/ editPeer \/ regenerateKey \/ rePair \/ unpair \/ hostReports \/ reportAges
                    \/ \E j \in Jobs : updateJob(j)
    PROVE  PeerInv'
BY PeerFacts
DEF editPeer, regenerateKey, rePair, unpair, hostReports, reportAges, updateJob, peer, disk, usage,
    run, wire, data, PeerInv, PeerTypeOK, FigureIsEvidence, AnswerMarked, EmptiedKnown, Looked,
    CompletedIsRemeasured

LEMMA MountingKeeps == ASSUME NEW j \in Jobs, PeerInv, mount(j) PROVE PeerInv'
BY PeerFacts
DEF Calls, Phases, Ends, Rows, mount, peer, disk, usage, run, wire, PeerInv, PeerTypeOK, FigureIsEvidence, AnswerMarked, EmptiedKnown, Looked,
    CompletedIsRemeasured

LEMMA RestartKeeps == ASSUME PeerInv, peerRestarts PROVE PeerInv'
BY PeerFacts
DEF Calls, Phases, Ends, Rows, peerRestarts, Asked, peer, disk, data, PeerInv, PeerTypeOK, FigureIsEvidence, AnswerMarked, EmptiedKnown, Looked,
    CompletedIsRemeasured

LEMMA PeerStep == PeerInv /\ [Next]_vars => PeerInv'
<1> SUFFICES ASSUME PeerInv, [Next]_vars PROVE PeerInv'
  OBVIOUS
<1>1. CASE UNCHANGED vars
  BY <1>1 DEF vars, peer, disk, usage, run, wire, data, PeerInv, PeerTypeOK, FigureIsEvidence, AnswerMarked, EmptiedKnown, Looked,
    CompletedIsRemeasured
<1>2. ASSUME NEW j \in Jobs,
             \/ startRun(j) \/ Executor(j) \/ transferWrites(j) \/ cancelHyperRun(j)
             \/ unanswered(j) \/ mount(j)
      PROVE  PeerInv'
  BY <1>2, StartingKeeps, EndingKeeps, TransferStartKeeps, RsyncEndKeeps, WritingKeeps, CancelKeeps,
     UnansweredKeeps, MountingKeeps DEF Executor
<1>3. ASSUME NEW j \in Jobs,
             \/ prepareRefuses(j) \/ prepareDecides(j) \/ prepareWaits(j) \/ firstWaitOver(j)
             \/ completeHandled(j)
      PROVE  PeerInv'
  BY <1>3, RefusingKeeps, DecidingKeeps, WaitingKeeps, FirstWaitKeeps, CompletingKeeps
<1>4. CASE scanDone \/ scanFails \/ figureAges \/ peerRestarts
  BY <1>4, ScanDoneKeeps, ScanFailsKeeps, AgingKeeps, RestartKeeps
<1> QED
  BY <1>1, <1>2, <1>3, <1>4, LateCompleteKeeps, OperatorsKeep DEF Next

LEMMA PeerInvariant == Spec => []PeerInv
BY PeerStarts, PeerStep, PTL DEF Spec

-----------------------------------------------------------------------------
(* What follows from the invariant.                                        *)

(* peerApi.js, complete, and quotaUsage.js: when a push is recorded as     *)
(* completed, the figure from before it no longer counts as fresh, although*)
(* the call may be lost, repeated, late, or meet a new key.                *)
THEOREM CompletedPushesAreDue == Spec => []CompletedIsRemeasured
<1>1. PeerInv => CompletedIsRemeasured
  BY DEF PeerInv
<1> QED
  BY <1>1, PeerInvariant, PTL

\* A call that turns to ok in the phase prepare was decided by a verdict on the evidence.
LEMMA GrantsAreVerdicts ==
    ASSUME PeerInv, [Next]_vars, NEW j \in Pushes, Granted(j)
    PROVE  /\ allowance'[j] \in Nat /\ evidence' \in Nat \cup {None}
           /\ Verdict(j, evidence', allowance'[j]) = "ok"
<1> USE DEF Granted
<1>1. j \in Jobs /\ PeerTypeOK /\ PeerTypeOK' /\ FigureIsEvidence /\ FigureIsEvidence'
  BY PeerFacts, PeerStep DEF PeerInv
<1>2. allowance'[j] \in Nat /\ evidence' \in Nat \cup {None}
  BY <1>1 DEF PeerTypeOK, FigureIsEvidence
<1> SUFFICES Verdict(j, evidence', allowance'[j]) = "ok"
  BY <1>2
<1>3. ASSUME NEW who, NEW known, AnswerWaiting(who, known), UNCHANGED allowance,
             call[j] = "waiting" => evidence' = known
      PROVE  Verdict(j, evidence', allowance'[j]) = "ok"
  BY <1>1, <1>3, Answered
<1>4. CASE scanDone
  <2>1. PICK kb : evidence' = kb /\ AnswerWaiting(Jobs, kb)
    BY <1>4 DEF scanDone
  <2> QED
    BY <1>3, <1>4, <2>1 DEF scanDone
<1>5. ASSUME NEW who, AnswerWaiting(who, None), UNCHANGED <<allowance, evidence>>
      PROVE  Verdict(j, evidence', allowance'[j]) = "ok"
  BY <1>1, <1>3, <1>5 DEF FigureIsEvidence
<1>6. ASSUME NEW i \in Jobs, prepareDecides(i)
      PROVE  Verdict(j, evidence', allowance'[j]) = "ok"
  <2>1. i = j /\ allowance'[j] = limit /\ call'[j] = Verdict(j, figure, limit)
    BY <1>1, <1>6 DEF prepareDecides, Admit, PeerTypeOK
  <2> QED
    BY <1>1, <1>6, <2>1 DEF prepareDecides, FigureIsEvidence
<1>7. ASSUME NEW i \in Jobs, prepareRefuses(i) \/ prepareWaits(i) \/ completeHandled(i)
      PROVE  FALSE
  BY <1>1, <1>7 DEF prepareRefuses, prepareWaits, completeHandled, Admit, PeerTypeOK
<1>8. ASSUME NEW i \in Jobs, startRun(i) \/ Executor(i) \/ unanswered(i)
      PROVE  FALSE
  BY <1>1, <1>8
  DEF startRun, Executor, callFails, answerInvalid, transferStarts, completeAcknowledged, Leave,
      rsyncEnds, unanswered, Asked, PeerTypeOK
<1>9. ASSUME peerRestarts PROVE FALSE
  BY <1>1, <1>9 DEF peerRestarts, Asked, PeerTypeOK
<1>10. CASE scanFails \/ \E i \in Jobs : firstWaitOver(i)
  BY <1>5, <1>10 DEF scanFails, firstWaitOver, usage
<1>11. CASE UNCHANGED wire
  BY <1>11 DEF wire
<1>12. CASE \E k \in late : completeHandledLate(k)
  BY <1>12 DEF completeHandledLate
<1>13. ASSUME NEW i \in Jobs, transferWrites(i) \/ cancelHyperRun(i) \/ updateJob(i) \/ mount(i)
       PROVE  UNCHANGED wire
  BY <1>13 DEF transferWrites, cancelHyperRun, updateJob, mount
<1>14. CASE \/ figureAges \/ editPeer \/ regenerateKey \/ rePair \/ unpair \/ hostReports
            \/ reportAges \/ UNCHANGED vars
  BY <1>11, <1>14
  DEF figureAges, editPeer, regenerateKey, rePair, unpair, hostReports, reportAges, vars
<1> QED
  BY <1>4, <1>6, <1>7, <1>8, <1>9, <1>10, <1>11, <1>12, <1>13, <1>14 DEF Next

(* "Refuse on evidence" (peerApi.js, prepare): no push is let in against a *)
(* figure the process knows, however old, nor onto a disk that was reported*)
(* as failing.                                                             *)
THEOREM PushesRefusedOnEvidence == Spec => RefusedOnEvidence
<1>1. ASSUME PeerInv, [Next]_vars, NEW j \in Pushes, Granted(j)
      PROVE  /\ allowance'[j] > 0 /\ evidence' # None => evidence' < allowance'[j]
             /\ report = "fail" => Enforcement = "warn"
  BY <1>1, GrantsAreVerdicts, VerdictOnEvidence
<1>2. PeerInv /\ [Next]_vars =>
        [\A j \in Pushes : Granted(j) =>
            /\ allowance'[j] > 0 /\ evidence' # None => evidence' < allowance'[j]
            /\ report = "fail" => Enforcement = "warn"]_vars
  BY <1>1
<1> QED
  BY <1>2, PeerInvariant, PTL DEF Spec, RefusedOnEvidence

(* sourceHealth.js and --delete-after: a mirror deletes everything only if *)
(* its source was emptied after it was looked at for that run.             *)
THEOREM MirrorsWipeLate == Spec => WipedOnlyIfEmptiedLate
<1>1. ASSUME PeerInv, [Next]_vars PROVE [wiped' \ wiped \subseteq emptied]_vars
  <2>1. ASSUME NEW j \in Jobs, NEW exit \in Exits, rsyncEnds(j, exit)
        PROVE  wiped' \ wiped \subseteq emptied
    BY <1>1, <2>1 DEF rsyncEnds, PeerInv, EmptiedKnown, Looked
  <2>2. CASE UNCHANGED wiped
    BY <2>2
  <2> QED
    BY <1>1, <2>1, <2>2
    DEF Next, Executor, vars, data, startRun, callFails, answerInvalid, transferStarts, Leave,
        completeAcknowledged, transferWrites, cancelHyperRun, prepareRefuses, prepareDecides,
        prepareWaits, Admit, firstWaitOver, completeHandled, unanswered, updateJob, mount,
        completeHandledLate, scanDone, scanFails, figureAges, editPeer, regenerateKey, rePair,
        unpair, hostReports, reportAges, peerRestarts
<1> QED
  BY <1>1, PeerInvariant, PTL DEF Spec, WipedOnlyIfEmptiedLate
=============================================================================
