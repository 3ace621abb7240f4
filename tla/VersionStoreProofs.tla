------------------------- MODULE VersionStoreProofs -------------------------
(***************************************************************************)
(* Theorems about VersionStore, for every set of paths, every number of    *)
(* runs, every chain limit and every choice of environment events.         *)
(***************************************************************************)
EXTENDS SnapshotView, WellFoundedInduction, TLAPS

-----------------------------------------------------------------------------
(* A nonempty set of timestamps has a maximum: the next victim of a prune  *)
(* exists.  The least-number principle on MaxRuns - t gives it.            *)
LEMMA MaxOfTimes ==
    ASSUME NEW S \in SUBSET Times, S # {}
    PROVE  Max(S) \in S /\ \A t \in S : t <= Max(S)
<1> DEFINE less == OpToRel(<, Nat)
           T == {MaxRuns - t : t \in S}
<1>1. T \subseteq Nat /\ T # {}
  <2>1. \A t \in S : t \in Int /\ t <= MaxRuns
    BY VersionStoreAssumption DEF Times
  <2>2. \A t \in S : MaxRuns - t \in Nat
    BY <2>1, VersionStoreAssumption
  <2> QED BY <2>2
<1>2. IsWellFoundedOn(less, Nat)
  BY NatLessThanWellFounded
<1>3. PICK x \in T : \A y \in T : ~ (<<y, x>> \in less)
  <2> HIDE DEF less, T
  <2> QED BY <1>1, <1>2, WFMin
<1>4. \A y \in T : ~(y < x)
  BY <1>1, <1>3 DEF OpToRel
<1>5. PICK m \in S : x = MaxRuns - m
  BY <1>3
<1>6. \A t \in S : t <= m
  <2> SUFFICES ASSUME NEW t \in S PROVE t <= m
    OBVIOUS
  <2>1. MaxRuns - t \in T
    OBVIOUS
  <2>2. ~(MaxRuns - t < MaxRuns - m)
    BY <2>1, <1>4, <1>5
  <2> QED BY <2>2, VersionStoreAssumption DEF Times
<1> QED
  BY <1>6, VersionStoreAssumption DEF Max, Times

-----------------------------------------------------------------------------
(* The inductive invariant behind BasesLive: a snapshot without a manifest *)
(* has no delta entries, timestamps grow, and the snapshot of the run      *)
(* under way is neither a victim nor half-deleted.                         *)
RunIsSafe == pc # "idle" => clock \in snaps /\ clock \notin doomed /\ clock \notin victims

IndexInv ==
    /\ IndexOK
    /\ BasesLive
    /\ \A t \in Times, p \in Paths : t \notin published => base[t][p] = 0
    /\ snaps \subseteq 1..clock
    /\ RunIsSafe

(* The initial states satisfy the inductive invariant.                     *)
LEMMA IndexInvInit == Init => IndexInv
  BY VersionStoreAssumption
  DEF Init, IndexInv, IndexOK, BasesLive, RunIsSafe, Times, Current

USE VersionStoreAssumption DEF Times, Current

(* startRun adds a snapshot newer than every other, and nothing names it.  *)
LEMMA StartRunKeeps == IndexInv /\ startRun => IndexInv'
<1> SUFFICES ASSUME IndexInv, startRun PROVE IndexInv'
  OBVIOUS
<1> USE DEF IndexInv, startRun, lock
<1>1. IndexOK'
  BY DEF IndexOK
<1>2. BasesLive'
  BY DEF BasesLive, IndexOK
<1>3. clock' = clock + 1 /\ clock' \notin snaps
  BY DEF IndexOK
<1>4. RunIsSafe'
  BY <1>3 DEF RunIsSafe, IndexOK
<1>5. snaps' \subseteq 1..clock'
  BY <1>3 DEF IndexOK
<1> QED BY <1>1, <1>2, <1>4, <1>5

(* rsync touches neither the snapshots nor the manifests.                  *)
LEMMA RsyncKeeps == IndexInv /\ Rsync => IndexInv'
<1> SUFFICES ASSUME IndexInv, Rsync PROVE IndexInv'
  OBVIOUS
<1>1. UNCHANGED <<snaps, published, base, clock, todo, lock, doomed>>
      /\ pc # "idle"
      /\ pc' \in {"idle", "transfer", "delete", "rebase", "prune"}
      /\ changed' \in SUBSET Paths
  BY DEF IndexInv, IndexOK, Rsync, rsyncWrite, rsyncDelete, rsyncTransferred, rsyncExit,
         rsyncFail, disk, run, lock
<1> QED
  BY <1>1 DEF IndexInv, IndexOK, BasesLive, RunIsSafe, lock

(* Rebasing names the snapshot of the run under way, which is newer than   *)
(* the one whose manifest it rewrites.                                     *)
LEMMA RebaseKeeps == IndexInv /\ rebaseDeltasWithTimestamp => IndexInv'
<1> SUFFICES ASSUME IndexInv, rebaseDeltasWithTimestamp PROVE IndexInv'
  OBVIOUS
<1> USE DEF IndexInv, rebaseDeltasWithTimestamp
<1>1. IndexOK'
  BY DEF IndexOK
<1>2. BasesLive'
  <2> SUFFICES ASSUME NEW t \in published, NEW p \in Paths, base'[t][p] # 0
               PROVE  /\ base'[t][p] > t
                      /\ base'[t][p] # Current => base'[t][p] \in snaps \ doomed
    BY DEF BasesLive
  <2>1. t \in Times /\ t <= clock
    BY DEF IndexOK
  <2>2. CASE Rebased(t, p)
    <3>1. base'[t][p] = clock
      BY <2>1, <2>2
    <3>2. t < clock
      BY <2>1, <2>2 DEF Rebased, IndexOK
    <3> QED BY <3>1, <3>2 DEF RunIsSafe
  <2>3. CASE ~Rebased(t, p)
    BY <2>1, <2>3 DEF BasesLive
  <2> QED BY <2>2, <2>3
<1>3. \A t \in Times, p \in Paths : t \notin published' => base'[t][p] = 0
  BY DEF Rebased
<1>4. RunIsSafe'
  BY DEF RunIsSafe
<1> QED BY <1>1, <1>2, <1>3, <1>4

(* Of the deltaify steps only the publication writes a manifest, the one   *)
(* of the run under way, and its entries point at "current".               *)
LEMMA DeltaifyKeeps == IndexInv /\ Deltaify => IndexInv'
<1> SUFFICES ASSUME IndexInv, Deltaify PROVE IndexInv'
  OBVIOUS
<1> USE DEF IndexInv
<1>1. CASE deltaifyPublish
  <2> USE <1>1 DEF deltaifyPublish
  <2>1. clock \in Times /\ clock \in snaps
    BY DEF RunIsSafe, IndexOK
  <2>2. IndexOK'
    BY <2>1 DEF IndexOK, lock
  <2>3. BasesLive'
    BY <2>1 DEF BasesLive, IndexOK
  <2>4. \A t \in Times, p \in Paths : t \notin published' => base'[t][p] = 0
    BY DEF IndexOK
  <2>5. RunIsSafe'
    BY DEF RunIsSafe, lock
  <2> QED BY <2>2, <2>3, <2>4, <2>5
<1>2. CASE ~deltaifyPublish
  <2>1. UNCHANGED <<snaps, published, base, clock, changed, victims, doomed>>
        /\ pc # "idle" /\ pc' \in {pc, "prune", "compute", "publish"}
        /\ todo' \in SUBSET Paths
        /\ holder' \in {"none", holder}
    BY <1>2 DEF Deltaify, deltaifyStart, deltaifyComputed, deltaifyUnlink, deltaifyDone,
                disk, lock, IndexOK
  <2> QED
    BY <2>1 DEF IndexOK, BasesLive, RunIsSafe
<1> QED BY <1>1, <1>2

(* Choosing victims takes the lock and spares the snapshot of the run.     *)
LEMMA ChooseVictimsKeeps == IndexInv /\ (pruneVersions \/ manualPrune) => IndexInv'
<1> SUFFICES ASSUME IndexInv, pruneVersions \/ manualPrune PROVE IndexInv'
  OBVIOUS
<1>1. /\ UNCHANGED <<snaps, published, base, clock, changed, todo, doomed>>
      /\ victims' \in SUBSET snaps
      /\ pc' \in {pc, "pruning"}
      /\ holder' \in {"run", "manual"}
      /\ pc' # "idle" => pc # "idle" /\ clock \notin victims'
  BY DEF pruneVersions, manualPrune, disk, run
<1> QED
  BY <1>1 DEF IndexInv, IndexOK, BasesLive, RunIsSafe

(* The victim is one of the victims, so an existing snapshot, and not the  *)
(* one of the run under way.                                               *)
LEMMA VictimIsVictim == IndexOK /\ victims # {} => Victim \in victims /\ Victim \in snaps
<1> SUFFICES ASSUME IndexOK, victims # {} PROVE Victim \in victims /\ Victim \in snaps
  OBVIOUS
<1>1. victims \in SUBSET Times /\ victims \subseteq snaps
  BY DEF IndexOK
<1> QED
  BY <1>1, MaxOfTimes DEF Victim

(* Every entry whose base is the victim is one of its dependents, because  *)
(* bases are strictly newer: promoteDependent looks at all that matter.    *)
LEMMA DependentsComplete ==
    ASSUME IndexInv, Dependents = {}
    PROVE  \A t \in published, p \in Paths : base[t][p] # 0 => base[t][p] # Victim
<1> SUFFICES ASSUME NEW t \in published, NEW p \in Paths, base[t][p] # 0, base[t][p] = Victim
             PROVE FALSE
  OBVIOUS
<1>1. t < Victim
  BY DEF IndexInv, IndexOK, BasesLive
<1>2. <<t, p>> \in Dependents
  BY <1>1 DEF Dependents
<1> QED BY <1>2

(* Clearing entries of a manifest table keeps its type and the others.     *)
LEMMA ClearEntries ==
    ASSUME NEW b \in [Times -> [Paths -> 0..Current]], NEW t, NEW p
    PROVE  /\ Replace(b, t, p, 0) \in [Times -> [Paths -> 0..Current]]
           /\ \A u \in Times, q \in Paths : Replace(b, t, p, 0)[u][q] \in {b[u][q], 0}
           /\ [b EXCEPT ![t] = [q \in Paths |-> 0]] \in [Times -> [Paths -> 0..Current]]
           /\ \A u \in Times, q \in Paths :
                  [b EXCEPT ![t] = [r \in Paths |-> 0]][u][q] =
                      IF u = t THEN 0 ELSE b[u][q]
<1>1. 0 \in 0..Current
  OBVIOUS
<1>2. Replace(b, t, p, 0) = [u \in Times |-> IF u = t THEN [b[u] EXCEPT ![p] = 0] ELSE b[u]]
  BY DEF Replace
<1>3. ASSUME NEW u \in Times
      PROVE  /\ Replace(b, t, p, 0)[u] \in [Paths -> 0..Current]
             /\ \A q \in Paths : Replace(b, t, p, 0)[u][q] \in {b[u][q], 0}
  <2>1. [b[u] EXCEPT ![p] = 0] \in [Paths -> 0..Current]
    BY <1>1
  <2>2. \A q \in Paths : [b[u] EXCEPT ![p] = 0][q] \in {b[u][q], 0}
    OBVIOUS
  <2> QED BY <1>2, <2>1, <2>2
<1>4. Replace(b, t, p, 0) \in [Times -> [Paths -> 0..Current]]
  BY <1>2, <1>3
<1>5. [b EXCEPT ![t] = [q \in Paths |-> 0]] =
          [u \in Times |-> IF u = t THEN [q \in Paths |-> 0] ELSE b[u]]
  OBVIOUS
<1>6. [q \in Paths |-> 0] \in [Paths -> 0..Current]
  BY <1>1
<1> QED
  BY <1>3, <1>4, <1>5, <1>6

(* Deleting a snapshot: nothing names it when the deletion begins, and it  *)
(* is out of reach from then on.                                           *)
LEMMA RemoveKeeps ==
    IndexInv /\ ((\E K \in SUBSET Paths, m \in BOOLEAN : removeSnapshot(K, m)) \/ removeDone)
        => IndexInv'
<1> USE DEF IndexInv
<1>1. ASSUME IndexInv, NEW K \in SUBSET Paths, NEW m \in BOOLEAN, removeSnapshot(K, m)
      PROVE  IndexInv'
  <2> USE <1>1 DEF removeSnapshot
  <2>1. Victim \in victims /\ Victim \in snaps
    BY VictimIsVictim
  <2>2. /\ published' \subseteq published
        /\ base' \in [Times -> [Paths -> 0..Current]]
        /\ \A t \in Times, p \in Paths : base'[t][p] # 0 => base'[t][p] = base[t][p]
        /\ \A t \in Times, p \in Paths : t \notin published' => base'[t][p] = 0
    <3>1. base \in [Times -> [Paths -> 0..Current]]
      BY DEF IndexOK
    <3>2. CASE m
      BY <3>1, <3>2 DEF Erase
    <3>3. CASE ~m
      <4>1. base' = [base EXCEPT ![Victim] = [p \in Paths |-> 0]]
            /\ published' = published \ {Victim}
        BY <3>3 DEF Erase
      <4>2. Victim \in Times
        BY <2>1 DEF IndexOK
      <4> HIDE DEF removeSnapshot, IndexInv
      <4>3. \A t \in Times, p \in Paths : base'[t][p] = IF t = Victim THEN 0 ELSE base[t][p]
        BY <3>1, <4>1, <4>2
      <4>4. \A t \in Times, p \in Paths : t \notin published => base[t][p] = 0
        BY <1>1 DEF IndexInv
      <4>5. base' \in [Times -> [Paths -> 0..Current]]
        BY <3>1, <4>1, ClearEntries
      <4> QED BY <4>1, <4>3, <4>4, <4>5
    <3> QED BY <3>2, <3>3
  <2>3. IndexOK'
    BY <2>1, <2>2 DEF IndexOK, run, lock
  <2>4. BasesLive'
    BY <2>2, DependentsComplete DEF BasesLive, IndexOK
  <2>5. RunIsSafe' /\ snaps' \subseteq 1..clock'
    BY <2>1 DEF RunIsSafe, run, lock
  <2> QED BY <2>2, <2>3, <2>4, <2>5
<1>2. ASSUME IndexInv, removeDone
      PROVE  IndexInv'
  <2> USE <1>2 DEF removeDone
  <2>1. Victim \in victims /\ Victim \in snaps
    BY VictimIsVictim
  <2>2. /\ published' = published \ {Victim}
        /\ base' \in [Times -> [Paths -> 0..Current]]
        /\ \A t \in Times, p \in Paths : base'[t][p] # 0 => base'[t][p] = base[t][p]
        /\ \A t \in Times, p \in Paths : t \notin published' => base'[t][p] = 0
    BY <2>1 DEF Erase, IndexOK
  <2>3. IndexOK'
    BY <2>1, <2>2 DEF IndexOK, run
  <2>4. BasesLive'
    <3>1. \A t \in published, p \in Paths : base[t][p] # 0 => base[t][p] # Victim
      BY DependentsComplete
    <3> QED BY <2>2, <3>1 DEF BasesLive, IndexOK
  <2>5. RunIsSafe' /\ snaps' \subseteq 1..clock'
    BY <2>1 DEF RunIsSafe, run
  <2> QED BY <2>2, <2>3, <2>4, <2>5
<1> QED BY <1>1, <1>2

(* Promotion only clears base pointers, and the rest of a prune step only  *)
(* gives the lock back.                                                    *)
LEMMA PruneKeeps == IndexInv /\ PruneStep => IndexInv'
<1> SUFFICES ASSUME IndexInv, PruneStep PROVE IndexInv'
  OBVIOUS
<1>1. CASE (\E K \in SUBSET Paths, m \in BOOLEAN : removeSnapshot(K, m)) \/ removeDone
  BY <1>1, RemoveKeeps
<1>2. CASE promotePublish
  <2> USE <1>2 DEF promotePublish
  <2>1. /\ base' \in [Times -> [Paths -> 0..Current]]
        /\ \A t \in Times, p \in Paths : base'[t][p] # 0 => base'[t][p] = base[t][p]
        /\ \A t \in Times, p \in Paths : base[t][p] = 0 => base'[t][p] = 0
    <3>1. base \in [Times -> [Paths -> 0..Current]]
      BY DEF IndexInv, IndexOK
    <3>2. base' = Replace(base, promo.time, promo.path, 0)
      OBVIOUS
    <3> QED BY <3>1, <3>2, ClearEntries
  <2> QED
    BY <2>1 DEF IndexInv, IndexOK, BasesLive, RunIsSafe, run
<1>3. CASE ~promotePublish /\ ~removeDone
           /\ ~(\E K \in SUBSET Paths, m \in BOOLEAN : removeSnapshot(K, m))
  <2>1. /\ UNCHANGED <<snaps, published, base, clock, changed, todo, doomed>>
        /\ victims' \in {victims, {}}
        /\ pc' \in {pc, "idle"}
        /\ holder' \in {holder, "none"}
    BY <1>3 DEF PruneStep, promoteDeltaToFull, promoteFails, promoteCopied, promoteUnlink,
                pruneDone, PruneReturns, disk, run
  <2> QED
    BY <2>1 DEF IndexInv, IndexOK, BasesLive, RunIsSafe
<1> QED BY <1>1, <1>2, <1>3

(* Aborts, failing stages and crashes leave the manifests and the          *)
(* snapshots alone.                                                        *)
LEMMA StopKeeps ==
    IndexInv /\ ((\E K \in SUBSET Paths : abortPostProcessing(K)) \/ stageFails \/ crash)
    => IndexInv'
<1> SUFFICES ASSUME IndexInv,
                    (\E K \in SUBSET Paths : abortPostProcessing(K)) \/ stageFails \/ crash
             PROVE IndexInv'
  OBVIOUS
<1>1. /\ UNCHANGED <<snaps, published, base, clock, doomed>>
      /\ pc' \in {pc, "idle"} \/ (pc # "idle" /\ pc' = "prune")
      /\ todo' \in {todo, {}}
      /\ changed' \in {changed, {}}
      /\ victims' \in {victims, {}}
      /\ holder' \in {holder, "none"}
  BY DEF abortPostProcessing, stageFails, PruneReturns, crash, disk
<1> QED
  BY <1>1 DEF IndexInv, IndexOK, BasesLive, RunIsSafe

(* The invariant is inductive.                                             *)
LEMMA IndexInvStep == IndexInv /\ [Next]_vars => IndexInv'
<1>1. ASSUME IndexInv, UNCHANGED vars PROVE IndexInv'
  BY <1>1 DEF vars, disk, run, lock, IndexInv, IndexOK, BasesLive, RunIsSafe
<1> QED
  BY <1>1, StartRunKeeps, RsyncKeeps, RebaseKeeps, DeltaifyKeeps, ChooseVictimsKeeps,
     PruneKeeps, StopKeeps DEF Next

(* In every behaviour, manifests, victims and half-deleted directories     *)
(* name existing snapshots.                                                *)
THEOREM IndexCorrect == Spec => []IndexOK
<1>1. IndexInv => IndexOK
  BY DEF IndexInv
<1> QED
  BY <1>1, IndexInvInit, IndexInvStep, PTL DEF Spec

(* In every behaviour every delta entry points at "current" or at a        *)
(* strictly newer snapshot that exists and is not being deleted, whatever  *)
(* is cancelled, crashes, or prunes in between.                            *)
THEOREM BasesAlwaysLive == Spec => []BasesLive
<1>1. IndexInv => BasesLive
  BY DEF IndexInv
<1> QED
  BY <1>1, IndexInvInit, IndexInvStep, PTL DEF Spec

-----------------------------------------------------------------------------
(* What a version reconstructs to.  FileOn(p, b)[t] is Recon(t, p), with b *)
(* in the place of the destination's current file.                         *)
Layer(f, u, p, b) ==
    IF ~IsDelta(u, p) THEN full[u][p]
    ELSE IF rdelta[u][p] = None THEN None
    ELSE Patch(rdelta[u][p], IF base[u][p] = Current THEN b
                             ELSE IF base[u][p] \notin snaps THEN None
                             ELSE f[base[u][p]])

FileOn(p, b) == LET file[u \in Times] == Layer(file, u, p, b) IN file

ReconIsFile == \A t, p : Recon(t, p) = FileOn(p, current[p])[t]

LEMMA ReconIs == ReconIsFile
  BY Zenon DEF Recon, ReconIsFile, FileOn, Layer

LEMMA ReconIsThen == ReconIsFile'
  BY ReconIs, PTL

LEMMA FileUnfold ==
    \A p, b : FileOn(p, b) = CHOOSE f : f = [u \in Times |-> Layer(f, u, p, b)]
  BY Zenon DEF FileOn

(* Bases are strictly newer, so that the recursion of reconstructFile ends *)
(* and FileOn is the function its definition announces.  Layer by layer,   *)
(* from the newest timestamp: the least number of layers without a         *)
(* solution would have a predecessor with one, which one layer extends.    *)
LEMMA FileExists ==
    ASSUME IndexInv, NEW p \in Paths, NEW b
    PROVE  \E f : f = [u \in Times |-> Layer(f, u, p, b)]
<1> DEFINE Solves(f, k) == \A u \in Times : u > MaxRuns - k => f[u] = Layer(f, u, p, b)
           Solved == {k \in 0..MaxRuns : \E f : f = [u \in Times |-> f[u]] /\ Solves(f, k)}
           less == OpToRel(<, Nat)
<1>1. 0 \in Solved
  <2> DEFINE f == [u \in Times |-> None]
  <2>1. f = [u \in Times |-> f[u]] /\ Solves(f, 0)
    OBVIOUS
  <2> QED BY <2>1
<1>2. ASSUME NEW k \in 0..MaxRuns, k + 1 \in 0..MaxRuns, k \in Solved
      PROVE  k + 1 \in Solved
  <2> DEFINE v == MaxRuns - k
  <2>1. PICK f : f = [u \in Times |-> f[u]] /\ Solves(f, k)
    BY <1>2
  <2> DEFINE g == [u \in Times |-> IF u = v THEN Layer(f, v, p, b) ELSE f[u]]
  <2>2. v \in Times
    BY <1>2
  <2>3. ASSUME NEW u \in Times, u > MaxRuns - (k + 1)
        PROVE  Layer(g, u, p, b) = Layer(f, u, p, b)
    <3>1. u >= v
      BY <2>3, <1>2
    <3>2. IsDelta(u, p) /\ base[u][p] # Current => base[u][p] \in Times /\ base[u][p] > u
      BY DEF IndexInv, IndexOK, BasesLive, IsDelta
    <3>3. IsDelta(u, p) /\ base[u][p] # Current => g[base[u][p]] = f[base[u][p]]
      BY <3>1, <3>2, <2>2
    <3> HIDE DEF g, v
    <3> QED BY <3>3 DEF Layer
  <2>4. ASSUME NEW u \in Times, u > MaxRuns - (k + 1)
        PROVE  g[u] = Layer(g, u, p, b)
    <3>1. CASE u = v
      BY <3>1, <2>3, <2>4
    <3>2. CASE u # v
      <4>1. u > MaxRuns - k
        BY <3>2, <2>4, <1>2
      <4>2. f[u] = Layer(f, u, p, b)
        BY <4>1, <2>1
      <4> QED BY <4>2, <3>2, <2>3, <2>4
    <3> QED BY <3>1, <3>2
  <2>5. g = [u \in Times |-> g[u]] /\ Solves(g, k + 1)
    BY <2>4
  <2> QED BY <2>5, <1>2
<1> HIDE DEF Solved
<1>3. MaxRuns \in Solved
  <2> SUFFICES ASSUME MaxRuns \notin Solved PROVE FALSE
    OBVIOUS
  <2> DEFINE S == (0..MaxRuns) \ Solved
  <2>1. S \subseteq Nat /\ S # {}
    OBVIOUS
  <2>2. IsWellFoundedOn(less, Nat)
    BY NatLessThanWellFounded
  <2>3. PICK x \in S : \A y \in S : ~ (<<y, x>> \in less)
    <3> HIDE DEF less, S
    <3> QED BY <2>1, <2>2, WFMin
  <2>4. x \in Nat /\ x <= MaxRuns /\ x \notin Solved
    <3>1. x \in S
      BY <2>3, Zenon
    <3> QED BY <3>1
  <2>5. \A y \in S : ~(y < x)
    BY <2>1, <2>3, <2>4 DEF OpToRel
  <2>6. x # 0 /\ x - 1 \in Nat /\ x - 1 < x /\ x - 1 <= MaxRuns
    BY <2>4, <1>1
  <2>7. x - 1 \in Solved
    BY <2>5, <2>6
  <2>8. x \in Solved
    BY <2>4, <2>6, <2>7, <1>2
  <2> QED BY <2>4, <2>8
<1>4. PICK f : f = [u \in Times |-> f[u]] /\ Solves(f, MaxRuns)
  BY <1>3 DEF Solved
<1>5. \A u \in Times : f[u] = Layer(f, u, p, b)
  BY <1>4
<1>6. f = [u \in Times |-> Layer(f, u, p, b)]
  BY <1>4, <1>5
<1> QED BY <1>6

\* Version u of p, and the version its delta is applied to.
Built(u, p, b) ==
    FileOn(p, b)[u] =
        IF ~IsDelta(u, p) THEN full[u][p]
        ELSE IF rdelta[u][p] = None THEN None
        ELSE Patch(rdelta[u][p], IF base[u][p] = Current THEN b ELSE FileOn(p, b)[base[u][p]])

AllBuilt == \A b : \A u \in Times, p \in Paths : Built(u, p, b)

(* reconstructFile, one step: a full file as it is, a delta applied to the *)
(* reconstruction of its base, which exists.                               *)
LEMMA FileIs == IndexInv => AllBuilt
<1> SUFFICES ASSUME IndexInv, NEW u \in Times, NEW p \in Paths, NEW b PROVE Built(u, p, b)
  BY DEF AllBuilt
<1>1. FileOn(p, b) = [v \in Times |-> Layer(FileOn(p, b), v, p, b)]
  BY FileUnfold, FileExists, Zenon
<1>2. FileOn(p, b)[u] = Layer(FileOn(p, b), u, p, b)
  BY <1>1
<1>3. IsDelta(u, p) /\ base[u][p] # Current => base[u][p] \in snaps
  BY DEF IndexInv, IndexOK, BasesLive, IsDelta
<1> QED BY <1>2, <1>3 DEF Layer, Built

LEMMA FileIsThen == IndexInv' => AllBuilt'
  BY FileIs, PTL

-----------------------------------------------------------------------------
(* Chains before and after a step.                                         *)

(* What holds of a version once it holds of the newer ones holds of all:   *)
(* the newest counterexample would not be one.                             *)
LEMMA FromTheNewest ==
    ASSUME NEW F, NEW G, NEW Keep \in SUBSET Times,
           \A u \in Keep : (\A v \in Keep : v > u => G[v] = F[v]) => G[u] = F[u]
    PROVE  \A u \in Keep : G[u] = F[u]
<1> DEFINE S == {u \in Keep : G[u] # F[u]}
<1> SUFFICES ASSUME S # {} PROVE FALSE
  OBVIOUS
<1>1. Max(S) \in S /\ \A u \in S : u <= Max(S)
  BY MaxOfTimes
<1>2. \A v \in Keep : v > Max(S) => v \notin S
  <2>1. S \in SUBSET Times
    OBVIOUS
  <2> HIDE DEF S
  <2>2. Max(S) \in Times
    BY <1>1, <2>1
  <2> QED BY <1>1, <2>1, <2>2
<1> QED BY <1>1, <1>2

\* Bytes that some run wrote.
Known(x) == x # None /\ x # Wrong

\* The layer of version u is not written, and its base stays.
Untouched(u, p) ==
    IF IsDelta(u, p)
    THEN /\ IsDelta(u, p)'
         /\ rdelta'[u][p] = rdelta[u][p]
         /\ base'[u][p] = base[u][p]
    ELSE ~IsDelta(u, p)' /\ full'[u][p] = full[u][p]

(* The basis a published delta was computed against is a file some run     *)
(* wrote, and not a later one.                                             *)
DeltasOK ==
    \A t \in published, p \in Paths :
        base[t][p] # 0 /\ rdelta[t][p] # None => rdelta[t][p].basis \in 0..t

\* A step leaves the layers of the known versions of Keep alone, with bases in
\* Keep, or rebuilds them equal; and so keeps these versions.
LayersKept(p, b, c, Keep) ==
    \A u \in Keep :
        Known(FileOn(p, b)[u]) =>
            \/ FileOn(p, c)'[u] = FileOn(p, b)[u]
            \/ /\ Untouched(u, p)
               /\ IsDelta(u, p) => IF base[u][p] = Current THEN b = c
                                   ELSE base[u][p] \in Keep

KnownKept(p, b, c, Keep) ==
    \A u \in Keep : Known(FileOn(p, b)[u]) => FileOn(p, c)'[u] = FileOn(p, b)[u]

(* A version of Keep whose bytes are known keeps them in a step that       *)
(* leaves its layer alone and its base in Keep, or rebuilds it equal.      *)
LEMMA KnownStays ==
    ASSUME IndexInv, IndexInv', DeltasOK,
           NEW p \in Paths, NEW b, NEW c, NEW Keep \in SUBSET Times,
           LayersKept(p, b, c, Keep)
    PROVE  KnownKept(p, b, c, Keep)
<1> DEFINE F == FileOn(p, b)
           G == FileOn(p, c)'
           K == {u \in Keep : Known(F[u])}
<1>1. ASSUME NEW u \in K, \A v \in K : v > u => G[v] = F[v], G[u] # F[u]
      PROVE  FALSE
  <2>1. u \in Times /\ u \in Keep /\ Known(F[u])
    OBVIOUS
  <2>2. /\ Untouched(u, p)
        /\ IsDelta(u, p) => IF base[u][p] = Current THEN b = c ELSE base[u][p] \in Keep
    BY <1>1, <2>1 DEF LayersKept
  <2>3. Built(u, p, b) /\ Built(u, p, c)'
    BY <2>1, FileIs, FileIsThen DEF AllBuilt
  <2>4. IsDelta(u, p)
    BY <1>1, <2>2, <2>3 DEF Untouched, Built
  <2>5. /\ base[u][p] # Current => base[u][p] > u
        /\ rdelta[u][p] # None => rdelta[u][p].basis \in 0..u
    BY <2>1, <2>4 DEF IsDelta, IndexInv, BasesLive, DeltasOK
  <2>6. rdelta[u][p] # None /\ base[u][p] # Current
    BY <1>1, <2>1, <2>2, <2>3, <2>4 DEF Untouched, Built, Known
  <2>7. F[u] = Patch(rdelta[u][p], F[base[u][p]])
        /\ G[u] = Patch(rdelta[u][p], G[base[u][p]])
    BY <2>2, <2>3, <2>4, <2>6 DEF Untouched, Built
  <2>8. F[base[u][p]] = rdelta[u][p].basis
    BY <2>1, <2>7 DEF Patch, Known
  <2>9. Known(F[base[u][p]])
    BY <2>5, <2>6, <2>8 DEF Known
  <2>10. base[u][p] \in K
    BY <2>2, <2>4, <2>6, <2>9
  <2>11. G[base[u][p]] = F[base[u][p]]
    <3> HIDE DEF K, F, G
    <3> QED BY <1>1, <2>5, <2>6, <2>10
  <2> QED BY <1>1, <2>7, <2>11
<1>2. \A u \in K : G[u] = F[u]
  <2>1. PICK f, g, k : f = F /\ g = G /\ k = K
    OBVIOUS
  <2>2. k \in SUBSET Times
    BY <2>1
  <2> HIDE DEF K, F, G
  <2>3. \A u \in k : (\A v \in k : v > u => g[v] = f[v]) => g[u] = f[u]
    BY <1>1, <2>1
  <2>4. \A u \in k : g[u] = f[u]
    BY <2>2, <2>3, FromTheNewest
  <2> QED BY <2>1, <2>4
<1> QED BY <1>2 DEF KnownKept

(* And a step that leaves the layers of Keep alone, but may replace the    *)
(* destination's file by one no delta of Keep was computed against, gives  *)
(* no version bytes it did not have.                                       *)
LEMMA NothingNew ==
    ASSUME IndexInv, IndexInv', DeltasOK,
           NEW p \in Paths, NEW b, NEW c, NEW Keep \in SUBSET Times,
           \A u \in Keep :
               /\ Untouched(u, p)
               /\ IsDelta(u, p) /\ rdelta[u][p] # None =>
                      IF base[u][p] = Current THEN c \in {None, b} \/ c # rdelta[u][p].basis
                      ELSE base[u][p] \in Keep
    PROVE  \A u \in Keep : FileOn(p, c)'[u] \in {None, Wrong, FileOn(p, b)[u]}
<1> DEFINE F == FileOn(p, b)
           G == FileOn(p, c)'
           K == {u \in Keep : Known(G[u])}
<1>1. ASSUME NEW u \in K, \A v \in K : v > u => G[v] = F[v], G[u] # F[u]
      PROVE  FALSE
  <2>1. u \in Times /\ u \in Keep /\ Known(G[u])
    OBVIOUS
  <2>2. /\ Untouched(u, p)
        /\ IsDelta(u, p) /\ rdelta[u][p] # None =>
              IF base[u][p] = Current THEN c \in {None, b} \/ c # rdelta[u][p].basis
              ELSE base[u][p] \in Keep
    BY <2>1
  <2>3. Built(u, p, b) /\ Built(u, p, c)'
    BY <2>1, FileIs, FileIsThen DEF AllBuilt
  <2>4. IsDelta(u, p)
    BY <1>1, <2>2, <2>3 DEF Untouched, Built
  <2>5. /\ base[u][p] # Current => base[u][p] > u
        /\ rdelta[u][p] # None => rdelta[u][p].basis \in 0..u
    BY <2>1, <2>4 DEF IsDelta, IndexInv, BasesLive, DeltasOK
  <2>6. rdelta[u][p] # None
    BY <2>1, <2>2, <2>3, <2>4 DEF Untouched, Built, Known
  <2>7. base[u][p] # Current
    BY <1>1, <2>1, <2>2, <2>3, <2>4, <2>6 DEF Untouched, Built, Known, Patch
  <2>8. F[u] = Patch(rdelta[u][p], F[base[u][p]])
        /\ G[u] = Patch(rdelta[u][p], G[base[u][p]])
    BY <2>2, <2>3, <2>4, <2>6, <2>7 DEF Untouched, Built
  <2>9. G[base[u][p]] = rdelta[u][p].basis
    BY <2>1, <2>8 DEF Patch, Known
  <2>10. Known(G[base[u][p]])
    BY <2>5, <2>6, <2>9 DEF Known
  <2>11. base[u][p] \in K
    BY <2>2, <2>4, <2>6, <2>7, <2>10
  <2>12. G[base[u][p]] = F[base[u][p]]
    <3> HIDE DEF K, F, G
    <3> QED BY <1>1, <2>5, <2>7, <2>11
  <2> QED BY <1>1, <2>8, <2>12
<1>2. \A u \in K : G[u] = F[u]
  <2>1. PICK f, g, k : f = F /\ g = G /\ k = K
    OBVIOUS
  <2>2. k \in SUBSET Times
    BY <2>1
  <2> HIDE DEF K, F, G
  <2>3. \A u \in k : (\A v \in k : v > u => g[v] = f[v]) => g[u] = f[u]
    BY <1>1, <2>1
  <2>4. \A u \in k : g[u] = f[u]
    BY <2>2, <2>3, FromTheNewest
  <2> QED BY <2>1, <2>4
<1> QED BY <1>2 DEF Known

-----------------------------------------------------------------------------
(* The inductive invariant behind the bytes.                               *)

\* hist ends with what the destination holds, and no file is of the future.
HistoryOK ==
    /\ \A p \in Paths : hist[clock][p] = current[p]
    /\ \A t \in 0..MaxRuns, p \in Paths : hist[t][p] \in 0..t \cup {None}

\* A version directory holds something for the files its run replaced, only.
EntriesOK ==
    /\ \A t \in Times \ snaps, p \in Paths : full[t][p] = None /\ rdelta[t][p] = None
    /\ \A t \in snaps, p \in Paths :
          full[t][p] # None \/ rdelta[t][p] # None => Replaced(t, p)

\* Deltaifying and promoting exclude each other: the config lock.
LockOK ==
    /\ holder = "run" <=> pc \in {"deltaify", "compute", "publish", "unlink", "pruning"}
    /\ promo # None => Pruning

\* Until its manifest is written, the run's snapshot is the base of nothing,
\* and what rsync has not touched is as the last run left it.
TransferOK ==
    /\ pc \in {"transfer", "delete", "rebase", "deltaify", "compute", "publish"} =>
          clock \notin published
    /\ pc \in {"transfer", "delete", "rebase"} =>
          /\ \A t \in Times, p \in Paths : base[t][p] # clock
          /\ \A p \in Paths : rdelta[clock][p] = None
          /\ \A p \in changed : current[p] = clock
    /\ pc \in {"transfer", "delete"} =>
          \A p \in Paths \ changed :
              pc = "transfer" \/ current[p] # None => hist[clock - 1][p] = current[p]

\* A delta about to be published rebuilds the full file beside it from the
\* destination's file; a full file about to be unlinked has such a delta.
DeltaifyOK ==
    /\ pc \in {"compute", "publish"} =>
          \A p \in todo : current[p] # None /\ full[clock][p] # None
    /\ pc = "publish" =>
          \A p \in todo :
              rdelta[clock][p] = [basis |-> current[p], result |-> full[clock][p]]
    /\ pc = "unlink" => \A p \in todo : IsDelta(clock, p)

\* A promotion copies what its version reconstructs to, if to anything.
PromoOK ==
    promo # None =>
        /\ promo.time \in published /\ promo.time < clock
        /\ promo.step \in {"copy", "publish"} =>
              /\ IsDelta(promo.time, promo.path)
              /\ rdelta[promo.time][promo.path] # None
              /\ Recon(promo.time, promo.path) \in {None, Wrong, promo.bytes}
        /\ promo.step = "publish" => full[promo.time][promo.path] = promo.bytes
        /\ promo.step = "unlink" => ~IsDelta(promo.time, promo.path)

ByteInv ==
    /\ BytesOK
    /\ HistoryOK
    /\ EntriesOK
    /\ DeltasOK
    /\ LockOK
    /\ TransferOK
    /\ DeltaifyOK
    /\ PromoOK

LEMMA ByteInvInit == Init => ByteInv
<1> SUFFICES ASSUME Init PROVE ByteInv
  OBVIOUS
<1> USE DEF Init
<1>1. BytesOK
  BY DEF BytesOK, Bytes
<1>2. HistoryOK
  BY DEF HistoryOK
<1>3. EntriesOK /\ DeltasOK
  BY DEF EntriesOK, DeltasOK
<1>4. LockOK /\ TransferOK /\ DeltaifyOK /\ PromoOK
  BY DEF LockOK, TransferOK, DeltaifyOK, PromoOK
<1> QED BY <1>1, <1>2, <1>3, <1>4 DEF ByteInv

(* What a version reconstructs to is of the right type.                    *)
LEMMA FileTyped ==
    ASSUME IndexInv, BytesOK
    PROVE  \A b : \A u \in Times, p \in Paths : FileOn(p, b)[u] \in Bytes
<1> SUFFICES ASSUME NEW u \in Times, NEW p \in Paths, NEW b
             PROVE  FileOn(p, b)[u] \in Bytes
  OBVIOUS
<1>1. Built(u, p, b)
  BY FileIs DEF AllBuilt
<1>2. full[u][p] \in Bytes /\ (rdelta[u][p] # None => rdelta[u][p].result \in Bytes)
  BY DEF BytesOK, Delta
<1> QED BY <1>1, <1>2 DEF Built, Patch, Bytes

(* Writing one entry of a table of the store.                              *)
LEMMA StoreTables ==
    ASSUME BytesOK, NEW t, NEW p, NEW v
    PROVE  /\ \A u \in Times, q \in Paths :
                  Replace(full, t, p, v)[u][q] = IF u = t /\ q = p THEN v ELSE full[u][q]
           /\ v \in Bytes => Replace(full, t, p, v) \in [Times -> [Paths -> Bytes]]
           /\ \A u \in Times, q \in Paths :
                  Replace(rdelta, t, p, v)[u][q] = IF u = t /\ q = p THEN v ELSE rdelta[u][q]
           /\ v \in Delta \cup {None} =>
                  Replace(rdelta, t, p, v) \in [Times -> [Paths -> Delta \cup {None}]]
           /\ \A u \in 0..MaxRuns, q \in Paths :
                  Replace(hist, t, p, v)[u][q] = IF u = t /\ q = p THEN v ELSE hist[u][q]
           /\ v \in 0..MaxRuns \cup {None} =>
                  Replace(hist, t, p, v) \in [0..MaxRuns -> [Paths -> 0..MaxRuns \cup {None}]]
<1>1. full \in [Times -> [Paths -> Bytes]]
      /\ rdelta \in [Times -> [Paths -> Delta \cup {None}]]
      /\ hist \in [0..MaxRuns -> [Paths -> 0..MaxRuns \cup {None}]]
  BY DEF BytesOK
<1>2. Replace(full, t, p, v) =
          [u \in Times |-> [q \in Paths |-> IF u = t /\ q = p THEN v ELSE full[u][q]]]
  BY <1>1 DEF Replace
<1>3. Replace(rdelta, t, p, v) =
          [u \in Times |-> [q \in Paths |-> IF u = t /\ q = p THEN v ELSE rdelta[u][q]]]
  BY <1>1 DEF Replace
<1>4. Replace(hist, t, p, v) =
          [u \in 0..MaxRuns |-> [q \in Paths |-> IF u = t /\ q = p THEN v ELSE hist[u][q]]]
  BY <1>1 DEF Replace
<1> QED BY <1>1, <1>2, <1>3, <1>4

(* No step that adds no entry and no snapshot disturbs EntriesOK.          *)
LEMMA EntriesStay ==
    ASSUME IndexOK, EntriesOK, snaps' = snaps, hist' = hist,
           \A t \in Times, p \in Paths :
               full'[t][p] # None \/ rdelta'[t][p] # None => full[t][p] # None \/ rdelta[t][p] # None
    PROVE  EntriesOK'
<1>1. snaps \subseteq Times
  BY DEF IndexOK
<1>2. \A t \in snaps, p \in Paths :
          full'[t][p] # None \/ rdelta'[t][p] # None => Replaced(t, p)
  BY <1>1 DEF EntriesOK
<1>3. \A t \in Times \ snaps, p \in Paths : full'[t][p] = None /\ rdelta'[t][p] = None
  BY DEF EntriesOK
<1> QED BY <1>2, <1>3 DEF EntriesOK, Replaced

(* A promotion under way reconstructs to its bytes or to nothing, after    *)
(* any step that leaves the layers of its chain alone.                     *)
LEMMA PromoStays ==
    ASSUME IndexInv, IndexInv', BytesOK, DeltasOK, PromoOK, promo # None,
           promo.step \in {"copy", "publish"},
           NEW t, NEW p \in Paths, t = promo.time, p = promo.path,
           NEW Keep \in SUBSET Times, t \in Keep,
           \A u \in Keep :
               /\ Untouched(u, p)
               /\ IsDelta(u, p) /\ rdelta[u][p] # None =>
                      IF base[u][p] = Current
                      THEN current'[p] \in {None, current[p]} \/ current'[p] # rdelta[u][p].basis
                      ELSE base[u][p] \in Keep
    PROVE  /\ IsDelta(t, p)'
           /\ Recon(t, p)' \in {None, Wrong, promo.bytes}
<1>1. PICK b, c : b = current[p] /\ c = current'[p]
  OBVIOUS
<1>2. FileOn(p, b)[t] \in {None, Wrong, promo.bytes} /\ IsDelta(t, p)
  BY <1>1, ReconIs DEF PromoOK, ReconIsFile
<1>3. FileOn(p, c)'[t] \in {None, Wrong, FileOn(p, b)[t]}
  <2>1. \A u \in Keep :
           /\ Untouched(u, p)
           /\ IsDelta(u, p) /\ rdelta[u][p] # None =>
                  IF base[u][p] = Current THEN c \in {None, b} \/ c # rdelta[u][p].basis
                  ELSE base[u][p] \in Keep
    BY <1>1
  <2> HIDE DEF IndexInv
  <2>2. \A u \in Keep : FileOn(p, c)'[u] \in {None, Wrong, FileOn(p, b)[u]}
    BY <2>1, NothingNew
  <2> QED BY <2>2
<1>4. Recon(t, p)' = FileOn(p, c)'[t]
  BY <1>1, ReconIsThen DEF ReconIsFile
<1> QED BY <1>2, <1>3, <1>4 DEF Untouched

(* startRun: the new snapshot is empty and its state that of the last.     *)
LEMMA StartRunBytes ==
    ASSUME IndexInv, IndexInv', ByteInv, startRun
    PROVE  ByteInv'
<1> USE DEF ByteInv, startRun, lock
<1>1. clock \in 0..MaxRuns /\ clock' = clock + 1 /\ clock' \in Times
      /\ snaps \subseteq 1..clock /\ clock' \notin snaps /\ published \subseteq snaps
  BY DEF IndexInv, IndexOK
<1>2. \A t \in 0..MaxRuns, p \in Paths :
          hist'[t][p] = IF t = clock' THEN current[p] ELSE hist[t][p]
  BY <1>1 DEF BytesOK
<1>3. BytesOK'
  <2>1. hist' \in [0..MaxRuns -> [Paths -> 0..MaxRuns \cup {None}]]
    BY <1>1 DEF BytesOK
  <2> QED BY <2>1 DEF BytesOK
<1>4. HistoryOK'
  BY <1>1, <1>2 DEF HistoryOK
<1>5. EntriesOK'
  BY <1>1, <1>2 DEF EntriesOK, Replaced
<1>6. DeltasOK' /\ LockOK' /\ DeltaifyOK'
  BY DEF DeltasOK, LockOK, DeltaifyOK, Pruning
<1>7. TransferOK'
  <2>1. \A t \in Times, p \in Paths : base[t][p] # clock'
    BY <1>1 DEF IndexInv, BasesLive
  <2>2. \A p \in Paths : hist'[clock' - 1][p] = current[p]
    BY <1>1, <1>2 DEF HistoryOK
  <2>3. \A p \in Paths : rdelta[clock'][p] = None
    BY <1>1 DEF EntriesOK
  <2> QED BY <1>1, <2>1, <2>2, <2>3 DEF TransferOK
<1>8. PromoOK'
  <2> SUFFICES ASSUME promo # None PROVE PromoOK'
    BY DEF PromoOK
  <2>1. PICK t \in Times, p \in Paths : t = promo.time /\ p = promo.path
    BY DEF BytesOK
  <2>2. \A u \in Times : Untouched(u, p)
    BY DEF Untouched, IsDelta
  <2>3. \A u \in Times : IsDelta(u, p) /\ base[u][p] # Current => base[u][p] \in Times
    BY DEF IsDelta, IndexInv, IndexOK, BasesLive
  <2>4. promo.step \in {"copy", "publish"} =>
            IsDelta(t, p)' /\ Recon(t, p)' \in {None, Wrong, promo.bytes}
    BY <2>1, <2>2, <2>3, PromoStays
  <2> QED
    BY <1>1, <2>1, <2>4 DEF PromoOK, IsDelta
<1> QED BY <1>3, <1>4, <1>5, <1>6, <1>7, <1>8

(* What rsync does to p in either phase: its old bytes go to the version   *)
(* directory.  No published delta was computed against a file of this run. *)
RsyncMoves(p, new) ==
    /\ full' = Replace(full, clock, p, current[p])
    /\ current' = [current EXCEPT ![p] = new]
    /\ hist' = Replace(hist, clock, p, new)
    /\ UNCHANGED <<snaps, rdelta, published, base, clock, pc, todo, lock, doomed>>

LEMMA RsyncMovesBytes ==
    ASSUME IndexInv, IndexInv', ByteInv, NEW p \in Paths, p \notin changed,
           NEW new \in {clock, None}, RsyncMoves(p, new),
           IF new = None THEN pc = "delete" /\ current[p] # None ELSE pc = "transfer",
           changed' = IF new = None THEN changed ELSE changed \cup {p}
    PROVE  ByteInv'
<1> USE DEF ByteInv, RsyncMoves, lock
<1>1. clock \in Times /\ clock \in snaps /\ clock \notin published
      /\ snaps \subseteq 1..clock /\ published \subseteq snaps
  BY DEF IndexInv, IndexOK, RunIsSafe, TransferOK
<1>2. \A t \in Times, q \in Paths :
          full'[t][q] = IF t = clock /\ q = p THEN current[p] ELSE full[t][q]
  BY StoreTables
<1>3. \A t \in 0..MaxRuns, q \in Paths :
          hist'[t][q] = IF t = clock /\ q = p THEN new ELSE hist[t][q]
  BY StoreTables
<1>4. \A q \in Paths : current'[q] = IF q = p THEN new ELSE current[q]
  BY DEF BytesOK
<1>5. current[p] # None => hist[clock - 1][p] = current[p] /\ current[p] \in 0..(clock - 1)
  BY <1>1 DEF TransferOK, HistoryOK
<1>6. BytesOK'
  <2>1. full' \in [Times -> [Paths -> Bytes]]
    BY <1>1, StoreTables DEF BytesOK, Bytes
  <2>2. hist' \in [0..MaxRuns -> [Paths -> 0..MaxRuns \cup {None}]]
    <3>1. new \in 0..MaxRuns \cup {None}
      BY <1>1
    <3> QED BY <3>1, StoreTables
  <2>3. current' \in [Paths -> 0..MaxRuns \cup {None}]
    BY <1>1 DEF BytesOK
  <2> QED BY <2>1, <2>2, <2>3 DEF BytesOK
<1>7. HistoryOK'
  BY <1>1, <1>3, <1>4 DEF HistoryOK
<1>8. EntriesOK'
  <2>1. current[p] # None => hist'[clock - 1][p] = current[p] /\ hist'[clock][p] # current[p]
    BY <1>1, <1>3, <1>5
  <2>2. \A t \in snaps, q \in Paths : (t # clock \/ q # p) /\ Replaced(t, q) => Replaced(t, q)'
    <3> SUFFICES ASSUME NEW t \in snaps, NEW q \in Paths, t # clock \/ q # p
                 PROVE  hist'[t][q] = hist[t][q] /\ hist'[t - 1][q] = hist[t - 1][q]
      BY DEF Replaced
    <3>1. t \in 1..clock
      BY <1>1
    <3> QED BY <3>1, <1>1, <1>3
  <2>3. rdelta[clock][p] = None
    BY DEF TransferOK
  <2>4. full'[clock][p] # None => Replaced(clock, p)'
    BY <1>1, <1>2, <2>1 DEF Replaced
  <2>5. \A t \in snaps, q \in Paths :
           full'[t][q] # None \/ rdelta[t][q] # None => Replaced(t, q)'
    BY <1>1, <1>2, <2>2, <2>3, <2>4 DEF EntriesOK
  <2> QED BY <1>1, <1>2, <2>5 DEF EntriesOK
<1>9. DeltasOK' /\ LockOK' /\ DeltaifyOK'
  BY DEF DeltasOK, LockOK, DeltaifyOK, Pruning
<1>10. TransferOK'
  <2>1. \A q \in Paths \ changed' :
            pc = "transfer" \/ current'[q] # None => hist'[clock - 1][q] = current'[q]
    BY <1>1, <1>3, <1>4 DEF TransferOK
  <2>2. \A q \in changed' : current'[q] = clock
    BY <1>4 DEF TransferOK, IndexInv, IndexOK
  <2> QED BY <1>1, <2>1, <2>2 DEF TransferOK
<1>11. PromoOK'
  <2> SUFFICES ASSUME promo # None PROVE PromoOK'
    BY DEF PromoOK
  <2>1. PICK t \in Times, q \in Paths : t = promo.time /\ q = promo.path
    BY DEF BytesOK
  <2>2. t \in published /\ t # clock
    BY <1>1, <2>1 DEF PromoOK
  <2>3. \A u \in Times \ {clock} : Untouched(u, q)
    BY <1>2 DEF Untouched, IsDelta
  <2>4. ASSUME NEW u \in Times \ {clock}, IsDelta(u, q), rdelta[u][q] # None
        PROVE  IF base[u][q] = Current
               THEN current'[q] \in {None, current[q]} \/ current'[q] # rdelta[u][q].basis
               ELSE base[u][q] \in Times \ {clock}
    <3>1. u \in published /\ u < clock
      BY <1>1, <2>4 DEF IsDelta
    <3>2. rdelta[u][q].basis \in 0..u /\ base[u][q] # clock
      BY <3>1, <2>4 DEF IsDelta, DeltasOK, TransferOK
    <3>3. base[u][q] # Current => base[u][q] \in Times
      BY <3>1, <2>4 DEF IsDelta, IndexInv, IndexOK, BasesLive
    <3> QED BY <1>4, <3>1, <3>2, <3>3
  <2>5. promo.step \in {"copy", "publish"} =>
            IsDelta(t, q)' /\ Recon(t, q)' \in {None, Wrong, promo.bytes}
    BY <2>1, <2>2, <2>3, <2>4, PromoStays
  <2> QED
    BY <1>2, <2>1, <2>2, <2>5 DEF PromoOK, IsDelta
<1> QED
  BY <1>6, <1>7, <1>8, <1>9, <1>10, <1>11

LEMMA RsyncBytes ==
    ASSUME IndexInv, IndexInv', ByteInv, NEW p \in Paths, rsyncWrite(p) \/ rsyncDelete(p)
    PROVE  ByteInv'
<1>1. CASE rsyncWrite(p)
  <2>1. PICK new : new = clock
    OBVIOUS
  <2>2. RsyncMoves(p, new)
    BY <1>1, <2>1 DEF rsyncWrite, RsyncMoves
  <2>3. new \in {clock, None} /\ new # None
    BY <2>1 DEF IndexInv, IndexOK
  <2>4. p \notin changed /\ pc = "transfer" /\ changed' = changed \cup {p}
    BY <1>1 DEF rsyncWrite
  <2> QED BY <2>2, <2>3, <2>4, RsyncMovesBytes
<1>2. CASE rsyncDelete(p)
  <2>1. RsyncMoves(p, None)
    BY <1>2 DEF rsyncDelete, RsyncMoves, run
  <2> QED BY <1>2, <2>1, RsyncMovesBytes DEF rsyncDelete, run
<1> QED BY <1>1, <1>2

\* Nothing on disk changes.
Quiet ==
    /\ UNCHANGED <<disk, hist, clock>>
    /\ promo' \in {promo, None}

(* A step that writes nothing keeps what the disk holds.                   *)
LEMMA QuietBytes ==
    ASSUME IndexInv, IndexInv', ByteInv, Quiet, LockOK',
           \/ UNCHANGED <<pc, changed, todo>>
           \/ pc' \in {"idle", "prune", "pruning"}
           \/ /\ pc \in {"transfer", "delete"} /\ pc' \in {"delete", "rebase"}
              /\ UNCHANGED <<changed, todo>>
    PROVE  ByteInv'
<1> USE DEF ByteInv, Quiet, disk
<1>1. BytesOK' /\ HistoryOK' /\ EntriesOK' /\ DeltasOK'
  <2>1. BytesOK'
    BY DEF BytesOK
  <2>2. HistoryOK'
    BY DEF HistoryOK
  <2>3. EntriesOK'
    BY DEF EntriesOK, Replaced
  <2>4. DeltasOK'
    BY DEF DeltasOK
  <2> QED BY <2>1, <2>2, <2>3, <2>4
<1>3. TransferOK' /\ DeltaifyOK'
  <2>1. CASE UNCHANGED <<pc, changed, todo>>
    BY <2>1 DEF TransferOK, DeltaifyOK, IsDelta
  <2>2. CASE pc' \in {"idle", "prune", "pruning"}
    BY <2>2 DEF TransferOK, DeltaifyOK
  <2>3. CASE /\ pc \in {"transfer", "delete"} /\ pc' \in {"delete", "rebase"}
             /\ UNCHANGED <<changed, todo>>
    BY <2>3 DEF TransferOK, DeltaifyOK
  <2> QED BY <2>1, <2>2, <2>3
<1>2. PromoOK'
  <2> SUFFICES ASSUME promo # None, promo' = promo PROVE PromoOK'
    BY DEF PromoOK
  <2>1. PICK t \in Times, p \in Paths : t = promo.time /\ p = promo.path
    BY DEF BytesOK
  <2>2. \A u \in Times : Untouched(u, p)
    BY DEF Untouched, IsDelta
  <2>3. \A u \in Times : IsDelta(u, p) /\ base[u][p] # Current => base[u][p] \in Times
    BY DEF IsDelta, IndexInv, IndexOK, BasesLive
  <2>4. promo.step \in {"copy", "publish"} =>
            IsDelta(t, p)' /\ Recon(t, p)' \in {None, Wrong, promo.bytes}
    BY <2>1, <2>2, <2>3, PromoStays
  <2> QED
    BY <2>1, <2>4 DEF PromoOK, IsDelta
<1> QED BY <1>1, <1>2, <1>3

(* The quiet steps: rsync ends, a stage ends, a prune begins or returns,   *)
(* the process dies.                                                       *)
LEMMA QuietStepsBytes ==
    ASSUME IndexInv, IndexInv', ByteInv,
           \/ rsyncTransferred \/ rsyncExit \/ rsyncFail \/ deltaifyDone
           \/ pruneVersions \/ manualPrune \/ pruneDone \/ stageFails \/ crash
           \/ \E t \in Times, p \in Paths : promoteFails(t, p)
           \/ UNCHANGED vars
    PROVE  ByteInv'
<1> USE DEF Quiet, lock, run, LockOK, Pruning
<1>1. LockOK
  BY DEF ByteInv
<1>2. CASE rsyncTransferred \/ rsyncExit \/ rsyncFail
  BY <1>1, <1>2, QuietBytes DEF rsyncTransferred, rsyncExit, rsyncFail
<1>3. CASE deltaifyDone
  BY <1>1, <1>3, QuietBytes DEF deltaifyDone
<1>4. CASE pruneVersions \/ manualPrune
  BY <1>1, <1>4, QuietBytes DEF pruneVersions, manualPrune
<1>5. CASE pruneDone \/ \E t \in Times, p \in Paths : promoteFails(t, p)
  <2>1. Quiet /\ Pruning /\ promo = None /\ promo' = None
        /\ holder' = "none" /\ pc' = (IF holder = "run" THEN "idle" ELSE pc)
        /\ UNCHANGED <<changed, todo>>
    BY <1>5 DEF pruneDone, promoteFails, PruneReturns
  <2>2. LockOK'
    BY <1>1, <2>1
  <2> QED BY <2>1, <2>2, QuietBytes
<1>6. CASE stageFails \/ crash
  BY <1>1, <1>6, QuietBytes DEF stageFails, PruneReturns, crash
<1>7. CASE UNCHANGED vars
  BY <1>1, <1>7, QuietBytes DEF vars
<1> QED
  BY <1>2, <1>3, <1>4, <1>5, <1>6, <1>7

(* rebaseDeltasWithTimestamp changes entries of published deltas only.     *)
LEMMA RebaseBytes ==
    ASSUME IndexInv, IndexInv', ByteInv, rebaseDeltasWithTimestamp
    PROVE  ByteInv'
<1> USE DEF ByteInv, rebaseDeltasWithTimestamp
<1>1. \A t \in Times, p \in Paths : base'[t][p] = IF Rebased(t, p) THEN clock ELSE base[t][p]
  OBVIOUS
<1>2. BytesOK' /\ HistoryOK' /\ EntriesOK'
  BY DEF BytesOK, HistoryOK, EntriesOK, Replaced
<1>3. DeltasOK'
  <2>1. \A t \in Times, p \in Paths : Rebased(t, p) => base[t][p] # 0
    BY DEF Rebased
  <2>2. published \subseteq Times
    BY DEF IndexInv, IndexOK
  <2> QED BY <1>1, <2>1, <2>2 DEF DeltasOK
<1>4. LockOK' /\ TransferOK' /\ DeltaifyOK' /\ PromoOK'
  BY DEF LockOK, TransferOK, DeltaifyOK, PromoOK, Pruning
<1> QED BY <1>2, <1>3, <1>4

(* Before the manifest, deltaifySnapshot writes delta files of the run's   *)
(* own snapshot, which no reader takes for deltas yet.                     *)
LEMMA OwnDeltasBytes ==
    ASSUME IndexInv, IndexInv', ByteInv,
           pc \in {"deltaify", "compute", "publish"},
           NEW row \in [Paths -> Delta \cup {None}],
           \A p \in Paths : row[p] # None => rdelta[clock][p] # None \/ full[clock][p] # None,
           rdelta' = [rdelta EXCEPT ![clock] = row],
           UNCHANGED <<current, snaps, full, published, base, clock, promo, hist>>,
           LockOK', TransferOK', DeltaifyOK'
    PROVE  ByteInv'
<1> USE DEF ByteInv
<1>1. clock \in Times /\ clock \in snaps /\ clock \notin published /\ promo = None
  BY DEF IndexInv, IndexOK, RunIsSafe, TransferOK, LockOK, Pruning
<1>2. \A t \in Times : rdelta'[t] = IF t = clock THEN row ELSE rdelta[t]
  BY <1>1 DEF BytesOK
<1>3. BytesOK'
  <2>1. rdelta' \in [Times -> [Paths -> Delta \cup {None}]]
    BY DEF BytesOK
  <2> QED BY <2>1 DEF BytesOK
<1>4. EntriesOK'
  <2>1. \A t \in Times, p \in Paths :
           rdelta'[t][p] # None => rdelta[t][p] # None \/ full[t][p] # None
    BY <1>2
  <2> QED BY <2>1, EntriesStay DEF IndexInv
<1>5. DeltasOK'
  BY <1>1, <1>2 DEF DeltasOK, IndexInv, IndexOK
<1>6. HistoryOK' /\ PromoOK'
  BY <1>1 DEF HistoryOK, PromoOK
<1> QED BY <1>3, <1>4, <1>5, <1>6

LEMMA DeltaifyStartBytes ==
    ASSUME IndexInv, IndexInv', ByteInv, deltaifyStart
    PROVE  ByteInv'
<1> USE DEF ByteInv
<1>1. CASE rdelta' = rdelta /\ pc' = "prune" /\ holder' = "none"
  <2>1. Quiet
    BY <1>1 DEF deltaifyStart, Quiet, disk
  <2>2. LockOK'
    BY <1>1 DEF deltaifyStart, LockOK, Pruning
  <2> QED BY <1>1, <2>1, <2>2, QuietBytes
<1>2. CASE pc' = "compute" /\ UNCHANGED holder
  <2>1. PICK D \in SUBSET {p \in Paths : full[clock][p] # None /\ current[p] # None} :
            /\ todo' = D
            /\ rdelta' = [rdelta EXCEPT ![clock] =
                              [p \in Paths |-> IF p \in D THEN Torn ELSE @[p]]]
    BY <1>2 DEF deltaifyStart
  <2> DEFINE row == [p \in Paths |-> IF p \in D THEN Torn ELSE rdelta[clock][p]]
  <2>2. clock \in Times
    BY DEF IndexInv, IndexOK, RunIsSafe, deltaifyStart
  <2>3. row \in [Paths -> Delta \cup {None}] /\ rdelta' = [rdelta EXCEPT ![clock] = row]
    BY <2>1, <2>2 DEF BytesOK, Torn, Delta, Bytes
  <2>4. \A p \in Paths : row[p] # None => rdelta[clock][p] # None \/ full[clock][p] # None
    OBVIOUS
  <2>5. /\ UNCHANGED <<current, snaps, full, published, base, clock, promo, hist>>
        /\ pc = "deltaify"
    BY DEF deltaifyStart
  <2>6. LockOK' /\ TransferOK'
    BY <1>2, <2>5 DEF LockOK, TransferOK, Pruning
  <2>7. DeltaifyOK'
    BY <1>2, <2>1, <2>5 DEF DeltaifyOK
  <2> HIDE DEF row, ByteInv
  <2> QED BY <2>3, <2>4, <2>5, <2>6, <2>7, OwnDeltasBytes
<1> QED BY <1>1, <1>2 DEF deltaifyStart

\* The deltas of the paths of K, as deltaifyComputed leaves them.
Computed(K, row) ==
    \A p \in K : row[p] = [basis |-> current[p], result |-> full[clock][p]]

LEMMA DeltaifyComputedBytes ==
    ASSUME IndexInv, IndexInv', ByteInv, deltaifyComputed
    PROVE  ByteInv'
<1> USE DEF ByteInv, deltaifyComputed, lock
<1> DEFINE row == [p \in Paths |->
                      IF p \in todo THEN [basis |-> current[p], result |-> full[clock][p]]
                      ELSE rdelta[clock][p]]
<1>1. clock \in Times
  BY DEF IndexInv, IndexOK, RunIsSafe
<1>2. \A p \in Paths : [basis |-> current[p], result |-> full[clock][p]] \in Delta
  BY <1>1 DEF BytesOK, Delta, Bytes
<1>3. row \in [Paths -> Delta \cup {None}] /\ rdelta' = [rdelta EXCEPT ![clock] = row]
  BY <1>1, <1>2 DEF BytesOK
<1>4. \A p \in Paths : row[p] # None => rdelta[clock][p] # None \/ full[clock][p] # None
  BY DEF DeltaifyOK
<1>5. LockOK' /\ TransferOK'
  BY DEF LockOK, TransferOK, Pruning
<1>6. DeltaifyOK'
  <2>1. rdelta'[clock] = row /\ todo \subseteq Paths
    BY <1>1, <1>3 DEF BytesOK, IndexInv, IndexOK
  <2> QED BY <2>1 DEF DeltaifyOK
<1> HIDE DEF row, ByteInv
<1> QED BY <1>3, <1>4, <1>5, <1>6, OwnDeltasBytes

(* An abort in the middle of the rdiffs leaves the deltas of K, the others *)
(* gone; an abort elsewhere writes nothing.                                *)
LEMMA AbortBytes ==
    ASSUME IndexInv, IndexInv', ByteInv, NEW K \in SUBSET Paths, abortPostProcessing(K)
    PROVE  ByteInv'
<1> USE DEF ByteInv, abortPostProcessing
<1>1. LockOK' /\ TransferOK' /\ DeltaifyOK'
  BY DEF LockOK, TransferOK, DeltaifyOK, Pruning
<1>2. CASE rdelta' = rdelta
  <2>1. Quiet
    BY <1>2 DEF Quiet, disk
  <2> QED BY <1>1, <2>1, QuietBytes
<1>3. CASE pc = "compute"
  <2> DEFINE row == [p \in Paths |->
                        IF p \in K THEN [basis |-> current[p], result |-> full[clock][p]]
                        ELSE IF p \in todo THEN None ELSE rdelta[clock][p]]
  <2>1. clock \in Times
    BY <1>3 DEF IndexInv, IndexOK, RunIsSafe
  <2>2. \A p \in Paths : [basis |-> current[p], result |-> full[clock][p]] \in Delta
    BY <2>1 DEF BytesOK, Delta, Bytes
  <2>3. row \in [Paths -> Delta \cup {None}] /\ rdelta' = [rdelta EXCEPT ![clock] = row]
    BY <1>3, <2>1, <2>2 DEF BytesOK
  <2>4. \A p \in Paths : row[p] # None => rdelta[clock][p] # None \/ full[clock][p] # None
    BY <1>3 DEF DeltaifyOK
  <2>5. UNCHANGED <<current, snaps, full, published, base, clock, promo, hist>>
    OBVIOUS
  <2> HIDE DEF row, ByteInv, abortPostProcessing
  <2> QED BY <1>1, <1>3, <2>3, <2>4, <2>5, OwnDeltasBytes
<1> QED BY <1>2, <1>3

(* deltaifyPublish makes deltas of files that were full, each rebuilding   *)
(* what it replaces.                                                       *)
LEMMA PublishBytes ==
    ASSUME IndexInv, IndexInv', ByteInv, deltaifyPublish
    PROVE  ByteInv'
<1> USE DEF ByteInv, deltaifyPublish, lock
<1>1. clock \in Times /\ clock \in snaps /\ clock \notin published /\ promo = None
  BY DEF IndexInv, IndexOK, RunIsSafe, TransferOK, LockOK, Pruning
<1>2. \A t \in Times, p \in Paths :
          base'[t][p] = IF t = clock THEN (IF p \in todo THEN Current ELSE 0) ELSE base[t][p]
  BY <1>1 DEF IndexInv, IndexOK
<1>3. BytesOK' /\ HistoryOK' /\ EntriesOK'
  BY DEF BytesOK, HistoryOK, EntriesOK, Replaced
<1>4. DeltasOK'
  <2>1. \A p \in todo : rdelta[clock][p].basis \in 0..clock
    <3> SUFFICES ASSUME NEW p \in todo PROVE rdelta[clock][p].basis \in 0..clock
      OBVIOUS
    <3>1. p \in Paths /\ clock \in 0..MaxRuns
      BY DEF IndexInv, IndexOK
    <3>2. /\ rdelta[clock][p] = [basis |-> current[p], result |-> full[clock][p]]
          /\ current[p] # None
      <4>1. pc = "publish" /\ DeltaifyOK
        OBVIOUS
      <4> HIDE DEF ByteInv, deltaifyPublish
      <4> QED BY <4>1 DEF DeltaifyOK
    <3>3. current[p] \in 0..clock \cup {None}
      BY <3>1 DEF HistoryOK
    <3> QED BY <3>2, <3>3
  <2>2. published \subseteq Times
    BY DEF IndexInv, IndexOK
  <2>3. \A p \in Paths : base'[clock][p] # 0 => p \in todo
    BY <1>1, <1>2
  <2>4. \A t \in published, p \in Paths : base'[t][p] = base[t][p]
    BY <1>1, <1>2, <2>2
  <2> QED BY <1>1, <2>1, <2>3, <2>4 DEF DeltasOK
<1>5. LockOK' /\ TransferOK' /\ PromoOK'
  BY <1>1 DEF LockOK, TransferOK, PromoOK, Pruning
<1>6. DeltaifyOK'
  BY <1>1, <1>2 DEF DeltaifyOK, IsDelta, IndexInv, IndexOK
<1> QED BY <1>3, <1>4, <1>5, <1>6

LEMMA UnlinkBytes ==
    ASSUME IndexInv, IndexInv', ByteInv, NEW p \in Paths, deltaifyUnlink(p)
    PROVE  ByteInv'
<1> USE DEF ByteInv, deltaifyUnlink, lock
<1>1. clock \in Times /\ promo = None
  BY DEF IndexInv, IndexOK, RunIsSafe, LockOK, Pruning
<1>2. /\ full' \in [Times -> [Paths -> Bytes]]
      /\ \A t \in Times, q \in Paths : full'[t][q] # None => full'[t][q] = full[t][q]
  BY StoreTables DEF BytesOK, Bytes
<1>3. BytesOK'
  BY <1>2 DEF BytesOK
<1>4. EntriesOK'
  BY <1>2, EntriesStay DEF IndexInv
<1>5. HistoryOK' /\ DeltasOK' /\ LockOK' /\ TransferOK' /\ DeltaifyOK' /\ PromoOK'
  BY <1>1 DEF HistoryOK, DeltasOK, LockOK, TransferOK, DeltaifyOK, PromoOK, Pruning, IsDelta
<1> QED BY <1>3, <1>4, <1>5

-----------------------------------------------------------------------------
(* Promotion and removal.                                                  *)

(* While a prune holds the lock, no delta is being computed or unlinked.   *)
LEMMA PruningOnly ==
    ASSUME LockOK, Pruning
    PROVE  pc \notin {"deltaify", "compute", "publish", "unlink"}
  BY DEF LockOK, Pruning

\* Some promotion writes full copies beside published deltas.
LEMMA PromoteBytes ==
    ASSUME IndexInv, IndexInv', ByteInv,
           NEW t \in Times, NEW p \in Paths, promoteDeltaToFull(t, p)
    PROVE  ByteInv'
<1> USE DEF ByteInv, promoteDeltaToFull, run
<1>1. t \in published /\ base[t][p] # 0 /\ t < clock /\ IsDelta(t, p)
  <2>1. t \in published /\ base[t][p] = Victim /\ t < Victim
    BY DEF Dependents
  <2>2. Victim \in snaps /\ snaps \subseteq 1..clock
    BY VictimIsVictim DEF IndexInv
  <2>3. clock \in Int
    BY DEF IndexInv, IndexOK
  <2> QED BY <2>1, <2>2, <2>3 DEF IsDelta
<1>2. rdelta[t][p] # None
  <2>1. Built(t, p, current[p])
    BY FileIs DEF AllBuilt
  <2> QED BY <1>1, <2>1, ReconIs DEF Built, ReconIsFile
<1>3. Recon(t, p) \in Bytes
  BY FileTyped, ReconIs DEF ReconIsFile
<1>4. /\ full' \in [Times -> [Paths -> Bytes]]
      /\ \A u \in Times, q \in Paths :
            full'[u][q] = IF u = t /\ q = p THEN Wrong ELSE full[u][q]
  BY StoreTables DEF Bytes
<1>5. BytesOK'
  BY <1>3, <1>4 DEF BytesOK
<1>6. EntriesOK'
  <2>1. \A u \in Times, q \in Paths :
           full'[u][q] # None \/ rdelta[u][q] # None => full[u][q] # None \/ rdelta[u][q] # None
    BY <1>2, <1>4
  <2> QED BY <2>1, EntriesStay DEF IndexInv
<1>7. HistoryOK' /\ DeltasOK' /\ LockOK'
  BY DEF HistoryOK, DeltasOK, LockOK, Pruning
<1>8. TransferOK' /\ DeltaifyOK'
  BY <1>1, <1>4, PruningOnly DEF TransferOK, DeltaifyOK
<1>9. Recon(t, p)' \in {None, Wrong, Recon(t, p)}
  <2>1. PICK b : b = current[p]
    OBVIOUS
  <2>2. \A u \in Times : Untouched(u, p)
    BY <1>1, <1>4 DEF Untouched, IsDelta
  <2>3. \A u \in Times : IsDelta(u, p) /\ base[u][p] # Current => base[u][p] \in Times
    BY DEF IsDelta, IndexInv, IndexOK, BasesLive
  <2>4. \A u \in Times :
           /\ Untouched(u, p)
           /\ IsDelta(u, p) /\ rdelta[u][p] # None =>
                  IF base[u][p] = Current THEN b \in {None, b} \/ b # rdelta[u][p].basis
                  ELSE base[u][p] \in Times
    BY <2>2, <2>3
  <2> HIDE DEF IndexInv, promoteDeltaToFull
  <2>5. \A u \in Times : FileOn(p, b)'[u] \in {None, Wrong, FileOn(p, b)[u]}
    BY <2>4, NothingNew
  <2>6. current'[p] = b
    BY <2>1 DEF promoteDeltaToFull
  <2> QED
    BY <2>1, <2>5, <2>6, ReconIs, ReconIsThen DEF ReconIsFile
<1>10. PromoOK'
  <2>1. promo' = [time |-> t, path |-> p, step |-> "copy", bytes |-> Recon(t, p)]
    OBVIOUS
  <2>2. promo'.time = t /\ promo'.path = p /\ promo'.step = "copy" /\ promo'.bytes = Recon(t, p)
    BY <2>1
  <2> QED BY <1>1, <1>2, <1>9, <2>2 DEF PromoOK, IsDelta
<1> QED BY <1>5, <1>6, <1>7, <1>8, <1>10

LEMMA CopiedBytes ==
    ASSUME IndexInv, IndexInv', ByteInv, promoteCopied
    PROVE  ByteInv'
<1> USE DEF ByteInv, promoteCopied, run
<1>1. PICK t \in Times, p \in Paths : t = promo.time /\ p = promo.path
  BY DEF BytesOK
<1>2. t \in published /\ t < clock /\ IsDelta(t, p) /\ rdelta[t][p] # None
  BY <1>1 DEF PromoOK
<1>3. promo.bytes \in Bytes
      /\ promo'.time = t /\ promo'.path = p /\ promo'.step = "publish"
      /\ promo'.bytes = promo.bytes
      /\ promo' \in [time : Times, path : Paths, step : {"copy", "publish", "unlink"},
                     bytes : Bytes]
  <2>1. promo \in [time : Times, path : Paths, step : {"copy", "publish", "unlink"}, bytes : Bytes]
    BY DEF BytesOK
  <2>2. promo' \in [time : Times, path : Paths, step : {"copy", "publish", "unlink"}, bytes : Bytes]
    BY <2>1
  <2> QED BY <1>1, <2>1, <2>2
<1>4. /\ full' \in [Times -> [Paths -> Bytes]]
      /\ \A u \in Times, q \in Paths :
            full'[u][q] = IF u = t /\ q = p THEN promo.bytes ELSE full[u][q]
  BY <1>1, <1>3, StoreTables
<1>5. BytesOK'
  BY <1>3, <1>4 DEF BytesOK
<1>6. EntriesOK'
  <2>1. \A u \in Times, q \in Paths :
           full'[u][q] # None \/ rdelta[u][q] # None => full[u][q] # None \/ rdelta[u][q] # None
    BY <1>2, <1>4
  <2> QED BY <2>1, EntriesStay DEF IndexInv
<1>7. HistoryOK' /\ DeltasOK' /\ LockOK'
  BY <1>3 DEF HistoryOK, DeltasOK, LockOK, Pruning
<1>8. TransferOK' /\ DeltaifyOK'
  BY <1>2, <1>4, PruningOnly DEF TransferOK, DeltaifyOK, LockOK
<1>9. Recon(t, p)' \in {None, Wrong, promo.bytes}
  <2>1. \A u \in Times : Untouched(u, p)
    BY <1>2, <1>4 DEF Untouched, IsDelta
  <2>2. \A u \in Times : IsDelta(u, p) /\ base[u][p] # Current => base[u][p] \in Times
    BY DEF IsDelta, IndexInv, IndexOK, BasesLive
  <2> QED BY <1>1, <2>1, <2>2, PromoStays
<1>10. PromoOK'
  BY <1>2, <1>3, <1>4, <1>9 DEF PromoOK, IsDelta
<1> QED BY <1>5, <1>6, <1>7, <1>8, <1>10

LEMMA PromotedBytes ==
    ASSUME IndexInv, IndexInv', ByteInv, promotePublish
    PROVE  ByteInv'
<1> USE DEF ByteInv, promotePublish, run
<1>1. PICK t \in Times, p \in Paths : t = promo.time /\ p = promo.path
  BY DEF BytesOK
<1>2. t \in published /\ t < clock
  BY <1>1 DEF PromoOK
<1>3. promo'.time = t /\ promo'.path = p /\ promo'.step = "unlink"
      /\ promo' \in [time : Times, path : Paths, step : {"copy", "publish", "unlink"},
                     bytes : Bytes]
  <2>1. promo \in [time : Times, path : Paths, step : {"copy", "publish", "unlink"}, bytes : Bytes]
    BY DEF BytesOK
  <2>2. promo' \in [time : Times, path : Paths, step : {"copy", "publish", "unlink"}, bytes : Bytes]
    BY <2>1
  <2> QED BY <1>1, <2>1, <2>2
<1>4. \A u \in Times, q \in Paths : base'[u][q] = IF u = t /\ q = p THEN 0 ELSE base[u][q]
  <2>1. base \in [Times -> [Paths -> 0..Current]]
    BY DEF IndexInv, IndexOK
  <2> QED BY <1>1, <2>1 DEF Replace
<1>5. BytesOK' /\ HistoryOK' /\ EntriesOK'
  BY <1>3 DEF BytesOK, HistoryOK, EntriesOK, Replaced
<1>6. DeltasOK' /\ LockOK'
  <2>1. published \subseteq Times
    BY DEF IndexInv, IndexOK
  <2>2. DeltasOK'
    BY <1>4, <2>1 DEF DeltasOK
  <2> QED BY <1>3, <2>2 DEF LockOK, Pruning
<1>7. TransferOK' /\ DeltaifyOK'
  <2>1. pc # "idle" => clock # 0
    BY DEF IndexInv, IndexOK, RunIsSafe
  <2> QED BY <1>4, <2>1, PruningOnly DEF TransferOK, DeltaifyOK, LockOK
<1>8. PromoOK'
  BY <1>2, <1>3, <1>4 DEF PromoOK, IsDelta
<1> QED BY <1>5, <1>6, <1>7, <1>8

LEMMA PromoteUnlinkBytes ==
    ASSUME IndexInv, IndexInv', ByteInv, promoteUnlink
    PROVE  ByteInv'
<1> USE DEF ByteInv, promoteUnlink, run
<1>1. /\ rdelta' \in [Times -> [Paths -> Delta \cup {None}]]
      /\ \A t \in Times, p \in Paths : rdelta'[t][p] # None => rdelta'[t][p] = rdelta[t][p]
  BY StoreTables DEF BytesOK
<1>2. BytesOK' /\ HistoryOK'
  BY <1>1 DEF BytesOK, HistoryOK
<1>3. EntriesOK'
  BY <1>1, EntriesStay DEF IndexInv
<1>4. DeltasOK' /\ LockOK' /\ PromoOK'
  BY <1>1 DEF DeltasOK, LockOK, PromoOK, Pruning, IndexInv, IndexOK
<1>5. TransferOK' /\ DeltaifyOK'
  <2>1. pc # "idle" => clock \in Times
    BY DEF IndexInv, IndexOK, RunIsSafe
  <2> QED BY <1>1, <2>1, PruningOnly DEF TransferOK, DeltaifyOK, LockOK
<1> QED BY <1>2, <1>3, <1>4, <1>5

(* Erasing takes entries away from one snapshot and leaves the others.     *)
Erases(t, K) ==
    /\ full' \in [Times -> [Paths -> Bytes]]
    /\ rdelta' \in [Times -> [Paths -> Delta \cup {None}]]
    /\ published' \subseteq published
    /\ \A u \in Times, p \in Paths :
          /\ full'[u][p] # None => full'[u][p] = full[u][p]
          /\ rdelta'[u][p] # None => rdelta'[u][p] = rdelta[u][p]
          /\ base'[u][p] # 0 => base'[u][p] = base[u][p]
    /\ \A u \in Times \ {t}, p \in Paths :
          /\ full'[u][p] = full[u][p]
          /\ rdelta'[u][p] = rdelta[u][p]
          /\ base'[u][p] = base[u][p]
    /\ \A u \in Times \ {t} : u \in published' <=> u \in published
    /\ K = {} => \A p \in Paths : full'[t][p] = None /\ rdelta'[t][p] = None

LEMMA EraseIs ==
    ASSUME BytesOK, IndexOK, NEW t \in Times, NEW K \in SUBSET Paths, NEW m \in BOOLEAN,
           Erase(t, K, m)
    PROVE  Erases(t, K)
<1>1. /\ full' = [full EXCEPT ![t] = [p \in Paths |-> IF p \in K THEN full[t][p] ELSE None]]
      /\ rdelta' = [rdelta EXCEPT ![t] = [p \in Paths |-> IF p \in K THEN rdelta[t][p] ELSE None]]
      /\ full \in [Times -> [Paths -> Bytes]]
      /\ rdelta \in [Times -> [Paths -> Delta \cup {None}]]
  BY DEF Erase, BytesOK
<1>2. \A u \in Times, p \in Paths :
          /\ full'[u][p] = IF u = t /\ p \notin K THEN None ELSE full[u][p]
          /\ rdelta'[u][p] = IF u = t /\ p \notin K THEN None ELSE rdelta[u][p]
  BY <1>1
<1>3. full' \in [Times -> [Paths -> Bytes]] /\ rdelta' \in [Times -> [Paths -> Delta \cup {None}]]
  BY <1>1 DEF Bytes
<1>4. /\ published' \subseteq published
      /\ \A u \in Times \ {t} : u \in published' <=> u \in published
      /\ \A u \in Times, p \in Paths : base'[u][p] # 0 => base'[u][p] = base[u][p]
      /\ \A u \in Times \ {t}, p \in Paths : base'[u][p] = base[u][p]
  BY DEF Erase, IndexOK
<1> QED BY <1>2, <1>3, <1>4 DEF Erases

LEMMA RemoveBytes ==
    ASSUME IndexInv, IndexInv', ByteInv, NEW K \in SUBSET Paths, NEW m \in BOOLEAN,
           removeSnapshot(K, m) \/ (removeDone /\ K = {} /\ m = FALSE)
    PROVE  ByteInv'
<1> USE DEF ByteInv
<1>0. PICK v : v = Victim
  OBVIOUS
<1>1. /\ Pruning /\ promo = None /\ Erases(v, K)
      /\ UNCHANGED <<current, hist, promo, holder, clock, pc, changed, todo>>
      /\ v \in Times /\ v \in victims
      /\ (pc # "idle" => clock # v /\ clock \in Times)
  <2>1. IndexOK /\ victims # {}
    BY DEF removeSnapshot, removeDone, IndexInv
  <2>2. Victim \in victims /\ Victim \in Times
    BY <2>1, VictimIsVictim DEF IndexOK
  <2>3. Erase(v, K, m)
    BY <1>0 DEF removeSnapshot, removeDone
  <2>4. Erases(v, K)
    BY <1>0, <2>1, <2>2, <2>3, EraseIs
  <2> QED
    BY <1>0, <2>2, <2>4 DEF removeSnapshot, removeDone, run, lock, IndexInv, IndexOK, RunIsSafe
<1>2. BytesOK'
  BY <1>1 DEF Erases, BytesOK
<1>3. EntriesOK'
  <2>1. CASE snaps' = snaps
    BY <1>1, <2>1, EntriesStay DEF IndexInv, Erases
  <2>2. CASE snaps' = snaps \ {v} /\ K = {}
    <3>1. \A t \in Times \ {v}, p \in Paths : full'[t][p] = full[t][p] /\ rdelta'[t][p] = rdelta[t][p]
      BY <1>1 DEF Erases
    <3>2. \A p \in Paths : full'[v][p] = None /\ rdelta'[v][p] = None
      BY <1>1, <2>2 DEF Erases
    <3>0. snaps' \subseteq Times \ {v} /\ snaps' \subseteq snaps
      BY <2>2 DEF IndexInv, IndexOK
    <3>5. \A t \in snaps, p \in Paths : full[t][p] # None \/ rdelta[t][p] # None => Replaced(t, p)
      BY DEF EntriesOK
    <3>3. ASSUME NEW t \in snaps', NEW p \in Paths, full'[t][p] # None \/ rdelta'[t][p] # None
          PROVE  Replaced(t, p)
      <4>1. t \in snaps /\ t \in Times \ {v}
        BY <3>0
      <4>2. full[t][p] # None \/ rdelta[t][p] # None
        BY <3>1, <3>3, <4>1
      <4> QED BY <3>5, <4>1, <4>2
    <3>4. \A t \in Times \ snaps', p \in Paths : full'[t][p] = None /\ rdelta'[t][p] = None
      BY <2>2, <3>1, <3>2 DEF EntriesOK
    <3> QED BY <1>1, <3>3, <3>4 DEF EntriesOK, Replaced
  <2> QED BY <1>0, <2>1, <2>2 DEF removeSnapshot, removeDone
<1>4. DeltasOK'
  <2>1. published' \subseteq published /\ published \subseteq Times
    BY <1>1 DEF Erases, IndexInv, IndexOK
  <2>2. \A t \in published', p \in Paths :
            /\ base'[t][p] # 0 => base'[t][p] = base[t][p]
            /\ rdelta'[t][p] # None => rdelta'[t][p] = rdelta[t][p]
    BY <1>1, <2>1 DEF Erases
  <2> QED BY <2>1, <2>2 DEF DeltasOK
<1>5. HistoryOK' /\ LockOK' /\ PromoOK'
  BY <1>1 DEF HistoryOK, LockOK, PromoOK, Pruning
<1>6. TransferOK'
  <2>1. pc # "idle" =>
           /\ clock \in published' <=> clock \in published
           /\ \A p \in Paths : rdelta'[clock][p] = rdelta[clock][p]
           /\ \A t \in Times, p \in Paths : base'[t][p] # 0 => base'[t][p] = base[t][p]
    BY <1>1 DEF Erases
  <2> QED BY <1>1, <2>1 DEF TransferOK
<1>7. DeltaifyOK'
  BY <1>1, PruningOnly DEF DeltaifyOK
<1> QED BY <1>2, <1>3, <1>4, <1>5, <1>6, <1>7

(* The invariant is inductive.                                             *)
LEMMA ByteInvStep == IndexInv /\ IndexInv' /\ ByteInv /\ [Next]_vars => ByteInv'
<1> SUFFICES ASSUME IndexInv, IndexInv', ByteInv, [Next]_vars PROVE ByteInv'
  OBVIOUS
<1>1. CASE startRun
  BY <1>1, StartRunBytes
<1>2. CASE Rsync
  BY <1>2, RsyncBytes, QuietStepsBytes DEF Rsync
<1>3. CASE rebaseDeltasWithTimestamp
  BY <1>3, RebaseBytes
<1>4. CASE Deltaify
  BY <1>4, DeltaifyStartBytes, DeltaifyComputedBytes, PublishBytes, UnlinkBytes,
     QuietStepsBytes DEF Deltaify
<1>5. CASE pruneVersions \/ manualPrune \/ stageFails \/ crash \/ UNCHANGED vars
  BY <1>5, QuietStepsBytes
<1>6. CASE PruneStep
  <2>1. CASE \E t \in Times, p \in Paths : promoteDeltaToFull(t, p)
    BY <2>1, PromoteBytes
  <2>2. CASE \/ pruneDone
             \/ \E t \in Times, p \in Paths : promoteFails(t, p)
    BY <2>2, QuietStepsBytes
  <2>3. CASE promoteCopied \/ promotePublish \/ promoteUnlink
    BY <2>3, CopiedBytes, PromotedBytes, PromoteUnlinkBytes
  <2>4. CASE \E K \in SUBSET Paths, m \in BOOLEAN : removeSnapshot(K, m)
    BY <2>4, RemoveBytes
  <2>5. CASE removeDone
    BY <2>5, RemoveBytes
  <2> QED BY <1>6, <2>1, <2>2, <2>3, <2>4, <2>5 DEF PruneStep
<1>7. CASE \E K \in SUBSET Paths : abortPostProcessing(K)
  BY <1>7, AbortBytes
<1> QED
  BY <1>1, <1>2, <1>3, <1>4, <1>5, <1>6, <1>7 DEF Next

(* In every behaviour every variable has its type: no reconstruction,      *)
(* however stale its chain, puts anything else into a file.                *)
THEOREM TypesCorrect == Spec => []TypeOK
<1>1. IndexInv /\ ByteInv => TypeOK
  BY DEF IndexInv, ByteInv, TypeOK
<1> QED
  BY <1>1, IndexInvInit, IndexInvStep, ByteInvInit, ByteInvStep, PTL DEF Spec

-----------------------------------------------------------------------------
(* What maintenance does to the chains.                                    *)

Removes == (\E K \in SUBSET Paths, m \in BOOLEAN : removeSnapshot(K, m)) \/ removeDone

(* The steps that write layers: rsync, which moves a file into the run's   *)
(* own snapshot; rebasing; publishing; the second step of a promotion; and *)
(* the removal of a snapshot.  The others write what nobody reads yet, or  *)
(* what nobody reads any more.                                             *)
LEMMA LayerWrites ==
    ASSUME IndexInv, IndexInv', ByteInv, [Next]_vars,
           NEW u \in Times, NEW p \in Paths, ~Untouched(u, p)
    PROVE  \/ u = clock /\ (rsyncWrite(p) \/ rsyncDelete(p))
           \/ rebaseDeltasWithTimestamp /\ Rebased(u, p)
           \/ deltaifyPublish /\ u = clock /\ p \in todo
           \/ promotePublish /\ u = promo.time /\ p = promo.path
           \/ Removes /\ u = Victim
<1> USE DEF ByteInv
<1>1. CASE \E q \in Paths : rsyncWrite(q) \/ rsyncDelete(q)
  <2>1. PICK q \in Paths : rsyncWrite(q) \/ rsyncDelete(q)
    BY <1>1
  <2>2. /\ full' = Replace(full, clock, q, current[q])
        /\ UNCHANGED <<rdelta, published, base>>
    BY <2>1 DEF rsyncWrite, rsyncDelete
  <2>3. \A v \in Times, r \in Paths : full'[v][r] = full[v][r] \/ (v = clock /\ r = q)
    BY <2>2, StoreTables
  <2> QED BY <2>1, <2>2, <2>3 DEF Untouched, IsDelta
<1>2. CASE UNCHANGED <<published, base, rdelta, full>>
  BY <1>2 DEF Untouched, IsDelta
<1>3. CASE rebaseDeltasWithTimestamp
  BY <1>3 DEF rebaseDeltasWithTimestamp, Untouched, IsDelta
<1>4. CASE deltaifyPublish
  <2>1. clock \in Times /\ clock \notin published
    BY <1>4 DEF deltaifyPublish, IndexInv, IndexOK, RunIsSafe, TransferOK
  <2>2. base'[u][p] = IF u = clock THEN (IF p \in todo THEN Current ELSE 0) ELSE base[u][p]
    BY <1>4, <2>1 DEF deltaifyPublish, IndexInv, IndexOK
  <2> QED BY <1>4, <2>1, <2>2 DEF deltaifyPublish, Untouched, IsDelta
<1>5. CASE promotePublish
  <2>1. base'[u][p] = IF u = promo.time /\ p = promo.path THEN 0 ELSE base[u][p]
    <3>1. base \in [Times -> [Paths -> 0..Current]]
      BY DEF IndexInv, IndexOK
    <3> QED BY <1>5, <3>1 DEF promotePublish, Replace
  <2> QED BY <1>5, <2>1 DEF promotePublish, Untouched, IsDelta
<1>6. CASE Removes
  <2>0. PICK v : v = Victim
    OBVIOUS
  <2>1. PICK K \in SUBSET Paths, m \in BOOLEAN : Erase(v, K, m) /\ v = Victim
    BY <1>6, <2>0 DEF Removes, removeSnapshot, removeDone
  <2>2. v \in Times
    <3>1. IndexOK /\ victims # {}
      BY <1>6 DEF Removes, removeSnapshot, removeDone, IndexInv
    <3> QED BY <2>1, <3>1, VictimIsVictim DEF IndexOK
  <2>3. Erases(v, K)
    BY <2>1, <2>2, EraseIs DEF IndexInv
  <2>4. u # v => Untouched(u, p)
    BY <2>3 DEF Erases, Untouched, IsDelta
  <2> QED BY <1>6, <2>1, <2>4
<1>7. CASE deltaifyStart \/ deltaifyComputed \/ \E K \in SUBSET Paths : abortPostProcessing(K)
  <2>1. CASE UNCHANGED rdelta
    BY <1>2, <1>7, <2>1 DEF deltaifyStart, deltaifyComputed, abortPostProcessing
  <2>2. CASE ~UNCHANGED rdelta
    <3>1. pc \in {"deltaify", "compute", "publish"} /\ clock \in Times /\ clock \notin published
      BY <1>7, <2>2 DEF deltaifyStart, deltaifyComputed, abortPostProcessing, TransferOK,
                        IndexInv, IndexOK, RunIsSafe
    <3>2. /\ \A v \in Times \ {clock} : rdelta'[v] = rdelta[v]
          /\ UNCHANGED <<published, base, full>>
      BY <1>7, <2>2, <3>1 DEF deltaifyStart, deltaifyComputed, abortPostProcessing, BytesOK
    <3> QED BY <3>1, <3>2 DEF Untouched, IsDelta
  <2> QED BY <2>1, <2>2
<1>8. CASE \E q \in Paths : deltaifyUnlink(q)
  <2>1. PICK q \in Paths : deltaifyUnlink(q)
    BY <1>8
  <2>2. IsDelta(clock, q)
    BY <2>1 DEF DeltaifyOK, deltaifyUnlink
  <2>3. \A v \in Times, r \in Paths : full'[v][r] = full[v][r] \/ (v = clock /\ r = q)
    BY <2>1, StoreTables DEF deltaifyUnlink
  <2> QED BY <2>1, <2>2, <2>3 DEF Untouched, IsDelta, deltaifyUnlink
<1>9. CASE \E v \in Times, q \in Paths : promoteDeltaToFull(v, q)
  <2>1. PICK v \in Times, q \in Paths : promoteDeltaToFull(v, q)
    BY <1>9
  <2>2. IsDelta(v, q)
    <3>1. v \in published /\ base[v][q] = Victim /\ v < Victim
      BY <2>1 DEF promoteDeltaToFull, Dependents
    <3> QED BY <3>1 DEF IsDelta, IndexInv, IndexOK
  <2>3. \A w \in Times, r \in Paths : full'[w][r] = full[w][r] \/ (w = v /\ r = q)
    BY <2>1, StoreTables DEF promoteDeltaToFull
  <2> QED BY <2>1, <2>2, <2>3 DEF Untouched, IsDelta, promoteDeltaToFull
<1>10. CASE promoteCopied
  <2>1. IsDelta(promo.time, promo.path)
    BY <1>10 DEF PromoOK, promoteCopied
  <2>2. \A v \in Times, r \in Paths :
            full'[v][r] = full[v][r] \/ (v = promo.time /\ r = promo.path)
    BY <1>10, StoreTables DEF promoteCopied
  <2> QED BY <1>10, <2>1, <2>2 DEF Untouched, IsDelta, promoteCopied
<1>11. CASE promoteUnlink
  <2>1. ~IsDelta(promo.time, promo.path)
    BY <1>11 DEF PromoOK, promoteUnlink
  <2>2. \A v \in Times, r \in Paths :
            rdelta'[v][r] = rdelta[v][r] \/ (v = promo.time /\ r = promo.path)
    BY <1>11, StoreTables DEF promoteUnlink
  <2> QED BY <1>11, <2>1, <2>2 DEF Untouched, IsDelta, promoteUnlink
<1>12. CASE \/ startRun \/ rsyncTransferred \/ rsyncExit \/ rsyncFail \/ deltaifyDone
            \/ pruneVersions \/ manualPrune \/ pruneDone \/ stageFails \/ crash
            \/ UNCHANGED vars
            \/ \E v \in Times, q \in Paths : promoteFails(v, q)
  BY <1>2, <1>12 DEF startRun, rsyncTransferred, rsyncExit, rsyncFail, deltaifyDone,
     pruneVersions, manualPrune, pruneDone, stageFails, crash, promoteFails, vars, disk
<1> QED
  BY <1>1, <1>3, <1>4, <1>5, <1>6, <1>7, <1>8, <1>9, <1>10, <1>11, <1>12
  DEF Next, Rsync, Deltaify, PruneStep, Removes

(* The file of the destination is another one after every rsync step.      *)
LEMMA RsyncMovesFile ==
    ASSUME IndexInv, ByteInv, NEW p \in Paths, rsyncWrite(p) \/ rsyncDelete(p)
    PROVE  current' # current
<1> USE DEF ByteInv
<1>1. p \in DOMAIN current /\ clock \in Times /\ current[p] \in 0..MaxRuns \cup {None}
  BY DEF BytesOK, IndexInv, IndexOK, RunIsSafe, rsyncWrite, rsyncDelete
<1>2. CASE rsyncWrite(p)
  <2>1. current[p] # clock
    BY <1>1, <1>2 DEF rsyncWrite, TransferOK, HistoryOK
  <2> QED BY <1>1, <1>2, <2>1 DEF rsyncWrite
<1>3. CASE rsyncDelete(p)
  BY <1>1, <1>3 DEF rsyncDelete
<1> QED BY <1>2, <1>3

(* Publishing: each delta rebuilds the full file it stands for.            *)
LEMMA PublishChain ==
    ASSUME IndexInv, IndexInv', ByteInv, deltaifyPublish,
           NEW p \in todo, NEW b, b = current[p]
    PROVE  FileOn(p, b)'[clock] = FileOn(p, b)[clock]
<1> USE DEF ByteInv, deltaifyPublish
<1>1. clock \in Times /\ clock \notin published /\ p \in Paths
  BY DEF IndexInv, IndexOK, RunIsSafe, TransferOK
<1>2. base'[clock][p] = Current
  BY <1>1 DEF IndexInv, IndexOK
<1>3. Built(clock, p, b) /\ \A u \in Times : Built(u, p, b)'
  BY <1>1, FileIs, FileIsThen DEF AllBuilt
<1>4. PICK t : t = clock
  OBVIOUS
<1>5. rdelta[t][p] = [basis |-> b, result |-> full[t][p]] /\ b # None
  BY <1>4 DEF DeltaifyOK
<1>6. [basis |-> b, result |-> full[t][p]] # None
  <2>1. [basis |-> b, result |-> full[t][p]] \in Delta
    BY <1>1, <1>4 DEF BytesOK, Delta, Bytes
  <2> QED BY <2>1, DeltaAssumption
<1>7. FileOn(p, b)[t] = full[t][p]
  BY <1>1, <1>3, <1>4 DEF Built, IsDelta
<1>8. IsDelta(t, p)' /\ base'[t][p] = Current
  BY <1>2, <1>4 DEF IsDelta
<1>9. FileOn(p, b)'[t] = full[t][p]
  BY <1>1, <1>3, <1>4, <1>5, <1>6, <1>8 DEF Built, Patch
<1> QED BY <1>4, <1>7, <1>9

(* Rebasing touches versions that no longer reconstruct, only: rsync has   *)
(* replaced the file their deltas were computed against.                   *)
LEMMA RebaseChain ==
    ASSUME IndexInv, ByteInv, rebaseDeltasWithTimestamp,
           NEW p \in Paths, NEW b, b = current[p], NEW u \in Times, Rebased(u, p)
    PROVE  ~Known(FileOn(p, b)[u])
<1> USE DEF ByteInv, rebaseDeltasWithTimestamp
<1>1. u \in published /\ u < clock /\ p \in changed /\ base[u][p] = Current /\ IsDelta(u, p)
  BY DEF Rebased, IsDelta, IndexInv, IndexOK
<1>2. b = clock /\ clock \in Times
  BY <1>1 DEF TransferOK, IndexInv, IndexOK, RunIsSafe
<1>3. rdelta[u][p] # None => rdelta[u][p].basis \in 0..u
  BY <1>1 DEF DeltasOK
<1>4. Built(u, p, b)
  BY FileIs DEF AllBuilt
<1> QED BY <1>1, <1>2, <1>3, <1>4 DEF Built, Patch, Known

(* A promoted version is full, with the bytes it reconstructed to.         *)
LEMMA PromotedChain ==
    ASSUME IndexInv, IndexInv', ByteInv, promotePublish,
           NEW p \in Paths, NEW b, b = current[p], NEW u \in Times,
           u = promo.time, p = promo.path, Known(FileOn(p, b)[u])
    PROVE  FileOn(p, b)'[u] = FileOn(p, b)[u]
<1> USE DEF ByteInv, promotePublish
<1>1. base'[u][p] = 0
  <2>1. base \in [Times -> [Paths -> 0..Current]]
    BY DEF IndexInv, IndexOK
  <2> QED BY <2>1 DEF Replace
<1>2. FileOn(p, b)[u] = promo.bytes /\ full[u][p] = promo.bytes
  BY ReconIs DEF ReconIsFile, PromoOK, Known
<1>3. Built(u, p, b)' /\ ~IsDelta(u, p)'
  BY <1>1, FileIsThen DEF AllBuilt, IsDelta
<1> QED BY <1>2, <1>3 DEF Built

(* Removing a snapshot touches no other, and no other is built on it.      *)
LEMMA RemoveChain ==
    ASSUME IndexInv, IndexInv', ByteInv, Removes,
           NEW p \in Paths, NEW b, NEW t \in Retained, t \in Retained', Known(FileOn(p, b)[t])
    PROVE  FileOn(p, b)'[t] = FileOn(p, b)[t]
<1> USE DEF ByteInv
<1>1. PICK v, c, Keep : v = Victim /\ c = b /\ Keep = Times \ {Victim}
  OBVIOUS
<1>2. v \in Times /\ Dependents = {}
  <2>1. IndexOK /\ victims # {}
    BY DEF Removes, removeSnapshot, removeDone, IndexInv
  <2> QED BY <1>1, <2>1, VictimIsVictim DEF IndexOK, Removes, removeSnapshot, removeDone
<1>4. t \in Keep /\ Keep \in SUBSET Times
  BY <1>1 DEF Retained, IndexInv, IndexOK, Removes, removeSnapshot, removeDone
<1>5. \A u \in Keep : Untouched(u, p)
  <2>1. [Next]_vars
    BY DEF Removes, Next, PruneStep
  <2>2. doomed' # doomed
    BY DEF Removes, removeSnapshot, removeDone
  <2>3. /\ ~rebaseDeltasWithTimestamp /\ ~deltaifyPublish /\ ~promotePublish
        /\ ~rsyncWrite(p) /\ ~rsyncDelete(p)
    BY <2>2 DEF rebaseDeltasWithTimestamp, deltaifyPublish, promotePublish, rsyncWrite, rsyncDelete
  <2>4. \A u \in Keep : u \in Times /\ u # Victim
    BY <1>1
  <2> QED BY <2>1, <2>3, <2>4, LayerWrites
<1>6. \A u \in Keep : IsDelta(u, p) /\ base[u][p] # Current => base[u][p] \in Keep
  BY <1>1, <1>2, DependentsComplete DEF IsDelta, IndexInv, IndexOK, BasesLive
<1>7. LayersKept(p, b, c, Keep)
  BY <1>1, <1>5, <1>6 DEF LayersKept
<1>8. DeltasOK
  OBVIOUS
<1> HIDE DEF ByteInv
<1>9. KnownKept(p, b, c, Keep)
  BY <1>4, <1>7, <1>8, KnownStays
<1> QED BY <1>1, <1>4, <1>9 DEF KnownKept

(* Every step but rsync's: a version with known bytes keeps them.          *)
LEMMA MaintenanceStep ==
    ASSUME IndexInv, IndexInv', ByteInv, [Next]_vars, current' = current,
           NEW p \in Paths, NEW b, b = current[p],
           NEW t \in Retained, t \in Retained', Known(FileOn(p, b)[t])
    PROVE  FileOn(p, b)'[t] = FileOn(p, b)[t]
<1> USE DEF ByteInv
<1>1. CASE Removes
  BY <1>1, RemoveChain
<1>2. CASE ~Removes
  <2>1. PICK c, Keep : c = b /\ Keep = Times
    OBVIOUS
  <2>2. Keep \in SUBSET Times /\ t \in Keep
    BY <2>1 DEF Retained, IndexInv, IndexOK
  <2>3. ASSUME NEW u \in Times, Known(FileOn(p, b)[u]), ~Untouched(u, p)
        PROVE  FileOn(p, b)'[u] = FileOn(p, b)[u]
    <3>1. CASE u = clock /\ (rsyncWrite(p) \/ rsyncDelete(p))
      BY <3>1, RsyncMovesFile
    <3>2. CASE rebaseDeltasWithTimestamp /\ Rebased(u, p)
      BY <2>3, <3>2, RebaseChain
    <3>3. CASE deltaifyPublish /\ u = clock /\ p \in todo
      BY <3>3, PublishChain
    <3>4. CASE promotePublish /\ u = promo.time /\ p = promo.path
      BY <2>3, <3>4, PromotedChain
    <3> QED BY <1>2, <2>3, <3>1, <3>2, <3>3, <3>4, LayerWrites
  <2>4. LayersKept(p, b, c, Keep)
    BY <2>1, <2>3 DEF LayersKept, IsDelta, IndexInv, IndexOK, BasesLive
  <2>5. DeltasOK
    OBVIOUS
  <2> HIDE DEF ByteInv
  <2>6. KnownKept(p, b, c, Keep)
    BY <2>2, <2>4, <2>5, KnownStays
  <2> QED BY <2>1, <2>2, <2>6 DEF KnownKept
<1> QED BY <1>1, <1>2

(* The past is not rewritten: a step changes what hist says of the run     *)
(* under way, or of the next.                                              *)
LEMMA PastStays ==
    ASSUME IndexInv, ByteInv, [Next]_vars, current' = current,
           NEW t \in Retained, NEW p \in Paths
    PROVE  hist'[t - 1][p] = hist[t - 1][p] /\ t \in Times /\ t - 1 \in 0..MaxRuns
<1> USE DEF ByteInv
<1>1. t \in Times /\ t <= clock /\ clock \in 0..MaxRuns
  BY DEF Retained, IndexInv, IndexOK
<1>2. CASE startRun
  BY <1>1, <1>2 DEF startRun, BytesOK
<1>3. CASE \E q \in Paths : rsyncWrite(q) \/ rsyncDelete(q)
  BY <1>3, RsyncMovesFile
<1>4. CASE ~startRun /\ ~\E q \in Paths : rsyncWrite(q) \/ rsyncDelete(q)
  <2>1. hist' = hist
    BY <1>4 DEF Next, Rsync, rsyncTransferred, rsyncExit, rsyncFail, rebaseDeltasWithTimestamp,
       Deltaify, deltaifyStart, deltaifyComputed, deltaifyPublish, deltaifyUnlink, deltaifyDone,
       pruneVersions, manualPrune, PruneStep, promoteDeltaToFull, promoteFails, promoteCopied,
       promotePublish, promoteUnlink, removeSnapshot, removeDone, pruneDone,
       abortPostProcessing, stageFails, crash, vars
  <2> QED BY <1>1, <2>1
<1> QED BY <1>2, <1>3, <1>4

(* In every behaviour, whatever fails, aborts, crashes or prunes, no step  *)
(* but rsync's own writes turns a retained version that reconstructs       *)
(* exactly into one that does not.                                         *)
THEOREM MaintenanceIsExact == Spec => MaintenanceKeepsExact
<1> DEFINE Kept == \A t \in Times, p \in Paths :
                       /\ t \in Retained /\ t \in Retained'
                       /\ current' = current
                       /\ Replaced(t, p)
                       /\ Exact(t, p)
                       => Exact(t, p)'
<1>1. IndexInv /\ IndexInv' /\ ByteInv /\ [Next]_vars => [Kept]_vars
  <2> SUFFICES ASSUME IndexInv, IndexInv', ByteInv, [Next]_vars,
                      NEW t \in Times, NEW p \in Paths,
                      t \in Retained, t \in Retained', current' = current,
                      Replaced(t, p), Exact(t, p)
               PROVE  Exact(t, p)'
    OBVIOUS
  <2>1. PICK b : b = current[p]
    OBVIOUS
  <2>2. hist'[t - 1][p] = hist[t - 1][p] /\ t - 1 \in 0..MaxRuns
    BY PastStays
  <2>3. FileOn(p, b)[t] = hist[t - 1][p]
    BY <2>1, ReconIs DEF Exact, ReconIsFile
  <2>4. Known(FileOn(p, b)[t])
    BY <2>2, <2>3 DEF Replaced, Known, ByteInv, BytesOK
  <2>5. FileOn(p, b)'[t] = FileOn(p, b)[t]
    BY <2>1, <2>4, MaintenanceStep
  <2>6. Recon(t, p)' = FileOn(p, b)'[t]
    BY <2>1, ReconIsThen DEF ReconIsFile
  <2> QED BY <2>2, <2>3, <2>5, <2>6 DEF Exact
<1> QED
  BY <1>1, IndexInvInit, IndexInvStep, ByteInvInit, ByteInvStep, PTL
  DEF Spec, MaintenanceKeepsExact

-----------------------------------------------------------------------------
(* The bytes on disk.                                                      *)

OnDisk(t, p) ==
    \/ ~IsDelta(t, p) /\ full[t][p] = hist[t - 1][p]
    \/ IsDelta(t, p) /\ rdelta[t][p] # None /\ rdelta[t][p].result = hist[t - 1][p]

\* The promotion under way copies the bytes its version stands for.
PromoKept ==
    promo # None /\ promo.time \in Retained /\ Replaced(promo.time, promo.path) =>
        promo.bytes = hist[promo.time - 1][promo.path]

DiskInv == ReplacedBytesOnDisk /\ PromoKept

(* What the past says of a snapshot stays, but for the moves of rsync into *)
(* the snapshot of its run.                                                *)
SamePast(t, p) == hist'[t - 1][p] = hist[t - 1][p] /\ hist'[t][p] = hist[t][p]

LEMMA PastOf ==
    ASSUME IndexInv, ByteInv, [Next]_vars, NEW t \in Retained, NEW p \in Paths,
           t # clock \/ ~(rsyncWrite(p) \/ rsyncDelete(p))
    PROVE  SamePast(t, p)
<1> USE DEF ByteInv
<1>1. t \in Times /\ t <= clock /\ clock \in 0..MaxRuns
  BY DEF Retained, IndexInv, IndexOK
<1>2. CASE startRun
  BY <1>1, <1>2 DEF startRun, BytesOK, SamePast
<1>3. CASE \E q \in Paths : rsyncWrite(q) \/ rsyncDelete(q)
  <2>0. PICK q \in Paths : rsyncWrite(q) \/ rsyncDelete(q)
    BY <1>3
  <2>1. PICK new : (rsyncWrite(q) \/ rsyncDelete(q)) /\ hist' = Replace(hist, clock, q, new)
    BY <2>0 DEF rsyncWrite, rsyncDelete
  <2>2. \A u \in 0..MaxRuns, r \in Paths :
            hist'[u][r] = IF u = clock /\ r = q THEN new ELSE hist[u][r]
    BY <2>1, StoreTables
  <2>3. t # clock \/ p # q
    BY <2>1
  <2> QED BY <1>1, <2>2, <2>3 DEF SamePast
<1>4. CASE ~startRun /\ ~\E q \in Paths : rsyncWrite(q) \/ rsyncDelete(q)
  <2>1. hist' = hist
    BY <1>4 DEF Next, Rsync, rsyncTransferred, rsyncExit, rsyncFail, rebaseDeltasWithTimestamp,
       Deltaify, deltaifyStart, deltaifyComputed, deltaifyPublish, deltaifyUnlink, deltaifyDone,
       pruneVersions, manualPrune, PruneStep, promoteDeltaToFull, promoteFails, promoteCopied,
       promotePublish, promoteUnlink, removeSnapshot, removeDone, pruneDone,
       abortPostProcessing, stageFails, crash, vars
  <2> QED BY <2>1 DEF SamePast
<1> QED BY <1>2, <1>3, <1>4

(* A snapshot that is retained after a step was so before, or is the one   *)
(* of the run that starts, which has replaced nothing yet.                 *)
LEMMA RetainedBefore ==
    ASSUME IndexInv, IndexInv', ByteInv, [Next]_vars, NEW t \in Retained', NEW p \in Paths,
           Replaced(t, p)'
    PROVE  t \in Retained /\ t \in Times
<1> USE DEF ByteInv
<1>1. t \in Times
  BY DEF Retained, IndexInv, IndexOK
<1>2. CASE startRun
  <2>1. t = clock' => hist'[t - 1][p] = hist'[t][p]
    <3>1. clock \in 0..MaxRuns /\ clock' = clock + 1 /\ clock' \in Times
      BY <1>2 DEF startRun, IndexInv, IndexOK
    <3>2. hist'[clock'] = current /\ hist'[clock] = hist[clock]
      BY <1>2, <3>1 DEF startRun, BytesOK
    <3> QED BY <3>1, <3>2 DEF HistoryOK
  <2> QED BY <1>1, <1>2, <2>1 DEF startRun, Retained, Replaced
<1>3. CASE Removes
  BY <1>1, <1>3 DEF Removes, removeSnapshot, removeDone, Retained
<1>4. CASE ~startRun /\ ~Removes
  <2>1. snaps' = snaps /\ doomed' = doomed
    BY <1>4 DEF Next, Rsync, rsyncWrite, rsyncDelete, rsyncTransferred, rsyncExit, rsyncFail,
       rebaseDeltasWithTimestamp, Deltaify, deltaifyStart, deltaifyComputed, deltaifyPublish,
       deltaifyUnlink, deltaifyDone, pruneVersions, manualPrune, PruneStep, promoteDeltaToFull,
       promoteFails, promoteCopied, promotePublish, promoteUnlink, Removes, pruneDone,
       abortPostProcessing, stageFails, crash, vars, disk
  <2> QED BY <1>1, <2>1 DEF Retained
<1> QED BY <1>2, <1>3, <1>4

\* What a promotion is about to copy is what its version stands for.
PromotesExactly ==
    \A t \in Times, p \in Paths :
        promoteDeltaToFull(t, p) /\ t \in Retained /\ Replaced(t, p) => Exact(t, p)

LEMMA DiskInvInit == Init => DiskInv
  BY DEF Init, DiskInv, ReplacedBytesOnDisk, PromoKept, Retained

LEMMA OnDiskStep ==
    ASSUME IndexInv, IndexInv', ByteInv, DiskInv, [Next]_vars
    PROVE  ReplacedBytesOnDisk'
<1> USE DEF ByteInv
<1> SUFFICES ASSUME NEW t \in Retained', NEW p \in Paths, Replaced(t, p)'
             PROVE  OnDisk(t, p)'
  BY DEF ReplacedBytesOnDisk, OnDisk
<1>1. t \in Retained /\ t \in Times
  BY RetainedBefore
<1>2. ASSUME SamePast(t, p)
      PROVE  Replaced(t, p) /\ OnDisk(t, p)
  BY <1>1, <1>2 DEF SamePast, Replaced, OnDisk, DiskInv, ReplacedBytesOnDisk
<1>3. CASE Untouched(t, p) /\ SamePast(t, p)
  BY <1>2, <1>3 DEF Untouched, SamePast, OnDisk
<1>4. CASE t = clock /\ (rsyncWrite(p) \/ rsyncDelete(p))
  <2>1. clock \notin published /\ clock \in Times
    BY <1>1, <1>4 DEF TransferOK, rsyncWrite, rsyncDelete
  <2>2. full'[clock][p] = current[p] /\ hist'[clock - 1][p] = hist[clock - 1][p]
    BY <2>1, <1>4, StoreTables DEF rsyncWrite, rsyncDelete
  <2>3. hist[clock - 1][p] = current[p]
    BY <1>4 DEF TransferOK, rsyncWrite, rsyncDelete
  <2> QED
    BY <1>4, <2>1, <2>2, <2>3 DEF OnDisk, IsDelta, rsyncWrite, rsyncDelete
<1>5. CASE rebaseDeltasWithTimestamp /\ Rebased(t, p) /\ SamePast(t, p)
  <2>1. clock # 0
    BY <1>5 DEF rebaseDeltasWithTimestamp, IndexInv, IndexOK, RunIsSafe
  <2>2. IsDelta(t, p) /\ IsDelta(t, p)'
    BY <1>1, <1>5, <2>1 DEF rebaseDeltasWithTimestamp, Rebased, IsDelta
  <2> QED
    BY <1>2, <1>5, <2>2 DEF rebaseDeltasWithTimestamp, OnDisk, SamePast
<1>6. CASE deltaifyPublish /\ t = clock /\ p \in todo /\ SamePast(t, p)
  <2>1. full[t][p] = hist[t - 1][p]
    BY <1>2, <1>6 DEF deltaifyPublish, TransferOK, OnDisk, IsDelta
  <2>2. rdelta[t][p] = [basis |-> current[p], result |-> full[t][p]]
    BY <1>6 DEF deltaifyPublish, DeltaifyOK
  <2>3. rdelta[t][p] # None
    <3>1. [basis |-> current[p], result |-> full[t][p]] \in Delta
      BY <1>1 DEF BytesOK, Delta, Bytes
    <3> QED BY <2>2, <3>1, DeltaAssumption
  <2>4. IsDelta(t, p)'
    BY <1>1, <1>6 DEF deltaifyPublish, IsDelta, IndexInv, IndexOK
  <2> QED BY <1>6, <2>1, <2>2, <2>3, <2>4 DEF OnDisk, deltaifyPublish, SamePast
<1>7. CASE promotePublish /\ t = promo.time /\ p = promo.path /\ SamePast(t, p)
  <2>1. full[t][p] = hist[t - 1][p]
    BY <1>1, <1>2, <1>7 DEF promotePublish, PromoOK, DiskInv, PromoKept
  <2>2. ~IsDelta(t, p)'
    <3>1. base \in [Times -> [Paths -> 0..Current]]
      BY DEF IndexInv, IndexOK
    <3> QED BY <1>1, <1>7, <3>1 DEF promotePublish, Replace, IsDelta
  <2> QED BY <1>7, <2>1, <2>2 DEF OnDisk, promotePublish, SamePast
<1>8. ~(Removes /\ t = Victim)
  <2>1. Removes /\ IndexOK => Victim \in snaps
    BY VictimIsVictim DEF Removes, removeSnapshot, removeDone
  <2> QED BY <2>1 DEF Removes, removeSnapshot, removeDone, Retained, IndexInv
<1>9. CASE ~(t = clock /\ (rsyncWrite(p) \/ rsyncDelete(p)))
  <2>1. SamePast(t, p)
    BY <1>1, <1>9, PastOf
  <2> QED
    BY <1>1, <1>3, <1>5, <1>6, <1>7, <1>8, <1>9, <2>1, LayerWrites
<1> QED BY <1>4, <1>9

LEMMA PromoKeptStep ==
    ASSUME IndexInv, IndexInv', ByteInv, ByteInv', DiskInv, [Next]_vars, PromotesExactly
    PROVE  PromoKept'
<1> SUFFICES ASSUME promo' # None, promo'.time \in Retained', Replaced(promo.time, promo.path)'
             PROVE  promo'.bytes = hist'[promo'.time - 1][promo'.path]
  BY DEF PromoKept
<1>1. PICK t, p : t = promo'.time /\ p = promo'.path
  OBVIOUS
<1>2. t \in Times /\ p \in Paths /\ t < clock'
  BY <1>1 DEF ByteInv, BytesOK, PromoOK
<1>3. t \in Retained
  BY <1>1, <1>2, RetainedBefore
<1>4. CASE \E u \in Times, q \in Paths : promoteDeltaToFull(u, q)
  <2>1. PICK u \in Times, q \in Paths : promoteDeltaToFull(u, q)
    BY <1>4
  <2>2. u = t /\ q = p /\ promo'.bytes = Recon(t, p) /\ hist' = hist
    BY <1>1, <2>1 DEF promoteDeltaToFull
  <2>3. Exact(t, p)
    BY <1>1, <1>3, <2>1, <2>2 DEF PromotesExactly, Replaced
  <2> QED BY <1>1, <2>2, <2>3 DEF Exact
<1>5. CASE ~\E u \in Times, q \in Paths : promoteDeltaToFull(u, q)
  <2>1. promo # None /\ promo.time = t /\ promo.path = p /\ promo'.bytes = promo.bytes
    <3>1. \/ promo' = promo
          \/ /\ promo # None
             /\ \E s \in {"publish", "unlink"} : promo' = [promo EXCEPT !.step = s]
      BY <1>5 DEF Next, startRun, Rsync, rsyncWrite, rsyncDelete, rsyncTransferred, rsyncExit,
         rsyncFail, rebaseDeltasWithTimestamp, Deltaify, deltaifyStart, deltaifyComputed,
         deltaifyPublish, deltaifyUnlink, deltaifyDone, pruneVersions, manualPrune, PruneStep,
         promoteFails, promoteCopied, promotePublish, promoteUnlink, removeSnapshot, removeDone,
         pruneDone, PruneReturns, abortPostProcessing, stageFails, crash, vars, lock
    <3>2. promo # None
      BY <3>1
    <3>3. promo \in [time : Times, path : Paths, step : {"copy", "publish", "unlink"}, bytes : Bytes]
      BY <3>2 DEF ByteInv, BytesOK
    <3> QED BY <1>1, <3>1, <3>2, <3>3
  <2>2. t # clock
    BY <1>1, <2>1 DEF ByteInv, PromoOK, IndexInv, IndexOK
  <2>3. SamePast(t, p)
    BY <1>2, <1>3, <2>2, PastOf
  <2>4. Replaced(t, p)
    BY <1>1, <2>3 DEF SamePast, Replaced
  <2> QED BY <1>1, <1>3, <2>1, <2>3, <2>4 DEF DiskInv, PromoKept, SamePast
<1> QED BY <1>4, <1>5

(* As long as what promotions copy is what their versions stand for, the   *)
(* old bytes of every file are on disk at every moment, whatever fails,    *)
(* aborts, crashes or prunes: a stale chain that a prune promotes is the   *)
(* only way to lose them.                                                  *)
THEOREM BytesStayOnDisk == Spec /\ [][PromotesExactly]_vars => []ReplacedBytesOnDisk
<1>1. DiskInv => ReplacedBytesOnDisk
  BY DEF DiskInv
<1>2. IndexInv /\ IndexInv' /\ ByteInv /\ ByteInv' /\ DiskInv /\ [Next]_vars
          /\ [PromotesExactly]_vars => DiskInv'
  <2> SUFFICES ASSUME IndexInv, IndexInv', ByteInv, ByteInv', DiskInv, [Next]_vars,
                      [PromotesExactly]_vars
               PROVE  DiskInv'
    OBVIOUS
  <2>1. ReplacedBytesOnDisk'
    BY OnDiskStep
  <2>2. CASE PromotesExactly
    BY <2>1, <2>2, PromoKeptStep DEF DiskInv
  <2>3. CASE UNCHANGED vars
    <3>1. PromoKept'
      BY <2>3 DEF DiskInv, PromoKept, Replaced, Retained, vars, disk, lock
    <3> QED BY <2>1, <3>1 DEF DiskInv
  <2> QED BY <2>2, <2>3
<1> QED
  BY <1>1, <1>2, IndexInvInit, IndexInvStep, ByteInvInit, ByteInvStep, DiskInvInit, PTL
  DEF Spec

-----------------------------------------------------------------------------
(* With nothing pruned.                                                    *)

Unpruned == "prune" \notin EnvEvents /\ "manualPrune" \notin EnvEvents

\* Every run's snapshot is there, and nobody deletes or promotes.
NothingPruned ==
    /\ snaps = 1..clock
    /\ doomed = {}
    /\ victims = {}
    /\ promo = None
    /\ holder # "manual"

LEMMA NothingPrunedInit == Init => NothingPruned
  BY DEF Init, NothingPruned

LEMMA NothingPrunedStep ==
    ASSUME Unpruned, IndexInv, NothingPruned, [Next]_vars
    PROVE  NothingPruned'
<1> USE DEF NothingPruned
<1>1. CASE startRun
  BY <1>1 DEF startRun, lock, IndexInv, IndexOK
<1>2. CASE pruneVersions \/ manualPrune
  BY <1>2 DEF pruneVersions, manualPrune, Unpruned, disk, run
<1>3. CASE PruneStep
  BY <1>3 DEF PruneStep, promoteDeltaToFull, promoteFails, promoteCopied, promotePublish,
     promoteUnlink, removeSnapshot, removeDone, pruneDone, PruneReturns, disk
<1>4. CASE /\ ~startRun /\ ~pruneVersions /\ ~manualPrune /\ ~PruneStep
  BY <1>4 DEF Next, Rsync, rsyncWrite, rsyncDelete, rsyncTransferred, rsyncExit, rsyncFail,
     rebaseDeltasWithTimestamp, Deltaify, deltaifyStart, deltaifyComputed, deltaifyPublish,
     deltaifyUnlink, deltaifyDone, abortPostProcessing, stageFails, PruneReturns, crash, vars,
     disk, run, lock
<1> QED BY <1>1, <1>2, <1>3, <1>4

(* With nothing pruned the old bytes of every file are on disk at every    *)
(* moment, whatever is deleted, fails, aborts or crashes.                  *)
THEOREM UnprunedBytesOnDisk == ASSUME Unpruned PROVE Spec => []ReplacedBytesOnDisk
<1>1. IndexInv /\ NothingPruned /\ [Next]_vars => NothingPruned'
  BY NothingPrunedStep
<1>2. NothingPruned => PromotesExactly
  BY DEF NothingPruned, PromotesExactly, promoteDeltaToFull
<1>3. Spec => [][PromotesExactly]_vars
  BY <1>1, <1>2, NothingPrunedInit, IndexInvInit, IndexInvStep, PTL DEF Spec
<1> QED BY <1>3, BytesStayOnDisk, PTL

(* A nonempty set of natural numbers has a minimum.                        *)
LEMMA MinOfNaturals ==
    ASSUME NEW S \in SUBSET Nat, S # {}
    PROVE  Min(S) \in S /\ \A x \in S : Min(S) <= x
<1> DEFINE less == OpToRel(<, Nat)
<1>1. IsWellFoundedOn(less, Nat)
  BY NatLessThanWellFounded
<1>2. PICK x \in S : \A y \in S : ~ (<<y, x>> \in less)
  <2> HIDE DEF less
  <2> QED BY <1>1, WFMin
<1>3. \A y \in S : ~(y < x)
  BY <1>2 DEF OpToRel
<1>4. \A y \in S : x <= y
  BY <1>3
<1> QED BY <1>4 DEF Min

(* A file no run replaced in between is still as it was.                   *)
LEMMA UnreplacedStays ==
    ASSUME ByteInv, NEW t \in 0..MaxRuns, NEW v \in 0..MaxRuns, t <= v, NEW p \in Paths,
           hist[t][p] # None, \A u \in (t + 1)..v : ~Replaced(u, p)
    PROVE  hist[v][p] = hist[t][p]
<1> DEFINE S == {u \in t..v : hist[u][p] # hist[t][p]}
<1> SUFFICES ASSUME S # {} PROVE FALSE
  BY DEF S
<1>1. S \in SUBSET Nat
  OBVIOUS
<1>2. PICK m : m = Min(S)
  OBVIOUS
<1>3. m \in S /\ \A x \in S : m <= x
  <2> HIDE DEF S
  <2> QED BY <1>1, <1>2, MinOfNaturals
<1>4. m \in t..v /\ hist[m][p] # hist[t][p] /\ m # t
  BY <1>3
<1>5. m - 1 \in t..v /\ m - 1 \notin S
  BY <1>3, <1>4
<1>6. hist[m - 1][p] = hist[t][p]
  BY <1>5
<1>7. ~Replaced(m, p)
  BY <1>4
<1> QED BY <1>4, <1>6, <1>7 DEF Replaced

\* The runs after t that replaced p.
ReplacedLater(t, p) == {v \in snaps : v > t /\ Replaced(v, p)}

(* The bytes of p after run t are where the next run that replaced p put   *)
(* them, or in the destination if there is none.                           *)
LEMMA WhereBytesAre ==
    ASSUME IndexInv, ByteInv, NothingPruned, NEW t \in snaps, NEW p \in Paths, hist[t][p] # None
    PROVE  IF ReplacedLater(t, p) = {} THEN current[p] = hist[t][p]
           ELSE LET v == Min(ReplacedLater(t, p))
                IN  v \in snaps /\ hist[v - 1][p] = hist[t][p]
<1>1. snaps = 1..clock /\ clock \in 0..MaxRuns /\ t \in 1..clock
  BY DEF NothingPruned, IndexInv, IndexOK
<1>2. CASE ReplacedLater(t, p) = {}
  <2>1. \A u \in (t + 1)..clock : ~Replaced(u, p)
    BY <1>1, <1>2 DEF ReplacedLater
  <2>2. hist[clock][p] = hist[t][p]
    BY <1>1, <2>1, UnreplacedStays
  <2> QED BY <1>2, <2>2 DEF ByteInv, HistoryOK
<1>3. CASE ReplacedLater(t, p) # {}
  <2>1. PICK S, v : S = ReplacedLater(t, p) /\ v = Min(S)
    OBVIOUS
  <2>2. S \in SUBSET Nat /\ S # {}
    BY <1>1, <1>3, <2>1 DEF ReplacedLater
  <2>3. v \in S /\ \A x \in S : v <= x
    BY <2>1, <2>2, MinOfNaturals
  <2>4. v \in t + 1..clock
    BY <1>1, <2>1, <2>3 DEF ReplacedLater
  <2>5. \A u \in (t + 1)..(v - 1) : ~Replaced(u, p)
    <3> SUFFICES ASSUME NEW u \in (t + 1)..(v - 1), Replaced(u, p) PROVE FALSE
      OBVIOUS
    <3>1. u \in S
      BY <1>1, <2>1, <2>4 DEF ReplacedLater
    <3> QED BY <1>1, <2>3, <2>4, <3>1
  <2>6. hist[v - 1][p] = hist[t][p]
    BY <1>1, <2>4, <2>5, UnreplacedStays
  <2> QED BY <1>1, <1>3, <2>1, <2>4, <2>6
<1> QED BY <1>2, <1>3

(* A version directory has an entry of p, and one that reconstructs, for   *)
(* the runs that replaced p and no others.                                 *)
LEMMA EntriesTellReplaced ==
    ASSUME IndexInv, ByteInv, DiskInv, NothingPruned, NEW v \in snaps, NEW p \in Paths
    PROVE  /\ HasEntry(v, p) <=> Replaced(v, p)
           /\ Provides(v, p) <=> Replaced(v, p)
<1>1. HasEntry(v, p) => Replaced(v, p)
  BY DEF ByteInv, EntriesOK, HasEntry
<1>2. Provides(v, p) => HasEntry(v, p)
  BY DEF Provides, HasEntry
<1>3. Replaced(v, p) => Provides(v, p)
  <2> SUFFICES ASSUME Replaced(v, p) PROVE Provides(v, p)
    OBVIOUS
  <2>1. v \in Retained
    BY DEF NothingPruned, Retained
  <2>2. \/ ~IsDelta(v, p) /\ full[v][p] = hist[v - 1][p]
        \/ IsDelta(v, p) /\ rdelta[v][p] # None
    BY <2>1 DEF DiskInv, ReplacedBytesOnDisk
  <2>3. hist[v - 1][p] # None
    BY DEF Replaced
  <2> QED BY <2>2, <2>3 DEF Provides
<1> QED BY <1>1, <1>2, <1>3

\* The readers of the version store tell the truth.
ReadersTrue == BrowseIsHistory /\ ResolveIsHistory

LEMMA ReadersAreTrue ==
    ASSUME IndexInv, ByteInv, DiskInv, NothingPruned
    PROVE  ReadersTrue
<1>1. ASSUME NEW t \in snaps, NEW p \in Paths, hist[t][p] # None
      PROVE  /\ TrueBytes(BrowseSource(t, p), p) = hist[t][p]
             /\ ~Replaced(t, p) => TrueBytes(ResolveSource(t, p), p) = hist[t][p]
  <2>1. PICK S : S = ReplacedLater(t, p)
    OBVIOUS
  <2>2. {v \in Newer(t) : HasEntry(v, p)} = S /\ {v \in Newer(t) : Provides(v, p)} = S
    BY <2>1, EntriesTellReplaced DEF Newer, ReplacedLater
  <2>3. Provides(t, p) => Replaced(t, p)
    BY EntriesTellReplaced
  <2>4. snaps \subseteq 1..MaxRuns
    BY DEF IndexInv, IndexOK
  <2>5. CASE S = {}
    <3>1. current[p] = hist[t][p]
      BY <1>1, <2>1, <2>5, WhereBytesAre
    <3>2. BrowseSource(t, p) = Current
      BY <1>1, <2>2, <2>5, <3>1 DEF BrowseSource
    <3>3. ~Replaced(t, p) => ResolveSource(t, p) = Current
      BY <1>1, <2>2, <2>3, <2>5, <3>1 DEF ResolveSource
    <3> QED BY <3>1, <3>2, <3>3 DEF TrueBytes
  <2>6. CASE S # {}
    <3>1. Min(S) \in snaps /\ hist[Min(S) - 1][p] = hist[t][p]
      BY <1>1, <2>1, <2>6, WhereBytesAre
    <3>2. BrowseSource(t, p) = Min(S) /\ ResolveSource(t, p) = Min(S)
      BY <2>2, <2>6 DEF BrowseSource, ResolveSource
    <3> QED BY <2>4, <3>1, <3>2 DEF TrueBytes
  <2> QED BY <2>5, <2>6
<1> QED BY <1>1 DEF ReadersTrue, BrowseIsHistory, ResolveIsHistory

LEMMA UnprunedReaders == ASSUME Unpruned PROVE Spec => []ReadersTrue
<1>1. IndexInv /\ NothingPruned /\ [Next]_vars => NothingPruned'
  BY NothingPrunedStep
<1>2. IndexInv /\ ByteInv /\ ReplacedBytesOnDisk /\ NothingPruned => ReadersTrue
  BY ReadersAreTrue DEF DiskInv, PromoKept, NothingPruned
<1> QED
  BY <1>1, <1>2, UnprunedBytesOnDisk, NothingPrunedInit, IndexInvInit, IndexInvStep,
     ByteInvInit, ByteInvStep, PTL DEF Spec

(* With nothing pruned, browseSnapshot shows every file the destination    *)
(* held after a run, from a source that has its bytes.                     *)
THEOREM BrowseTellsHistory == ASSUME Unpruned PROVE Spec => []BrowseIsHistory
<1>1. ReadersTrue => BrowseIsHistory
  BY DEF ReadersTrue
<1> QED BY <1>1, UnprunedReaders, PTL

(* With nothing pruned, a download at a snapshot is taken from a source    *)
(* with the bytes of its run, for every file the run did not replace.      *)
THEOREM ResolveTellsHistory == ASSUME Unpruned PROVE Spec => []ResolveIsHistory
<1>1. ReadersTrue => ResolveIsHistory
  BY DEF ReadersTrue
<1> QED BY <1>1, UnprunedReaders, PTL

-----------------------------------------------------------------------------
(* Chains stay exact.                                                      *)

\* Nothing is deleted, aborted or killed, and only runs prune.
Orderly == EnvEvents \subseteq {"prune"}

\* Every current-based delta of a file the run replaced is in the one manifest
\* that rebaseDeltasWithTimestamp rewrites before it stops.
RebasesReach ==
    rebaseDeltasWithTimestamp =>
        \A t \in published, p \in changed : base[t][p] = Current => t = Max(published)

\* The stages of a run between its first write and the end of its rebase.
Moved == {"transfer", "delete", "rebase"}

\* What the current-based deltas of p were computed against: until they are
\* rebased, the file the run has put aside.
Basis(p) == IF pc \in Moved /\ p \in changed THEN full[clock][p] ELSE current[p]

ChainsExact ==
    \A t \in Retained, p \in Paths : Replaced(t, p) => FileOn(p, Basis(p))[t] = hist[t - 1][p]

\* The stages as they follow one another in an orderly run.
StagesOK ==
    /\ pc \in Moved => \A p \in Paths \ changed : hist[clock - 1][p] = current[p]
    /\ ~DeltaVersioning => published = {}
    /\ pc \in {"rebase", "deltaify", "compute", "publish", "unlink"} => DeltaVersioning
    /\ holder # "manual"

ChainInv == ChainsExact /\ StagesOK

LEMMA ChainInvInit == Init => ChainInv
  BY DEF Init, ChainInv, ChainsExact, StagesOK, Retained, Moved

(* The stages follow one another.                                          *)
LEMMA StagesStep ==
    ASSUME Orderly, IndexInv, IndexInv', ByteInv, StagesOK, [Next]_vars
    PROVE  StagesOK'
<1> USE DEF StagesOK, Moved
<1>1. CASE startRun
  <2>1. clock' - 1 = clock /\ clock' \in Times /\ clock \in 0..MaxRuns
    BY <1>1 DEF startRun, IndexInv, IndexOK
  <2>2. \A p \in Paths : hist'[clock' - 1][p] = current'[p]
    BY <1>1, <2>1 DEF startRun, ByteInv, BytesOK, HistoryOK
  <2> QED BY <1>1, <2>2 DEF startRun, lock
<1>2. CASE \E p \in Paths : rsyncWrite(p)
  <2>1. PICK p \in Paths : rsyncWrite(p)
    BY <1>2
  <2>2. clock \in Times /\ clock - 1 \in 0..MaxRuns
    BY <2>1 DEF rsyncWrite, IndexInv, IndexOK, RunIsSafe
  <2>3. \A q \in Paths \ changed' : hist'[clock - 1][q] = hist[clock - 1][q] /\ current'[q] = current[q]
    BY <2>1, <2>2, StoreTables DEF rsyncWrite, ByteInv, BytesOK
  <2> QED BY <2>1, <2>3 DEF rsyncWrite, lock
<1>3. CASE Removes
  <2>1. published' \subseteq published
    BY <1>3 DEF Removes, removeSnapshot, removeDone, Erase
  <2>2. UNCHANGED <<pc, holder, changed, current, hist, clock>>
    BY <1>3 DEF Removes, removeSnapshot, removeDone, lock, run
  <2> QED BY <2>1, <2>2
<1>4. CASE deltaifyPublish
  BY <1>4 DEF deltaifyPublish, lock
<1>5. CASE /\ ~startRun /\ ~(\E p \in Paths : rsyncWrite(p)) /\ ~Removes /\ ~deltaifyPublish
  BY <1>5 DEF Orderly, Next, Rsync, rsyncDelete, rsyncTransferred, rsyncExit, rsyncFail,
     rebaseDeltasWithTimestamp, Deltaify, deltaifyStart, deltaifyComputed, deltaifyUnlink,
     deltaifyDone, pruneVersions, manualPrune, PruneStep, promoteDeltaToFull, promoteFails,
     promoteCopied, promotePublish, promoteUnlink, Removes, pruneDone, PruneReturns,
     abortPostProcessing, stageFails, crash, vars, disk, run, lock
<1> QED BY <1>1, <1>2, <1>3, <1>4, <1>5

(* A version that was exact before a step is so after it, if the step      *)
(* keeps its past and what it reconstructs to.                             *)
LEMMA ExactOn ==
    ASSUME ByteInv, ChainsExact, NEW t \in Retained, NEW p \in Paths, NEW b, b = Basis(p),
           t \in Times, SamePast(t, p), Replaced(t, p)'
    PROVE  /\ FileOn(p, b)[t] = hist'[t - 1][p]
           /\ Known(FileOn(p, b)[t])
<1>1. Replaced(t, p)
  BY DEF SamePast, Replaced
<1>2. t - 1 \in 0..MaxRuns
  OBVIOUS
<1>3. hist[t - 1][p] \in 0..MaxRuns
  BY <1>1, <1>2 DEF Replaced, ByteInv, BytesOK
<1> QED BY <1>1, <1>3 DEF ChainsExact, SamePast, Known

(* rsync puts the file aside that the current-based deltas still need.     *)
LEMMA WriteKeepsChains ==
    ASSUME IndexInv, IndexInv', ByteInv, ChainInv, NEW p \in Paths, rsyncWrite(p)
    PROVE  ChainsExact'
<1>1. clock \in Times /\ clock \in snaps /\ clock \notin published /\ pc = "transfer"
      /\ p \notin changed
  BY DEF rsyncWrite, ByteInv, IndexInv, IndexOK, RunIsSafe, TransferOK
<1>2. \A u \in Times, q \in Paths :
          full'[u][q] = IF u = clock /\ q = p THEN current[p] ELSE full[u][q]
  BY StoreTables DEF rsyncWrite, ByteInv
<1> SUFFICES ASSUME NEW t \in Retained', NEW q \in Paths, Replaced(t, q)'
             PROVE  FileOn(q, Basis(q))'[t] = hist'[t - 1][q]
  BY DEF ChainsExact
<1>3. t \in Retained /\ t \in Times
  BY DEF rsyncWrite, Retained, IndexInv, IndexOK
<1>4. \A u \in 0..MaxRuns, r \in Paths :
          hist'[u][r] = IF u = clock /\ r = p THEN clock ELSE hist[u][r]
  BY StoreTables DEF rsyncWrite, ByteInv
<1>5. PICK b : b = Basis(q)
  OBVIOUS
<1>6. Basis(q)' = b
  BY <1>1, <1>2, <1>5 DEF Basis, Moved, rsyncWrite, ByteInv, BytesOK
<1>7. CASE t = clock /\ q = p
  <2>1. Built(t, p, b)' /\ ~IsDelta(t, p)'
    BY <1>1, <1>3, <1>7, FileIsThen DEF AllBuilt, IsDelta, rsyncWrite
  <2>2. FileOn(p, b)'[t] = current[p]
    BY <1>1, <1>2, <1>7, <2>1 DEF Built
  <2>3. current[p] = hist[clock - 1][p]
    BY <1>1 DEF ChainInv, StagesOK, Moved
  <2>4. hist'[t - 1][p] = hist[t - 1][p]
    BY <1>1, <1>4, <1>7
  <2> QED BY <1>6, <1>7, <2>2, <2>3, <2>4
<1>8. CASE t # clock \/ q # p
  <2>1. SamePast(t, q)
    <3>1. t \in 1..clock /\ clock \in 0..MaxRuns
      BY <1>3 DEF IndexInv, IndexOK, Retained
    <3> QED BY <1>3, <1>4, <1>8, <3>1 DEF SamePast
  <2>2. FileOn(q, b)[t] = hist'[t - 1][q] /\ Known(FileOn(q, b)[t])
    BY <1>3, <1>5, <2>1, ExactOn DEF ChainInv
  <2>3. PICK c, Keep : c = b /\ Keep = {u \in Times : u # clock \/ q # p}
    OBVIOUS
  <2>4. \A u \in Keep : Untouched(u, q)
    BY <1>2, <2>3 DEF Untouched, IsDelta, rsyncWrite
  <2>5. \A u \in Keep : IsDelta(u, q) /\ base[u][q] # Current => base[u][q] \in Keep
    BY <1>1, <2>3 DEF IsDelta, IndexInv, IndexOK, BasesLive, ByteInv, TransferOK
  <2>6. LayersKept(q, b, c, Keep)
    BY <2>3, <2>4, <2>5 DEF LayersKept
  <2>7. t \in Keep /\ Keep \in SUBSET Times /\ DeltasOK
    BY <1>3, <1>8, <2>3 DEF ByteInv
  <2>8. KnownKept(q, b, c, Keep)
    BY <2>6, <2>7, KnownStays
  <2> QED BY <1>6, <2>2, <2>3, <2>7, <2>8 DEF KnownKept
<1> QED BY <1>7, <1>8

(* Rebasing: a delta that pointed at the destination's file points at the  *)
(* copy of that file which the run put aside.                              *)
LEMMA RebaseKeepsChains ==
    ASSUME IndexInv, IndexInv', ByteInv, ChainInv, rebaseDeltasWithTimestamp, RebasesReach
    PROVE  ChainsExact'
<1>1. clock \in Times /\ clock \in snaps /\ clock \notin published /\ pc = "rebase"
  BY DEF rebaseDeltasWithTimestamp, ByteInv, IndexInv, IndexOK, RunIsSafe, TransferOK
<1> SUFFICES ASSUME NEW t \in Retained', NEW q \in Paths, Replaced(t, q)'
             PROVE  FileOn(q, Basis(q))'[t] = hist'[t - 1][q]
  BY DEF ChainsExact
<1>2. t \in Retained /\ t \in Times /\ SamePast(t, q)
  BY DEF rebaseDeltasWithTimestamp, Retained, IndexInv, IndexOK, SamePast
<1>3. PICK b, c, own, Keep : b = Basis(q) /\ c = current[q] /\ own = clock /\ Keep = Times
  OBVIOUS
<1>4. Basis(q)' = c
  BY <1>3 DEF Basis, Moved, rebaseDeltasWithTimestamp
<1>5. FileOn(q, b)[t] = hist'[t - 1][q] /\ Known(FileOn(q, b)[t])
  BY <1>2, <1>3, ExactOn DEF ChainInv
<1>6. \A u \in Times : base'[u][q] = IF Rebased(u, q) THEN own ELSE base[u][q]
  BY <1>3 DEF rebaseDeltasWithTimestamp
<1>7. ASSUME NEW u \in Times, Rebased(u, q), Known(FileOn(q, b)[u])
      PROVE  FileOn(q, c)'[u] = FileOn(q, b)[u]
  <2>1. q \in changed /\ u \in published /\ base[u][q] = Current /\ IsDelta(u, q)
    BY <1>7 DEF Rebased, IsDelta
  <2>2. b = full[own][q]
    BY <1>1, <1>3, <2>1 DEF Basis, Moved
  <2>3. FileOn(q, c)'[own] = b
    <3>1. Built(own, q, c)' /\ ~IsDelta(own, q)' /\ full' = full
      BY <1>1, <1>3, FileIsThen DEF AllBuilt, IsDelta, rebaseDeltasWithTimestamp
    <3> QED BY <2>2, <3>1 DEF Built
  <2>4. IsDelta(u, q)' /\ base'[u][q] = own /\ own # Current /\ rdelta' = rdelta
    BY <1>1, <1>3, <1>6, <1>7, <2>1 DEF IsDelta, rebaseDeltasWithTimestamp
  <2>5. Built(u, q, b) /\ Built(u, q, c)'
    BY FileIs, FileIsThen DEF AllBuilt
  <2> QED BY <2>1, <2>3, <2>4, <2>5 DEF Built
<1>8. ASSUME NEW u \in Times, ~Rebased(u, q)
      PROVE  /\ Untouched(u, q)
             /\ IsDelta(u, q) => IF base[u][q] = Current THEN b = c ELSE base[u][q] \in Times
  <2>1. Untouched(u, q)
    BY <1>6, <1>8 DEF Untouched, IsDelta, rebaseDeltasWithTimestamp
  <2>2. IsDelta(u, q) /\ base[u][q] = Current => q \notin changed
    <3> SUFFICES ASSUME IsDelta(u, q), base[u][q] = Current, q \in changed PROVE FALSE
      OBVIOUS
    <3>1. u = Max(published)
      BY DEF RebasesReach, IsDelta
    <3>2. published \ {clock} = published
      BY <1>1
    <3> QED BY <1>8, <3>1, <3>2 DEF Rebased, IsDelta
  <2>3. q \notin changed => b = c
    BY <1>3 DEF Basis
  <2> QED BY <2>1, <2>2, <2>3 DEF IsDelta, IndexInv, IndexOK, BasesLive
<1>9. LayersKept(q, b, c, Keep)
  BY <1>3, <1>7, <1>8 DEF LayersKept
<1>10. Keep \in SUBSET Times /\ t \in Keep /\ DeltasOK
  BY <1>2, <1>3 DEF ByteInv
<1>11. KnownKept(q, b, c, Keep)
  BY <1>9, <1>10, KnownStays
<1> QED BY <1>4, <1>5, <1>10, <1>11 DEF KnownKept

(* A step that writes nothing keeps the chains, if it keeps what they are  *)
(* applied to, or if there are none.                                       *)
NothingWritten == UNCHANGED <<snaps, full, rdelta, published, base, hist, doomed>>
SameBasis == published = {} \/ \A p \in Paths : Basis(p)' = Basis(p)

LEMMA QuietKeepsChains ==
    ASSUME IndexInv, IndexInv', ByteInv, ChainInv, NothingWritten, SameBasis
    PROVE  ChainsExact'
<1> SUFFICES ASSUME NEW t \in Retained', NEW p \in Paths, Replaced(t, p)'
             PROVE  FileOn(p, Basis(p))'[t] = hist'[t - 1][p]
  BY DEF ChainsExact
<1>1. t \in Retained /\ t \in Times /\ SamePast(t, p)
  BY DEF NothingWritten, Retained, IndexInv, IndexOK, SamePast
<1>2. PICK b, c, Keep : b = Basis(p) /\ c = Basis(p)' /\ Keep = Times
  OBVIOUS
<1>3. FileOn(p, b)[t] = hist'[t - 1][p] /\ Known(FileOn(p, b)[t])
  BY <1>1, <1>2, ExactOn DEF ChainInv
<1>4. LayersKept(p, b, c, Keep)
  BY <1>2 DEF LayersKept, NothingWritten, SameBasis, Untouched, IsDelta, IndexInv, IndexOK, BasesLive
<1>5. Keep \in SUBSET Times /\ t \in Keep /\ DeltasOK
  BY <1>1, <1>2 DEF ByteInv
<1>6. KnownKept(p, b, c, Keep)
  BY <1>4, <1>5, KnownStays
<1> QED BY <1>2, <1>3, <1>5, <1>6 DEF KnownKept

(* So does every step of the stages after the transfer.                    *)
LEMMA StagesKeepChains ==
    ASSUME IndexInv, IndexInv', ByteInv, ChainInv, [Next]_vars,
           current' = current, pc \notin Moved, pc' \notin Moved \/ changed' = {}
    PROVE  ChainsExact'
<1> SUFFICES ASSUME NEW t \in Retained', NEW p \in Paths, Replaced(t, p)'
             PROVE  FileOn(p, Basis(p))'[t] = hist'[t - 1][p]
  BY DEF ChainsExact
<1>1. t \in Retained /\ t \in Times
  BY RetainedBefore
<1>2. SamePast(t, p)
  <2>1. ~(rsyncWrite(p) \/ rsyncDelete(p))
    BY RsyncMovesFile
  <2> QED BY <1>1, <2>1, PastOf
<1>3. PICK b : b = current[p]
  OBVIOUS
<1>4. Basis(p) = b /\ Basis(p)' = b
  BY <1>3 DEF Basis
<1>5. FileOn(p, b)[t] = hist'[t - 1][p] /\ Known(FileOn(p, b)[t])
  BY <1>1, <1>2, <1>4, ExactOn DEF ChainInv
<1>6. FileOn(p, b)'[t] = FileOn(p, b)[t]
  BY <1>1, <1>3, <1>5, MaintenanceStep
<1> QED BY <1>4, <1>5, <1>6

LEMMA ChainInvStep ==
    ASSUME Orderly, IndexInv, IndexInv', ByteInv, ChainInv, [Next]_vars, [RebasesReach]_vars
    PROVE  ChainInv'
<1>1. StagesOK'
  BY StagesStep DEF ChainInv
<1>2. CASE \E p \in Paths : rsyncWrite(p)
  BY <1>1, <1>2, WriteKeepsChains DEF ChainInv
<1>3. CASE rebaseDeltasWithTimestamp
  <2>1. RebasesReach
    <3>1. pc' # pc
      BY <1>3 DEF rebaseDeltasWithTimestamp
    <3> QED BY <3>1 DEF vars, run
  <2> QED BY <1>1, <1>3, <2>1, RebaseKeepsChains DEF ChainInv
<1>4. CASE rsyncTransferred \/ rsyncExit \/ UNCHANGED vars
  <2>1. UNCHANGED <<current, snaps, full, rdelta, published, base, hist, doomed, clock, changed>>
    BY <1>4 DEF rsyncTransferred, rsyncExit, vars, disk, run
  <2>2. published = {} \/ (pc \in Moved <=> pc' \in Moved)
    BY <1>4 DEF rsyncTransferred, rsyncExit, vars, run, ChainInv, StagesOK, Moved
  <2>3. published = {} \/ \A p \in Paths : Basis(p)' = Basis(p)
    BY <2>1, <2>2 DEF Basis
  <2> QED BY <1>1, <2>1, <2>3, QuietKeepsChains DEF ChainInv, NothingWritten, SameBasis
<1>5. CASE /\ ~(\E p \in Paths : rsyncWrite(p)) /\ ~rebaseDeltasWithTimestamp
           /\ ~rsyncTransferred /\ ~rsyncExit /\ ~UNCHANGED vars
  <2>1. ~rsyncFail /\ ~manualPrune /\ ~stageFails /\ ~crash
        /\ ~(\E p \in Paths : rsyncDelete(p))
        /\ ~(\E K \in SUBSET Paths : abortPostProcessing(K))
    BY DEF Orderly, rsyncFail, manualPrune, stageFails, crash, rsyncDelete, abortPostProcessing
  <2>2. startRun \/ Deltaify \/ pruneVersions \/ PruneStep
    BY <1>5, <2>1 DEF Next, Rsync
  <2>3. CASE startRun
    BY <1>1, <2>3, StagesKeepChains DEF startRun, ChainInv, Moved
  <2>4. CASE Deltaify
    <3>1. current' = current /\ pc \notin Moved /\ pc' \notin Moved
      BY <2>4 DEF Deltaify, deltaifyStart, deltaifyComputed, deltaifyPublish, deltaifyUnlink,
         deltaifyDone, Moved, disk
    <3> QED BY <1>1, <3>1, StagesKeepChains DEF ChainInv
  <2>5. CASE pruneVersions
    BY <1>1, <2>5, StagesKeepChains DEF pruneVersions, ChainInv, Moved, disk
  <2>6. CASE PruneStep
    <3>1. Pruning \/ promo # None
      BY <2>6 DEF PruneStep, promoteDeltaToFull, promoteFails, promoteCopied, promotePublish,
         promoteUnlink, removeSnapshot, removeDone, pruneDone
    <3>2. pc = "pruning"
      BY <3>1 DEF ByteInv, LockOK, Pruning, ChainInv, StagesOK
    <3>3. current' = current /\ pc' \in {"idle", "pruning"}
      BY <2>6, <3>2 DEF PruneStep, promoteDeltaToFull, promoteFails, promoteCopied,
         promotePublish, promoteUnlink, removeSnapshot, removeDone, pruneDone, PruneReturns,
         disk, run
    <3> QED BY <1>1, <3>2, <3>3, StagesKeepChains DEF ChainInv, Moved
  <2> QED BY <2>2, <2>3, <2>4, <2>5, <2>6
<1> QED BY <1>2, <1>3, <1>4, <1>5

LEMMA ChainsAreExact == IndexInv /\ ChainInv => RetainedExact
<1> SUFFICES ASSUME IndexInv, ChainInv, pc = "idle", NEW t \in Retained, NEW p \in Paths,
                    Replaced(t, p)
             PROVE  Exact(t, p)
  BY DEF RetainedExact
<1>1. Basis(p) = current[p]
  BY DEF Basis, Moved
<1> QED BY <1>1, ReconIs DEF ChainInv, ChainsExact, Exact, ReconIsFile

(* With neither failures nor deletions every retained version reconstructs *)
(* to exactly the bytes its run put aside, through every rebase, deltaify, *)
(* promotion and removal, as long as no run replaces a file whose          *)
(* current-based delta lies in a manifest that the rebase does not reach.  *)
THEOREM ChainsStayExact ==
    ASSUME Orderly
    PROVE  Spec /\ [][RebasesReach]_vars => []RetainedExact
<1>1. IndexInv /\ IndexInv' /\ ByteInv /\ ChainInv /\ [Next]_vars /\ [RebasesReach]_vars
      => ChainInv'
  BY ChainInvStep
<1> QED
  BY <1>1, ChainInvInit, ChainsAreExact, IndexInvInit, IndexInvStep, ByteInvInit, ByteInvStep,
     PTL DEF Spec

-----------------------------------------------------------------------------
(* The chain of one file.                                                  *)

\* A run with files to version has replaced the one file there is, so that the
\* deltas of it that are current-based lie in the newest manifest only.
OneReach ==
    /\ pc \in {"transfer", "delete", "rebase", "deltaify", "compute", "publish"} =>
          \A p \in Paths : full[clock][p] # None => p \in changed
    /\ pc \in {"compute", "publish"} => \E p \in Paths : full[clock][p] # None
    /\ \A t \in published, p \in Paths :
          base[t][p] = Current =>
              /\ \A u \in published : u <= t
              /\ pc \in {"deltaify", "compute", "publish"} => p \notin changed

LEMMA OneReachInit == Init => OneReach
  BY DEF Init, OneReach

LEMMA OneReachStep ==
    ASSUME Orderly, NEW a, Paths = {a}, IndexInv, IndexInv', ByteInv, ChainInv, OneReach,
           [Next]_vars
    PROVE  OneReach'
<1> USE DEF OneReach
<1>1. CASE startRun
  <2>1. clock' \in Times \ snaps
    BY <1>1 DEF startRun, IndexInv, IndexOK
  <2>2. \A p \in Paths : full'[clock'][p] = None
    BY <1>1, <2>1 DEF startRun, ByteInv, EntriesOK
  <2> QED BY <1>1, <2>2 DEF startRun
<1>2. CASE \E p \in Paths : rsyncWrite(p)
  <2>1. PICK p \in Paths : rsyncWrite(p)
    BY <1>2
  <2>2. clock \in Times /\ \A q \in Paths : q # p => full'[clock][q] = full[clock][q]
    BY <2>1, StoreTables DEF rsyncWrite, ByteInv, IndexInv, IndexOK, RunIsSafe
  <2> QED BY <2>1, <2>2 DEF rsyncWrite
<1>3. CASE rebaseDeltasWithTimestamp
  <2>1. clock \in Times /\ clock \notin published /\ clock # Current
    BY <1>3 DEF rebaseDeltasWithTimestamp, ByteInv, IndexInv, IndexOK, RunIsSafe, TransferOK
  <2>2. ASSUME NEW t \in published, NEW p \in Paths, base'[t][p] = Current
        PROVE  base[t][p] = Current /\ p \notin changed
    <3>1. base'[t][p] = IF Rebased(t, p) THEN clock ELSE base[t][p]
      BY <1>3 DEF rebaseDeltasWithTimestamp, IndexInv, IndexOK
    <3>2. base[t][p] = Current /\ ~Rebased(t, p)
      BY <2>1, <2>2, <3>1
    <3>3. published \in SUBSET Times /\ published # {}
      BY DEF IndexInv, IndexOK
    <3>4. PICK m : m = Max(published)
      OBVIOUS
    <3>5. m \in published /\ t <= m /\ m <= t
      BY <3>2, <3>3, <3>4, MaxOfTimes
    <3>6. t = m
      BY <3>3, <3>5
    <3>7. published \ {clock} = published
      BY <2>1
    <3> QED BY <3>2, <3>3, <3>4, <3>6, <3>7 DEF Rebased
  <2> QED BY <1>3, <2>2 DEF rebaseDeltasWithTimestamp
<1>4. CASE deltaifyPublish
  <2>1. clock \in Times /\ clock \notin published /\ a \in changed
    BY <1>4 DEF deltaifyPublish, ByteInv, IndexInv, IndexOK, RunIsSafe, TransferOK
  <2>2. \A t \in published : base[t][a] # Current
    BY <1>4, <2>1 DEF deltaifyPublish
  <2>3. \A t \in published : base'[t][a] # Current
    BY <1>4, <2>1, <2>2 DEF deltaifyPublish, IndexInv, IndexOK
  <2>4. \A u \in published : u <= clock
    <3>1. published \subseteq 1..clock
      BY DEF IndexInv, IndexOK
    <3> QED BY <2>1, <3>1
  <2> QED BY <1>4, <2>1, <2>3, <2>4 DEF deltaifyPublish
<1>5. CASE deltaifyStart \/ deltaifyComputed
  BY <1>5 DEF deltaifyStart, deltaifyComputed
<1>6. CASE promotePublish
  <2>1. promo # None /\ promo.time \in Times /\ promo.path \in Paths
    BY <1>6 DEF promotePublish, ByteInv, BytesOK
  <2>2. \A u \in Times, q \in Paths :
            base'[u][q] = IF u = promo.time /\ q = promo.path THEN 0 ELSE base[u][q]
    BY <1>6, <2>1 DEF promotePublish, Replace, IndexInv, IndexOK
  <2>3. pc = "pruning"
    BY <2>1 DEF ByteInv, LockOK, Pruning, ChainInv, StagesOK
  <2> QED BY <1>6, <2>2, <2>3 DEF promotePublish, run, IndexInv, IndexOK
<1>7. CASE Removes
  <2>1. pc = "pruning" /\ pc' = pc
    BY <1>7 DEF Removes, removeSnapshot, removeDone, run, ByteInv, LockOK, Pruning, ChainInv,
       StagesOK
  <2>2. PICK K \in SUBSET Paths, m \in BOOLEAN : Erase(Victim, K, m)
    BY <1>7 DEF Removes, removeSnapshot, removeDone
  <2>3. Victim \in Times
    BY <1>7, VictimIsVictim DEF Removes, removeSnapshot, removeDone, IndexInv, IndexOK
  <2>4. Erases(Victim, K)
    BY <2>2, <2>3, EraseIs DEF ByteInv, IndexInv
  <2>5. /\ published' \subseteq published
        /\ \A t \in published', p \in Paths : base'[t][p] # 0 => base'[t][p] = base[t][p]
    BY <2>4 DEF Erases, IndexInv, IndexOK
  <2> QED BY <2>1, <2>5
<1>8. CASE \/ rsyncTransferred \/ rsyncExit \/ deltaifyDone \/ pruneVersions \/ UNCHANGED vars
  BY <1>8 DEF rsyncTransferred, rsyncExit, deltaifyDone, pruneVersions, vars, disk, run
<1>9. CASE \E p \in Paths : deltaifyUnlink(p)
  BY <1>9 DEF deltaifyUnlink
<1>10. CASE PruneStep /\ ~Removes /\ ~promotePublish
  <2>1. pc = "pruning"
    <3>1. Pruning \/ promo # None
      BY <1>10 DEF PruneStep, promoteDeltaToFull, promoteFails, promoteCopied,
         promoteUnlink, Removes, pruneDone
    <3> QED BY <3>1 DEF ByteInv, LockOK, Pruning, ChainInv, StagesOK
  <2>2. UNCHANGED <<published, base>> /\ pc' \in {"idle", "pruning"}
    BY <1>10, <2>1 DEF PruneStep, promoteDeltaToFull, promoteFails, promoteCopied,
       promoteUnlink, Removes, pruneDone, PruneReturns, disk, run
  <2> QED BY <2>1, <2>2
<1>11. ~rsyncFail /\ ~manualPrune /\ ~stageFails /\ ~crash
       /\ ~(\E p \in Paths : rsyncDelete(p))
       /\ ~(\E K \in SUBSET Paths : abortPostProcessing(K))
  BY DEF Orderly, rsyncFail, manualPrune, stageFails, crash, rsyncDelete, abortPostProcessing
<1> QED
  BY <1>1, <1>2, <1>3, <1>4, <1>5, <1>6, <1>7, <1>8, <1>9, <1>10, <1>11
  DEF Next, Rsync, Deltaify

LEMMA OneReaches == IndexInv /\ OneReach => RebasesReach
<1> SUFFICES ASSUME IndexInv, OneReach, NEW t \in published, NEW p \in Paths, base[t][p] = Current
             PROVE  t = Max(published)
  BY DEF RebasesReach, IndexInv, IndexOK
<1>1. published \in SUBSET Times /\ published # {}
  BY DEF IndexInv, IndexOK
<1>2. PICK m : m = Max(published)
  OBVIOUS
<1>3. m \in published /\ t <= m /\ m <= t
  BY <1>1, <1>2, MaxOfTimes DEF OneReach
<1> QED BY <1>1, <1>2, <1>3

(* A file that is alone in its tree needs no such hypothesis: however many *)
(* runs replace it and whatever is pruned, its chain stays exact.          *)
THEOREM OneFileStaysExact ==
    ASSUME Orderly, NEW a, Paths = {a}
    PROVE  Spec => []RetainedExact
<1>1. IndexInv /\ IndexInv' /\ ByteInv /\ ChainInv /\ [Next]_vars /\ [RebasesReach]_vars
      => ChainInv'
  BY ChainInvStep
<1>2. IndexInv /\ IndexInv' /\ ByteInv /\ ChainInv /\ OneReach /\ [Next]_vars => OneReach'
  BY OneReachStep
<1> QED
  BY <1>1, <1>2, OneReaches, OneReachInit, ChainInvInit, ChainsAreExact, IndexInvInit,
     IndexInvStep, ByteInvInit, ByteInvStep, PTL DEF Spec
=============================================================================
