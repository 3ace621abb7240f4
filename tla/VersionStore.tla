---------------------------- MODULE VersionStore ----------------------------
(***************************************************************************)
(* The version store of ONE SSD-backup configuration: the destination      *)
(* tree, the directories .versions/<timestamp>/ beside it, and the code    *)
(* that writes them: executeSsdBackup (services/rsync.js) with its         *)
(* post-processing, the delta code (services/deltaVersion.js) and the      *)
(* pruner (services/versionBrowser.js).                                    *)
(*                                                                         *)
(* A run with timestamp t moves the OLD bytes of every file it replaces or *)
(* deletes into .versions/t/ (rsync --backup-dir).  Afterwards the run may *)
(* turn those full copies into rdiff deltas against the destination's      *)
(* current file ("base": "current"), and the NEXT run must rebase them     *)
(* onto the copy it put aside, because their basis is no longer current.   *)
(*                                                                         *)
(* Abstractions.                                                           *)
(*  - A timestamp is the number of its run; Current, the base name         *)
(*    "current", is ordered after every timestamp.                         *)
(*  - The bytes of a file are the number of the run that wrote it (0: the  *)
(*    bytes already there), None when there is no file, Wrong for bytes no *)
(*    run ever wrote (a torn copy, a patch applied to another basis).      *)
(*  - In a manifest a missing entry and one of type "full" are the same to *)
(*    every reader; base = 0 stands for both, base # 0 for type "delta".   *)
(*  - Whether a delta saves enough, its keyframe age and an rdiff error    *)
(*    are one nondeterministic choice; the retention policy is any choice  *)
(*    of victims that spares the snapshot of the run under way.            *)
(*  - versioning_enabled is on; claimBackupRun lets one run at a time in.  *)
(***************************************************************************)
EXTENDS Integers, FiniteSets, FiniteSetsExt

CONSTANTS
    Paths,            \* the files of the backed-up tree
    MaxRuns,          \* bound: how many runs are started
    MaxChain,         \* config.delta_max_chain
    DeltaVersioning,  \* config.delta_versioning
    EnvEvents,        \* which of the events of AllEvents may happen
    None,             \* no file, no delta
    Wrong             \* bytes no run ever wrote

AllEvents == {"delete", "interrupt", "crash", "fault", "prune", "manualPrune"}

ASSUME VersionStoreAssumption ==
    /\ MaxRuns \in Nat \ {0}
    /\ MaxChain \in Nat \ {0}
    /\ DeltaVersioning \in BOOLEAN
    /\ EnvEvents \subseteq AllEvents
    /\ None \notin Int
    /\ Wrong \notin Int
    /\ None # Wrong

Times   == 1..MaxRuns
Current == MaxRuns + 1
Bytes   == 0..MaxRuns \cup {None, Wrong}
Delta   == [basis : Bytes, result : Bytes]
Torn    == [basis |-> Wrong, result |-> Wrong]

ASSUME DeltaAssumption == None \notin Delta

VARIABLES
    (* on disk: what a crash leaves *)
    current,    \* current[p]: the bytes of <dest>/p
    snaps,      \* the directories of .versions
    full,       \* full[t][p]: the bytes of .versions/t/p
    rdelta,     \* rdelta[t][p]: the contents of .versions/t/p.rdelta
    published,  \* the snapshots that have a _manifest.json
    base,       \* base[t][p]: the base of p's delta entry in t's manifest, or 0
    (* in memory *)
    clock,      \* the timestamp of the last run started
    pc,         \* where that run stands
    changed,    \* changedFiles: what its itemized output reports as written
    todo,       \* convertedFiles: the paths it is turning into deltas
    holder,     \* who holds the config lock (withConfigLock)
    victims,    \* the snapshots the lock holder still has to delete
    promo,      \* the promoteDeltaToFull call under way, or None
    (* history *)
    hist,       \* hist[t][p]: the bytes of <dest>/p after run t
    doomed      \* the snapshots whose deletion has begun

disk == <<current, snaps, full, rdelta, published, base>>
lock == <<holder, victims, promo>>
run  == <<clock, pc, changed, todo>>
vars == <<disk, run, lock, hist, doomed>>

Replace(table, t, p, v) == [table EXCEPT ![t][p] = v]
IsDelta(t, p) == t \in published /\ base[t][p] # 0

-----------------------------------------------------------------------------
(* reconstructFile: the full file of a snapshot whose entry is no delta;   *)
(* otherwise its delta applied to the reconstruction of its base.  None    *)
(* stands for the null result and for every throw: delta file missing,     *)
(* base snapshot not found, base file not found.                           *)
Patch(delta, basis) ==
    IF basis = None THEN None
    ELSE IF delta.basis = basis THEN delta.result ELSE Wrong

Recon(t, p) ==
    LET file[u \in Times] ==
            IF ~IsDelta(u, p) THEN full[u][p]
            ELSE IF rdelta[u][p] = None THEN None
            ELSE Patch(rdelta[u][p],
                       IF base[u][p] = Current THEN current[p]
                       ELSE IF base[u][p] \notin snaps THEN None
                       ELSE file[base[u][p]])
    IN file[t]

(* The number of newer snapshots whose entry for p is a delta.             *)
ChainLen(t, p) == Cardinality({u \in published : u > t /\ base[u][p] # 0})

Init ==
    /\ current \in [Paths -> {0, None}]
    /\ snaps = {}
    /\ full = [t \in Times |-> [p \in Paths |-> None]]
    /\ rdelta = [t \in Times |-> [p \in Paths |-> None]]
    /\ published = {}
    /\ base = [t \in Times |-> [p \in Paths |-> 0]]
    /\ clock = 0
    /\ pc = "idle"
    /\ changed = {}
    /\ todo = {}
    /\ holder = "none"
    /\ victims = {}
    /\ promo = None
    /\ hist = [t \in 0..MaxRuns |-> IF t = 0 THEN current ELSE [p \in Paths |-> None]]
    /\ doomed = {}

-----------------------------------------------------------------------------
(* The transfer phase of executeSsdBackup: it does NOT hold the lock.      *)

startRun ==
    /\ pc = "idle"
    /\ clock < MaxRuns
    /\ clock' = clock + 1
    /\ pc' = "transfer"
    /\ snaps' = snaps \cup {clock'}
    /\ changed' = {}
    /\ hist' = [hist EXCEPT ![clock'] = current]
    /\ UNCHANGED <<current, full, rdelta, published, base, todo, lock, doomed>>

\* rsync writes p; the bytes it replaces move into the backup directory.
rsyncWrite(p) ==
    /\ pc = "transfer"
    /\ p \notin changed
    /\ full' = Replace(full, clock, p, current[p])
    /\ current' = [current EXCEPT ![p] = clock]
    /\ hist' = Replace(hist, clock, p, clock)
    /\ changed' = changed \cup {p}
    /\ UNCHANGED <<snaps, rdelta, published, base, clock, pc, todo, lock, doomed>>

rsyncTransferred ==
    /\ pc = "transfer"
    /\ pc' = "delete"
    /\ UNCHANGED <<disk, clock, changed, todo, lock, hist, doomed>>

\* --delete-after: p moves into the backup directory and is not a changed file.
rsyncDelete(p) ==
    /\ "delete" \in EnvEvents
    /\ pc = "delete"
    /\ p \notin changed
    /\ current[p] # None
    /\ full' = Replace(full, clock, p, current[p])
    /\ current' = [current EXCEPT ![p] = None]
    /\ hist' = Replace(hist, clock, p, None)
    /\ UNCHANGED <<snaps, rdelta, published, base, run, lock, doomed>>

\* Exit 0, or 23 with files copied: the run goes on to post-processing.
rsyncExit ==
    /\ pc = "delete"
    /\ pc' = IF DeltaVersioning THEN "rebase" ELSE "prune"
    /\ UNCHANGED <<disk, clock, changed, todo, lock, hist, doomed>>

\* Any other exit code, or SIGTERM from a cancel: no post-processing at all.
rsyncFail ==
    /\ "interrupt" \in EnvEvents
    /\ pc \in {"transfer", "delete"}
    /\ pc' = "idle"
    /\ UNCHANGED <<disk, clock, changed, todo, lock, hist, doomed>>

-----------------------------------------------------------------------------
(* The "delta versioning" stage, under the config lock.                    *)

\* Mutant of Rebased: the snapshots are walked oldest first.
RebasedOldest(t, p) ==
    /\ t \in published \ {clock}
    /\ t = Min(published \ {clock})
    /\ p \in changed
    /\ base[t][p] = Current

\* The entries to rewrite: the loop walks the snapshots newest first, skips the
\* run's own and those without a manifest, and stops after ONE manifest.
Rebased(t, p) ==
    /\ t \in published \ {clock}
    /\ t = Max(published \ {clock})
    /\ p \in changed
    /\ base[t][p] = Current

rebaseDeltasWithTimestamp ==
    /\ pc = "rebase"
    /\ holder = "none"
    /\ base' = [t \in Times |-> [p \in Paths |->
                    IF Rebased(t, p) THEN clock ELSE base[t][p]]]
    /\ holder' = "run"
    /\ pc' = "deltaify"
    /\ UNCHANGED <<current, snaps, full, rdelta, published, clock, changed, todo,
                   victims, promo, hist, doomed>>

deltaifyStart ==
    /\ pc = "deltaify"
    /\ LET files == {p \in Paths : full[clock][p] # None}
           candidates == {p \in files : current[p] # None /\ ChainLen(clock, p) < MaxChain}
       IN  \/ /\ files = {}
              /\ pc' = "prune"
              /\ holder' = "none"
              /\ UNCHANGED <<rdelta, todo>>
           \/ /\ files # {}
              /\ \E D \in SUBSET candidates :
                    /\ todo' = D
                    /\ rdelta' = [rdelta EXCEPT ![clock] =
                            [p \in Paths |-> IF p \in D THEN Torn ELSE @[p]]]
              /\ pc' = "compute"
              /\ UNCHANGED holder
    /\ UNCHANGED <<current, snaps, full, published, base, clock, changed, victims,
                   promo, hist, doomed>>

\* Every rdiff has ended: the .rdelta files lie beside the full ones.
deltaifyComputed ==
    /\ pc = "compute"
    /\ rdelta' = [rdelta EXCEPT ![clock] =
            [p \in Paths |-> IF p \in todo
                             THEN [basis |-> current[p], result |-> full[clock][p]]
                             ELSE @[p]]]
    /\ pc' = "publish"
    /\ UNCHANGED <<current, snaps, full, published, base, clock, changed, todo,
                   lock, hist, doomed>>

\* writeManifest: a temporary file and a rename, so all of it or nothing.
deltaifyPublish ==
    /\ pc = "publish"
    /\ published' = published \cup {clock}
    /\ base' = [base EXCEPT ![clock] =
            [p \in Paths |-> IF p \in todo THEN Current ELSE 0]]
    /\ pc' = "unlink"
    /\ UNCHANGED <<current, snaps, full, rdelta, clock, changed, todo, lock, hist, doomed>>

\* Mutant of deltaifyUnlink: full files go before the manifest is written.
deltaifyUnlinkEarly(p) ==
    /\ pc \in {"publish", "unlink"}
    /\ p \in todo
    /\ full' = Replace(full, clock, p, None)
    /\ UNCHANGED <<current, snaps, rdelta, published, base, run, lock, hist, doomed>>

\* The loop over convertedFiles; an unlink that fails is only logged.
deltaifyUnlink(p) ==
    /\ pc = "unlink"
    /\ p \in todo
    /\ todo' = todo \ {p}
    /\ full' \in {full, Replace(full, clock, p, None)}
    /\ UNCHANGED <<current, snaps, rdelta, published, base, clock, pc, changed,
                   lock, hist, doomed>>

deltaifyDone ==
    /\ pc = "unlink"
    /\ todo = {}
    /\ pc' = "prune"
    /\ holder' = "none"
    /\ UNCHANGED <<disk, clock, changed, todo, victims, promo, hist, doomed>>

-----------------------------------------------------------------------------
(* pruneVersions, as the run's last stage or from POST /configs/:id/prune. *)

pruneVersions ==
    /\ pc = "prune"
    /\ holder = "none"
    /\ victims' \in IF "prune" \in EnvEvents THEN SUBSET (snaps \ {clock}) ELSE {{}}
    /\ holder' = "run"
    /\ pc' = "pruning"
    /\ UNCHANGED <<disk, clock, changed, todo, promo, hist, doomed>>

manualPrune ==
    /\ "manualPrune" \in EnvEvents
    /\ holder = "none"
    /\ victims' \in (SUBSET (snaps \ IF pc = "idle" THEN {} ELSE {clock})) \ {{}}
    /\ holder' = "manual"
    /\ UNCHANGED <<disk, run, promo, hist, doomed>>


\* The prune call returns, or throws: its lock is released, its run ends.
PruneReturns ==
    /\ holder' = "none"
    /\ victims' = {}
    /\ promo' = None
    /\ pc' = IF holder = "run" THEN "idle" ELSE pc
    /\ UNCHANGED <<clock, changed, todo>>

Pruning == holder = "manual" \/ pc = "pruning"
Victim == Max(victims)

\* Mutant of Dependents: what promoteDependent's own doc comment says.
DependentsNewer == {d \in published \X Paths : d[1] > Victim /\ base[d[1]][d[2]] = Victim}

\* The entries of older snapshots whose base is the one to be deleted.
Dependents == {d \in published \X Paths : d[1] < Victim /\ base[d[1]][d[2]] = Victim}

\* promoteDependent calls promoteDeltaToFull: reconstruct, then copyFile begins.
promoteDeltaToFull(t, p) ==
    /\ Pruning
    /\ victims # {}
    /\ promo = None
    /\ Victim \notin doomed
    /\ <<t, p>> \in Dependents
    /\ Recon(t, p) # None
    /\ promo' = [time |-> t, path |-> p, step |-> "copy", bytes |-> Recon(t, p)]
    /\ full' = Replace(full, t, p, Wrong)
    /\ UNCHANGED <<current, snaps, rdelta, published, base, run, holder, victims,
                   hist, doomed>>

\* The reconstruction throws, and the throw ends the whole prune.
promoteFails(t, p) ==
    /\ Pruning
    /\ victims # {}
    /\ promo = None
    /\ Victim \notin doomed
    /\ <<t, p>> \in Dependents
    /\ Recon(t, p) = None
    /\ PruneReturns
    /\ UNCHANGED <<disk, hist, doomed>>

\* Mutant of promoteCopied: the basis is copied instead of the reconstruction.
promoteCopiedBasis ==
    /\ promo # None
    /\ promo.step = "copy"
    /\ full' = Replace(full, promo.time, promo.path, current[promo.path])
    /\ promo' = [promo EXCEPT !.step = "publish"]
    /\ UNCHANGED <<current, snaps, rdelta, published, base, run, holder, victims,
                   hist, doomed>>

promoteCopied ==
    /\ promo # None
    /\ promo.step = "copy"
    /\ full' = Replace(full, promo.time, promo.path, promo.bytes)
    /\ promo' = [promo EXCEPT !.step = "publish"]
    /\ UNCHANGED <<current, snaps, rdelta, published, base, run, holder, victims,
                   hist, doomed>>

promotePublish ==
    /\ promo # None
    /\ promo.step = "publish"
    /\ base' = Replace(base, promo.time, promo.path, 0)
    /\ promo' = [promo EXCEPT !.step = "unlink"]
    /\ UNCHANGED <<current, snaps, full, rdelta, published, run, holder, victims,
                   hist, doomed>>

\* The delta is unlinked; an unlink that fails is ignored.
promoteUnlink ==
    /\ promo # None
    /\ promo.step = "unlink"
    /\ rdelta' \in {rdelta, Replace(rdelta, promo.time, promo.path, None)}
    /\ promo' = None
    /\ UNCHANGED <<current, snaps, full, published, base, run, holder, victims,
                   hist, doomed>>

\* Of t's directory only the files of the paths in K and, if m, the manifest stay.
Erase(t, K, m) ==
    /\ full' = [full EXCEPT ![t] = [p \in Paths |-> IF p \in K THEN @[p] ELSE None]]
    /\ rdelta' = [rdelta EXCEPT ![t] = [p \in Paths |-> IF p \in K THEN @[p] ELSE None]]
    /\ published' = IF m THEN published ELSE published \ {t}
    /\ base' = IF m THEN base ELSE [base EXCEPT ![t] = [p \in Paths |-> 0]]

\* rm -r of the victim: its files go one by one, so a crash may leave some.
removeSnapshot(K, m) ==
    /\ Pruning
    /\ victims # {}
    /\ promo = None
    /\ Victim \notin doomed
    /\ Dependents = {}
    /\ doomed' = doomed \cup {Victim}
    /\ Erase(Victim, K, m)
    /\ UNCHANGED <<current, snaps, run, lock, hist>>

removeDone ==
    /\ Pruning
    /\ victims # {}
    /\ promo = None
    /\ Victim \in doomed
    /\ Dependents = {}
    /\ snaps' = snaps \ {Victim}
    /\ doomed' = doomed \ {Victim}
    /\ victims' = victims \ {Victim}
    /\ Erase(Victim, {}, FALSE)
    /\ UNCHANGED <<current, run, holder, promo, hist>>

pruneDone ==
    /\ Pruning
    /\ victims = {}
    /\ promo = None
    /\ PruneReturns
    /\ UNCHANGED <<disk, hist, doomed>>

-----------------------------------------------------------------------------
(* Cancellation, failing stages and crashes.                               *)

\* cancellation.signal aborts post-processing where the code looks at it:
\* waiting for the lock, in deltaify up to the manifest, between two steps of
\* the run's prune.  An aborted rdiff unlinks its own output; K are the paths
\* whose delta was complete by then.
abortPostProcessing(K) ==
    /\ "interrupt" \in EnvEvents
    /\ \/ pc \in {"rebase", "prune"} /\ K = {} /\ UNCHANGED <<rdelta, holder, victims>>
       \/ /\ pc \in {"deltaify", "publish"}
          /\ K = todo
          /\ holder' = "none"
          /\ UNCHANGED <<rdelta, victims>>
       \/ /\ pc = "compute"
          /\ K \subseteq todo
          /\ rdelta' = [rdelta EXCEPT ![clock] =
                [p \in Paths |->
                    IF p \in K THEN [basis |-> current[p], result |-> full[clock][p]]
                    ELSE IF p \in todo THEN None ELSE @[p]]]
          /\ holder' = "none"
          /\ UNCHANGED victims
       \/ /\ pc = "pruning"
          /\ promo = None
          /\ victims \cap doomed = {}
          /\ K = {}
          /\ holder' = "none"
          /\ victims' = {}
          /\ UNCHANGED rdelta
    /\ pc' = "idle"
    /\ todo' = {}
    /\ UNCHANGED <<current, snaps, full, published, base, clock, changed, promo,
                   hist, doomed>>

\* A stage throws what is no abort: a directory that cannot be read, a manifest
\* that cannot be written, a copy or an rm that stops half-way.  The config lock
\* is released; a run goes on to its next stage, a manual prune is over.
stageFails ==
    /\ "fault" \in EnvEvents
    /\ \/ /\ pc \in {"rebase", "deltaify", "publish"}
          /\ pc = "rebase" => holder = "none"
          /\ pc' = "prune" /\ holder' = "none" /\ todo' = {}
          /\ UNCHANGED <<clock, changed, victims, promo>>
       \/ Pruning /\ victims # {} /\ PruneReturns
    /\ UNCHANGED <<disk, hist, doomed>>

\* The process dies and is restarted: only the disk survives.
crash ==
    /\ "crash" \in EnvEvents
    /\ pc # "idle" \/ holder # "none"
    /\ pc' = "idle"
    /\ changed' = {}
    /\ todo' = {}
    /\ holder' = "none"
    /\ victims' = {}
    /\ promo' = None
    /\ UNCHANGED <<disk, clock, hist, doomed>>

Rsync ==
    \/ \E p \in Paths : rsyncWrite(p) \/ rsyncDelete(p)
    \/ rsyncTransferred \/ rsyncExit \/ rsyncFail

Deltaify ==
    \/ deltaifyStart \/ deltaifyComputed \/ deltaifyPublish \/ deltaifyDone
    \/ \E p \in Paths : deltaifyUnlink(p)

PruneStep ==
    \/ \E t \in Times, p \in Paths : promoteDeltaToFull(t, p) \/ promoteFails(t, p)
    \/ promoteCopied \/ promotePublish \/ promoteUnlink
    \/ \E K \in SUBSET Paths, m \in BOOLEAN : removeSnapshot(K, m)
    \/ removeDone \/ pruneDone

Next ==
    \/ startRun
    \/ Rsync
    \/ rebaseDeltasWithTimestamp
    \/ Deltaify
    \/ pruneVersions
    \/ manualPrune
    \/ PruneStep
    \/ \E K \in SUBSET Paths : abortPostProcessing(K)
    \/ stageFails
    \/ crash

Spec == Init /\ [][Next]_vars

\* Every started step ends (rsync has a stall timeout, rdiff and the file
\* operations return).  A waiter for the config lock is a promise callback: it
\* runs before any later HTTP request, so it cannot be overtaken for ever.
Fairness ==
    /\ WF_vars(Rsync)
    /\ WF_vars(Deltaify)
    /\ WF_vars(PruneStep)
    /\ SF_vars(rebaseDeltasWithTimestamp)
    /\ SF_vars(pruneVersions)

FairSpec == Spec /\ Fairness

-----------------------------------------------------------------------------
(* Properties.                                                             *)

(* What is named in memory or in a manifest is a snapshot that exists.     *)
IndexOK ==
    /\ snaps \in SUBSET Times
    /\ published \in SUBSET snaps
    /\ base \in [Times -> [Paths -> 0..Current]]
    /\ clock \in 0..MaxRuns
    /\ pc \in {"idle", "transfer", "delete", "rebase", "deltaify", "compute", "publish",
               "unlink", "prune", "pruning"}
    /\ changed \in SUBSET Paths
    /\ todo \in SUBSET Paths
    /\ holder \in {"none", "run", "manual"}
    /\ victims \in SUBSET snaps
    /\ doomed \in SUBSET snaps

BytesOK ==
    /\ current \in [Paths -> 0..MaxRuns \cup {None}]
    /\ full \in [Times -> [Paths -> Bytes]]
    /\ rdelta \in [Times -> [Paths -> Delta \cup {None}]]
    /\ promo \in {None} \cup [time : Times, path : Paths,
                              step : {"copy", "publish", "unlink"}, bytes : Bytes]
    /\ hist \in [0..MaxRuns -> [Paths -> 0..MaxRuns \cup {None}]]

(* The type of every variable; victims, manifests and half-deleted         *)
(* directories are snapshots that exist (pruneVersions erases all of one). *)
TypeOK == IndexOK /\ BytesOK

(* Every delta entry of a manifest points at "current" or at a STRICTLY    *)
(* NEWER snapshot that exists and whose deletion has not begun: chains     *)
(* cannot cycle, and pruning, even one cut short by a crash inside rm,     *)
(* never pulls a base out from under a retained delta (promoteDependent).  *)
BasesLive ==
    \A t \in published, p \in Paths :
        base[t][p] # 0 => /\ base[t][p] > t
                          /\ base[t][p] # Current => base[t][p] \in snaps \ doomed

Retained == snaps \ doomed

\* Run t replaced or deleted p: .versions/t is where its old bytes went.
Replaced(t, p) == hist[t - 1][p] # None /\ hist[t][p] # hist[t - 1][p]

Exact(t, p) == Recon(t, p) = hist[t - 1][p]

(* With no run and no prune under way every retained version reconstructs  *)
(* to exactly the bytes its run put aside (reconstructFile).               *)
RetainedExact ==
    pc = "idle" /\ holder = "none" =>
        \A t \in Retained, p \in Paths : Replaced(t, p) => Exact(t, p)

(* No step but rsync's own writes turns a retained version that            *)
(* reconstructs exactly into one that does not: not rebasing, deltaifying, *)
(* unlinking, promoting, deleting other snapshots, aborting or crashing at *)
(* any point of them, whoever else is in between.                          *)
MaintenanceKeepsExact ==
    [][\A t \in Times, p \in Paths :
          /\ t \in Retained /\ t \in Retained'
          /\ current' = current
          /\ Replaced(t, p)
          /\ Exact(t, p)
          => Exact(t, p)']_vars

(* The old bytes of every file are on disk at every moment, as a full copy *)
(* or as a delta that the manifest already announces: the manifest is      *)
(* published before the full file goes (deltaifySnapshot), so no crash,    *)
(* abort or failed unlink loses them.                                      *)
ReplacedBytesOnDisk ==
    \A t \in Retained, p \in Paths :
        Replaced(t, p) =>
            \/ ~IsDelta(t, p) /\ full[t][p] = hist[t - 1][p]
            \/ /\ IsDelta(t, p)
               /\ rdelta[t][p] # None
               /\ rdelta[t][p].result = hist[t - 1][p]


=============================================================================
