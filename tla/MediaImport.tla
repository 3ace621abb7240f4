---------------------------- MODULE MediaImport ----------------------------
(***************************************************************************)
(* Media import: one source, either a removable drive whose files          *)
(* immich-go uploads (immichImport.js, mediaImportLedger.js, the monitor   *)
(* in driveMonitor.js), or a folder of Takeout archives on a remote        *)
(* (onlineMediaImport.js); the route that cancels either (mediaImport.js). *)
(*                                                                         *)
(* Abstractions.                                                           *)
(*  - Every step runs from one await of an executor to its next one.       *)
(*  - A content is <<card, file, version>>: what a fingerprint tells apart.*)
(*  - All cards appear at one mount point, as the cards of one camera do.  *)
(*  - Versions of an archive differ in size, the only thing of a staged    *)
(*    file that is compared.                                               *)
(*  - Archives are taken in any order.  Percentages, counts, notifications *)
(*    and the paths of logs are left out.                                  *)
(***************************************************************************)
EXTENDS Integers, FiniteSets

CONSTANTS
    Kinds,       \* which kinds of source are looked at: "drive", "online"
    Cards,       \* removable drives
    Files,       \* paths on a drive
    AutoImport,  \* the drives imported as soon as they are attached
    Archives,    \* archives on the remote
    MaxVersion,  \* bound: versions of a file, and of an archive
    MaxRuns,     \* bound: runs
    MaxEvents,   \* bound: what users, hosts and crashes do
    None

Versions == 1..MaxVersion
Contents == Cards \X Files \X Versions
Verified == {"uploaded", "duplicate"}

ASSUME MediaImportAssumption ==
    /\ Kinds \subseteq {"drive", "online"}
    /\ AutoImport \subseteq Cards
    /\ MaxVersion \in Nat \ {0} /\ MaxRuns \in Nat /\ MaxEvents \in Nat
    /\ None \notin Cards \cup Files \cup Contents \cup (Archives \X Versions)

VARIABLES
    kind,
    (* the run: its row, its flags, its progress entry, its process, the route *)
    row, dry, progress, phase, proc, route,
    (* the drive and its monitor *)
    card, known, disk, deleteAfter,
    (* the drive's run: row read at the start, log, ledger, deletion        *)
    source, log, ledger, checked,
    (* Immich *)
    server, imported,
    (* the online source *)
    remote, pending, current, staged, partial, completed,
    runs, events,
    unseen      \* files that changed after their upload, unseen by a fingerprint

run     == <<row, dry, progress, phase, proc, route>>
device  == <<card, known, disk, deleteAfter>>
import  == <<source, log, ledger, checked>>
online  == <<remote, pending, current, staged, partial, completed>>
vars    == <<kind, run, device, import, server, imported, online, runs, events, unseen>>

NoLog    == [f \in Files |-> "none"]
NoLedger == [f \in Files |-> None]
NoSource == [card |-> None, delete |-> FALSE]

Init ==
    /\ kind \in Kinds
    /\ row = "none" /\ dry = FALSE /\ progress = "none" /\ phase = "idle"
    /\ proc = FALSE /\ route = "none"
    /\ card \in Cards /\ known = TRUE /\ disk = [c \in Cards |-> [f \in Files |-> 1]]
    /\ deleteAfter = [c \in Cards |-> TRUE]
    /\ source = NoSource /\ log = NoLog /\ ledger = NoLedger /\ checked = None
    /\ server = {} /\ imported = {}
    /\ remote = [a \in Archives |-> 1]
    /\ pending = {} /\ current = None
    /\ staged = [a \in Archives |-> 0] /\ partial = {} /\ completed = {}
    /\ runs = 0 /\ events = 0 /\ unseen = {}

-----------------------------------------------------------------------------
(* The import of a drive.                                                  *)

\* What is at a path now: a content, or None when no card or no file is there.
Here(f) == IF card # None /\ disk[card][f] # 0 THEN <<card, f, disk[card][f]>> ELSE None

Busy == progress \in {"running", "cancelling"}

\* A run row, a progress entry, and immich-go on whatever is mounted.  The row of
\* the drive, with its settings, is read once.
startImport(c, d) ==
    /\ kind = "drive" /\ ~Busy /\ route = "none" /\ runs < MaxRuns
    /\ runs' = runs + 1
    /\ row' = "running" /\ progress' = "running" /\ dry' = d
    /\ source' = [card |-> c, delete |-> deleteAfter[c]]
    /\ phase' = "upload" /\ proc' = TRUE
    /\ log' = NoLog /\ ledger' = NoLedger /\ checked' = None /\ unseen' = {}

importFromDrive(c, d) ==
    /\ startImport(c, d)
    /\ UNCHANGED <<kind, route, device, server, imported, online, events>>

\* immich-go takes one file and logs it; a dry run logs the same and takes nothing.
uploads(f) ==
    /\ kind = "drive" /\ phase = "upload" /\ proc /\ log[f] = "none" /\ Here(f) # None
    /\ log' = [log EXCEPT ![f] = IF Here(f) \in server THEN "duplicate" ELSE "uploaded"]
    /\ server' = IF dry THEN server ELSE server \cup {Here(f)}
    /\ UNCHANGED <<kind, run, device, source, ledger, checked, imported, online, runs, events,
                   unseen>>

errs(f) ==
    /\ kind = "drive" /\ phase = "upload" /\ proc /\ log[f] = "none"
    /\ log' = [log EXCEPT ![f] = "error"]
    /\ UNCHANGED <<kind, run, device, source, ledger, checked, server, imported, online, runs,
                   events, unseen>>

Logged(outcomes) == {f \in Files : log[f] \in outcomes}

isCancelledRun(exit) == row \in {"cancelled", "cancelling"} \/ exit = "killed"

\* recovered: how many failed files a retry took after all.
resolveMediaImportStatus(exit, recovered) ==
    LET up  == Cardinality(Logged({"uploaded"})) + recovered
        bad == Cardinality(Logged({"error"})) - recovered
    IN  IF isCancelledRun(exit) THEN "cancelled"
        ELSE IF exit = "zero" THEN "completed"
        ELSE IF up > 0 /\ bad < up THEN "partial" ELSE "failed"

\* The row is written before the ledger is built.
Finalize(exit, recovered) ==
    /\ row' = resolveMediaImportStatus(exit, recovered)
    /\ phase' = "ledger" /\ proc' = FALSE

\* The first process ends.  Failed files are tried once more unless it was cancelled.
immichEnds(exit) ==
    /\ kind = "drive" /\ phase = "upload" /\ proc
    /\ exit = "zero" => Logged({"none"}) = {}
    /\ IF /\ ~dry /\ ~isCancelledRun(exit) /\ exit # "zero"
          /\ Logged({"error"}) # {} /\ Logged({"uploaded"}) # {}
       THEN phase' = "retryDir" /\ proc' = FALSE /\ UNCHANGED row
       ELSE Finalize(exit, 0)
    /\ UNCHANGED <<kind, dry, progress, route, device, import, server, imported, online, runs,
                   events, unseen>>

\* The links are made; the retry starts, unless a cancel is seen.
retryStarts ==
    /\ phase = "retryDir"
    /\ IF row = "cancelled" THEN Finalize("one", 0)
       ELSE phase' = "retry" /\ proc' = TRUE /\ UNCHANGED row
    /\ UNCHANGED <<kind, dry, progress, route, device, import, server, imported, online, runs,
                   events, unseen>>

\* A retried file reaches Immich, but its links lie outside the drive: the
\* ledger keeps the error.  Only an exit of 0 changes the first one.
retryEnds(exit, taken) ==
    /\ phase = "retry" /\ proc
    /\ taken \subseteq {f \in Logged({"error"}) : Here(f) # None}
    /\ server' = server \cup {Here(f) : f \in taken}
    /\ Finalize(IF exit = "zero" THEN "zero" ELSE "one", Cardinality(taken))
    /\ UNCHANGED <<kind, dry, progress, route, device, import, imported, online, runs, events,
                   unseen>>

\* immich-go cannot be started: the catch fails the run unless it is being cancelled.
\* The error follows the spawn at once, before a cancel could time out.
spawnFails ==
    /\ kind = "drive" /\ phase = "upload" /\ proc /\ log = NoLog
    /\ row = "cancelling" => route = "waiting"
    /\ row' = IF row = "running" THEN "failed" ELSE row
    /\ progress' = "done" /\ phase' = "idle" /\ proc' = FALSE
    /\ UNCHANGED <<kind, dry, route, device, import, server, imported, online, runs, events,
                   unseen>>

-----------------------------------------------------------------------------
(* The ledger, and the deletion it permits.                                *)

\* A line becomes an entry with the fingerprint of what is at its path now.
parseImmichLogLine(f) == [outcome |-> log[f], content |-> Here(f)]

\* A path that no longer resolves gives no entry.
ledgerReads(f) ==
    /\ phase = "ledger" /\ log[f] # "none" /\ ledger[f] = None /\ Here(f) # None
    /\ ledger' = [ledger EXCEPT ![f] = parseImmichLogLine(f)]
    /\ UNCHANGED <<kind, run, device, source, log, checked, server, imported, online, runs, events,
                   unseen>>

\* An assignment to a constant throws when a taken file cannot be hashed: the run
\* that was already called completed becomes failed, without a ledger.
ledgerThrows ==
    /\ phase = "ledger"
    /\ \E f \in Logged(Verified) : ledger[f] = None /\ Here(f) # None
    /\ row' = IF row = "cancelled" THEN row ELSE "failed"
    /\ progress' = "done" /\ phase' = "idle"
    /\ UNCHANGED <<kind, dry, proc, route, device, import, server, imported, online, runs, events,
                   unseen>>

MayDelete == ~dry /\ row \in {"completed", "partial"} /\ source.delete

\* Every line is read: the ledger is stored, and the run ends or deletes.
persistMediaImportLedger ==
    /\ phase = "ledger"
    /\ \A f \in Files : log[f] # "none" /\ Here(f) # None => ledger[f] # None
    /\ IF MayDelete THEN phase' = "delete" /\ UNCHANGED progress
       ELSE phase' = "idle" /\ progress' = "done"
    /\ UNCHANGED <<kind, row, dry, proc, route, device, import, server, imported, online, runs,
                   events, unseen>>

\* Mutant of StillTheSame: the file is there.
StillThere(f) == Here(f) # None

StillTheSame(f) == Here(f) = ledger[f].content

\* A candidate is hashed again: it is kept, or will be unlinked.
deletionChecks(f) ==
    /\ phase = "delete" /\ checked = None
    /\ ledger[f] # None /\ ledger[f].outcome \in Verified
    /\ ledger' = [ledger EXCEPT ![f] = None]
    /\ checked' = IF StillTheSame(f) THEN f ELSE None
    /\ UNCHANGED <<kind, run, device, source, log, server, imported, online, runs, events, unseen>>

deletionUnlinks ==
    /\ phase = "delete" /\ checked # None
    /\ disk' = IF Here(checked) = None THEN disk ELSE [disk EXCEPT ![card][checked] = 0]
    /\ checked' = None
    /\ UNCHANGED <<kind, run, card, known, deleteAfter, source, log, ledger, server, imported,
                   online, runs, events, unseen>>

\* Nothing is left to delete; the drive may be ejected, which another event does.
deletionEnds ==
    /\ phase = "delete" /\ checked = None
    /\ \A f \in Files : ledger[f] # None => ledger[f].outcome \notin Verified
    /\ phase' = "idle" /\ progress' = "done"
    /\ UNCHANGED <<kind, row, dry, proc, route, device, import, server, imported, online, runs,
                   events, unseen>>

-----------------------------------------------------------------------------
(* The import of a remote folder.                                          *)

isCancelled == row \in {"cancelling", "cancelled"}

\* Mutant of OnlineEnds: only a running row gets a status.
OnlineEndsRunning(status, left) ==
    /\ row' = IF row = "running" THEN status ELSE row
    /\ progress' = "done" /\ phase' = "idle" /\ proc' = FALSE
    /\ pending' = {} /\ current' = None
    /\ partial' = left

\* The task is over: its row gets a status, unless it has a terminal one.
OnlineEnds(status, left) ==
    /\ row' = IF row \in {"running", "cancelling"} THEN status ELSE row
    /\ progress' = "done" /\ phase' = "idle" /\ proc' = FALSE
    /\ pending' = {} /\ current' = None
    /\ partial' = left

OnlineFails(left) == OnlineEnds(IF isCancelled THEN "cancelled" ELSE "failed", left)

\* Mutant of Reusable: a staged archive is taken whatever its size.
ReusableAny(a, v) == ~dry /\ staged[a] # 0

\* A staged archive of the expected size is not downloaded again.
Reusable(a, v) == ~dry /\ staged[a] = v

\* Up to the next await: some archive is uploaded, or downloaded if there is room
\* for it, or none is left.  done: the archive whose staged file goes before that.
Proceed(rest, done) ==
    LET kept == [a \in Archives |-> IF a \in done THEN 0 ELSE staged[a]] IN
    IF isCancelled THEN OnlineFails(partial) /\ staged' = kept
    ELSE IF rest = {} THEN OnlineEnds("completed", partial) /\ staged' = kept
    ELSE \E p \in rest :
           LET reused == Reusable(p[1], p[2])
               tidied == IF reused \/ dry THEN kept ELSE [kept EXCEPT ![p[1]] = 0]
           IN  \/ /\ pending' = rest /\ current' = p
                  /\ phase' = IF reused THEN "import" ELSE "download"
                  /\ staged' = tidied
                  /\ partial' = IF reused THEN partial ELSE partial \ {p[1]}
                  /\ proc' = TRUE
                  /\ UNCHANGED <<row, progress>>
               \/ ~reused /\ OnlineFails(partial) /\ staged' = tidied

startOnlineImport(d) ==
    /\ kind = "online" /\ ~Busy /\ route = "none" /\ runs < MaxRuns
    /\ runs' = runs + 1
    /\ row' = "running" /\ progress' = "running" /\ dry' = d
    /\ phase' = "list" /\ proc' = TRUE
    /\ UNCHANGED <<kind, route, device, import, server, imported, online, events, unseen>>

listRemoteTakeoutArchives ==
    /\ phase = "list" /\ proc
    /\ \/ Proceed({<<a, remote[a]>> : a \in Archives} \ completed, {})
       \/ OnlineFails(partial) /\ UNCHANGED staged
    /\ UNCHANGED <<kind, dry, route, device, import, server, imported, remote, completed, runs,
                   events, unseen>>

\* rclone fails, or is killed, and leaves a partial file, unless a cancel asked for
\* it to go, or the run was a dry one.
downloadFails(dropPartial) ==
    /\ phase = "download" /\ proc
    /\ OnlineFails(IF dry \/ (isCancelled /\ dropPartial) THEN partial \ {current[1]}
                   ELSE partial \cup {current[1]})
    /\ UNCHANGED <<kind, dry, route, device, import, server, imported, remote, staged, completed,
                   runs, events, unseen>>

\* The file is whole, and what the remote has by now.  It is renamed if its size is
\* the listed one, and uploaded unless a cancel is seen.
downloadRemoteFile ==
    LET a == current[1] IN
    /\ phase = "download" /\ proc
    /\ staged' = IF remote[a] = current[2] /\ ~dry THEN [staged EXCEPT ![a] = remote[a]]
                 ELSE staged
    /\ IF remote[a] # current[2] \/ isCancelled THEN OnlineFails(partial)
       ELSE phase' = "import" /\ UNCHANGED <<row, progress, proc, pending, current, partial>>
    /\ UNCHANGED <<kind, dry, route, device, import, server, imported, remote, completed, runs,
                   events, unseen>>

\* What immich-go reads: the staged file, or what a dry run downloaded.
Uploaded == IF dry THEN {} ELSE {<<current[1], staged[current[1]]>>}

\* immich-go fails, or is killed; it may have taken everything all the same.
uploadFails ==
    /\ phase = "import" /\ proc
    /\ imported' \in {imported, imported \cup Uploaded}
    /\ OnlineFails(partial)
    /\ UNCHANGED <<kind, dry, route, device, import, server, remote, staged, completed, runs,
                   events, unseen>>

Checkpoint == IF dry THEN completed ELSE completed \cup {current}

\* Exit 0 without errors: the archive is recorded, its file removed, the next one begun.
uploadTakeoutArchive ==
    /\ phase = "import" /\ proc
    /\ imported' = imported \cup Uploaded
    /\ completed' = Checkpoint
    /\ Proceed(pending \ {current}, IF dry THEN {} ELSE {current[1]})
    /\ UNCHANGED <<kind, dry, route, device, import, server, remote, runs, events, unseen>>

-----------------------------------------------------------------------------
(* The cancel route.                                                       *)

Event == events < MaxEvents /\ events' = events + 1

\* Mutant of Awaits: a process that was signalled is not waited for.
AwaitsTask == kind = "online"

\* A drive's route waits for a process, an online one for the whole task.
Awaits == kind = "online" \/ proc

\* The row is claimed, the processes are signalled.
cancel ==
    /\ row = "running" /\ phase # "idle" /\ Event
    /\ progress' = "cancelling"
    /\ row' = IF Awaits THEN "cancelling" ELSE "cancelled"
    /\ route' = IF Awaits THEN "waiting" ELSE "none"
    /\ UNCHANGED <<kind, dry, phase, proc, device, import, server, imported, online, runs,
                   unseen>>

Stopped == IF kind = "online" THEN phase = "idle" ELSE ~proc

routeConfirms ==
    /\ route = "waiting" /\ Stopped
    /\ route' = "none"
    /\ row' = IF row = "cancelling" THEN "cancelled" ELSE row
    /\ UNCHANGED <<kind, dry, progress, phase, proc, device, import, server, imported, online,
                   runs, events, unseen>>

\* A process survives both signals: the route answers 500 and leaves the row.
routeGivesUp ==
    /\ route = "waiting" /\ proc /\ Event
    /\ route' = "none"
    /\ UNCHANGED <<kind, row, dry, progress, phase, proc, device, import, server, imported,
                   online, runs, unseen>>

-----------------------------------------------------------------------------
(* Users, cards, the remote and crashes.                                   *)

\* f's upload is logged and its fingerprint still to be taken, or it is about to go.
Unwatched ==
    {f \in Files : \/ log[f] \in Verified /\ ledger[f] = None
                      /\ phase \in {"upload", "retryDir", "retry", "ledger"}
                   \/ f = checked}

\* A user, or a camera, writes or removes a file.
changeFile(f) ==
    /\ kind = "drive" /\ Here(f) # None /\ Event
    /\ \E v \in {0, disk[card][f] + 1} \cap (0..MaxVersion) : disk' = [disk EXCEPT ![card][f] = v]
    /\ unseen' = unseen \cup ({f} \cap Unwatched)
    /\ UNCHANGED <<kind, run, card, known, deleteAfter, import, server, imported, online, runs>>

\* A card is pulled, or another one put in its place.
swapCard ==
    /\ kind = "drive" /\ Event
    /\ card' \in (Cards \cup {None}) \ {card}
    /\ unseen' = unseen \cup Unwatched
    /\ UNCHANGED <<kind, run, known, disk, deleteAfter, import, server, imported, online, runs>>

\* Only the mount point is compared: another card in its place is not noticed.
\* A drive that was not there may be imported at once.
poll ==
    /\ kind = "drive" /\ known # (card # None)
    /\ known' = (card # None)
    /\ IF card \in AutoImport /\ ~Busy /\ route = "none" /\ runs < MaxRuns
       THEN startImport(card, FALSE)
       ELSE UNCHANGED <<row, dry, progress, phase, proc, import, runs, unseen>>
    /\ UNCHANGED <<kind, route, card, disk, deleteAfter, server, imported, online, events>>

updateDrive(c) ==
    /\ kind = "drive" /\ Event
    /\ deleteAfter' = [deleteAfter EXCEPT ![c] = ~@]
    /\ UNCHANGED <<kind, run, card, known, disk, import, server, imported, online, runs, unseen>>

changeRemote(a) ==
    /\ kind = "online" /\ Event
    /\ remote[a] < MaxVersion /\ remote' = [remote EXCEPT ![a] = @ + 1]
    /\ UNCHANGED <<kind, run, device, import, server, imported, pending, current, staged, partial,
                   completed, runs, unseen>>

\* The process ends and starts again; what ran for it ends with it.
restart ==
    /\ phase # "idle" /\ Event
    /\ row' = CASE row = "running" -> "failed" [] row = "cancelling" -> "cancelled"
                [] OTHER -> row
    /\ progress' = "none" /\ phase' = "idle" /\ proc' = FALSE /\ route' = "none"
    /\ known' = (card # None)
    /\ source' = NoSource /\ log' = NoLog /\ ledger' = NoLedger /\ checked' = None
    /\ unseen' = {}
    /\ \/ phase # "import" /\ UNCHANGED <<imported, completed>>
       \/ phase = "import" /\ imported' \in {imported, imported \cup Uploaded}
          /\ UNCHANGED completed
       \/ \* after the archive was recorded, before its file was removed
          phase = "import" /\ imported' = imported \cup Uploaded /\ completed' = Checkpoint
    /\ partial' = IF phase = "download" /\ ~dry THEN partial \cup {current[1]} ELSE partial
    /\ pending' = {} /\ current' = None
    /\ UNCHANGED <<kind, dry, card, disk, deleteAfter, server, remote, staged, runs>>

Executor ==
    \/ \E exit \in {"zero", "one", "killed"} : immichEnds(exit)
    \/ \E exit \in {"zero", "one"}, taken \in SUBSET Files : retryEnds(exit, taken)
    \/ retryStarts \/ spawnFails
    \/ ledgerThrows \/ persistMediaImportLedger
    \/ \E f \in Files : ledgerReads(f) \/ deletionChecks(f)
    \/ deletionUnlinks \/ deletionEnds
    \/ listRemoteTakeoutArchives \/ downloadRemoteFile \/ uploadFails \/ uploadTakeoutArchive
    \/ \E drop \in BOOLEAN : downloadFails(drop)

Next ==
    \/ \E c \in Cards, d \in BOOLEAN : importFromDrive(c, d)
    \/ \E d \in BOOLEAN : startOnlineImport(d)
    \/ \E f \in Files : uploads(f) \/ errs(f) \/ changeFile(f)
    \/ Executor
    \/ cancel \/ routeConfirms \/ routeGivesUp
    \/ swapCard \/ poll \/ restart
    \/ \E c \in Cards : updateDrive(c)
    \/ \E a \in Archives : changeRemote(a)

\* Processes end and promises settle: what is awaited comes about.
Fairness == WF_vars(Executor) /\ WF_vars(routeConfirms)

Spec == Init /\ [][Next]_vars /\ Fairness

-----------------------------------------------------------------------------
(* Properties.                                                             *)

Deletes(c, f) == phase = "delete" /\ disk[c][f] # 0 /\ disk'[c][f] = 0 /\ f = checked

(* "Only files with per-run success or duplicate evidence are deleted": a  *)
(* deleted content is in Immich, whatever was edited, pulled, swapped or   *)
(* cancelled meanwhile, except for a change nobody fingerprinted: between  *)
(* a file's upload and its ledger entry, or its last check and its unlink. *)
DeletedWasUploaded ==
    [][\A c \in Cards, f \in Files : Deletes(c, f) =>
          /\ row \in {"completed", "partial"}
          /\ <<c, f, disk[c][f]>> \in server \/ f \in unseen]_vars

(* A cancel that was confirmed is a fact: nothing of that run reaches      *)
(* Immich any more, nothing is recorded, no source is deleted.             *)
CancelledIsQuiet ==
    [][row = "cancelled" /\ row' = "cancelled" =>
          /\ server' = server /\ imported' = imported /\ completed' = completed
          /\ phase # "delete"]_vars

(* A checkpoint is never wrong: an archive that later runs skip was taken  *)
(* in exactly that version, through crashes, cancels, leftovers of failed  *)
(* runs and a remote that changes under the import.                        *)
CheckpointMeansImported == completed \subseteq imported

(* A cancel that was claimed ends, even if its process outlives the wait.  *)
CancelEnds == row = "cancelling" ~> row # "cancelling"
=============================================================================
