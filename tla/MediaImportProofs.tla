-------------------------- MODULE MediaImportProofs --------------------------
(* The import of drives and archives, for any number of drives, files,     *)
(* archives, versions and runs: what is deleted was uploaded, a cancel     *)
(* that was confirmed is quiet, and checkpoints are true. Each needs to    *)
(* know where evidence is while a run has it: in the log, in the ledger,   *)
(* in the path that is about to go, in the staged file.                    *)
EXTENDS MediaImport, TLAPS

Pairs == Archives \X Versions

WithProcess == {"upload", "retry", "list", "download", "import"}

\* Which phases a run has, and that whoever has one is busy.
RunOK ==
    /\ kind \in {"drive", "online"}
    /\ phase \in IF kind = "drive" THEN {"idle", "upload", "retryDir", "retry", "ledger", "delete"}
                 ELSE {"idle", "list", "download", "import"}
    /\ proc <=> phase \in WithProcess
    /\ phase # "idle" => Busy
    /\ phase = "delete" => row \in {"completed", "partial"} /\ ~dry

\* A run that was cancelled has no process and no archive, and deletes nothing.
CancelledOK == row = "cancelled" => phase \in {"idle", "retryDir", "ledger"}

DriveType ==
    /\ card \in Cards \cup {None}
    /\ disk \in [Cards -> [Files -> 0..MaxVersion]]
    /\ log \in [Files -> {"none", "uploaded", "duplicate", "error"}]
    /\ DOMAIN ledger = Files
    /\ checked \in Files \cup {None}
    /\ checked # None => phase = "delete"

\* The evidence of a file that nobody changed unseen: in the log, in the ledger, on the way out.
Evidence ==
    kind = "drive" /\ ~dry =>
        \A f \in Files \ unseen :
            /\ phase \in {"upload", "retryDir", "retry", "ledger"} /\ log[f] \in Verified
               /\ ledger[f] = None => Here(f) \in server
            /\ ledger[f] # None /\ ledger[f].outcome \in Verified => ledger[f].content \in server
            /\ f = checked => Here(f) \in server

DriveOK == DriveType /\ Evidence

\* One version of each archive is pending; what is uploaded is staged in that version.
OnlineOK ==
    /\ remote \in [Archives -> Versions]
    /\ staged \in [Archives -> 0..MaxVersion]
    /\ pending \subseteq Pairs
    /\ \A p, q \in pending : p[1] = q[1] => p = q
    /\ phase \in {"download", "import"} => current \in pending
    /\ phase = "import" /\ ~dry => staged[current[1]] = current[2]
    /\ CheckpointMeansImported

MediaInv == RunOK /\ CancelledOK /\ DriveOK /\ OnlineOK

\* What each step does to what has left the run.
Quiet == row = "cancelled" /\ row' = "cancelled" =>
             /\ server' = server /\ imported' = imported /\ completed' = completed
             /\ phase # "delete"

OnlyEvidenced == \A c \in Cards, f \in Files : Deletes(c, f) =>
                     /\ row \in {"completed", "partial"}
                     /\ <<c, f, disk[c][f]>> \in server \/ f \in unseen

-----------------------------------------------------------------------------

LEMMA MediaStarts == Init => MediaInv
<1> SUFFICES ASSUME Init PROVE MediaInv
  OBVIOUS
<1>1. RunOK /\ CancelledOK
  BY MediaImportAssumption
  DEF MediaImportAssumption, Init, RunOK, WithProcess, Busy, CancelledOK
<1>2. DriveOK
  BY MediaImportAssumption
  DEF MediaImportAssumption, Init, DriveOK, DriveType, Evidence, Verified, NoLog, NoLedger
<1>3. OnlineOK
  BY MediaImportAssumption
  DEF MediaImportAssumption, Init, OnlineOK, Pairs, Versions, CheckpointMeansImported
<1> QED
  BY <1>1, <1>2, <1>3 DEF MediaInv

\* While a path is checked, what would go is what Immich has.
LEMMA DeletionsAreEvidenced ==
    ASSUME MediaInv, NEW f \in Files,
           disk' = disk \/ (card \in Cards /\ \E v : disk' = [disk EXCEPT ![card][f] = v])
    PROVE  OnlyEvidenced
<1> SUFFICES ASSUME NEW c \in Cards, NEW g \in Files, Deletes(c, g), g \notin unseen
             PROVE  row \in {"completed", "partial"} /\ <<c, g, disk[c][g]>> \in server
  BY DEF OnlyEvidenced, Deletes, MediaInv, RunOK
<1>1. row \in {"completed", "partial"} /\ ~dry /\ kind = "drive"
  BY DEF Deletes, MediaInv, RunOK
<1>2. c = card
  BY DEF Deletes, MediaInv, DriveOK, DriveType
<1>3. Here(g) \in server
  BY <1>1 DEF Deletes, MediaInv, DriveOK, Evidence
<1>4. Here(g) = <<c, g, disk[c][g]>>
  BY <1>2, MediaImportAssumption DEF MediaImportAssumption, Deletes, Here
<1> QED
  BY <1>1, <1>3, <1>4

\* The steps of a drive's run and of the cancel leave the archives alone, and the steps of an
\* online one the drive.
LEMMA ArchivesStay ==
    ASSUME MediaInv, RunOK', UNCHANGED <<imported, online>>,
           phase' \in {"idle", "upload", "retryDir", "retry", "ledger", "delete", "list"}
           \/ (phase' = phase /\ dry' = dry)
    PROVE  OnlineOK'
BY DEF MediaInv, OnlineOK, online, CheckpointMeansImported

LEMMA DriveStays ==
    ASSUME MediaInv, UNCHANGED <<kind, dry, device, import, server, unseen>>, phase # "delete",
           phase' \in {"upload", "retryDir", "retry", "ledger"} =>
               phase \in {"upload", "retryDir", "retry", "ledger"}
    PROVE  DriveOK'
<1>1. checked = None
  BY DEF MediaInv, DriveOK, DriveType
<1> QED
  BY <1>1 DEF MediaInv, DriveOK, DriveType, Evidence, device, import, Here

-----------------------------------------------------------------------------
(* The import of a drive.                                                  *)

\* A run starts with an empty log, an empty ledger and nothing unseen.
LEMMA FreshDrive ==
    ASSUME MediaInv, RunOK', UNCHANGED <<kind, disk, server>>, card' \in Cards \cup {None},
           log' = NoLog, ledger' = NoLedger, checked' = None
    PROVE  DriveOK'
BY MediaImportAssumption
DEF MediaImportAssumption, MediaInv, DriveOK, DriveType, Evidence, Verified, NoLog, NoLedger

LEMMA StartKeeps ==
    ASSUME MediaInv, NEW c, NEW d \in BOOLEAN, startImport(c, d),
           UNCHANGED <<kind, card, disk, server, imported, online>>
    PROVE  MediaInv' /\ Quiet /\ OnlyEvidenced
<1>1. RunOK' /\ CancelledOK'
  BY DEF startImport, MediaInv, RunOK, WithProcess, Busy, CancelledOK
<1>2. DriveOK' /\ OnlineOK'
  <2>1. phase' = "upload"
    BY DEF startImport
  <2> QED
    BY <1>1, <2>1, FreshDrive, ArchivesStay DEF startImport, MediaInv, DriveOK, DriveType
<1>3. OnlyEvidenced
  BY DEF OnlyEvidenced, Deletes
<1>4. Quiet
  BY DEF startImport, Quiet
<1> QED
  BY <1>1, <1>2, <1>3, <1>4 DEF MediaInv

LEMMA UploadKeeps ==
    ASSUME MediaInv, NEW f \in Files, uploads(f) \/ errs(f)
    PROVE  MediaInv' /\ Quiet /\ OnlyEvidenced
<1>1. /\ UNCHANGED <<kind, run, card, disk, ledger, checked, imported, online, unseen>>
      /\ phase = "upload" /\ proc /\ kind = "drive"
      /\ \E o \in {"uploaded", "duplicate", "error"} : log' = [log EXCEPT ![f] = o]
      /\ server \subseteq server'
      /\ ~dry /\ log'[f] \in Verified => Here(f) \in server'
  BY DEF uploads, errs, device, MediaInv, DriveOK, DriveType, Verified
<1>2. RunOK' /\ CancelledOK'
  BY <1>1 DEF run, MediaInv, RunOK, CancelledOK, Busy
<1>3. DriveType'
  BY <1>1 DEF run, MediaInv, DriveOK, DriveType
<1>4. Evidence'
  BY <1>1 DEF run, MediaInv, DriveOK, DriveType, Evidence, Here
<1>5. OnlineOK'
  BY <1>1, <1>2, ArchivesStay DEF run
<1>6. Quiet
  BY <1>1 DEF Quiet, MediaInv, CancelledOK
<1>7. OnlyEvidenced
  BY <1>1 DEF OnlyEvidenced, Deletes
<1> QED
  BY <1>2, <1>3, <1>4, <1>5, <1>6, <1>7 DEF MediaInv, DriveOK

\* A step of a run before its deletion, which moves the run and may bring files to Immich.
LEMMA RunMoves ==
    ASSUME MediaInv, RunOK', CancelledOK', UNCHANGED <<kind, dry, disk, card, log, ledger, checked,
                                                      imported, online, unseen>>,
           server \subseteq server', row = "cancelled" => server' = server,
           phase \in {"upload", "retryDir", "retry", "ledger"},
           phase' \in {"idle", "upload", "retryDir", "retry", "ledger", "delete"}
    PROVE  MediaInv' /\ Quiet /\ OnlyEvidenced
<1>1. checked = None
  BY DEF MediaInv, DriveOK, DriveType
<1>2. DriveType'
  BY <1>1 DEF MediaInv, DriveOK, DriveType
<1>3. Evidence'
  BY <1>1, MediaImportAssumption DEF MediaImportAssumption, MediaInv, DriveOK, Evidence, Here
<1>4. OnlineOK'
  BY ArchivesStay
<1>5. Quiet
  BY DEF Quiet, online
<1>6. OnlyEvidenced
  BY DEF OnlyEvidenced, Deletes
<1> QED
  BY <1>2, <1>3, <1>4, <1>5, <1>6 DEF MediaInv, DriveOK

LEMMA Statuses ==
    ASSUME NEW exit, NEW recovered
    PROVE  resolveMediaImportStatus(exit, recovered) \in {"cancelled", "completed", "partial", "failed"}
BY DEF resolveMediaImportStatus

LEMMA EndsKeep ==
    ASSUME MediaInv, NEW exit, immichEnds(exit) PROVE MediaInv' /\ Quiet /\ OnlyEvidenced
<1>1. /\ UNCHANGED <<kind, dry, progress, disk, card, log, ledger, checked, server, imported, online,
                     unseen>>
      /\ phase = "upload" /\ proc /\ kind = "drive"
      /\ \/ phase' = "retryDir" /\ ~proc' /\ row' = row
         \/ phase' = "ledger" /\ ~proc'
  BY DEF immichEnds, Finalize, device, import
<1>2. RunOK' /\ CancelledOK'
  BY <1>1 DEF MediaInv, RunOK, WithProcess, CancelledOK, Busy
<1> QED
  BY <1>1, <1>2, RunMoves

LEMMA RetryKeeps ==
    ASSUME MediaInv, retryStarts \/ \E exit, taken : retryEnds(exit, taken)
    PROVE  MediaInv' /\ Quiet /\ OnlyEvidenced
<1>1. /\ UNCHANGED <<kind, dry, progress, disk, card, log, ledger, checked, imported, online, unseen>>
      /\ \/ phase = "retryDir" /\ server' = server /\ phase' = "ledger" /\ ~proc'
         \/ phase = "retryDir" /\ server' = server /\ phase' = "retry" /\ proc'
            /\ row' = row /\ row # "cancelled"
         \/ phase = "retry" /\ proc /\ server \subseteq server' /\ phase' = "ledger" /\ ~proc'
  BY DEF retryStarts, retryEnds, Finalize, device, import
<1>2. kind = "drive" /\ (phase = "retry" => row # "cancelled")
  BY <1>1 DEF MediaInv, RunOK, CancelledOK
<1>3. RunOK' /\ CancelledOK'
  BY <1>1, <1>2 DEF MediaInv, RunOK, WithProcess, CancelledOK, Busy
<1> QED
  BY <1>1, <1>2, <1>3, RunMoves

LEMMA SpawnKeeps ==
    ASSUME MediaInv, spawnFails PROVE MediaInv' /\ Quiet /\ OnlyEvidenced
<1>1. /\ UNCHANGED <<kind, dry, disk, card, log, ledger, checked, server, imported, online, unseen>>
      /\ phase = "upload" /\ phase' = "idle" /\ ~proc'
  BY DEF spawnFails, device, import
<1>2. RunOK' /\ CancelledOK'
  BY <1>1 DEF MediaInv, RunOK, WithProcess, CancelledOK
<1> QED
  BY <1>1, <1>2, RunMoves

-----------------------------------------------------------------------------
(* The ledger and the deletion.                                            *)

LEMMA LedgerReadsKeeps ==
    ASSUME MediaInv, NEW f \in Files, ledgerReads(f) PROVE MediaInv' /\ Quiet /\ OnlyEvidenced
<1>1. /\ UNCHANGED <<kind, run, disk, card, log, checked, server, imported, online, unseen>>
      /\ phase = "ledger" /\ ledger[f] = None /\ checked = None
      /\ ledger' = [ledger EXCEPT ![f] = [outcome |-> log[f], content |-> Here(f)]]
  BY DEF ledgerReads, device, parseImmichLogLine, MediaInv, DriveOK, DriveType
<1>2. RunOK' /\ CancelledOK'
  BY <1>1 DEF run, MediaInv, RunOK, CancelledOK, Busy
<1>3. DriveType'
  BY <1>1 DEF run, MediaInv, DriveOK, DriveType
<1>4. Evidence'
  <2> SUFFICES ASSUME kind = "drive", ~dry, NEW g \in Files \ unseen PROVE
            /\ log[g] \in Verified /\ ledger'[g] = None => Here(g) \in server
            /\ ledger'[g] # None /\ ledger'[g].outcome \in Verified => ledger'[g].content \in server
            /\ g # checked
    BY <1>1, MediaImportAssumption DEF MediaImportAssumption, run, Evidence, Here
  <2>1. /\ log[g] \in Verified /\ ledger[g] = None => Here(g) \in server
        /\ ledger[g] # None /\ ledger[g].outcome \in Verified => ledger[g].content \in server
    BY <1>1 DEF MediaInv, DriveOK, Evidence
  <2>2. CASE g = f
    BY <1>1, <2>1, <2>2, MediaImportAssumption
    DEF MediaImportAssumption, MediaInv, DriveOK, DriveType
  <2>3. CASE g # f
    BY <1>1, <2>1, <2>3, MediaImportAssumption
    DEF MediaImportAssumption, MediaInv, DriveOK, DriveType
  <2> QED
    BY <2>2, <2>3
<1>5. OnlineOK'
  BY <1>1, <1>2, ArchivesStay DEF run
<1>6. Quiet /\ OnlyEvidenced
  BY <1>1 DEF Quiet, OnlyEvidenced, Deletes, online
<1> QED
  BY <1>2, <1>3, <1>4, <1>5, <1>6 DEF MediaInv, DriveOK

LEMMA LedgerEndsKeeps ==
    ASSUME MediaInv, ledgerThrows \/ persistMediaImportLedger
    PROVE  MediaInv' /\ Quiet /\ OnlyEvidenced
<1>1. /\ UNCHANGED <<kind, dry, proc, disk, card, log, ledger, checked, server, imported, online,
                     unseen>>
      /\ phase = "ledger"
      /\ \/ phase' = "idle"
         \/ phase' = "delete" /\ MayDelete /\ UNCHANGED <<row, progress>>
  BY DEF ledgerThrows, persistMediaImportLedger, device, import
<1>2. RunOK' /\ CancelledOK'
  BY <1>1 DEF MediaInv, RunOK, WithProcess, CancelledOK, Busy, MayDelete
<1> QED
  BY <1>1, <1>2, RunMoves

LEMMA ChecksKeep ==
    ASSUME MediaInv, NEW f \in Files, deletionChecks(f) PROVE MediaInv' /\ Quiet /\ OnlyEvidenced
<1>1. /\ UNCHANGED <<kind, run, disk, card, log, server, imported, online, unseen>>
      /\ phase = "delete" /\ ledger[f] # None /\ ledger[f].outcome \in Verified
      /\ ledger' = [ledger EXCEPT ![f] = None]
      /\ checked' \in {f, None} /\ (checked' = f => Here(f) = ledger[f].content)
  BY MediaImportAssumption
  DEF MediaImportAssumption, deletionChecks, device, StillTheSame
<1>2. RunOK' /\ CancelledOK'
  BY <1>1 DEF run, MediaInv, RunOK, CancelledOK, Busy
<1>3. DriveType'
  BY <1>1 DEF run, MediaInv, DriveOK, DriveType
<1>4. Evidence'
  <2> SUFFICES ASSUME kind = "drive", ~dry, NEW g \in Files \ unseen PROVE
            /\ ledger'[g] # None /\ ledger'[g].outcome \in Verified => ledger'[g].content \in server
            /\ g = checked' => Here(g) \in server
    BY <1>1 DEF run, Evidence, Here
  <2>1. ledger[g] # None /\ ledger[g].outcome \in Verified => ledger[g].content \in server
    BY DEF MediaInv, DriveOK, Evidence
  <2> QED
    BY <1>1, <2>1, MediaImportAssumption
    DEF MediaImportAssumption, MediaInv, DriveOK, DriveType
<1>5. OnlineOK'
  BY <1>1, <1>2, ArchivesStay DEF run
<1>6. Quiet /\ OnlyEvidenced
  BY <1>1 DEF Quiet, OnlyEvidenced, Deletes, online, MediaInv, CancelledOK
<1> QED
  BY <1>2, <1>3, <1>4, <1>5, <1>6 DEF MediaInv, DriveOK

LEMMA UnlinkKeeps ==
    ASSUME MediaInv, deletionUnlinks PROVE MediaInv' /\ Quiet /\ OnlyEvidenced
<1>1. /\ UNCHANGED <<kind, run, card, log, ledger, server, imported, online, unseen>>
      /\ phase = "delete" /\ checked \in Files /\ checked' = None
      /\ disk' = disk \/ (card \in Cards /\ disk' = [disk EXCEPT ![card][checked] = 0])
  BY DEF deletionUnlinks, MediaInv, DriveOK, DriveType, Here
<1>2. RunOK' /\ CancelledOK'
  BY <1>1 DEF run, MediaInv, RunOK, CancelledOK, Busy
<1>3. DriveType'
  <2>1. disk' \in [Cards -> [Files -> 0..MaxVersion]]
    BY <1>1, MediaImportAssumption DEF MediaImportAssumption, MediaInv, DriveOK, DriveType
  <2> QED
    BY <1>1, <2>1 DEF run, MediaInv, DriveOK, DriveType
<1>4. Evidence'
  BY <1>1, MediaImportAssumption DEF MediaImportAssumption, run, MediaInv, DriveOK, Evidence
<1>5. OnlineOK'
  BY <1>1, <1>2, ArchivesStay DEF run
<1>6. Quiet
  BY <1>1 DEF Quiet, online, MediaInv, CancelledOK
<1>7. OnlyEvidenced
  BY <1>1, DeletionsAreEvidenced
<1> QED
  BY <1>2, <1>3, <1>4, <1>5, <1>6, <1>7 DEF MediaInv, DriveOK

LEMMA DeletionEndsKeeps ==
    ASSUME MediaInv, deletionEnds PROVE MediaInv' /\ Quiet /\ OnlyEvidenced
<1>1. /\ UNCHANGED <<kind, row, dry, proc, disk, card, log, ledger, checked, server, imported, online,
                     unseen>>
      /\ phase = "delete" /\ checked = None /\ phase' = "idle"
  BY DEF deletionEnds, device, import
<1>2. RunOK' /\ CancelledOK'
  BY <1>1 DEF MediaInv, RunOK, WithProcess, CancelledOK
<1>3. DriveOK'
  BY <1>1, MediaImportAssumption
  DEF MediaImportAssumption, MediaInv, DriveOK, DriveType, Evidence
<1>4. OnlineOK'
  BY <1>1, <1>2, ArchivesStay
<1>5. Quiet /\ OnlyEvidenced
  BY <1>1 DEF Quiet, OnlyEvidenced, Deletes, online, MediaInv, CancelledOK
<1> QED
  BY <1>2, <1>3, <1>4, <1>5 DEF MediaInv

-----------------------------------------------------------------------------
(* The import of a remote folder.                                          *)

\* The steps of an online run leave the drive alone.
LEMMA DriveIdle ==
    ASSUME MediaInv, kind = "online", UNCHANGED <<kind, dry, device, import, server, unseen>>,
           phase' \in {"idle", "list", "download", "import"}
    PROVE  DriveOK' /\ OnlyEvidenced
<1>1. phase # "delete" /\ disk' = disk
  BY DEF MediaInv, RunOK, device
<1> QED
  BY <1>1, DriveStays DEF OnlyEvidenced, Deletes

LEMMA OverKeeps ==
    ASSUME MediaInv, kind' = kind, kind = "online", phase' = "idle", ~proc'
    PROVE  RunOK' /\ CancelledOK'
BY DEF MediaInv, RunOK, WithProcess, CancelledOK

\* Where Proceed leads: the run is over, or it has the next archive, staged if it is uploaded.
LEMMA Proceeded ==
    ASSUME MediaInv, kind = "online", phase # "idle", NEW rest \in SUBSET Pairs, NEW done,
           \A p, q \in rest : p[1] = q[1] => p = q,
           \A p \in rest : p[1] \notin done,
           Proceed(rest, done), UNCHANGED <<kind, dry, remote>>, completed' \subseteq imported'
    PROVE  RunOK' /\ CancelledOK' /\ OnlineOK'
           /\ phase' \in {"idle", "download", "import"}
<1> DEFINE kept == [a \in Archives |-> IF a \in done THEN 0 ELSE staged[a]]
<1>1. /\ kept \in [Archives -> 0..MaxVersion]
      /\ \A a \in Archives \ done : kept[a] = staged[a]
      /\ \A a \in Archives : [kept EXCEPT ![a] = 0] \in [Archives -> 0..MaxVersion]
  BY MediaImportAssumption DEF MediaImportAssumption, MediaInv, OnlineOK
<1>2. staged' \in [Archives -> 0..MaxVersion]
  <2>1. staged' = kept \/ \E p \in rest : staged' \in {kept, [kept EXCEPT ![p[1]] = 0]}
    BY DEF Proceed
  <2>2. \A p \in rest : p[1] \in Archives
    BY DEF Pairs
  <2> HIDE DEF kept
  <2> QED
    BY <1>1, <2>1, <2>2
<1>3. CASE phase' = "idle" /\ ~proc' /\ pending' = {}
  BY <1>2, <1>3, OverKeeps DEF MediaInv, OnlineOK, CheckpointMeansImported
<1>4. CASE ~(phase' = "idle" /\ ~proc' /\ pending' = {})
  <2>1. PICK p \in rest :
          /\ ~isCancelled /\ UNCHANGED <<row, progress>>
          /\ pending' = rest /\ current' = p /\ proc'
          /\ phase' = IF Reusable(p[1], p[2]) THEN "import" ELSE "download"
          /\ staged' = IF Reusable(p[1], p[2]) \/ dry THEN kept ELSE [kept EXCEPT ![p[1]] = 0]
    BY <1>4 DEF Proceed, OnlineFails, OnlineEnds
  <2>2. phase' = "import" => staged'[p[1]] = p[2]
    <3>1. p[1] \in Archives \ done
      BY DEF Pairs
    <3> HIDE DEF kept
    <3> QED
      BY <1>1, <2>1, <3>1 DEF Reusable
  <2>3. RunOK' /\ CancelledOK'
    BY <2>1 DEF isCancelled, MediaInv, RunOK, WithProcess, CancelledOK, Busy
  <2>4. OnlineOK'
    BY <1>2, <2>1, <2>2 DEF MediaInv, OnlineOK, CheckpointMeansImported
  <2> QED
    BY <2>1, <2>3, <2>4
<1> QED
  BY <1>3, <1>4

LEMMA StartOnlineKeeps ==
    ASSUME MediaInv, NEW d \in BOOLEAN, startOnlineImport(d)
    PROVE  MediaInv' /\ Quiet /\ OnlyEvidenced
<1>1. /\ UNCHANGED <<kind, card, disk, log, ledger, checked, server, imported, online, unseen>>
      /\ kind = "online" /\ row' = "running" /\ progress' = "running" /\ phase' = "list" /\ proc'
      /\ ~Busy
  BY DEF startOnlineImport, device, import
<1>2. RunOK' /\ CancelledOK'
  BY <1>1 DEF MediaInv, RunOK, WithProcess, CancelledOK, Busy
<1>3. OnlineOK'
  BY <1>1, <1>2, ArchivesStay
<1>4. phase = "idle" /\ DriveType'
  BY <1>1 DEF MediaInv, RunOK, DriveOK, DriveType
<1>5. DriveOK'
  BY <1>1, <1>4 DEF DriveOK, Evidence
<1>6. Quiet /\ OnlyEvidenced
  BY <1>1 DEF Quiet, OnlyEvidenced, Deletes
<1> QED
  BY <1>2, <1>3, <1>5, <1>6 DEF MediaInv

LEMMA ListKeeps ==
    ASSUME MediaInv, listRemoteTakeoutArchives PROVE MediaInv' /\ Quiet /\ OnlyEvidenced
<1>1. /\ UNCHANGED <<kind, dry, device, import, server, imported, remote, completed, unseen>>
      /\ kind = "online" /\ phase = "list"
  BY DEF listRemoteTakeoutArchives, MediaInv, RunOK
<1>2. RunOK' /\ CancelledOK' /\ OnlineOK' /\ phase' \in {"idle", "download", "import"}
  <2>1. CASE OnlineFails(partial) /\ staged' = staged
    BY <1>1, <2>1, OverKeeps
    DEF OnlineFails, OnlineEnds, MediaInv, OnlineOK, CheckpointMeansImported
  <2>2. CASE Proceed({<<a, remote[a]>> : a \in Archives} \ completed, {})
    <3> DEFINE rest == {<<a, remote[a]>> : a \in Archives} \ completed
    <3>1. rest \subseteq Pairs
      BY DEF MediaInv, OnlineOK, Pairs
    <3>2. \A p, q \in rest : p[1] = q[1] => p = q
      OBVIOUS
    <3>3. completed' \subseteq imported'
      BY <1>1 DEF MediaInv, OnlineOK, CheckpointMeansImported
    <3> HIDE DEF rest
    <3>4. Proceed(rest, {})
      BY <2>2 DEF rest
    <3> QED
      BY <1>1, <3>1, <3>2, <3>3, <3>4, Proceeded
  <2> QED
    BY <2>1, <2>2 DEF listRemoteTakeoutArchives
<1>3. DriveOK' /\ OnlyEvidenced
  BY <1>1, <1>2, DriveIdle
<1>4. Quiet
  BY <1>1 DEF Quiet
<1> QED
  BY <1>2, <1>3, <1>4 DEF MediaInv

LEMMA DownloadFailsKeeps ==
    ASSUME MediaInv, NEW drop, downloadFails(drop) PROVE MediaInv' /\ Quiet /\ OnlyEvidenced
<1>1. /\ UNCHANGED <<kind, dry, device, import, server, imported, remote, staged, completed, unseen>>
      /\ phase = "download" /\ phase' = "idle" /\ ~proc' /\ pending' = {}
  BY DEF downloadFails, OnlineFails, OnlineEnds
<1>2. kind = "online"
  BY <1>1 DEF MediaInv, RunOK
<1>3. OnlineOK'
  BY <1>1 DEF MediaInv, OnlineOK, CheckpointMeansImported
<1>4. Quiet
  BY <1>1 DEF Quiet
<1> QED
  BY <1>1, <1>2, <1>3, <1>4, OverKeeps, DriveIdle DEF MediaInv

LEMMA DownloadKeeps ==
    ASSUME MediaInv, downloadRemoteFile PROVE MediaInv' /\ Quiet /\ OnlyEvidenced
<1>1. /\ UNCHANGED <<kind, dry, device, import, server, imported, remote, completed, unseen>>
      /\ phase = "download" /\ kind = "online"
      /\ current \in Pairs /\ current \in pending
  BY DEF downloadRemoteFile, MediaInv, RunOK, OnlineOK
<1>2. staged' = IF remote[current[1]] = current[2] /\ ~dry
                THEN [staged EXCEPT ![current[1]] = remote[current[1]]] ELSE staged
  BY DEF downloadRemoteFile
<1>3. staged' \in [Archives -> 0..MaxVersion]
  BY <1>1, <1>2, MediaImportAssumption
  DEF MediaImportAssumption, MediaInv, OnlineOK, Pairs, Versions
<1>4. CASE phase' = "idle" /\ ~proc' /\ pending' = {}
  <2>1. OnlineOK'
    BY <1>1, <1>3, <1>4 DEF MediaInv, OnlineOK, CheckpointMeansImported
  <2> QED
    BY <1>1, <1>4, <2>1, OverKeeps, DriveIdle DEF MediaInv, Quiet
<1>5. CASE ~(phase' = "idle" /\ ~proc' /\ pending' = {})
  <2>1. /\ phase' = "import" /\ UNCHANGED <<row, progress, proc, pending, current>>
        /\ ~isCancelled /\ remote[current[1]] = current[2]
    BY <1>5 DEF downloadRemoteFile, OnlineFails, OnlineEnds
  <2>2. ~dry => staged'[current[1]] = current[2]
    BY <1>1, <1>2, <2>1 DEF MediaInv, OnlineOK, Pairs
  <2>3. OnlineOK'
    BY <1>1, <1>3, <2>1, <2>2 DEF MediaInv, OnlineOK, CheckpointMeansImported
  <2>4. RunOK' /\ CancelledOK'
    BY <1>1, <2>1 DEF isCancelled, MediaInv, RunOK, WithProcess, CancelledOK, Busy
  <2> QED
    BY <1>1, <2>1, <2>3, <2>4, DriveIdle DEF MediaInv, Quiet
<1> QED
  BY <1>4, <1>5

\* What a real run hands to immich-go is the archive in the version that is recorded.
LEMMA UploadedIsCurrent ==
    ASSUME MediaInv, phase = "import", ~dry PROVE Uploaded = {current} /\ current \in Pairs
<1>1. current \in Pairs /\ staged[current[1]] = current[2]
  BY DEF MediaInv, OnlineOK
<1> QED
  BY <1>1 DEF Uploaded, Pairs

LEMMA UploadFailsKeeps ==
    ASSUME MediaInv, uploadFails PROVE MediaInv' /\ Quiet /\ OnlyEvidenced
<1>1. /\ UNCHANGED <<kind, dry, device, import, server, remote, staged, completed, unseen>>
      /\ phase = "import" /\ phase' = "idle" /\ ~proc' /\ pending' = {}
      /\ imported \subseteq imported'
  BY DEF uploadFails, OnlineFails, OnlineEnds
<1>2. kind = "online" /\ row # "cancelled"
  BY <1>1 DEF MediaInv, RunOK, CancelledOK
<1>3. OnlineOK'
  BY <1>1 DEF MediaInv, OnlineOK, CheckpointMeansImported
<1>4. Quiet
  BY <1>2 DEF Quiet
<1> QED
  BY <1>1, <1>2, <1>3, <1>4, OverKeeps, DriveIdle DEF MediaInv

LEMMA CheckpointKept ==
    ASSUME MediaInv, phase = "import"
    PROVE  Checkpoint \subseteq imported \cup Uploaded
BY UploadedIsCurrent DEF Checkpoint, MediaInv, OnlineOK, CheckpointMeansImported

LEMMA ArchiveKeeps ==
    ASSUME MediaInv, uploadTakeoutArchive PROVE MediaInv' /\ Quiet /\ OnlyEvidenced
<1> DEFINE rest == pending \ {current}
           done == IF dry THEN {} ELSE {current[1]}
<1>1. /\ UNCHANGED <<kind, dry, device, import, server, remote, unseen>>
      /\ phase = "import" /\ kind = "online" /\ row # "cancelled"
      /\ imported' = imported \cup Uploaded /\ completed' = Checkpoint
      /\ Proceed(rest, done)
  BY DEF uploadTakeoutArchive, MediaInv, RunOK, CancelledOK
<1>2. completed' \subseteq imported'
  BY <1>1, CheckpointKept
<1>3. /\ rest \subseteq Pairs /\ \A p, q \in rest : p[1] = q[1] => p = q
      /\ \A p \in rest : p[1] \notin done
  BY <1>1 DEF MediaInv, OnlineOK
<1> HIDE DEF rest, done
<1>4. RunOK' /\ CancelledOK' /\ OnlineOK' /\ phase' \in {"idle", "download", "import"}
  BY <1>1, <1>2, <1>3, Proceeded
<1> QED
  BY <1>1, <1>4, DriveIdle DEF MediaInv, Quiet

-----------------------------------------------------------------------------
(* The cancel route.                                                       *)

\* A step that moves neither the run's evidence nor the archives.
LEMMA NothingMoves ==
    ASSUME MediaInv, RunOK', CancelledOK',
           UNCHANGED <<kind, dry, phase, card, disk, log, ledger, checked, server, imported, online,
                       unseen>>,
           row = "cancelled" /\ row' = "cancelled" => phase # "delete"
    PROVE  MediaInv' /\ Quiet /\ OnlyEvidenced
<1>1. DriveOK'
  BY DEF MediaInv, DriveOK, DriveType, Evidence, Here
<1>2. OnlineOK'
  BY ArchivesStay
<1> QED
  BY <1>1, <1>2 DEF MediaInv, Quiet, OnlyEvidenced, Deletes, online

LEMMA CancelKeeps ==
    ASSUME MediaInv, cancel PROVE MediaInv' /\ Quiet /\ OnlyEvidenced
<1>1. /\ UNCHANGED <<kind, dry, phase, proc, card, disk, log, ledger, checked, server, imported, online,
                     unseen>>
      /\ row = "running" /\ phase # "idle" /\ phase # "delete" /\ progress' = "cancelling"
      /\ row' = "cancelled" => ~proc /\ kind # "online"
  BY DEF cancel, Awaits, device, import, MediaInv, RunOK
<1>2. RunOK' /\ CancelledOK'
  BY <1>1 DEF MediaInv, RunOK, WithProcess, CancelledOK, Busy
<1> QED
  BY <1>1, <1>2, NothingMoves

LEMMA RouteKeeps ==
    ASSUME MediaInv, routeConfirms \/ routeGivesUp PROVE MediaInv' /\ Quiet /\ OnlyEvidenced
<1>1. /\ UNCHANGED <<kind, dry, progress, phase, proc, card, disk, log, ledger, checked, server, imported,
                     online, unseen>>
      /\ \/ row' = row
         \/ row = "cancelling" /\ row' = "cancelled" /\ Stopped
  BY DEF routeConfirms, routeGivesUp, device, import
<1>2. RunOK' /\ CancelledOK'
  BY <1>1 DEF MediaInv, RunOK, WithProcess, CancelledOK, Busy, Stopped
<1>3. row = "cancelled" => phase # "delete"
  BY DEF MediaInv, CancelledOK
<1> QED
  BY <1>1, <1>2, <1>3, NothingMoves

-----------------------------------------------------------------------------
(* Users, cards, the remote and crashes.                                   *)

LEMMA ChangeKeeps ==
    ASSUME MediaInv, NEW f \in Files, changeFile(f) PROVE MediaInv' /\ Quiet /\ OnlyEvidenced
<1>1. /\ UNCHANGED <<kind, run, card, log, ledger, checked, server, imported, online>>
      /\ card \in Cards /\ unseen' = unseen \cup ({f} \cap Unwatched)
      /\ \E v \in 0..MaxVersion : disk' = [disk EXCEPT ![card][f] = v]
  BY DEF changeFile, Here, import, MediaInv, DriveOK, DriveType
<1>2. RunOK' /\ CancelledOK'
  BY <1>1 DEF run, MediaInv, RunOK, CancelledOK, Busy
<1>3. DriveType' /\ \A g \in Files \ {f} : Here(g)' = Here(g)
  <2>1. disk' \in [Cards -> [Files -> 0..MaxVersion]] /\ \A g \in Files \ {f} : disk'[card][g] = disk[card][g]
    BY <1>1 DEF MediaInv, DriveOK, DriveType
  <2> QED
    BY <1>1, <2>1 DEF run, MediaInv, DriveOK, DriveType, Here
<1>4. Evidence'
  <2> SUFFICES ASSUME kind = "drive", ~dry, NEW g \in Files \ unseen'
               PROVE
                 /\ phase \in {"upload", "retryDir", "retry", "ledger"} /\ log[g] \in Verified
                    /\ ledger[g] = None => Here(g)' \in server
                 /\ ledger[g] # None /\ ledger[g].outcome \in Verified => ledger[g].content \in server
                 /\ g = checked => Here(g)' \in server
    BY <1>1 DEF run, Evidence
  <2>1. g \notin unseen /\ (g = f => g \notin Unwatched)
    BY <1>1
  <2>2. /\ phase \in {"upload", "retryDir", "retry", "ledger"} /\ log[g] \in Verified
           /\ ledger[g] = None => Here(g) \in server
        /\ ledger[g] # None /\ ledger[g].outcome \in Verified => ledger[g].content \in server
        /\ g = checked => Here(g) \in server
    BY <2>1 DEF MediaInv, DriveOK, Evidence
  <2>3. CASE g # f
    BY <1>3, <2>2, <2>3
  <2>4. CASE g = f
    BY <2>1, <2>2, <2>4 DEF Unwatched
  <2> QED
    BY <2>3, <2>4
<1>5. OnlineOK'
  BY <1>1, <1>2, ArchivesStay DEF run
<1>6. Quiet
  BY <1>1 DEF Quiet, online, MediaInv, CancelledOK
<1>7. OnlyEvidenced
  BY <1>1, DeletionsAreEvidenced
<1> QED
  BY <1>2, <1>3, <1>4, <1>5, <1>6, <1>7 DEF MediaInv, DriveOK

LEMMA SwapKeeps ==
    ASSUME MediaInv, swapCard PROVE MediaInv' /\ Quiet /\ OnlyEvidenced
<1>1. /\ UNCHANGED <<kind, run, disk, log, ledger, checked, server, imported, online>>
      /\ card' \in Cards \cup {None} /\ unseen' = unseen \cup Unwatched
  BY DEF swapCard, import
<1>2. RunOK' /\ CancelledOK'
  BY <1>1 DEF run, MediaInv, RunOK, CancelledOK, Busy
<1>3. DriveType'
  BY <1>1 DEF run, MediaInv, DriveOK, DriveType
<1>4. Evidence'
  BY <1>1 DEF run, MediaInv, DriveOK, Evidence, Unwatched
<1>5. OnlineOK'
  BY <1>1, <1>2, ArchivesStay DEF run
<1>6. Quiet /\ OnlyEvidenced
  BY <1>1 DEF Quiet, OnlyEvidenced, Deletes, online, MediaInv, CancelledOK
<1> QED
  BY <1>2, <1>3, <1>4, <1>5, <1>6 DEF MediaInv, DriveOK

LEMMA PollKeeps ==
    ASSUME MediaInv, poll PROVE MediaInv' /\ Quiet /\ OnlyEvidenced
<1>1. UNCHANGED <<kind, card, disk, server, imported, online>>
  BY DEF poll
<1>2. CASE startImport(card, FALSE)
  BY <1>1, <1>2, StartKeeps
<1>3. CASE UNCHANGED <<row, dry, progress, phase, proc, import, runs, unseen>>
  <2>1. RunOK' /\ CancelledOK'
    BY <1>1, <1>3 DEF MediaInv, RunOK, CancelledOK, Busy
  <2>2. row = "cancelled" => phase # "delete"
    BY DEF MediaInv, CancelledOK
  <2> QED
    BY <1>1, <1>3, <2>1, <2>2, NothingMoves DEF import
<1> QED
  BY <1>2, <1>3 DEF poll

LEMMA ElsewhereKeeps ==
    ASSUME MediaInv,
           \/ \E c \in Cards : updateDrive(c)
           \/ \E a \in Archives : changeRemote(a)
    PROVE  MediaInv' /\ Quiet /\ OnlyEvidenced
<1>1. /\ UNCHANGED <<kind, run, card, disk, log, ledger, checked, server, imported, completed, unseen>>
      /\ row = "cancelled" => phase # "delete"
  BY DEF updateDrive, changeRemote, import, device, online, MediaInv, CancelledOK
<1>2. RunOK' /\ CancelledOK'
  BY <1>1 DEF run, MediaInv, RunOK, CancelledOK, Busy
<1>3. ASSUME NEW c \in Cards, updateDrive(c) PROVE MediaInv' /\ Quiet /\ OnlyEvidenced
  BY <1>1, <1>2, <1>3, NothingMoves DEF updateDrive, run
<1>4. ASSUME NEW a \in Archives, changeRemote(a) PROVE MediaInv' /\ Quiet /\ OnlyEvidenced
  <2>1. /\ UNCHANGED <<pending, current, staged, partial>> /\ remote' = [remote EXCEPT ![a] = @ + 1]
        /\ remote[a] + 1 \in Versions
    BY <1>4, MediaImportAssumption
    DEF MediaImportAssumption, changeRemote, MediaInv, OnlineOK, Versions
  <2>2. OnlineOK'
    BY <1>1, <2>1 DEF run, MediaInv, OnlineOK, CheckpointMeansImported
  <2>3. DriveOK'
    BY <1>1 DEF run, MediaInv, DriveOK, DriveType, Evidence, Here
  <2> QED
    BY <1>1, <1>2, <2>2, <2>3 DEF MediaInv, Quiet, OnlyEvidenced, Deletes
<1> QED
  BY <1>3, <1>4

LEMMA RestartKeeps ==
    ASSUME MediaInv, restart PROVE MediaInv' /\ Quiet /\ OnlyEvidenced
<1>1. /\ UNCHANGED <<kind, dry, card, disk, server, remote, staged>>
      /\ phase' = "idle" /\ ~proc' /\ pending' = {}
      /\ log' = NoLog /\ ledger' = NoLedger /\ checked' = None
      /\ phase # "import" => UNCHANGED <<imported, completed>>
  BY DEF restart
<1>2. RunOK' /\ CancelledOK'
  BY <1>1 DEF MediaInv, RunOK, WithProcess, CancelledOK
<1>3. DriveOK'
  BY <1>1, <1>2, FreshDrive DEF MediaInv, DriveOK, DriveType
<1>4. completed' \subseteq imported'
  BY CheckpointKept DEF restart, MediaInv, OnlineOK, CheckpointMeansImported
<1>5. OnlineOK'
  BY <1>1, <1>4 DEF MediaInv, OnlineOK, CheckpointMeansImported
<1>6. Quiet
  BY <1>1 DEF Quiet, MediaInv, CancelledOK
<1>7. OnlyEvidenced
  BY <1>1 DEF OnlyEvidenced, Deletes
<1> QED
  BY <1>2, <1>3, <1>5, <1>6, <1>7 DEF MediaInv

-----------------------------------------------------------------------------
(* The theorems.                                                           *)

LEMMA ExecutorKeeps ==
    ASSUME MediaInv, Executor PROVE MediaInv' /\ Quiet /\ OnlyEvidenced
<1>1. CASE \E exit \in {"zero", "one", "killed"} : immichEnds(exit)
  BY <1>1, EndsKeep
<1>2. CASE retryStarts \/ \E exit \in {"zero", "one"}, taken \in SUBSET Files : retryEnds(exit, taken)
  BY <1>2, RetryKeeps
<1>3. CASE spawnFails \/ ledgerThrows \/ persistMediaImportLedger
  BY <1>3, SpawnKeeps, LedgerEndsKeeps
<1>4. CASE \E f \in Files : ledgerReads(f) \/ deletionChecks(f)
  BY <1>4, LedgerReadsKeeps, ChecksKeep
<1>5. CASE deletionUnlinks \/ deletionEnds
  BY <1>5, UnlinkKeeps, DeletionEndsKeeps
<1>6. CASE listRemoteTakeoutArchives \/ downloadRemoteFile \/ uploadFails \/ uploadTakeoutArchive
           \/ \E drop \in BOOLEAN : downloadFails(drop)
  BY <1>6, ListKeeps, DownloadKeeps, UploadFailsKeeps, ArchiveKeeps, DownloadFailsKeeps
<1> QED
  BY <1>1, <1>2, <1>3, <1>4, <1>5, <1>6 DEF Executor

LEMMA MediaStep == MediaInv /\ [Next]_vars => MediaInv' /\ (UNCHANGED vars \/ (Quiet /\ OnlyEvidenced))
<1> SUFFICES ASSUME MediaInv, [Next]_vars
             PROVE  MediaInv' /\ (UNCHANGED vars \/ (Quiet /\ OnlyEvidenced))
  OBVIOUS
<1>1. ASSUME NEW c \in Cards, NEW d \in BOOLEAN, importFromDrive(c, d)
      PROVE  MediaInv' /\ Quiet /\ OnlyEvidenced
  BY <1>1, StartKeeps DEF importFromDrive, device
<1>2. ASSUME NEW f \in Files, uploads(f) \/ errs(f) \/ changeFile(f)
      PROVE  MediaInv' /\ Quiet /\ OnlyEvidenced
  BY <1>2, UploadKeeps, ChangeKeeps
<1>3. CASE (\E d \in BOOLEAN : startOnlineImport(d)) \/ Executor
  BY <1>3, StartOnlineKeeps, ExecutorKeeps
<1>4. CASE cancel \/ routeConfirms \/ routeGivesUp \/ swapCard \/ poll \/ restart
  BY <1>4, CancelKeeps, RouteKeeps, SwapKeeps, PollKeeps, RestartKeeps
<1>5. CASE (\E c \in Cards : updateDrive(c)) \/ \E a \in Archives : changeRemote(a)
  BY <1>5, ElsewhereKeeps
<1>6. CASE UNCHANGED vars
  <2>1. RunOK' /\ CancelledOK'
    BY <1>6 DEF vars, run, MediaInv, RunOK, CancelledOK, Busy
  <2>2. DriveOK'
    BY <1>6 DEF vars, run, device, import, MediaInv, DriveOK, DriveType, Evidence, Here
  <2>3. OnlineOK'
    BY <1>6 DEF vars, run, online, MediaInv, OnlineOK, CheckpointMeansImported
  <2> QED
    BY <1>6, <2>1, <2>2, <2>3 DEF MediaInv
<1> QED
  BY <1>1, <1>2, <1>3, <1>4, <1>5, <1>6 DEF Next

(* An archive that later runs skip is in Immich, in the version that the   *)
(* checkpoint of onlineMediaImport.js names.                               *)
THEOREM CheckpointsAreTrue == Spec => []CheckpointMeansImported
<1>1. MediaInv => CheckpointMeansImported
  BY DEF MediaInv, OnlineOK
<1> QED
  BY <1>1, MediaStarts, MediaStep, PTL DEF Spec

(* What mediaImportLedger.js deletes was uploaded, or changed where no     *)
(* fingerprint could see it.                                               *)
THEOREM OnlyUploadedIsDeleted == Spec => DeletedWasUploaded
<1>1. OnlyEvidenced => \A c \in Cards, f \in Files : Deletes(c, f) =>
          /\ row \in {"completed", "partial"}
          /\ <<c, f, disk[c][f]>> \in server \/ f \in unseen
  BY DEF OnlyEvidenced
<1> QED
  BY <1>1, MediaStarts, MediaStep, PTL DEF Spec, DeletedWasUploaded

(* After a cancel that mediaImport.js confirmed, its run uploads, records  *)
(* and deletes nothing.                                                    *)
THEOREM CancelsAreQuiet == Spec => CancelledIsQuiet
<1>1. Quiet => (row = "cancelled" /\ row' = "cancelled" =>
                   /\ server' = server /\ imported' = imported /\ completed' = completed
                   /\ phase # "delete")
  BY DEF Quiet
<1> QED
  BY <1>1, MediaStarts, MediaStep, PTL DEF Spec, CancelledIsQuiet
=============================================================================
