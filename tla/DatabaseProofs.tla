---------------------------- MODULE DatabaseProofs ----------------------------
(***************************************************************************)
(* The database across restarts, restores and backups, and the gates of    *)
(* the upgrade wizard, for any number of requests, commits, starts and     *)
(* copies that are kept; and the migrations a start runs, for databases of *)
(* any version and any number of crashes.                                  *)
(*                                                                         *)
(* The refinement of AtomicDatabase has one exception, which the proof     *)
(* found and TLC confirms with two faults: a start that was cut short moved*)
(* the database away, and the next one refuses the file it installed. It   *)
(* puts back what it moved itself, which is nothing. ForgetsMain names that*)
(* step; without it, the refinement holds for any number of faults.        *)
(*                                                                         *)
(* Of a start, Sound is what every migration keeps: a database has what    *)
(* the migrations up to its version leave behind, whatever it began with.  *)
(***************************************************************************)
EXTENDS UpgradeBridge, Startup, FiniteSetTheorems, WellFoundedInduction, TLAPS

-----------------------------------------------------------------------------
(* The inductive invariant of the refinement.                              *)

Tasks == [n : Requests, op : {"backup", "restore", "upgrade"},
          step : {"staging", "copying", "checking", "valid"},
          holds : Databases \cup {None}]

FilesOK ==
    /\ main \in Databases \cup {None} /\ wal \in Wals \cup {None}
    /\ files \in [Requests -> Files \cup {None}]
    /\ copies \in [1..MaxStarts -> Copies \cup {None}]
    /\ \A b \in backups : b.holds \in Databases

\* What is staged, or on its way to it, has a file.
StagedOK ==
    /\ pending \in Requests \cup {None} /\ pendingTmp \in Requests \cup {None}
    /\ pending # None => files[pending] # None
    /\ pendingTmp # None => files[pendingTmp] # None

TasksOK ==
    /\ tasks \subseteq Tasks
    /\ tasks # {} => proc = "serving"
    /\ \A t \in tasks :
          /\ t.op = "backup" /\ t.step = "copying" => t.holds \in Databases
          /\ t.op = "restore" => files[t.n] # None

Phases == Opened \cup {"down", "moving", "installed", "opening"}

\* Nothing is moved under the name of a start to come.
CountersOK ==
    /\ proc \in Phases
    /\ requested \in 0..MaxRequests /\ starts \in 0..MaxStarts
    /\ faults \in Nat /\ commits \in Nat /\ last \in Nat
    /\ \A s \in 1..MaxStarts : s > starts => copies[s] = None
    /\ proc \in {"moving", "installed"} => starts \in 1..MaxStarts

\* A database file with its WAL, and that it shows the commit served last.
Shown(m, w) == IF w = None THEN m ELSE IF w.on = m THEN w.holds ELSE Torn
Shows(m, w) == Shown(m, w) \in Databases /\ Shown(m, w).id = last

\* Outside an installation the disk shows the last commit, unless the database was moved
\* for a restore that is still staged.
DiskOK ==
    /\ proc \in Opened => main # None
    /\ proc \in Opened \cup {"down", "opening"} =>
          /\ main # None => Shows(main, wal)
          /\ main = None => pending # None \/ last = 0
    /\ proc = "opening" => pending = None

\* What a start has moved away is what showed the last commit, and it goes back as a whole.
InstallOK ==
    /\ proc = "moving" =>
          /\ pending # None /\ files[pending].whole
          /\ main # None => copies[starts] = None /\ Shows(main, wal)
          /\ MovedMain # None =>
                /\ main = None
                /\ MovedWal # None => wal = None
                /\ Shows(MovedMain, IF MovedWal # None THEN MovedWal ELSE wal)
    /\ proc = "installed" =>
          /\ pending = None /\ wal = None /\ main # None
          /\ MovedMain # None => Shows(MovedMain, MovedWal)

DatabaseInv == FilesOK /\ StagedOK /\ TasksOK /\ CountersOK /\ DiskOK /\ InstallOK

\* The step at which nothing is left of a database that had commits.
ForgetsMain == proc = "installed" /\ main' = None /\ last # 0

\* It needs a start before it that was cut short.
NoneLost ==
    faults = 0 =>
        /\ main = None => last = 0 \/ (proc = "moving" /\ MovedMain # None)
        /\ proc = "installed" => last = 0 \/ MovedMain # None

-----------------------------------------------------------------------------
(* Databases and WALs.                                                     *)

LEMMA NoneIsNothing ==
    /\ None \notin Databases /\ None \notin Wals /\ None \notin Files /\ None \notin Copies
    /\ Torn \notin Databases /\ Torn \notin Nat /\ None \notin Nat
  BY DatabaseAssumption

LEMMA BoundsAreNat ==
    /\ Latest \in Nat /\ MaxCommits \in Nat /\ MaxRequests \in Nat /\ MaxStaging \in Nat
    /\ MaxStarts \in Nat /\ MaxFaults \in Nat
    /\ MaxBackups \in Nat \ {0} /\ Keep \in Nat \ {0}
  BY DatabaseAssumption

LEMMA Edited ==
    ASSUME NEW d \in Databases
    PROVE  /\ d.id \in Nat
           /\ \A n \in Nat, live \in BOOLEAN :
                 /\ [d EXCEPT !.id = n, !.live = live] \in Databases
                 /\ [d EXCEPT !.id = n, !.live = live].id = n
           /\ [d EXCEPT !.schema = @ + 1] \in Databases
           /\ [d EXCEPT !.schema = @ + 1].id = d.id
           /\ [d EXCEPT !.sealed = TRUE] \in Databases
           /\ [d EXCEPT !.sealed = TRUE].id = d.id
           /\ [d EXCEPT !.live = FALSE] \in Databases
           /\ [d EXCEPT !.live = FALSE].id = d.id
<1>1. d.id \in Nat /\ d.schema \in Nat /\ d.live \in BOOLEAN /\ d.sealed \in BOOLEAN
  BY DEF Databases
<1>2. \A n \in Nat, live \in BOOLEAN :
          /\ [d EXCEPT !.id = n, !.live = live] \in Databases
          /\ [d EXCEPT !.id = n, !.live = live].id = n
  BY <1>1 DEF Databases
<1>3. /\ [d EXCEPT !.schema = @ + 1] \in Databases
      /\ [d EXCEPT !.schema = @ + 1].id = d.id
  BY <1>1 DEF Databases
<1>4. /\ [d EXCEPT !.sealed = TRUE] \in Databases
      /\ [d EXCEPT !.sealed = TRUE].id = d.id
  BY <1>1 DEF Databases
<1>5. /\ [d EXCEPT !.live = FALSE] \in Databases
      /\ [d EXCEPT !.live = FALSE].id = d.id
  BY <1>1 DEF Databases
<1> QED
  BY <1>1, <1>2, <1>3, <1>4, <1>5

LEMMA EmptyIsOne == Empty \in Databases /\ Empty.id = 0
  BY DEF Empty, Databases

LEMMA MigratedIsOne ==
    ASSUME NEW d \in Databases
    PROVE  /\ [d EXCEPT !.schema = Latest, !.sealed = FALSE] \in Databases
           /\ [d EXCEPT !.schema = Latest, !.sealed = FALSE].id = d.id
  BY BoundsAreNat DEF Databases

LEMMA Written ==
    ASSUME NEW m \in Databases, NEW d \in Databases
    PROVE  /\ [on |-> m, holds |-> d] \in Wals
           /\ Shown(m, [on |-> m, holds |-> d]) = d
  BY NoneIsNothing DEF Wals, Shown

LEMMA ViewIsShown == View = Shown(main, wal) /\ View' = Shown(main', wal')
  BY DEF View, Shown

LEMMA NoWal == \A m : Shown(m, None) = m
  BY DEF Shown

LEMMA WalFields ==
    ASSUME NEW w \in Wals
    PROVE  w.on \in Databases /\ w.holds \in Databases
  BY DEF Wals

LEMMA FileFields ==
    ASSUME NEW f \in Files
    PROVE  f.holds \in Databases /\ f.whole \in BOOLEAN
  BY DEF Files

LEMMA CopyFields ==
    ASSUME NEW c \in Copies
    PROVE  c.main \in Databases \cup {None} /\ c.wal \in Wals \cup {None}
  BY DEF Copies

LEMMA CopyMade ==
    ASSUME NEW m \in Databases \cup {None}, NEW w \in Wals \cup {None}
    PROVE  LET c == [main |-> m, wal |-> w]
           IN  c \in Copies /\ c # None /\ c.main = m /\ c.wal = w
  BY NoneIsNothing DEF Copies

-----------------------------------------------------------------------------
(* The invariant is kept.                                                  *)

LEMMA InvInit == BridgeInit => DatabaseInv /\ NoneLost
<1> SUFFICES ASSUME BridgeInit PROVE DatabaseInv /\ NoneLost
  OBVIOUS
<1> USE NoneIsNothing DEF BridgeInit, Init
<1>1. main \in Databases \cup {None} /\ (main # None => main.id = 0)
  BY EmptyIsOne, BoundsAreNat, MigratedIsOne DEF Init
<1>2. FilesOK /\ StagedOK /\ TasksOK
  BY <1>1 DEF FilesOK, StagedOK, TasksOK
<1>3. CountersOK
  BY BoundsAreNat DEF CountersOK, Phases, Opened
<1>4. DiskOK /\ InstallOK
  BY <1>1, NoWal DEF DiskOK, InstallOK, Shows, Opened
<1>5. NoneLost
  BY <1>1 DEF NoneLost
<1> QED
  BY <1>2, <1>3, <1>4, <1>5 DEF DatabaseInv

(* What a start has moved away, by its own name.                           *)
LEMMA MovedFields ==
    ASSUME FilesOK, starts \in 1..MaxStarts
    PROVE  /\ MovedMain \in Databases \cup {None} /\ MovedWal \in Wals \cup {None}
           /\ copies[starts] = None => MovedMain = None /\ MovedWal = None
<1>1. copies[starts] \in Copies \cup {None}
  BY DEF FilesOK
<1> QED
  BY <1>1, CopyFields DEF MovedMain, MovedWal

LEMMA MovedNow ==
    ASSUME FilesOK, starts \in 1..MaxStarts, starts' = starts,
           NEW m \in Databases \cup {None}, NEW w \in Wals \cup {None},
           copies' = [copies EXCEPT ![starts] = [main |-> m, wal |-> w]]
    PROVE  /\ copies' \in [1..MaxStarts -> Copies \cup {None}]
           /\ MovedMain' = m /\ MovedWal' = w
           /\ \A s \in 1..MaxStarts : s # starts => copies'[s] = copies[s]
<1> DEFINE c == [main |-> m, wal |-> w]
<1>1. c \in Copies /\ c # None /\ c.main = m /\ c.wal = w
  BY CopyMade
<1> HIDE DEF c
<1>2. copies' = [copies EXCEPT ![starts] = c]
  BY DEF c
<1>3. copies' \in [1..MaxStarts -> Copies \cup {None}]
  BY <1>1, <1>2 DEF FilesOK
<1>4. copies'[starts] = c /\ \A s \in 1..MaxStarts : s # starts => copies'[s] = copies[s]
  BY <1>2 DEF FilesOK
<1> QED
  BY <1>1, <1>3, <1>4 DEF MovedMain, MovedWal

-----------------------------------------------------------------------------
(* A start installs the staged restore.                                    *)

LEMMA InvStartProcess == DatabaseInv /\ startProcess => DatabaseInv'
<1> SUFFICES ASSUME DatabaseInv, startProcess PROVE DatabaseInv'
  OBVIOUS
<1> USE NoneIsNothing DEF DatabaseInv, startProcess, disk
<1>1. FilesOK' /\ StagedOK' /\ TasksOK'
  BY DEF FilesOK, StagedOK, TasksOK
<1>2. CountersOK'
  BY BoundsAreNat DEF CountersOK, Phases, Opened
<1>3. DiskOK'
  BY DEF DiskOK, Shows, Opened
<1>4. InstallOK'
  <2>1. starts' \in 1..MaxStarts /\ copies[starts'] = None
    BY BoundsAreNat DEF CountersOK
  <2>2. MovedMain' = None
    BY <2>1 DEF MovedMain
  <2>3. CASE proc' = "moving"
    BY <2>1, <2>2, <2>3 DEF InstallOK, DiskOK, Shows
  <2>4. CASE proc' # "moving"
    BY <2>4 DEF InstallOK
  <2> QED
    BY <2>3, <2>4
<1> QED
  BY <1>1, <1>2, <1>3, <1>4

LEMMA InvMoveMain == DatabaseInv /\ moveMain => DatabaseInv'
<1> SUFFICES ASSUME DatabaseInv, moveMain PROVE DatabaseInv'
  OBVIOUS
<1> USE NoneIsNothing DEF DatabaseInv, moveMain, Installing
<1>1. /\ copies' \in [1..MaxStarts -> Copies \cup {None}]
      /\ MovedMain' = main /\ MovedWal' = None
      /\ \A s \in 1..MaxStarts : s # starts => copies'[s] = copies[s]
  BY MovedNow DEF CountersOK, FilesOK
<1>2. FilesOK' /\ StagedOK' /\ TasksOK'
  BY <1>1 DEF FilesOK, StagedOK, TasksOK
<1>3. CountersOK'
  BY <1>1 DEF CountersOK
<1>4. DiskOK'
  BY DEF DiskOK, Opened
<1>5. InstallOK'
  BY <1>1 DEF InstallOK, Shows
<1> QED
  BY <1>2, <1>3, <1>4, <1>5

LEMMA InvMoveWal == DatabaseInv /\ moveWal => DatabaseInv'
<1> SUFFICES ASSUME DatabaseInv, moveWal PROVE DatabaseInv'
  OBVIOUS
<1> USE NoneIsNothing DEF DatabaseInv, moveWal, Installing
<1>1. copies' = [copies EXCEPT ![starts] = [main |-> MovedMain, wal |-> wal]]
  BY DEF MovedMain, FilesOK, CountersOK
<1>2. MovedMain \in Databases \cup {None}
  BY MovedFields DEF CountersOK
<1>3. /\ copies' \in [1..MaxStarts -> Copies \cup {None}]
      /\ MovedMain' = MovedMain /\ MovedWal' = wal
      /\ \A s \in 1..MaxStarts : s # starts => copies'[s] = copies[s]
  BY <1>1, <1>2, MovedNow DEF CountersOK, FilesOK
<1>4. FilesOK' /\ StagedOK' /\ TasksOK'
  BY <1>3 DEF FilesOK, StagedOK, TasksOK
<1>5. CountersOK'
  BY <1>3 DEF CountersOK
<1>6. DiskOK'
  BY DEF DiskOK, Opened
<1>7. InstallOK'
  BY <1>3 DEF InstallOK, Shows
<1> QED
  BY <1>4, <1>5, <1>6, <1>7

LEMMA InvInstall == DatabaseInv /\ install => DatabaseInv'
<1> SUFFICES ASSUME DatabaseInv, install PROVE DatabaseInv'
  OBVIOUS
<1> USE NoneIsNothing DEF DatabaseInv, install, Installing
<1>1. files[pending] \in Files /\ main' \in Databases
  BY FileFields DEF FilesOK, StagedOK, InstallOK
<1>2. FilesOK' /\ StagedOK' /\ TasksOK'
  BY <1>1 DEF FilesOK, StagedOK, TasksOK
<1>3. CountersOK'
  BY DEF CountersOK, Phases
<1>4. DiskOK'
  BY DEF DiskOK, Opened
<1>5. MovedMain' = MovedMain /\ MovedWal' = MovedWal
  BY DEF MovedMain, MovedWal
<1>6. InstallOK'
  BY <1>1, <1>5 DEF InstallOK, Shows
<1> QED
  BY <1>2, <1>3, <1>4, <1>6

LEMMA InvAcceptInstalled == DatabaseInv /\ acceptInstalled => DatabaseInv'
<1> SUFFICES ASSUME DatabaseInv, acceptInstalled PROVE DatabaseInv'
  OBVIOUS
<1> USE NoneIsNothing DEF DatabaseInv, acceptInstalled, Installing
<1>1. /\ copies' \in [1..MaxStarts -> Copies \cup {None}]
      /\ \A s \in 1..MaxStarts : copies[s] = None => copies'[s] = None
  <2> DEFINE old(s) == Cardinality({g \in {x \in 1..MaxStarts : copies[x] # None} : g > s})
  <2>1. copies' = [s \in 1..MaxStarts |-> IF old(s) >= Keep THEN None ELSE copies[s]]
    BY DEF rotatePreRestoreCopies
  <2> HIDE DEF old
  <2> QED
    BY <2>1 DEF FilesOK
<1>2. FilesOK' /\ StagedOK' /\ TasksOK'
  BY <1>1 DEF FilesOK, StagedOK, TasksOK
<1>3. main \in Databases /\ wal = None /\ pending = None /\ main.id \in Nat
  BY Edited DEF FilesOK, InstallOK
<1>4. CountersOK'
  BY <1>1, <1>3 DEF CountersOK, Phases
<1>5. DiskOK'
  BY <1>3, NoWal DEF DiskOK, Opened, Shows
<1>6. InstallOK'
  BY DEF InstallOK
<1> QED
  BY <1>2, <1>4, <1>5, <1>6

LEMMA InvRollback == DatabaseInv /\ rollback /\ ~ForgetsMain => DatabaseInv'
<1> SUFFICES ASSUME DatabaseInv, rollback, ~ForgetsMain PROVE DatabaseInv'
  OBVIOUS
<1> USE NoneIsNothing DEF DatabaseInv, rollback, Installing
<1>1. MovedMain \in Databases \cup {None} /\ MovedWal \in Wals \cup {None}
  BY MovedFields DEF CountersOK
<1>2. /\ copies' \in [1..MaxStarts -> Copies \cup {None}]
      /\ \A s \in 1..MaxStarts : copies[s] = None => copies'[s] = None
  BY DEF FilesOK
<1>3. FilesOK' /\ StagedOK' /\ TasksOK'
  BY <1>1, <1>2 DEF FilesOK, StagedOK, TasksOK
<1>4. CountersOK'
  BY <1>2 DEF CountersOK, Phases
<1>5. DiskOK'
  <2>1. CASE proc = "moving"
    BY <2>1, <1>1, MovedFields DEF DiskOK, InstallOK, Shows, Opened, CountersOK
  <2>2. CASE proc = "installed"
    BY <2>2, <1>1 DEF DiskOK, InstallOK, Shows, Opened, ForgetsMain
  <2> QED
    BY <2>1, <2>2
<1>6. InstallOK'
  BY DEF InstallOK
<1> QED
  BY <1>3, <1>4, <1>5, <1>6

-----------------------------------------------------------------------------
(* The start goes on, and the process serves and ends.                     *)

\* The other variables of the database, at a step that does not move its files.
InPlace ==
    /\ UNCHANGED <<pending, pendingTmp, files, copies, starts>>
    /\ proc \in Opened \cup {"opening"} /\ proc' \in Opened \cup {"down"}
    /\ tasks' = tasks \/ tasks' = {}
    /\ tasks' # {} => proc' = "serving"
    /\ backups' = backups /\ requested' = requested
    /\ faults' \in Nat /\ commits' \in Nat

LEMMA InvInPlace ==
    ASSUME DatabaseInv, InPlace,
           main' \in Databases, wal' \in Wals \cup {None}, last' \in Nat,
           View' \in Databases, View'.id = last'
    PROVE  DatabaseInv'
<1> USE NoneIsNothing DEF DatabaseInv, InPlace
<1>1. FilesOK' /\ StagedOK' /\ TasksOK'
  BY DEF FilesOK, StagedOK, TasksOK
<1>2. CountersOK'
  BY DEF CountersOK, Phases, Opened
<1>3. DiskOK'
  BY ViewIsShown DEF DiskOK, Shows, Opened
<1>4. InstallOK'
  BY DEF InstallOK, Opened
<1> QED
  BY <1>1, <1>2, <1>3, <1>4

\* What an open database shows.
LEMMA OpenShows ==
    ASSUME DatabaseInv, proc \in Opened
    PROVE  main \in Databases /\ View \in Databases /\ View.id = last /\ View # Torn
  BY NoneIsNothing, ViewIsShown DEF DatabaseInv, FilesOK, DiskOK, Shows

LEMMA WriteShows ==
    ASSUME DatabaseInv, proc \in Opened, NEW d \in Databases, Write(d)
    PROVE  /\ main' \in Databases /\ wal' \in Wals
           /\ View' = d
           /\ UNCHANGED <<pending, pendingTmp, files, copies, backups, tmps>>
<1>1. /\ wal' = [on |-> main, holds |-> d] /\ main' = main
      /\ UNCHANGED <<pending, pendingTmp, files, copies, backups, tmps>>
  BY DEF Write
<1> QED
  BY <1>1, OpenShows, Written, ViewIsShown

LEMMA InvOpenDatabase == DatabaseInv /\ openDatabase => DatabaseInv' /\ last' = last
<1> SUFFICES ASSUME DatabaseInv, openDatabase PROVE DatabaseInv' /\ last' = last
  OBVIOUS
<1> USE NoneIsNothing DEF openDatabase, Starting, bounds
<1>1. InPlace
  BY DEF DatabaseInv, InPlace, TasksOK, CountersOK, Opened
<1>2. CASE main = None
  <2>1. View' = Empty /\ last = 0
    BY <1>2, ViewIsShown, NoWal DEF DatabaseInv, DiskOK
  <2> QED
    BY <1>1, <1>2, <2>1, EmptyIsOne, InvInPlace DEF DatabaseInv, FilesOK
<1>3. CASE main # None
  <2>1. main' = main /\ wal' = wal /\ View' \in Databases /\ View'.id = last /\ View' # Torn
    BY <1>3, ViewIsShown DEF DatabaseInv, DiskOK, Shows
  <2> QED
    BY <1>1, <1>3, <2>1, InvInPlace DEF DatabaseInv, FilesOK, CountersOK
<1> QED
  BY <1>2, <1>3

\* A step of the start that writes the database or leaves it.
LEMMA InvStarting ==
    ASSUME DatabaseInv, Starting, proc \in Opened, proc' \in Opened, proc # "serving",
           last' = last,
           NEW d \in Databases, d.id = last, Write(d) \/ UNCHANGED disk
    PROVE  DatabaseInv' /\ View'.id = last
<1>1. InPlace
  BY DEF DatabaseInv, InPlace, TasksOK, CountersOK, Starting, bounds, Write, disk
<1>2. CASE Write(d)
  BY <1>1, <1>2, WriteShows, InvInPlace DEF DatabaseInv, CountersOK
<1>3. CASE UNCHANGED disk
  <2>1. View' = View /\ main' = main /\ wal' = wal
    BY <1>3, ViewIsShown DEF disk
  <2> QED
    BY <1>1, <2>1, OpenShows, InvInPlace DEF DatabaseInv, FilesOK, CountersOK
<1> QED
  BY <1>2, <1>3

LEMMA InvMigrating ==
    ASSUME DatabaseInv,
           runMigrations \/ migratePeerSecrets \/ revokeSessionsAfterDatabaseRestore
    PROVE  DatabaseInv' /\ View'.id = last
<1>1. proc \in Opened /\ proc' \in Opened /\ proc # "serving" /\ last' = last /\ Starting
  BY DEF runMigrations, migratePeerSecrets, revokeSessionsAfterDatabaseRestore, Opened
<1>2. View \in Databases /\ View.id = last
  BY <1>1, OpenShows
<1>3. \E d \in Databases : d.id = last /\ (Write(d) \/ UNCHANGED disk)
  BY <1>2, Edited
  DEF runMigrations, migratePeerSecrets, revokeSessionsAfterDatabaseRestore
<1> QED
  BY <1>1, <1>3, InvStarting

LEMMA InvAssertMigrationWorkloadBounded ==
    DatabaseInv /\ assertMigrationWorkloadBounded => DatabaseInv'
<1> SUFFICES ASSUME DatabaseInv, assertMigrationWorkloadBounded PROVE DatabaseInv'
  OBVIOUS
<1> USE DEF assertMigrationWorkloadBounded, disk
<1>1. InPlace
  BY DEF DatabaseInv, InPlace, TasksOK, CountersOK, Opened
<1>2. View' = View /\ proc \in Opened
  BY ViewIsShown DEF Opened
<1> QED
  BY <1>1, <1>2, OpenShows, InvInPlace DEF DatabaseInv, FilesOK, CountersOK

LEMMA InvCommit == DatabaseInv /\ commit => DatabaseInv' /\ View'.id = commits + 1
<1> SUFFICES ASSUME DatabaseInv, commit PROVE DatabaseInv' /\ View'.id = commits + 1
  OBVIOUS
<1>1. proc \in Opened /\ commits + 1 \in Nat
  BY DEF commit, Opened, DatabaseInv, CountersOK
<1>2. View \in Databases
  BY <1>1, OpenShows
<1>3. PICK d \in Databases : d.id = commits + 1 /\ Write(d)
  BY <1>1, <1>2, Edited DEF commit
<1>4. Write(d)
  BY <1>3
<1>5. InPlace
  BY <1>1, <1>4, WriteShows, <1>3
  DEF DatabaseInv, InPlace, TasksOK, CountersOK, Opened, commit
<1> QED
  BY <1>1, <1>3, <1>4, <1>5, WriteShows, InvInPlace DEF commit

LEMMA InvCheckpoint == DatabaseInv /\ checkpoint => DatabaseInv' /\ View'.id = last
<1> SUFFICES ASSUME DatabaseInv, checkpoint PROVE DatabaseInv' /\ View'.id = last
  OBVIOUS
<1>1. proc \in Opened /\ wal \in Wals /\ main \in Databases
  BY OpenShows DEF checkpoint, Opened, DatabaseInv, FilesOK
<1>2. View = wal.holds
  BY <1>1, OpenShows DEF View, checkpoint
<1>3. View' = View /\ main' = View /\ wal' = None
  BY <1>1, <1>2, ViewIsShown, NoWal DEF checkpoint
<1>4. InPlace
  BY DEF DatabaseInv, InPlace, TasksOK, CountersOK, Opened, checkpoint, bounds
<1> QED
  BY <1>1, <1>3, <1>4, OpenShows, InvInPlace DEF checkpoint, DatabaseInv, CountersOK

LEMMA InvShutdown == DatabaseInv /\ shutdown => DatabaseInv'
<1> SUFFICES ASSUME DatabaseInv, shutdown PROVE DatabaseInv'
  OBVIOUS
<1>1. proc \in Opened
  BY DEF shutdown, Opened
<1>2. View' = View /\ main' = View /\ wal' = None
  BY ViewIsShown, NoWal DEF shutdown
<1>3. InPlace
  BY DEF DatabaseInv, InPlace, TasksOK, CountersOK, Opened, shutdown, bounds
<1> QED
  BY <1>1, <1>2, <1>3, OpenShows, InvInPlace DEF shutdown, DatabaseInv, CountersOK

LEMMA InvCrash == DatabaseInv /\ crash => DatabaseInv'
<1> SUFFICES ASSUME DatabaseInv, crash PROVE DatabaseInv'
  OBVIOUS
<1> USE NoneIsNothing DEF DatabaseInv, crash, disk
<1>1. FilesOK' /\ StagedOK' /\ TasksOK'
  BY DEF FilesOK, StagedOK, TasksOK
<1>2. proc = "installed" => main \in Databases /\ main.id \in Nat
  BY Edited DEF FilesOK, InstallOK
<1>3. CountersOK'
  BY <1>2 DEF CountersOK, Phases
<1>4. DiskOK'
  <2>1. CASE proc = "installed"
    BY <1>2, <2>1, NoWal DEF DiskOK, InstallOK, Shows, Opened
  <2>2. CASE proc = "moving"
    BY <2>2 DEF DiskOK, InstallOK, Shows, Opened
  <2>3. CASE proc \in Opened \cup {"opening"}
    BY <2>3 DEF DiskOK, Shows, Opened
  <2> QED
    BY <2>1, <2>2, <2>3 DEF CountersOK, Phases
<1>5. InstallOK'
  BY DEF InstallOK
<1> QED
  BY <1>1, <1>3, <1>4, <1>5

-----------------------------------------------------------------------------
(* Requests: backups, restores and the backups before an upgrade.          *)

LEMMA InvServing ==
    ASSUME DatabaseInv, FilesOK', StagedOK', TasksOK',
           proc = "serving", proc' \in {"serving", "down"},
           UNCHANGED <<main, wal, copies, last, commits, starts, faults>>,
           requested' \in 0..MaxRequests
    PROVE  DatabaseInv'
<1>1. CountersOK'
  BY DEF DatabaseInv, CountersOK, Phases, Opened
<1>2. DiskOK' /\ InstallOK'
  BY DEF DatabaseInv, DiskOK, InstallOK, Shows, Opened
<1> QED
  BY <1>1, <1>2 DEF DatabaseInv

\* Tasks that are added, replaced or removed while the rest of the requests stays.
LEMMA TaskAdded ==
    ASSUME DatabaseInv, UNCHANGED <<files, proc>>, proc = "serving",
           NEW t \in Tasks, t.op = "backup" => t.step = "staging", t.op # "restore",
           tasks' = tasks \cup {t}
    PROVE  TasksOK'
  BY DEF DatabaseInv, TasksOK

LEMMA TaskRemoved ==
    ASSUME DatabaseInv, UNCHANGED <<files, proc>>, NEW t \in tasks, tasks' = tasks \ {t}
    PROVE  TasksOK' /\ proc = "serving"
  BY DEF DatabaseInv, TasksOK

LEMMA TaskFields ==
    ASSUME DatabaseInv, NEW t \in tasks
    PROVE  /\ proc = "serving" /\ proc \in Opened
           /\ t.n \in Requests
           /\ \A st \in {"staging", "copying", "checking", "valid"} :
                 /\ [t EXCEPT !.step = st] \in Tasks
                 /\ [t EXCEPT !.step = st].op = t.op
                 /\ [t EXCEPT !.step = st].n = t.n
                 /\ \A d \in Databases :
                       /\ [t EXCEPT !.step = st, !.holds = d] \in Tasks
                       /\ [t EXCEPT !.step = st, !.holds = d].op = t.op
                       /\ [t EXCEPT !.step = st, !.holds = d].n = t.n
                       /\ [t EXCEPT !.step = st, !.holds = d].holds = d
<1>1. t \in Tasks /\ proc = "serving" /\ proc \in Opened
  BY DEF DatabaseInv, TasksOK, Opened
<1> QED
  BY <1>1 DEF Tasks

LEMMA InvBackupSkipped == DatabaseInv /\ backupSkipped => DatabaseInv'
<1> SUFFICES ASSUME DatabaseInv, backupSkipped PROVE DatabaseInv'
  OBVIOUS
<1>1. FilesOK' /\ StagedOK' /\ TasksOK'
  BY DEF backupSkipped, rotateBackups, DatabaseInv, FilesOK, StagedOK, TasksOK
<1> QED
  BY <1>1, InvServing, BoundsAreNat DEF backupSkipped, DatabaseInv, CountersOK

LEMMA InvBackupBegins == DatabaseInv /\ backupBegins => DatabaseInv'
<1> SUFFICES ASSUME DatabaseInv, backupBegins PROVE DatabaseInv'
  OBVIOUS
<1> DEFINE t == [n |-> requested + 1, op |-> "backup", step |-> "staging", holds |-> None]
<1>1. Asked(t) /\ requested + 1 \in Requests
  BY BoundsAreNat DEF backupBegins, Asked, DatabaseInv, CountersOK, Requests
<1>2. t \in Tasks /\ t.op = "backup" /\ t.step = "staging"
  BY <1>1 DEF Tasks
<1> HIDE DEF t
<1>3. FilesOK' /\ StagedOK'
  BY DEF backupBegins, rotateBackups, DatabaseInv, FilesOK, StagedOK
<1>4. TasksOK'
  BY <1>1, <1>2, TaskAdded DEF backupBegins, Asked
<1> QED
  BY <1>1, <1>3, <1>4, InvServing, BoundsAreNat
  DEF backupBegins, Asked, DatabaseInv, CountersOK, Requests

LEMMA InvBackupStaged ==
    ASSUME DatabaseInv, NEW task \in tasks, backupStaged(task)
    PROVE  DatabaseInv'
<1>1. View \in Databases /\ task.op = "backup"
  BY TaskFields, OpenShows DEF backupStaged
<1> DEFINE t == [task EXCEPT !.step = "copying", !.holds = View]
<1>2. t \in Tasks /\ t.op = "backup" /\ t.holds \in Databases
  <2> HIDE DEF View
  <2> QED
    BY <1>1, TaskFields
<1>3. tasks' = (tasks \ {task}) \cup {t}
  BY DEF backupStaged
<1> HIDE DEF t
<1>4. FilesOK' /\ StagedOK'
  BY DEF backupStaged, DatabaseInv, FilesOK, StagedOK
<1>5. TasksOK'
  BY <1>2, <1>3, TaskFields DEF backupStaged, DatabaseInv, TasksOK
<1> QED
  BY <1>4, <1>5, InvServing, TaskFields DEF backupStaged, DatabaseInv, CountersOK, bounds

LEMMA InvCreateOnlineDatabaseBackup ==
    ASSUME DatabaseInv, NEW task \in tasks, createOnlineDatabaseBackup(task)
    PROVE  DatabaseInv'
<1>1. task.holds \in Databases
  BY DEF createOnlineDatabaseBackup, DatabaseInv, TasksOK
<1>2. PICK b : backups' \subseteq backups \cup {b} /\ b.holds = task.holds
  <2> DEFINE b == [n |-> task.n, holds |-> task.holds,
                   at |-> 1 + Max({0} \cup {x.at : x \in backups})]
  <2>1. backups' \subseteq backups \cup {b} /\ b.holds = task.holds
    BY DEF createOnlineDatabaseBackup, rotateBackups
  <2> QED
    BY <2>1
<1>3. FilesOK' /\ StagedOK'
  BY <1>1, <1>2 DEF createOnlineDatabaseBackup, DatabaseInv, FilesOK, StagedOK
<1>4. TasksOK'
  BY TaskRemoved DEF createOnlineDatabaseBackup
<1> QED
  BY <1>3, <1>4, InvServing, TaskFields
  DEF createOnlineDatabaseBackup, DatabaseInv, CountersOK, bounds

LEMMA InvBackupFails ==
    ASSUME DatabaseInv, NEW task \in tasks, backupFails(task) \/ upgradeFails(task)
    PROVE  DatabaseInv'
<1>1. FilesOK' /\ StagedOK' /\ TasksOK'
  BY TaskRemoved DEF backupFails, upgradeFails, disk, DatabaseInv, FilesOK, StagedOK
<1> QED
  BY <1>1, InvServing, TaskFields
  DEF backupFails, upgradeFails, disk, DatabaseInv, CountersOK, bounds

LEMMA InvRestoreBegins ==
    ASSUME DatabaseInv, NEW b \in backups, restoreBegins(b)
    PROVE  DatabaseInv'
<1> DEFINE n == requested + 1
           t == [n |-> n, op |-> "restore", step |-> "copying", holds |-> b.holds]
           f == [holds |-> b.holds, whole |-> FALSE]
<1>1. Asked(t) /\ n \in Requests /\ b.holds \in Databases
  BY BoundsAreNat DEF restoreBegins, Asked, DatabaseInv, CountersOK, FilesOK, Requests
<1>2. t \in Tasks /\ t.op = "restore" /\ t.n = n
  BY <1>1 DEF Tasks
<1>3. f \in Files /\ f # None
  <2>1. f \in Files
    BY <1>1 DEF Files
  <2> QED
    BY <2>1, NoneIsNothing
<1>4. files' = [files EXCEPT ![n] = f] /\ pendingTmp' = n /\ pending' = pending
  BY DEF restoreBegins
<1>5. Asked(t)
  BY DEF restoreBegins
<1> HIDE DEF t, f, n
<1>6. FilesOK' /\ StagedOK'
  BY <1>1, <1>3, <1>4 DEF restoreBegins, DatabaseInv, FilesOK, StagedOK
<1>7. TasksOK'
  BY <1>1, <1>2, <1>3, <1>4, <1>5 DEF Asked, DatabaseInv, FilesOK, TasksOK, Tasks
<1> QED
  BY <1>1, <1>5, <1>6, <1>7, InvServing, BoundsAreNat
  DEF restoreBegins, Asked, Staging, DatabaseInv, CountersOK, Requests

LEMMA InvRestoreCopied ==
    ASSUME DatabaseInv, NEW task \in tasks, restoreCopied(task)
    PROVE  DatabaseInv'
<1> USE NoneIsNothing
<1>1. files[task.n] \in Files /\ task.n \in Requests
  <2>1. task.op = "restore" /\ task.n \in Requests
    BY TaskFields DEF restoreCopied
  <2> QED
    BY <2>1 DEF DatabaseInv, TasksOK, FilesOK
<1>2. PICK f \in Files : files' = [files EXCEPT ![task.n] = f]
  BY <1>1 DEF restoreCopied, DatabaseInv, FilesOK, Files
<1>3. FilesOK' /\ \A n \in Requests : files[n] # None => files'[n] # None
  BY <1>1, <1>2 DEF restoreCopied, Staging, DatabaseInv, FilesOK
<1>4. StagedOK'
  BY <1>3 DEF restoreCopied, Staging, DatabaseInv, StagedOK
<1> DEFINE t == [task EXCEPT !.step = "valid"]
<1>5. t \in Tasks /\ t.op = "restore" /\ t.n = task.n
  BY TaskFields DEF restoreCopied
<1>6. tasks' \subseteq (tasks \ {task}) \cup {t}
  BY DEF restoreCopied
<1> HIDE DEF t
<1>7. TasksOK'
  <2>1. tasks \subseteq Tasks /\ proc' = "serving"
    BY TaskFields DEF restoreCopied, Staging, DatabaseInv, TasksOK
  <2>2. \A x \in tasks' : x \in tasks \/ x = t
    BY <1>6
  <2>3. \A x \in tasks' :
            /\ x \in Tasks
            /\ x.op = "backup" /\ x.step = "copying" => x.holds \in Databases
            /\ x.op = "restore" => files[x.n] # None
    BY <1>1, <1>5, <2>1, <2>2 DEF DatabaseInv, TasksOK
  <2> QED
    BY <1>3, <2>1, <2>3 DEF TasksOK, Tasks
<1> QED
  BY <1>3, <1>4, <1>7, InvServing, TaskFields
  DEF restoreCopied, Staging, DatabaseInv, CountersOK, bounds

LEMMA InvStaged ==
    ASSUME DatabaseInv, NEW task \in tasks,
           stageDatabaseRestore(task) \/ restoreFails(task)
    PROVE  DatabaseInv'
<1> USE NoneIsNothing DEF stageDatabaseRestore, restoreFails, Staging
<1>1. FilesOK' /\ StagedOK' /\ TasksOK'
  BY TaskRemoved DEF DatabaseInv, FilesOK, StagedOK
<1> QED
  BY <1>1, InvServing, TaskFields DEF DatabaseInv, CountersOK, bounds

LEMMA InvCreateUpgradeBackup == DatabaseInv /\ createUpgradeBackup => DatabaseInv'
<1> SUFFICES ASSUME DatabaseInv, createUpgradeBackup PROVE DatabaseInv'
  OBVIOUS
<1> DEFINE t == [n |-> requested + 1, op |-> "upgrade", step |-> "copying", holds |-> None]
<1>1. Asked(t) /\ requested + 1 \in Requests
  BY BoundsAreNat DEF createUpgradeBackup, Asked, DatabaseInv, CountersOK, Requests
<1>2. t \in Tasks /\ t.op = "upgrade"
  BY <1>1 DEF Tasks
<1> HIDE DEF t
<1>3. FilesOK' /\ StagedOK'
  BY DEF createUpgradeBackup, disk, DatabaseInv, FilesOK, StagedOK
<1>4. TasksOK'
  BY <1>1, <1>2, TaskAdded DEF createUpgradeBackup, disk, Asked
<1> QED
  BY <1>1, <1>3, <1>4, InvServing, BoundsAreNat
  DEF createUpgradeBackup, disk, Asked, DatabaseInv, CountersOK, Requests

LEMMA InvUpgradeCopied ==
    ASSUME DatabaseInv, NEW task \in tasks, upgradeCopied(task)
    PROVE  DatabaseInv'
<1>1. View \in Databases /\ task.op = "upgrade"
  BY TaskFields, OpenShows DEF upgradeCopied
<1> DEFINE t == [task EXCEPT !.step = "checking", !.holds = View]
<1>2. t \in Tasks /\ t.op = "upgrade"
  <2> HIDE DEF View
  <2> QED
    BY <1>1, TaskFields
<1>3. tasks' = (tasks \ {task}) \cup {t}
  BY DEF upgradeCopied
<1> HIDE DEF t
<1>4. FilesOK' /\ StagedOK'
  BY DEF upgradeCopied, disk, DatabaseInv, FilesOK, StagedOK
<1>5. TasksOK'
  BY <1>2, <1>3, TaskFields DEF upgradeCopied, disk, DatabaseInv, TasksOK
<1> QED
  BY <1>4, <1>5, InvServing, TaskFields DEF upgradeCopied, disk, DatabaseInv, CountersOK, bounds

LEMMA InvUpgradePublished ==
    ASSUME DatabaseInv, NEW task \in tasks, upgradePublished(task)
    PROVE  DatabaseInv'
<1>1. FilesOK' /\ StagedOK'
  BY DEF upgradePublished, disk, DatabaseInv, FilesOK, StagedOK
<1>2. TasksOK'
  BY DEF upgradePublished, disk, DatabaseInv, TasksOK
<1> QED
  BY <1>1, <1>2, InvServing, TaskFields
  DEF upgradePublished, disk, DatabaseInv, CountersOK, bounds

LEMMA InvNext == DatabaseInv /\ [BridgeNext]_all /\ [~ForgetsMain]_all => DatabaseInv'
<1> SUFFICES ASSUME DatabaseInv, [BridgeNext]_all, [~ForgetsMain]_all PROVE DatabaseInv'
  OBVIOUS
<1>1. CASE UNCHANGED vars
  BY <1>1, ViewIsShown
  DEF vars, disk, bounds, DatabaseInv, FilesOK, StagedOK, TasksOK, CountersOK, DiskOK,
      InstallOK, Shows, Shown, MovedMain, MovedWal
<1>2. CASE bridgeStep
  <2>1. Next
    BY <1>2 DEF bridgeStep
  <2>2. CASE rollback
    <3>1. ~ForgetsMain \/ UNCHANGED proc
      BY DEF all, vars
    <3> QED
      BY <2>2, <3>1, InvRollback DEF rollback
  <2>3. CASE \E b \in backups : restoreBegins(b)
    BY <2>3, InvRestoreBegins
  <2>4. CASE \E task \in tasks :
                \/ backupStaged(task) \/ createOnlineDatabaseBackup(task) \/ backupFails(task)
                \/ restoreCopied(task) \/ stageDatabaseRestore(task) \/ restoreFails(task)
    BY <2>4, InvBackupStaged, InvCreateOnlineDatabaseBackup, InvBackupFails,
       InvRestoreCopied, InvStaged
  <2> QED
    BY <2>1, <2>2, <2>3, <2>4, InvStartProcess, InvMoveMain, InvMoveWal, InvInstall,
       InvAcceptInstalled, InvOpenDatabase, InvMigrating, InvAssertMigrationWorkloadBounded,
       InvCommit, InvCheckpoint, InvShutdown, InvCrash, InvBackupSkipped, InvBackupBegins
    DEF Next
<1>3. CASE createUpgradeBackup
  BY <1>3, InvCreateUpgradeBackup
<1>4. CASE \E task \in tasks : upgradeCopied(task) \/ upgradePublished(task) \/ upgradeFails(task)
  BY <1>4, InvUpgradeCopied, InvUpgradePublished, InvBackupFails
<1> QED
  BY <1>1, <1>2, <1>3, <1>4
  DEF BridgeNext, all, refresh, createHostPreparationPlan, inspectHostReceipt,
      saveFinalConfiguration, jobs, Bystanding

-----------------------------------------------------------------------------
(* Every step is one of AtomicDatabase, or none.                           *)

\* What a start would find is the commit served last, in every state.
LEMMA DataIsLast == (DatabaseInv => Data = last) /\ (DatabaseInv' => Data' = last')
<1>1. DatabaseInv => Data = last
  BY ViewIsShown, NoneIsNothing DEF Data, DatabaseInv, DiskOK, Shows
<1>2. DatabaseInv' => Data' = last'
  BY ViewIsShown, NoneIsNothing DEF Data, DatabaseInv, DiskOK, Shows
<1> QED
  BY <1>1, <1>2

LEMMA Keeps ==
    ASSUME DatabaseInv, DatabaseInv', last' = last, proc \in Opened <=> proc' \in Opened
    PROVE  [Atomic!Next]_(Atomic!vars)
<1>1. Data' = Data /\ (proc \in Opened)' = (proc \in Opened)
  BY DataIsLast
<1> QED
  BY <1>1 DEF Atomic!Next, Atomic!Stage, Atomic!vars

LEMMA Closes ==
    ASSUME DatabaseInv, DatabaseInv', last' = last, Staged' = Staged,
           proc \in Opened, proc' \notin Opened
    PROVE  Atomic!Next
  BY DataIsLast DEF Atomic!Next, Atomic!Close

LEMMA Installs ==
    ASSUME DatabaseInv, DatabaseInv', proc = "installed", proc' \in {"down", "opening"},
           last' = main.id, pending' = pending
    PROVE  Atomic!Next
<1>1. proc \notin Opened /\ proc' \notin Opened
  BY DEF Opened
<1>2. Staged = main.id /\ Staged' = None
  BY DEF Staged, DatabaseInv, InstallOK
<1>3. Staged # None
  BY <1>2, Edited, NoneIsNothing DEF DatabaseInv, FilesOK, InstallOK
<1> QED
  BY <1>1, <1>2, <1>3, DataIsLast DEF Atomic!Next, Atomic!Install

LEMMA DatabaseMaps ==
    ASSUME DatabaseInv, DatabaseInv', Next
    PROVE  [Atomic!Next]_(Atomic!vars)
<1> USE DEF Opened
<1>1. CASE startProcess \/ moveMain \/ moveWal \/ install \/ rollback
  BY <1>1, Keeps DEF startProcess, moveMain, moveWal, install, rollback
<1>2. CASE acceptInstalled
  BY <1>2, Installs DEF acceptInstalled
<1>3. CASE openDatabase
  <2>1. proc = "opening" /\ proc' = "migrating" /\ pending' = pending /\ files' = files
    BY <1>3 DEF openDatabase
  <2>2. Data' = Data
    BY <1>3, InvOpenDatabase, DataIsLast
  <2>3. Staged' = Staged
    BY <2>1 DEF Staged
  <2> QED
    BY <2>1, <2>2, <2>3 DEF Atomic!Next, Atomic!Open
<1>4. CASE runMigrations \/ migratePeerSecrets \/ revokeSessionsAfterDatabaseRestore
  BY <1>4, Keeps DEF runMigrations, migratePeerSecrets, revokeSessionsAfterDatabaseRestore
<1>5. CASE assertMigrationWorkloadBounded
  BY <1>5, Closes DEF assertMigrationWorkloadBounded, Staged, disk
<1>6. CASE commit
  <2>1. proc \in Opened /\ proc' \in Opened /\ pending' = pending /\ files' = files
    BY <1>6 DEF commit, Write
  <2>2. Data' # Torn
    BY DataIsLast, NoneIsNothing DEF DatabaseInv, CountersOK
  <2>3. Staged' = Staged
    BY <1>6, <2>1 DEF Staged, commit
  <2> QED
    BY <2>1, <2>2, <2>3 DEF Atomic!Next, Atomic!Commit
<1>7. CASE checkpoint
  BY <1>7, Keeps DEF checkpoint
<1>8. CASE shutdown
  BY <1>8, Closes DEF shutdown, Staged
<1>9. CASE crash
  <2>1. CASE proc = "installed"
    BY <1>9, <2>1, Installs DEF crash, disk
  <2>2. CASE proc \in Opened
    BY <1>9, <2>2, Closes DEF crash, disk, Staged
  <2>3. CASE proc \in {"moving", "opening"}
    BY <1>9, <2>3, Keeps DEF crash
  <2> QED
    BY <1>9, <2>1, <2>2, <2>3 DEF crash, DatabaseInv, CountersOK, Phases
<1>10. CASE backupSkipped \/ backupBegins \/ \E b \in backups : restoreBegins(b)
  BY <1>10, Keeps DEF backupSkipped, backupBegins, restoreBegins, Asked
<1>11. CASE \E task \in tasks :
              \/ backupStaged(task) \/ createOnlineDatabaseBackup(task) \/ backupFails(task)
              \/ restoreCopied(task) \/ stageDatabaseRestore(task) \/ restoreFails(task)
  BY <1>11, Keeps
  DEF backupStaged, createOnlineDatabaseBackup, backupFails, restoreCopied,
      stageDatabaseRestore, restoreFails, Staging
<1> QED
  BY <1>1, <1>2, <1>3, <1>4, <1>5, <1>6, <1>7, <1>8, <1>9, <1>10, <1>11 DEF Next

LEMMA BridgeMaps ==
    DatabaseInv /\ DatabaseInv' /\ [BridgeNext]_all => [Atomic!Next]_(Atomic!vars)
<1> SUFFICES ASSUME DatabaseInv, DatabaseInv', [BridgeNext]_all
             PROVE  [Atomic!Next]_(Atomic!vars)
  OBVIOUS
<1>1. CASE UNCHANGED vars
  BY <1>1, Keeps DEF vars
<1>2. CASE bridgeStep
  BY <1>2, DatabaseMaps DEF bridgeStep
<1>3. CASE createUpgradeBackup
  BY <1>3, Keeps DEF createUpgradeBackup, Asked
<1>4. CASE \E task \in tasks : upgradeCopied(task) \/ upgradeFails(task)
  BY <1>4, Keeps DEF upgradeCopied, upgradeFails
<1>5. CASE \E task \in tasks : upgradePublished(task)
  <2>1. proc = "serving" /\ proc' \in {"serving", "down"} /\ last' = last /\ UNCHANGED disk
    BY <1>5, TaskFields DEF upgradePublished
  <2>2. Staged' = Staged
    BY <2>1 DEF Staged, disk
  <2> QED
    BY <2>1, <2>2, Keeps, Closes DEF Opened
<1> QED
  BY <1>1, <1>2, <1>3, <1>4, <1>5
  DEF BridgeNext, all, refresh, createHostPreparationPlan, inspectHostReceipt,
      saveFinalConfiguration, jobs, Bystanding

-----------------------------------------------------------------------------
(* databaseFileSafety.js, applyPendingDatabaseRestore, and db.js: whatever *)
(* is cut short, and however often, a start opens the commit that was      *)
(* served last or the restore that was staged, whole, unless a file is     *)
(* refused after its installation by a start that found the database moved *)
(* away already.                                                           *)
THEOREM RestoresAreAtomic == BridgeSpec /\ [][~ForgetsMain]_all => RestoreIsAtomic
<1>1. BridgeInit => Atomic!Init
  BY DEF BridgeInit, Init, Atomic!Init, Data, Staged, Opened
<1> QED
  BY <1>1, InvInit, InvNext, BridgeMaps, PTL DEF BridgeSpec, RestoreIsAtomic, Atomic!Spec

(* That a start is cut short before it is the only way there: the database *)
(* is missing only for what the start that moves it puts back itself.      *)
LEMMA NoneLostNext ==
    DatabaseInv /\ DatabaseInv' /\ NoneLost /\ [BridgeNext]_all => NoneLost'
<1> SUFFICES ASSUME DatabaseInv, DatabaseInv', NoneLost, [BridgeNext]_all, faults' = 0
             PROVE  /\ main' = None => last' = 0 \/ (proc' = "moving" /\ MovedMain' # None)
                    /\ proc' = "installed" => last' = 0 \/ MovedMain' # None
  BY DEF NoneLost
<1> USE NoneIsNothing
<1>1. CASE proc' \in Opened
  BY <1>1 DEF DatabaseInv, DiskOK, Opened
<1>2. CASE proc \in Opened /\ proc' \notin Opened
  <2>1. main \in Databases /\ View \in Databases
    BY <1>2, OpenShows
  <2>2. proc' = "down" /\ main' \in {main, View}
    BY <1>2
    DEF BridgeNext, all, vars, disk, bridgeStep, Next, startProcess, moveMain, moveWal, install,
        rollback, acceptInstalled, openDatabase, runMigrations, assertMigrationWorkloadBounded,
        migratePeerSecrets, revokeSessionsAfterDatabaseRestore, commit, checkpoint, shutdown,
        crash, backupSkipped, backupBegins, Asked, restoreBegins, backupStaged,
        createOnlineDatabaseBackup, backupFails, restoreCopied, stageDatabaseRestore,
        restoreFails, Staging, createUpgradeBackup, upgradeCopied, upgradePublished,
        upgradeFails, refresh, createHostPreparationPlan, inspectHostReceipt,
        saveFinalConfiguration, jobs, Bystanding, Opened
  <2> QED
    BY <2>1, <2>2
<1>3. CASE proc \notin Opened /\ proc' \notin Opened /\ tasks = {}
  <2>1. CASE UNCHANGED vars
    BY <2>1 DEF vars, disk, bounds, NoneLost, MovedMain
  <2>2. CASE startProcess
    BY <2>2 DEF startProcess, disk, NoneLost
  <2>3. CASE moveMain
    BY <2>3, MovedNow DEF moveMain, Installing, DatabaseInv, CountersOK, FilesOK
  <2>4. CASE moveWal
    <3>1. copies' = [copies EXCEPT ![starts] = [main |-> MovedMain, wal |-> wal]]
      BY <2>4 DEF moveWal, MovedMain, DatabaseInv, FilesOK, CountersOK
    <3>2. MovedMain' = MovedMain
      BY <2>4, <3>1, MovedFields, MovedNow
      DEF moveWal, Installing, DatabaseInv, CountersOK, FilesOK
    <3> QED
      BY <2>4, <3>2 DEF moveWal, Installing, NoneLost
  <2>5. CASE install
    <3>1. MovedMain' = MovedMain /\ faults' = faults /\ last' = last /\ main = None
      BY <2>5 DEF install, Installing, MovedMain
    <3>2. main' # None
      BY <2>5, FileFields DEF install, DatabaseInv, FilesOK, StagedOK, InstallOK
    <3> QED
      BY <2>5, <3>1, <3>2 DEF NoneLost
  <2>6. CASE rollback
    BY <2>6 DEF rollback, DatabaseInv, CountersOK
  <2>7. CASE acceptInstalled
    BY <2>7 DEF acceptInstalled, Installing, DatabaseInv, InstallOK
  <2>8. CASE crash
    BY <1>3, <2>8 DEF crash, DatabaseInv, CountersOK, Opened
  <2> QED
    BY <1>3, <2>1, <2>2, <2>3, <2>4, <2>5, <2>6, <2>7, <2>8
    DEF BridgeNext, all, bridgeStep, Next, openDatabase, runMigrations,
        assertMigrationWorkloadBounded, migratePeerSecrets, revokeSessionsAfterDatabaseRestore,
        commit, checkpoint, shutdown, backupSkipped, backupBegins, Asked, restoreBegins,
        createUpgradeBackup, refresh, createHostPreparationPlan, inspectHostReceipt,
        saveFinalConfiguration, jobs, Bystanding, Opened
<1> QED
  BY <1>1, <1>2, <1>3 DEF DatabaseInv, TasksOK, Opened

LEMMA NotForgotten ==
    ASSUME MaxFaults <= 1
    PROVE  DatabaseInv /\ NoneLost /\ [BridgeNext]_all => [~ForgetsMain]_all
<1> SUFFICES ASSUME DatabaseInv, NoneLost, [BridgeNext]_all, ForgetsMain PROVE FALSE
  OBVIOUS
<1>1. main # None /\ main' = None /\ proc = "installed" /\ last # 0
  BY DEF ForgetsMain, DatabaseInv, InstallOK
<1>2. tasks = {}
  BY <1>1 DEF DatabaseInv, TasksOK
<1>3. rollback
  BY <1>1, <1>2
  DEF BridgeNext, all, vars, disk, bridgeStep, Next, startProcess, moveMain, moveWal, install,
      acceptInstalled, openDatabase, runMigrations, assertMigrationWorkloadBounded,
      migratePeerSecrets, revokeSessionsAfterDatabaseRestore, commit, checkpoint, shutdown,
      crash, backupSkipped, backupBegins, Asked, restoreBegins, Installing,
      createUpgradeBackup, refresh, createHostPreparationPlan, inspectHostReceipt,
      saveFinalConfiguration, jobs, Bystanding
<1>4. faults = 0 /\ MovedMain = None
  BY <1>1, <1>3, BoundsAreNat DEF rollback, DatabaseInv, CountersOK
<1> QED
  BY <1>1, <1>4 DEF NoneLost

(* The same without a condition, where at most one start is cut short or   *)
(* fails: nothing is put aside that the start does not put back.           *)
THEOREM SingleFaultsAreHarmless ==
    ASSUME MaxFaults <= 1 PROVE BridgeSpec => RestoreIsAtomic
<1>1. BridgeSpec => [](DatabaseInv /\ NoneLost)
  <2>1. DatabaseInv /\ NoneLost /\ [BridgeNext]_all => DatabaseInv' /\ NoneLost'
    BY NotForgotten, InvNext, NoneLostNext
  <2> QED
    BY <2>1, InvInit, PTL DEF BridgeSpec
<1>2. BridgeSpec => [][~ForgetsMain]_all
  BY <1>1, NotForgotten, PTL DEF BridgeSpec
<1> QED
  BY <1>2, RestoresAreAtomic

-----------------------------------------------------------------------------
(* Rotations: what is dropped has enough newer ones.                       *)

LEMMA PartsAreFinite ==
    ASSUME NEW S, IsFiniteSet(S), NEW T, T \subseteq S
    PROVE  IsFiniteSet(T) /\ Cardinality(T) \in Nat /\ Cardinality(T) <= Cardinality(S)
  BY FS_Subset, FS_CardinalityType

LEMMA RotatedAway ==
    ASSUME NEW S, IsFiniteSet(S), NEW keep \in Nat,
           NEW b \in S, b \notin rotateBackups(S, keep)
    PROVE  Cardinality({x \in S : x.at > b.at}) >= keep
<1> DEFINE newer == {x \in S : x.at > b.at}
<1>1. ~(Cardinality(newer) < keep)
  BY DEF rotateBackups
<1>2. Cardinality(newer) \in Nat
  BY PartsAreFinite
<1> QED
  BY <1>1, <1>2

LEMMA AddedIsFinite ==
    ASSUME NEW S, IsFiniteSet(S), NEW e
    PROVE  /\ IsFiniteSet(S \cup {e})
           /\ Cardinality(S) \in Nat
           /\ Cardinality(S \cup {e}) <= Cardinality(S) + 1
<1>1. Cardinality(S) \in Nat
  BY FS_CardinalityType
<1>2. /\ IsFiniteSet(S \cup {e})
      /\ Cardinality(S \cup {e}) = IF e \in S THEN Cardinality(S) ELSE Cardinality(S) + 1
  BY FS_AddElement
<1> QED
  BY <1>1, <1>2

\* What a step does to the finished backups.
LEMMA BackupsMove ==
    ASSUME IsFiniteSet(backups), [BridgeNext]_all
    PROVE  /\ IsFiniteSet(backups')
           /\ \A b \in backups \ backups' :
                 Cardinality({x \in backups : x.at > b.at}) >= MaxBackups - 1
<1> USE BoundsAreNat
<1>1. CASE backups' = backups
  BY <1>1
<1>2. CASE backupSkipped
  <2>1. backups' = rotateBackups(backups, MaxBackups)
    BY <1>2 DEF backupSkipped
  <2>2. IsFiniteSet(backups')
    BY <2>1, PartsAreFinite DEF rotateBackups
  <2>3. ASSUME NEW b \in backups \ backups'
        PROVE  Cardinality({x \in backups : x.at > b.at}) >= MaxBackups - 1
    <3>1. Cardinality({x \in backups : x.at > b.at}) >= MaxBackups
      BY <2>1, RotatedAway
    <3>2. Cardinality({x \in backups : x.at > b.at}) \in Nat
      BY PartsAreFinite
    <3> QED
      BY <3>1, <3>2
  <2> QED
    BY <2>2, <2>3
<1>3. CASE backupBegins
  <2>1. backups' = rotateBackups(backups, MaxBackups - 1) /\ MaxBackups - 1 \in Nat
    BY <1>3 DEF backupBegins, roomFor
  <2>2. IsFiniteSet(backups')
    BY <2>1, PartsAreFinite DEF rotateBackups
  <2> QED
    BY <2>1, <2>2, RotatedAway
<1>4. CASE \E task \in tasks : createOnlineDatabaseBackup(task)
  <2>1. PICK new : backups' = rotateBackups(backups \cup {new}, MaxBackups)
    BY <1>4 DEF createOnlineDatabaseBackup
  <2> DEFINE with == backups \cup {new}
  <2>2. IsFiniteSet(with)
    BY AddedIsFinite
  <2>3. IsFiniteSet(backups')
    BY <2>1, <2>2, PartsAreFinite DEF rotateBackups
  <2>4. ASSUME NEW b \in backups \ backups'
        PROVE  Cardinality({x \in backups : x.at > b.at}) >= MaxBackups - 1
    <3> DEFINE old == {x \in backups : x.at > b.at}
               all_ == {x \in with : x.at > b.at}
    <3>1. Cardinality(all_) >= MaxBackups
      <4> HIDE DEF with
      <4>1. b \in with /\ b \notin rotateBackups(with, MaxBackups)
        BY <2>1 DEF with
      <4> QED
        BY <2>2, <4>1, RotatedAway
    <3>2. IsFiniteSet(old)
      BY PartsAreFinite
    <3>3. IsFiniteSet(old \cup {new}) /\ Cardinality(old \cup {new}) <= Cardinality(old) + 1
          /\ Cardinality(old) \in Nat
      <4> HIDE DEF old
      <4> QED
        BY <3>2, AddedIsFinite
    <3>4. all_ \subseteq old \cup {new}
      OBVIOUS
    <3>5. /\ Cardinality(all_) \in Nat /\ Cardinality(old \cup {new}) \in Nat
          /\ Cardinality(all_) <= Cardinality(old \cup {new})
      <4> HIDE DEF old, all_
      <4> QED
        BY <3>3, <3>4, PartsAreFinite, FS_CardinalityType
    <3> HIDE DEF all_
    <3> QED
      BY <3>1, <3>3, <3>5
  <2> QED
    BY <2>3, <2>4
<1> QED
  BY <1>1, <1>2, <1>3, <1>4
  DEF BridgeNext, all, vars, disk, bridgeStep, Next, startProcess, moveMain, moveWal, install,
      rollback, acceptInstalled, Installing, openDatabase, runMigrations,
      assertMigrationWorkloadBounded, migratePeerSecrets, revokeSessionsAfterDatabaseRestore,
      Write, commit, checkpoint, shutdown, crash, restoreBegins, backupStaged, backupFails,
      restoreCopied, stageDatabaseRestore, restoreFails, Staging, createUpgradeBackup,
      upgradeCopied, upgradePublished, upgradeFails, refresh, createHostPreparationPlan,
      inspectHostReceipt, saveFinalConfiguration, jobs, Bystanding

(* dbBackup.js makes room before the new backup is known to be good; that  *)
(* costs at most one: what goes has MaxBackups - 1 finished ones after it. *)
THEOREM BackupsAreKept == BridgeSpec => BackupsOutliveFailures
<1>1. BridgeInit => IsFiniteSet(backups)
  BY FS_EmptySet DEF BridgeInit, Init
<1>2. IsFiniteSet(backups) /\ [BridgeNext]_all => IsFiniteSet(backups)'
  BY BackupsMove
<1>3. IsFiniteSet(backups) /\ [BridgeNext]_all =>
          [\A b \in backups \ backups' :
              Cardinality({x \in backups : x.at > b.at}) >= MaxBackups - 1]_vars
  BY BackupsMove
<1> QED
  BY <1>1, <1>2, <1>3, PTL DEF BridgeSpec, BackupsOutliveFailures

-----------------------------------------------------------------------------
(* The gates of the wizard.                                                *)

\* The pre-upgrade backups that were asked for after one of them.
Overtaking(set, n) == {b \in set : b.n > n}

\* Of a nonempty set of them, one was asked for last: the least-number principle.
LEMMA AskedLast ==
    ASSUME NEW S, S # {}, \A b \in S : b.n \in Requests
    PROVE  \E m \in S : \A b \in S : b.n <= m.n
<1> USE BoundsAreNat
<1> DEFINE less == OpToRel(<, Nat)
           T == {MaxRequests - b.n : b \in S}
<1>1. T \subseteq Nat /\ T # {}
  BY DEF Requests
<1>2. IsWellFoundedOn(less, Nat)
  BY NatLessThanWellFounded
<1>3. PICK x \in T : \A y \in T : ~ (<<y, x>> \in less)
  <2> HIDE DEF less, T
  <2> QED BY <1>1, <1>2, WFMin
<1>4. \A y \in T : ~(y < x)
  BY <1>1, <1>3 DEF OpToRel
<1>5. PICK m \in S : x = MaxRequests - m.n
  BY <1>3
<1>6. ASSUME NEW b \in S PROVE b.n <= m.n
  <2>1. MaxRequests - b.n \in T
    OBVIOUS
  <2>2. ~(MaxRequests - b.n < MaxRequests - m.n)
    BY <2>1, <1>4, <1>5
  <2> QED
    BY <2>2 DEF Requests
<1> QED
  BY <1>6

\* The rotation leaves no fewer than it may keep, and these are the newest: what had been
\* overtaken often enough still is.
LEMMA RotatedKeepsNewest ==
    ASSUME NEW S, IsFiniteSet(S), \A b \in S : b.n \in Requests, NEW k \in Nat,
           Cardinality(Overtaking(S, k)) >= KeepUpgrade
    PROVE  Cardinality(Overtaking(Rotated(S), k)) >= KeepUpgrade
<1> USE KeepAssumption
<1> DEFINE A == Overtaking(S, k)
           R == Overtaking(Rotated(S), k)
<1>1. A \subseteq S /\ R \subseteq A
  BY DEF Overtaking, Rotated
<1>2. IsFiniteSet(A) /\ IsFiniteSet(R) /\ Cardinality(R) \in Nat
  <2> HIDE DEF A, R
  <2> QED
    BY <1>1, PartsAreFinite
<1>3. CASE A \subseteq R
  <2>1. A = R
    BY <1>1, <1>3
  <2> QED
    BY <2>1
<1>4. CASE ~(A \subseteq R)
  <2>1. PICK m \in A \ R : \A b \in A \ R : b.n <= m.n
    <3>1. A \ R # {} /\ \A b \in A \ R : b.n \in Requests
      BY <1>1, <1>4
    <3> HIDE DEF A, R
    <3> QED
      BY <3>1, AskedLast
  <2> DEFINE N == Overtaking(S, m.n)
  <2>2. m \in S /\ m.n > k /\ m \notin Rotated(S)
    BY <2>1 DEF Overtaking
  <2>3. Cardinality(N) >= KeepUpgrade
    <3>1. ~(Cardinality(N) < KeepUpgrade)
      BY <2>2 DEF Rotated, Overtaking
    <3>2. Cardinality(N) \in Nat
      BY PartsAreFinite DEF Overtaking
    <3> QED
      BY <3>1, <3>2
  <2>4. N \subseteq R
    <3> SUFFICES ASSUME NEW b \in N PROVE b \in R
      OBVIOUS
    <3>1. b \in S /\ b.n > m.n /\ b.n \in Nat /\ m.n \in Nat
      BY <2>2, BoundsAreNat DEF Overtaking, Requests
    <3>2. b \in A /\ ~(b.n <= m.n)
      BY <2>2, <3>1 DEF Overtaking
    <3> HIDE DEF A, R, N
    <3> QED
      BY <2>1, <3>2
  <2>5. Cardinality(N) <= Cardinality(R) /\ Cardinality(N) \in Nat
    <3> HIDE DEF N, R
    <3> QED
      BY <1>2, <2>4, PartsAreFinite
  <2> HIDE DEF N, R
  <2> QED
    BY <1>2, <2>3, <2>5 DEF R
<1> QED
  BY <1>3, <1>4

\* This invariant does not need the one above, nor its condition: whatever a damaged
\* database would show, the requests have their numbers.
GateTypes ==
    /\ {"seen", "plan"} \subseteq DOMAIN wizard
    /\ {"backup", "host", "final"} \subseteq DOMAIN wizard.seen
    /\ requested \in 0..MaxRequests
    /\ \A t \in tasks : "n" \in DOMAIN t /\ t.n \in Requests
    /\ IsFiniteSet(prepared) /\ \A b \in prepared : b.n \in Requests

\* The backup the receipt names is there, or was overtaken.
Evident ==
    /\ receipt \in Requests
    /\ \/ \E b \in prepared : b.n = receipt
       \/ Cardinality(Overtaking(prepared, receipt)) >= KeepUpgrade

GateInv ==
    /\ GateTypes
    /\ wizard.seen.host = "ready" => host = "ready"
    /\ wizard.seen.final = "ready" => final = "ready"
    /\ wizard.seen.backup = "ready" => Evident

LEMMA GateInit == BridgeInit => GateInv
<1> SUFFICES ASSUME BridgeInit PROVE GateInv
  OBVIOUS
<1>1. wizard = [seen |-> Unseen, plan |-> FALSE] /\ wizard.seen = Unseen
  BY DEF BridgeInit
<1>2. GateTypes
  BY <1>1, FS_EmptySet, BoundsAreNat DEF BridgeInit, Init, GateTypes, Unseen
<1> QED
  BY <1>1, <1>2 DEF GateInv, Unseen

\* A request keeps its number while it goes through its steps.
LEMMA RequestsKeepNumbers ==
    ASSUME GateTypes, [BridgeNext]_all
    PROVE  /\ requested' \in 0..MaxRequests
           /\ \A t \in tasks' : "n" \in DOMAIN t /\ t.n \in Requests
<1> DEFINE Request(t) == "n" \in DOMAIN t /\ t.n \in Requests
<1>1. CASE requested' = requested /\ tasks' \subseteq tasks
  BY <1>1 DEF GateTypes
<1>2. ASSUME NEW op, NEW st, NEW d,
             Asked([n |-> requested + 1, op |-> op, step |-> st, holds |-> d])
      PROVE  requested' \in 0..MaxRequests /\ \A t \in tasks' : Request(t)
  <2>1. requested + 1 \in Requests /\ requested' = requested + 1
    BY <1>2, BoundsAreNat DEF Asked, GateTypes, Requests
  <2> DEFINE new == [n |-> requested + 1, op |-> op, step |-> st, holds |-> d]
  <2>2. Request(new)
    BY <2>1
  <2>3. tasks' = tasks \cup {new}
    BY <1>2 DEF Asked
  <2> HIDE DEF new
  <2> QED
    BY <2>1, <2>2, <2>3, BoundsAreNat DEF GateTypes, Requests
<1>3. ASSUME NEW t \in tasks, NEW st, NEW d
      PROVE  Request([t EXCEPT !.step = st]) /\ Request([t EXCEPT !.step = st, !.holds = d])
  BY DEF GateTypes
<1>4. CASE backupSkipped
  BY <1>4, BoundsAreNat DEF backupSkipped, GateTypes
<1>5. CASE backupBegins \/ createUpgradeBackup \/ \E b \in backups : restoreBegins(b)
  BY <1>5, <1>2 DEF backupBegins, createUpgradeBackup, restoreBegins
<1>6. CASE \E task \in tasks :
             backupStaged(task) \/ restoreCopied(task) \/ upgradeCopied(task)
  <2>1. PICK new : Request(new) /\ tasks' \subseteq tasks \cup {new}
    BY <1>3, <1>6 DEF backupStaged, restoreCopied, upgradeCopied
  <2>2. Request(new)
    BY <2>1
  <2>3. requested' = requested
    BY <1>6 DEF backupStaged, restoreCopied, upgradeCopied, bounds
  <2> HIDE DEF Request
  <2>4. \A t \in tasks : Request(t)
    BY DEF GateTypes, Request
  <2>5. \A t \in tasks' : Request(t)
    BY <2>1, <2>2, <2>4
  <2> QED
    BY <2>3, <2>5 DEF GateTypes, Request
<1> QED
  BY <1>1, <1>4, <1>5, <1>6
  DEF BridgeNext, all, vars, disk, bounds, bridgeStep, Next, startProcess, moveMain, moveWal,
      install, rollback, acceptInstalled, Installing, openDatabase, Starting, runMigrations,
      assertMigrationWorkloadBounded, migratePeerSecrets, revokeSessionsAfterDatabaseRestore,
      commit, checkpoint, shutdown, crash, createOnlineDatabaseBackup, backupFails,
      stageDatabaseRestore, restoreFails, upgradePublished, upgradeFails, refresh,
      createHostPreparationPlan, inspectHostReceipt, saveFinalConfiguration, jobs, Bystanding

\* The steps of the database know nothing of the gates.
LEMMA GatesLeftAlone ==
    ASSUME GateInv, GateTypes', UNCHANGED <<prepared, receipt, host, final, wizard>>
    PROVE  GateInv'
  BY DEF GateInv, Evident, Overtaking

LEMMA GatePublished ==
    ASSUME GateInv, GateTypes', NEW task \in tasks, upgradePublished(task)
    PROVE  GateInv'
<1> USE DEF GateInv, GateTypes
<1> DEFINE new  == [n |-> task.n, holds |-> task.holds]
           with == prepared \cup {new}
<1>1. new.n = task.n /\ task.n \in Requests /\ task.n \in Nat
  BY BoundsAreNat DEF Requests
<1>2. IsFiniteSet(with) /\ \A b \in with : b.n \in Requests
  BY <1>1, AddedIsFinite
<1>3. UNCHANGED <<host, final, wizard>>
  BY DEF upgradePublished
<1>4. \/ receipt' = task.n /\ prepared' = Rotated(with)
      \/ receipt' \in {receipt, task.n} /\ prepared' = with
  BY DEF upgradePublished
<1>5. CASE receipt' = task.n /\ prepared' = Rotated(with)
  <2>1. CASE new \in Rotated(with)
    BY <1>1, <1>3, <1>5, <2>1 DEF Evident
  <2>2. CASE new \notin Rotated(with)
    <3> HIDE DEF with
    <3>1. Cardinality(Overtaking(with, task.n)) >= KeepUpgrade
      <4>1. new \in with
        BY DEF with
      <4>2. ~(Cardinality(Overtaking(with, task.n)) < KeepUpgrade)
        BY <1>1, <2>2, <4>1 DEF Rotated, Overtaking
      <4>3. Cardinality(Overtaking(with, task.n)) \in Nat
        BY <1>2, PartsAreFinite DEF Overtaking
      <4> QED
        BY <4>2, <4>3, KeepAssumption
    <3>2. Cardinality(Overtaking(Rotated(with), task.n)) >= KeepUpgrade
      BY <1>1, <1>2, <3>1, RotatedKeepsNewest
    <3> QED
      BY <1>1, <1>3, <1>5, <3>2 DEF Evident
  <2> QED
    BY <2>1, <2>2
<1>6. CASE receipt' = task.n /\ prepared' = with
  BY <1>1, <1>3, <1>6 DEF Evident
<1>7. CASE receipt' = receipt /\ prepared' = with
  <2>1. ASSUME Evident PROVE Evident'
    <3>1. CASE \E b \in prepared : b.n = receipt
      BY <1>7, <2>1, <3>1 DEF Evident
    <3>2. CASE Cardinality(Overtaking(prepared, receipt)) >= KeepUpgrade
      <4>1. Overtaking(prepared, receipt) \subseteq Overtaking(with, receipt)
        BY DEF Overtaking
      <4>2. /\ IsFiniteSet(Overtaking(with, receipt))
            /\ Cardinality(Overtaking(with, receipt)) \in Nat
        BY <1>2, PartsAreFinite DEF Overtaking
      <4>3. /\ Cardinality(Overtaking(prepared, receipt)) \in Nat
            /\ Cardinality(Overtaking(prepared, receipt))
                   <= Cardinality(Overtaking(with, receipt))
        BY <4>1, <4>2, PartsAreFinite
      <4> HIDE DEF with
      <4> QED
        BY <1>7, <2>1, <3>2, <4>2, <4>3, KeepAssumption DEF Evident
    <3> QED
      BY <2>1, <3>1, <3>2 DEF Evident
  <2> QED
    BY <1>3, <2>1
<1> QED
  BY <1>4, <1>5, <1>6, <1>7

LEMMA GateNext == GateInv /\ [BridgeNext]_all => GateInv'
<1> SUFFICES ASSUME GateInv, [BridgeNext]_all PROVE GateInv'
  OBVIOUS
<1>1. /\ requested' \in 0..MaxRequests
      /\ \A t \in tasks' : "n" \in DOMAIN t /\ t.n \in Requests
  BY RequestsKeepNumbers DEF GateInv
<1>2. CASE UNCHANGED <<prepared, receipt, host, final, wizard>>
  <2>1. GateTypes'
    BY <1>1, <1>2 DEF GateInv, GateTypes
  <2> QED
    BY <1>2, <2>1, GatesLeftAlone
<1>3. CASE refresh
  <2>1. {"backup", "host", "final"} \subseteq DOMAIN assessUpgradeReadiness
    BY DEF assessUpgradeReadiness
  <2>2. /\ wizard'.seen = assessUpgradeReadiness
        /\ {"seen", "plan"} \subseteq DOMAIN wizard'
        /\ UNCHANGED <<prepared, receipt, host, final>>
    BY <1>3 DEF refresh, GateInv, GateTypes
  <2>3. GateTypes'
    BY <1>1, <2>1, <2>2 DEF GateInv, GateTypes
  <2>4. wizard'.seen.backup = "ready" => Evident'
    BY <2>2
    DEF assessUpgradeReadiness, inspectApplicationBackup, Evident, GateInv, GateTypes, Overtaking
  <2> QED
    BY <2>2, <2>3, <2>4 DEF assessUpgradeReadiness, GateInv
<1>4. CASE createHostPreparationPlan
  <2>1. /\ wizard'.seen = wizard.seen
        /\ {"seen", "plan"} \subseteq DOMAIN wizard'
        /\ UNCHANGED <<prepared, receipt, host, final>>
    BY <1>4 DEF createHostPreparationPlan, GateInv, GateTypes
  <2> QED
    BY <1>1, <2>1 DEF GateInv, GateTypes, Evident, Overtaking
<1>5. CASE inspectHostReceipt
  BY <1>1, <1>5 DEF inspectHostReceipt, GateInv, GateTypes, Evident, Overtaking
<1>6. CASE saveFinalConfiguration
  <2>1. /\ wizard'.seen.backup = wizard.seen.backup /\ wizard'.seen.host = wizard.seen.host
        /\ {"seen", "plan"} \subseteq DOMAIN wizard'
        /\ {"backup", "host", "final"} \subseteq DOMAIN wizard'.seen
        /\ final' = "ready" /\ UNCHANGED <<prepared, receipt, host>>
    BY <1>6 DEF saveFinalConfiguration, GateInv, GateTypes
  <2> QED
    BY <1>1, <2>1 DEF GateInv, GateTypes, Evident, Overtaking
<1>7. CASE \E task \in tasks : upgradePublished(task)
  <2>1. PICK task \in tasks : upgradePublished(task)
    BY <1>7
  <2> DEFINE new  == [n |-> task.n, holds |-> task.holds]
             with == prepared \cup {new}
  <2>2. IsFiniteSet(with) /\ \A b \in with : b.n \in Requests
    <3>1. new.n \in Requests
      BY DEF GateInv, GateTypes
    <3> HIDE DEF new
    <3> QED
      BY <3>1, AddedIsFinite DEF GateInv, GateTypes
  <2>3. prepared' \subseteq with
    BY <2>1 DEF upgradePublished, Rotated
  <2>4. IsFiniteSet(prepared') /\ \A b \in prepared' : b.n \in Requests
    <3> HIDE DEF with
    <3> QED
      BY <2>2, <2>3, PartsAreFinite
  <2>5. GateTypes'
    BY <1>1, <2>1, <2>4 DEF upgradePublished, GateInv, GateTypes
  <2> QED
    BY <2>1, <2>5, GatePublished
<1> QED
  BY <1>2, <1>3, <1>4, <1>5, <1>6, <1>7
  DEF BridgeNext, all, bridge, bridgeStep, createUpgradeBackup, upgradeCopied, upgradeFails,
      jobs, GateInv, GateTypes

(* UpgradeReadinessWizard.jsx: once the wizard has seen all gates open, the*)
(* host's receipt and the saved configuration are there and stay, and the  *)
(* backup its receipt names is there or has KeepUpgrade newer ones.        *)
THEOREM GatesAreTrue == BridgeSpec => []GatesStayOpen
<1>1. GateInv => GatesStayOpen
  <2> SUFFICES ASSUME GateInv, finalReady(wizard.seen) PROVE GatesStayOpen
    BY DEF GatesStayOpen
  <2>1. Evident /\ host = "ready" /\ final = "ready"
    BY DEF GateInv, finalReady
  <2>2. receipt # None
    BY <2>1, NoneIsNothing, BoundsAreNat DEF Evident, Requests
  <2> QED
    BY <2>1, <2>2 DEF Evident, GatesStayOpen, inspectApplicationBackup, Overtaking
<1> QED
  BY <1>1, GateInit, GateNext, PTL DEF BridgeSpec

-----------------------------------------------------------------------------
(* The migrations of a start: what each has to leave behind.               *)

Created(v) ==
    CASE v = 0  -> BaselineTables
      [] v = 21 -> {"restore_events"}
      [] v = 22 -> {"auth tables"}
      [] v = 29 -> {"external_jobs", "external_job_runs"}
      [] v = 30 -> {"events"}
      [] v = 33 -> {"media_online_import_archives"}
      [] OTHER  -> {}

BackupStatus == <<"backup_runs", "db_backup_status">>
Reciprocal   == <<"pairing_requests", "reciprocal columns">>
SourceRef    == <<"external_job_runs", "source_ref">>
SourceKind   == <<"media_drives", "source_kind, import_mode">>
RemoteSource == <<"media_drives", "remote_name, remote_path">>
DryRun       == <<"backup_runs", "dry_run">>

\* The columns that are there whatever the tables looked like.
Added(v) ==
    CASE v = 2  -> {FileDate}
      [] v = 3  -> {LastSeenIp}
      [] v = 5  -> {RemoteAccess}
      [] v = 6  -> {Handshake, PeerIdentity}
      [] v = 7  -> Notify
      [] v = 8  -> {Excludes}
      [] v = 13 -> {JobIdentity}
      [] v = 14 -> {RunIdentity}
      [] v = 18 -> ProtectedKeys
      [] v = 23 -> SsdRetention \cup {StorageLimit}
      [] v = 25 -> {PeerSshKey}
      [] v = 27 -> {BackupStatus}
      [] v = 28 -> {Reciprocal}
      [] v = 31 -> {SourceRef}
      [] v = 32 -> {SourceKind}
      [] v = 33 -> {RemoteSource}
      [] v = 34 -> {DryRun}
      [] OTHER  -> {}

Inserted(v) ==
    CASE v = 9  -> {"general"}
      [] v = 10 -> {"hidden_remote_drives"}
      [] v = 11 -> {"run_files_retention_days"}
      [] v = 12 -> {"ssd_allow_empty_source"}
      [] v = 20 -> {"run_history_retention_days", "peer_audit_retention_days"}
      [] v = 22 -> {"auth_audit_retention_days"}
      [] OTHER  -> {}

AllTables == BaselineTables \cup
    {"restore_events", "auth tables", "external_jobs", "external_job_runs", "events",
     "media_online_import_archives"}
AllColumns == BaselineColumns \cup
    {PeerSshKey, BackupStatus, Reciprocal, SourceRef, SourceKind, RemoteSource, DryRun}
KeyTables == {"authorized_peers", "pairing_requests", "hyper_backup_jobs"}
Values == {"absent", "default", "own", "legacy", "token", "proxy"}

Database ==
    [version : -1..LATEST, tables : SUBSET AllTables, columns : SUBSET AllColumns,
     fileIndex : BOOLEAN, settings : [Keys -> Values],
     peers : [{"paired", "migrated"} -> SUBSET Peer],
     incoming : [ssh : BOOLEAN], outgoing : [static : BOOLEAN],
     job : [bound : BOOLEAN, root : BOOLEAN], run : [bound : BOOLEAN],
     drive : [deletes : BOOLEAN], plain : SUBSET KeyTables,
     big : SUBSET (BaselineTables \cup {"peer keys"})]

\* A database has what the migrations up to its version leave behind.
Upgraded(d) ==
    \A v \in 0..d.version :
        /\ Created(v) \subseteq d.tables
        /\ Added(v) \subseteq d.columns
        /\ \A s \in Inserted(v) : d.settings[s] # "absent"

Bounds(p) == p.enabled => Scoped(p) /\ (p.static => p.ssh)

\* The rows that migrations up to v rewrite are rewritten.
Rewritten(v, d) ==
    /\ \A n \in {"paired", "migrated"} : \A p, q \in d.peers[n] : p = q
    /\ \A p \in d.peers["migrated"] : ~p.ssh
    /\ v >= 17 => ~d.job.root
    /\ v >= 23 => d.settings["peer_api_key"] = "absent"
    /\ v >= 24 => d.settings["ntfy_url"] = "absent" /\ d.settings["ntfy_token"] = "absent"
    /\ v >= 25 => \A n \in {"paired", "migrated"} : \A p \in d.peers[n] : Bounds(p)

Sound(d) == d \in Database /\ Upgraded(d) /\ Rewritten(d.version, d)

-----------------------------------------------------------------------------
(* The statements of the migrations.                                       *)

\* What no statement about the schema or the defaults touches.
SameRows(d, e) ==
    /\ e.version = d.version /\ e.peers = d.peers /\ e.incoming = d.incoming
    /\ e.outgoing = d.outgoing /\ e.job = d.job /\ e.run = d.run
    /\ e.plain = d.plain /\ e.big = d.big

LEMMA InsertingDefaults ==
    ASSUME NEW d \in Database, NEW ks \in SUBSET Defaults, NEW e, e = InsertDefaults(d, ks)
    PROVE  /\ e \in Database /\ SameRows(d, e)
           /\ e.tables = d.tables
           /\ e.columns = d.columns
           /\ \A k \in Keys : e.settings[k] =
                  IF k \in ks /\ d.settings[k] = "absent" THEN "default" ELSE d.settings[k]
  BY DEF InsertDefaults, Database, SameRows, Values

LEMMA UpIs ==
    ASSUME NEW d
    PROVE  /\ up(0, d) = m0(d) /\ up(1, d) = m1(d) /\ up(2, d) = m2(d) /\ up(3, d) = m3(d)
           /\ up(4, d) = m4(d) /\ up(5, d) = m5(d) /\ up(6, d) = m6(d) /\ up(7, d) = m7(d)
           /\ up(8, d) = m8(d) /\ up(9, d) = m9(d) /\ up(10, d) = m10(d) /\ up(11, d) = m11(d)
           /\ up(12, d) = m12(d) /\ up(13, d) = m13(d) /\ up(14, d) = m14(d)
           /\ up(15, d) = m15(d) /\ up(16, d) = m16(d) /\ up(17, d) = m17(d)
           /\ up(18, d) = m18(d) /\ up(19, d) = m19(d) /\ up(20, d) = m20(d)
           /\ up(21, d) = m21(d) /\ up(22, d) = m22(d) /\ up(23, d) = m23(d)
           /\ up(24, d) = m24(d) /\ up(25, d) = m25(d) /\ up(26, d) = d /\ up(27, d) = m27(d)
           /\ up(28, d) = m28(d) /\ up(29, d) = m29(d) /\ up(30, d) = m30(d)
           /\ up(31, d) = m31(d) /\ up(32, d) = m32(d) /\ up(33, d) = m33(d)
           /\ up(34, d) = m34(d)
  BY DEF up

-----------------------------------------------------------------------------
(* The migrations, one by one.                                             *)

\* e is d with these tables, columns and settings.
Grown(d, e, ts, cs, ks) ==
    /\ e \in Database /\ e.version = d.version
    /\ d.tables \cup ts \subseteq e.tables
    /\ d.columns \cup cs \subseteq e.columns
    /\ \A k \in Defaults : d.settings[k] # "absent" \/ k \in ks => e.settings[k] # "absent"

\* And with the rows that Rewritten speaks of.
SameAccess(d, e) ==
    /\ e.peers = d.peers /\ e.job.root = d.job.root
    /\ \A k \in Aliases : e.settings[k] = d.settings[k]

\* And with the settings of the operator.
SameSettings(d, e) ==
    /\ Server(e.settings) = Server(d.settings)
    /\ Token(e.settings) = Token(d.settings)
    /\ \A k \in Keys \ Aliases : d.settings[k] = "own" => e.settings[k] = "own"

LEMMA TablesAndColumns ==
    /\ BaselineTables \subseteq AllTables /\ BaselineColumns \subseteq AllColumns
    /\ {FileDate, LastSeenIp, RemoteAccess, Handshake, PeerIdentity, Excludes, JobIdentity,
        RunIdentity, StorageLimit} \subseteq AllColumns
    /\ Notify \cup ProtectedKeys \cup SsdRetention \subseteq AllColumns
    /\ {PeerSshKey, BackupStatus, Reciprocal, SourceRef, SourceKind, RemoteSource, DryRun}
          \subseteq AllColumns
  BY DEF AllTables, AllColumns, BaselineColumns

LEMMA KeySets ==
    /\ Defaults \subseteq Keys /\ Aliases \subseteq Keys /\ Defaults \cap Aliases = {}
    /\ {"ntfy_server", "ntfy_auth_token", "ntfy_auth_type", "docker_socket"} \subseteq
          Keys \ (Defaults \cup Aliases)
    /\ {"ntfy_url", "ntfy_token", "peer_api_key"} \subseteq Aliases
<1>1. Defaults \subseteq Keys /\ Aliases \subseteq Keys
  BY DEF Keys
<1>2. Defaults \cap Aliases = {}
  BY DEF Defaults, Aliases
<1>3. \A k \in {"ntfy_server", "ntfy_auth_token", "ntfy_auth_type", "docker_socket"} :
          k \in Keys /\ k \notin Defaults /\ k \notin Aliases
  BY DEF Keys, Defaults, Aliases
<1>4. {"ntfy_url", "ntfy_token", "peer_api_key"} \subseteq Aliases
  BY DEF Aliases
<1> QED BY <1>1, <1>2, <1>3, <1>4

LEMMA Creates ==
    ASSUME NEW d \in Database, NEW ts \in SUBSET AllTables, NEW cs \in SUBSET AllColumns,
           NEW e, e = CreateTables(d, ts, cs)
    PROVE  Grown(d, e, ts, {}, {}) /\ SameAccess(d, e) /\ SameSettings(d, e)
<1>1. /\ e \in Database /\ SameRows(d, e) /\ e.tables = d.tables \cup ts
      /\ d.columns \subseteq e.columns /\ e.settings = d.settings
  BY DEF CreateTables, Database, SameRows
<1> QED BY <1>1 DEF Grown, SameAccess, SameSettings, SameRows

LEMMA Adds ==
    ASSUME NEW d \in Database, NEW cs \in SUBSET AllColumns, NEW e, e = AddColumns(d, cs)
    PROVE  Grown(d, e, {}, cs, {}) /\ SameAccess(d, e) /\ SameSettings(d, e)
<1>1. /\ e \in Database /\ SameRows(d, e) /\ e.tables = d.tables
      /\ e.columns = d.columns \cup cs /\ e.settings = d.settings
  BY DEF AddColumns, Database, SameRows
<1> QED BY <1>1 DEF Grown, SameAccess, SameSettings, SameRows

LEMMA Inserts ==
    ASSUME NEW d \in Database, NEW ks \in SUBSET Defaults, NEW e, e = InsertDefaults(d, ks)
    PROVE  Grown(d, e, {}, {}, ks) /\ SameAccess(d, e) /\ SameSettings(d, e)
<1>1. e \in Database /\ SameRows(d, e) /\ e.tables = d.tables /\ e.columns = d.columns
  BY InsertingDefaults
<1>2. \A k \in Keys : e.settings[k] =
          IF k \in ks /\ d.settings[k] = "absent" THEN "default" ELSE d.settings[k]
  BY InsertingDefaults
<1>3. Grown(d, e, {}, {}, ks)
  BY <1>1, <1>2, KeySets DEF Grown, SameRows
<1>4. \A k \in Keys \ Defaults : e.settings[k] = d.settings[k]
  BY <1>2
<1>5. SameAccess(d, e)
  BY <1>1, <1>4, KeySets DEF SameAccess, SameRows
<1>6. Server(e.settings) = Server(d.settings) /\ Token(e.settings) = Token(d.settings)
  BY <1>4, KeySets DEF Server, Token
<1>7. \A k \in Keys \ Aliases : d.settings[k] = "own" => e.settings[k] = "own"
  BY <1>2
<1> QED BY <1>3, <1>5, <1>6, <1>7 DEF SameSettings

\* One statement after the other.
LEMMA GrownTwice ==
    ASSUME NEW d, NEW e, NEW f, NEW ts, NEW cs, NEW ks, NEW us, NEW bs, NEW ls,
           Grown(d, e, ts, cs, ks), SameAccess(d, e), SameSettings(d, e),
           Grown(e, f, us, bs, ls), SameAccess(e, f), SameSettings(e, f),
           NEW as, as \subseteq ts \cup us, NEW os, os \subseteq cs \cup bs,
           NEW is, is \subseteq ks \cup ls
    PROVE  Grown(d, f, as, os, is) /\ SameAccess(d, f) /\ SameSettings(d, f)
<1>1. Grown(d, f, as, os, is)
  BY DEF Grown
<1>2. SameAccess(d, f)
  BY DEF SameAccess
<1>3. SameSettings(d, f)
  BY DEF SameSettings
<1> QED BY <1>1, <1>2, <1>3

\* What the migrations do to rows that no property looks at.
LEMMA Touches ==
    ASSUME NEW d \in Database, NEW b \in BOOLEAN, NEW e,
           \/ e = d
           \/ e = [d EXCEPT !.fileIndex = b]
           \/ e = [d EXCEPT !.job.bound = b]
           \/ e = [d EXCEPT !.run.bound = b]
           \/ e = [d EXCEPT !.drive.deletes = b]
    PROVE  Grown(d, e, {}, {}, {}) /\ SameAccess(d, e) /\ SameSettings(d, e)
<1> DEFINE Same == /\ e.version = d.version /\ e.tables = d.tables /\ e.columns = d.columns
                   /\ e.settings = d.settings /\ e.peers = d.peers /\ e.job.root = d.job.root
<1>1. CASE e = d
  BY <1>1 DEF Grown, SameAccess, SameSettings
<1>2. CASE e = [d EXCEPT !.fileIndex = b]
  <2>1. e \in Database /\ Same
    BY <1>2 DEF Database
  <2> QED BY <2>1 DEF Grown, SameAccess, SameSettings
<1>3. CASE e = [d EXCEPT !.job.bound = b]
  <2>1. e \in Database /\ Same
    BY <1>3 DEF Database
  <2> QED BY <2>1 DEF Grown, SameAccess, SameSettings
<1>4. CASE e = [d EXCEPT !.run.bound = b]
  <2>1. e \in Database /\ Same
    BY <1>4 DEF Database
  <2> QED BY <2>1 DEF Grown, SameAccess, SameSettings
<1>5. CASE e = [d EXCEPT !.drive.deletes = b]
  <2>1. e \in Database /\ Same
    BY <1>5 DEF Database
  <2> QED BY <2>1 DEF Grown, SameAccess, SameSettings
<1> QED BY <1>1, <1>2, <1>3, <1>4, <1>5

\* The sets of Created, Added and Inserted, version by version.
LEMMA NothingCreated ==
    \A v \in (0..34) \ {0, 21, 22, 29, 30, 33} : Created(v) = {}
  BY DEF Created

LEMMA CreatedBy ==
    /\ Created(0) = BaselineTables
    /\ Created(21) = {"restore_events"}
    /\ Created(22) = {"auth tables"}
    /\ Created(29) = {"external_jobs", "external_job_runs"}
    /\ Created(30) = {"events"}
    /\ Created(33) = {"media_online_import_archives"}
  BY DEF Created

LEMMA NothingAdded ==
    \A v \in (0..34) \ {2, 3, 5, 6, 7, 8, 13, 14, 18, 23, 25, 27, 28, 31, 32, 33, 34} : Added(v) = {}
  BY DEF Added

LEMMA AddedBy ==
    /\ Added(2) = {FileDate}
    /\ Added(3) = {LastSeenIp}
    /\ Added(5) = {RemoteAccess}
    /\ Added(6) = {Handshake, PeerIdentity}
    /\ Added(7) = Notify
    /\ Added(8) = {Excludes}
    /\ Added(13) = {JobIdentity}
    /\ Added(14) = {RunIdentity}
    /\ Added(18) = ProtectedKeys
    /\ Added(23) = SsdRetention \cup {StorageLimit}
    /\ Added(25) = {PeerSshKey}
    /\ Added(27) = {BackupStatus}
    /\ Added(28) = {Reciprocal}
    /\ Added(31) = {SourceRef}
    /\ Added(32) = {SourceKind}
    /\ Added(33) = {RemoteSource}
    /\ Added(34) = {DryRun}
  BY DEF Added

LEMMA NothingInserted ==
    \A v \in (0..34) \ {9, 10, 11, 12, 20, 22} : Inserted(v) = {}
  BY DEF Inserted

LEMMA InsertedBy ==
    /\ Inserted(9) = {"general"}
    /\ Inserted(10) = {"hidden_remote_drives"}
    /\ Inserted(11) = {"run_files_retention_days"}
    /\ Inserted(12) = {"ssd_allow_empty_source"}
    /\ Inserted(20) = {"run_history_retention_days", "peer_audit_retention_days"}
    /\ Inserted(22) = {"auth_audit_retention_days"}
  BY DEF Inserted

\* A migration that only adds to the schema and the defaults, or touches rows
\* that no property looks at.
Adding(v, d, e) ==
    /\ Grown(d, e, Created(v), Added(v), Inserted(v))
    /\ SameAccess(d, e) /\ SameSettings(d, e)

\* Most migrations are one statement.
LEMMA OneStatement ==
    ASSUME NEW d
    PROVE  /\ \A v \in {2, 3, 5, 6, 7, 8, 18, 27, 28, 31, 32, 34} :
                  up(v, d) = AddColumns(d, Added(v))
           /\ \A v \in {9, 10, 11, 12, 20} : up(v, d) = InsertDefaults(d, Inserted(v))
           /\ \A v \in {21, 29, 30} : up(v, d) = CreateTables(d, Created(v), {})
<1>1. /\ up(2, d) = AddColumns(d, Added(2)) /\ up(3, d) = AddColumns(d, Added(3))
      /\ up(5, d) = AddColumns(d, Added(5)) /\ up(6, d) = AddColumns(d, Added(6))
  BY UpIs, AddedBy DEF m2, m3, m5, m6
<1>2. /\ up(7, d) = AddColumns(d, Added(7)) /\ up(8, d) = AddColumns(d, Added(8))
      /\ up(18, d) = AddColumns(d, Added(18)) /\ up(27, d) = AddColumns(d, Added(27))
  BY UpIs, AddedBy DEF m7, m8, m18, m27, BackupStatus
<1>3. /\ up(28, d) = AddColumns(d, Added(28)) /\ up(31, d) = AddColumns(d, Added(31))
      /\ up(32, d) = AddColumns(d, Added(32)) /\ up(34, d) = AddColumns(d, Added(34))
  BY UpIs, AddedBy DEF m28, m31, m32, m34, Reciprocal, SourceRef, SourceKind, DryRun
<1>4. /\ up(9, d) = InsertDefaults(d, Inserted(9))
      /\ up(10, d) = InsertDefaults(d, Inserted(10))
      /\ up(11, d) = InsertDefaults(d, Inserted(11))
      /\ up(12, d) = InsertDefaults(d, Inserted(12))
      /\ up(20, d) = InsertDefaults(d, Inserted(20))
  BY UpIs, InsertedBy DEF m9, m10, m11, m12, m20
<1>5. /\ up(21, d) = CreateTables(d, Created(21), {})
      /\ up(29, d) = CreateTables(d, Created(29), {})
      /\ up(30, d) = CreateTables(d, Created(30), {})
  BY UpIs, CreatedBy DEF m21, m29, m30
<1> QED BY <1>1, <1>2, <1>3, <1>4, <1>5

LEMMA LeavesTyped ==
    ASSUME NEW v \in 0..34
    PROVE  /\ Created(v) \subseteq AllTables /\ Added(v) \subseteq AllColumns
           /\ Inserted(v) \subseteq Defaults
<1>1. Created(v) \subseteq AllTables
  BY DEF Created, AllTables
<1>2. Added(v) \subseteq AllColumns
  BY TablesAndColumns DEF Added
<1>3. Inserted(v) \subseteq Defaults
  BY DEF Inserted, Defaults
<1> QED BY <1>1, <1>2, <1>3

LEMMA StatementMigrations ==
    ASSUME NEW d \in Database, NEW e,
           NEW v \in {2, 3, 5, 6, 7, 8, 18, 27, 28, 31, 32, 34}
                     \cup {9, 10, 11, 12, 20} \cup {21, 29, 30},
           e = up(v, d)
    PROVE  Adding(v, d, e)
<1>1. CASE v \in {2, 3, 5, 6, 7, 8, 18, 27, 28, 31, 32, 34}
  <2>1. e = AddColumns(d, Added(v))
    BY <1>1, OneStatement
  <2>2. Created(v) = {}
    BY <1>1, NothingCreated
  <2>3. Inserted(v) = {}
    BY <1>1, NothingInserted
  <2> QED BY <2>1, <2>2, <2>3, LeavesTyped, Adds DEF Adding
<1>2. CASE v \in {9, 10, 11, 12, 20}
  <2>1. e = InsertDefaults(d, Inserted(v))
    BY <1>2, OneStatement
  <2>2. Created(v) = {}
    BY <1>2, NothingCreated
  <2>3. Added(v) = {}
    BY <1>2, NothingAdded
  <2> QED BY <2>1, <2>2, <2>3, LeavesTyped, Inserts DEF Adding
<1>3. CASE v \in {21, 29, 30}
  <2>1. e = CreateTables(d, Created(v), {})
    BY <1>3, OneStatement
  <2>2. Added(v) = {}
    BY <1>3, NothingAdded
  <2>3. Inserted(v) = {}
    BY <1>3, NothingInserted
  <2> QED BY <2>1, <2>2, <2>3, LeavesTyped, Creates DEF Adding
<1> QED BY <1>1, <1>2, <1>3

LEMMA Weaker ==
    ASSUME NEW d, NEW e, NEW ts, NEW cs, NEW ks, Grown(d, e, ts, cs, ks),
           NEW as, as \subseteq ts, NEW os, os \subseteq cs, NEW is, is \subseteq ks
    PROVE  Grown(d, e, as, os, is)
  BY DEF Grown

LEMMA TablesFirst ==
    ASSUME NEW d \in Database, NEW e, NEW v \in {0, 1, 4, 16}, e = up(v, d)
    PROVE  Adding(v, d, e)
<1>1. v # 0 => Created(v) = {}
  BY NothingCreated
<1>2. Added(v) = {} /\ Inserted(v) = {}
  BY NothingAdded, NothingInserted
<1>3. Created(0) = BaselineTables
  BY CreatedBy
<1>4. CASE v = 0
  <2> DEFINE f == CreateTables(d, BaselineTables, BaselineColumns)
  <2>1. Grown(d, f, BaselineTables, {}, {}) /\ SameAccess(d, f) /\ SameSettings(d, f)
    BY TablesAndColumns, Creates
  <2>2. e = [f EXCEPT !.fileIndex = TRUE]
    BY <1>4, UpIs DEF m0
  <2>3. f \in Database
    BY <2>1 DEF Grown
  <2> HIDE DEF f
  <2>4. Grown(f, e, {}, {}, {}) /\ SameAccess(f, e) /\ SameSettings(f, e)
    BY <2>2, <2>3, Touches
  <2> QED BY <1>2, <1>3, <1>4, <2>1, <2>4, GrownTwice DEF Adding
<1>5. CASE v = 1
  <2> DEFINE f == CreateTables(d, {"backup_run_files"}, {})
  <2>1. {"backup_run_files"} \subseteq AllTables
    BY DEF AllTables, BaselineTables
  <2>2. Grown(d, f, {"backup_run_files"}, {}, {}) /\ SameAccess(d, f) /\ SameSettings(d, f)
    BY <2>1, Creates
  <2>3. e = d \/ e = [f EXCEPT !.fileIndex = TRUE]
    BY <1>5, UpIs DEF m1
  <2>4. f \in Database
    BY <2>2 DEF Grown
  <2> HIDE DEF f
  <2>5. CASE e = d
    <3>1. Grown(d, e, {}, {}, {}) /\ SameAccess(d, e) /\ SameSettings(d, e)
      BY <2>5, Touches
    <3> QED BY <1>1, <1>2, <1>5, <3>1 DEF Adding
  <2>6. CASE e = [f EXCEPT !.fileIndex = TRUE]
    <3>1. Grown(f, e, {}, {}, {}) /\ SameAccess(f, e) /\ SameSettings(f, e)
      BY <2>4, <2>6, Touches
    <3> QED BY <1>1, <1>2, <1>5, <2>2, <3>1, GrownTwice DEF Adding
  <2> QED BY <2>3, <2>5, <2>6
<1>6. CASE v \in {4, 16}
  <2> DEFINE ts == IF v = 4 THEN {"pairing_requests"} ELSE {"media_import_ledger"}
             cs == IF v = 4 THEN {RemoteAccess} ELSE {}
  <2>1. ts \subseteq AllTables /\ cs \subseteq AllColumns
    BY TablesAndColumns DEF AllTables, BaselineTables
  <2>2. e = CreateTables(d, ts, cs)
    BY <1>6, UpIs DEF m4, m16
  <2> HIDE DEF ts, cs
  <2>3. Grown(d, e, ts, {}, {}) /\ SameAccess(d, e) /\ SameSettings(d, e)
    BY <2>1, <2>2, Creates
  <2> QED BY <1>1, <1>2, <1>6, <2>3, Weaker DEF Adding
<1> QED BY <1>4, <1>5, <1>6

LEMMA ColumnsThenRows ==
    ASSUME NEW d \in Database, NEW e, NEW v \in {13, 14, 15, 26}, e = up(v, d)
    PROVE  Adding(v, d, e)
<1>1. Created(v) = {} /\ Inserted(v) = {}
  BY NothingCreated, NothingInserted
<1>2. CASE v = 13
  <2> DEFINE f == AddColumns(d, {JobIdentity})
             b == f.job.bound \/ d.outgoing.static
  <2>1. Grown(d, f, {}, {JobIdentity}, {}) /\ SameAccess(d, f) /\ SameSettings(d, f)
    BY TablesAndColumns, Adds
  <2>2. f \in Database
    BY <2>1 DEF Grown
  <2>3. e = [f EXCEPT !.job.bound = b] /\ Added(v) = {JobIdentity}
    BY <1>2, UpIs, AddedBy DEF m13
  <2>4. b \in BOOLEAN
    BY <2>2 DEF Database
  <2> HIDE DEF f, b
  <2>5. Grown(f, e, {}, {}, {}) /\ SameAccess(f, e) /\ SameSettings(f, e)
    BY <2>2, <2>3, <2>4, Touches
  <2> QED BY <1>1, <2>1, <2>3, <2>5, GrownTwice DEF Adding
<1>3. CASE v = 14
  <2> DEFINE f == AddColumns(d, {RunIdentity})
             b == f.run.bound \/ d.job.bound
  <2>1. Grown(d, f, {}, {RunIdentity}, {}) /\ SameAccess(d, f) /\ SameSettings(d, f)
    BY TablesAndColumns, Adds
  <2>2. f \in Database
    BY <2>1 DEF Grown
  <2>3. e = [f EXCEPT !.run.bound = b] /\ Added(v) = {RunIdentity}
    BY <1>3, UpIs, AddedBy DEF m14
  <2>4. b \in BOOLEAN
    BY <2>2 DEF Database
  <2> HIDE DEF f, b
  <2>5. Grown(f, e, {}, {}, {}) /\ SameAccess(f, e) /\ SameSettings(f, e)
    BY <2>2, <2>3, <2>4, Touches
  <2> QED BY <1>1, <2>1, <2>3, <2>5, GrownTwice DEF Adding
<1>4. CASE v \in {15, 26}
  <2>1. e = d \/ e = [d EXCEPT !.drive.deletes = FALSE]
    BY <1>4, UpIs DEF m15
  <2>2. Grown(d, e, {}, {}, {}) /\ SameAccess(d, e) /\ SameSettings(d, e)
    BY <2>1, Touches
  <2>3. Added(v) = {}
    BY <1>4, NothingAdded
  <2> QED BY <1>1, <2>2, <2>3 DEF Adding
<1> QED BY <1>2, <1>3, <1>4

LEMMA TablesAndMore ==
    ASSUME NEW d \in Database, NEW e, NEW v \in {22, 33}, e = up(v, d)
    PROVE  Adding(v, d, e)
<1> DEFINE f == CreateTables(d, Created(v), {})
<1>1. Created(v) \subseteq AllTables /\ Added(v) \subseteq AllColumns
      /\ Inserted(v) \subseteq Defaults
  BY LeavesTyped
<1>2. Grown(d, f, Created(v), {}, {}) /\ SameAccess(d, f) /\ SameSettings(d, f)
  BY <1>1, Creates
<1>3. f \in Database
  BY <1>2 DEF Grown
<1>4. CASE v = 22
  <2>1. e = InsertDefaults(f, Inserted(v))
    BY <1>4, UpIs, CreatedBy, InsertedBy DEF m22
  <2>2. Added(v) = {}
    BY <1>4, NothingAdded
  <2> HIDE DEF f
  <2>3. Grown(f, e, {}, {}, Inserted(v)) /\ SameAccess(f, e) /\ SameSettings(f, e)
    BY <1>1, <1>3, <2>1, Inserts
  <2> QED BY <1>2, <2>2, <2>3, GrownTwice DEF Adding
<1>5. CASE v = 33
  <2>1. e = AddColumns(f, Added(v))
    BY <1>5, UpIs, CreatedBy, AddedBy DEF m33, RemoteSource
  <2>2. Inserted(v) = {}
    BY <1>5, NothingInserted
  <2> HIDE DEF f
  <2>3. Grown(f, e, {}, Added(v), {}) /\ SameAccess(f, e) /\ SameSettings(f, e)
    BY <1>1, <1>3, <2>1, Adds
  <2> QED BY <1>2, <2>2, <2>3, GrownTwice DEF Adding
<1> QED BY <1>4, <1>5

LEMMA Settles ==
    ASSUME NEW d \in Database, NEW s \in [Keys -> Values], NEW e, e = [d EXCEPT !.settings = s]
    PROVE  /\ e \in Database /\ e.settings = s
           /\ e.version = d.version /\ e.tables = d.tables /\ e.columns = d.columns
           /\ e.peers = d.peers /\ e.job = d.job
  BY DEF Database

LEMMA SettingsTyped == ASSUME NEW d \in Database PROVE d.settings \in [Keys -> Values]
  BY DEF Database

LEMMA DockerMigration ==
    ASSUME NEW d \in Database, NEW e, e = up(19, d)
    PROVE  Adding(19, d, e)
<1> DEFINE socket == IF d.settings["docker_socket"] = "default" THEN "proxy"
                     ELSE d.settings["docker_socket"]
           s == [d.settings EXCEPT !["docker_socket"] = socket]
<1>1. d.settings \in [Keys -> Values]
  BY SettingsTyped
<1>2. s \in [Keys -> Values]
  BY <1>1 DEF Values
<1>3. e = [d EXCEPT !.settings = s]
  BY UpIs DEF m19
<1>4. \A k \in Keys : s[k] =
          IF k = "docker_socket" /\ d.settings[k] = "default" THEN "proxy" ELSE d.settings[k]
  BY <1>1
<1> HIDE DEF s
<1>5. /\ e \in Database /\ e.settings = s
      /\ e.version = d.version /\ e.tables = d.tables /\ e.columns = d.columns
      /\ e.peers = d.peers /\ e.job = d.job
  BY <1>2, <1>3, Settles
<1>6. Grown(d, e, {}, {}, {})
  BY <1>4, <1>5, KeySets DEF Grown
<1>7. SameAccess(d, e)
  BY <1>4, <1>5, KeySets DEF SameAccess
<1>8. Server(e.settings) = Server(d.settings) /\ Token(e.settings) = Token(d.settings)
  BY <1>4, <1>5, KeySets DEF Server, Token
<1>9. SameSettings(d, e)
  BY <1>4, <1>5, <1>8 DEF SameSettings
<1>10. Created(19) = {} /\ Added(19) = {} /\ Inserted(19) = {}
  BY NothingCreated, NothingAdded, NothingInserted
<1> QED BY <1>6, <1>7, <1>9, <1>10 DEF Adding

LEMMA RootMigration ==
    ASSUME NEW d \in Database, NEW e, e = up(17, d), Rewritten(16, d)
    PROVE  Grown(d, e, Created(17), Added(17), Inserted(17)) /\ Rewritten(17, e)
           /\ SameSettings(d, e)
<1> DEFINE j == [d.job EXCEPT !.root = FALSE]
<1>1. e = [d EXCEPT !.job = j]
  BY UpIs DEF m17
<1>2. j \in [bound : BOOLEAN, root : BOOLEAN] /\ ~j.root
  BY DEF Database
<1> HIDE DEF j
<1>3. /\ e \in Database /\ e.version = d.version /\ e.tables = d.tables
      /\ e.columns = d.columns /\ e.peers = d.peers /\ e.settings = d.settings /\ ~e.job.root
  BY <1>1, <1>2 DEF Database
<1>4. Created(17) = {} /\ Added(17) = {} /\ Inserted(17) = {}
  BY NothingCreated, NothingAdded, NothingInserted
<1> QED BY <1>3, <1>4 DEF Grown, SameSettings, Rewritten

\* The shared key of early releases becomes a peer, and its setting goes.
LEMMA SharedKeyMigration ==
    ASSUME NEW d \in Database, NEW e, e = up(23, d), Rewritten(22, d)
    PROVE  Grown(d, e, Created(23), Added(23), Inserted(23)) /\ Rewritten(23, e)
           /\ SameSettings(d, e)
<1> DEFINE f == AddColumns(d, SsdRetention \cup {StorageLimit})
           g == [f EXCEPT !.fileIndex = TRUE]
<1>1. Created(23) = {} /\ Added(23) = SsdRetention \cup {StorageLimit} /\ Inserted(23) = {}
  BY NothingCreated, AddedBy, NothingInserted
<1>2. Grown(d, f, {}, Added(23), {}) /\ SameAccess(d, f) /\ SameSettings(d, f)
  BY <1>1, TablesAndColumns, Adds
<1>3. f \in Database
  BY <1>2 DEF Grown
<1>4. Grown(f, g, {}, {}, {}) /\ SameAccess(f, g) /\ SameSettings(f, g)
  <2> HIDE DEF f
  <2> QED BY <1>3, Touches
<1>5. Grown(d, g, {}, Added(23), {}) /\ SameAccess(d, g) /\ SameSettings(d, g)
  <2> HIDE DEF f, g
  <2> QED BY <1>2, <1>4, GrownTwice
<1>6. g \in Database
  BY <1>5 DEF Grown
<1>7. g.settings["peer_api_key"] = d.settings["peer_api_key"]
  BY <1>5, KeySets DEF SameAccess
<1>8. e = IF d.settings["peer_api_key"] = "absent" THEN g
          ELSE [g EXCEPT !.peers["migrated"] = {Migrated},
                         !.plain = @ \cup {"authorized_peers"},
                         !.settings["peer_api_key"] = "absent"]
  BY UpIs, Zenon DEF m23
<1> HIDE DEF f, g
<1>9. CASE d.settings["peer_api_key"] = "absent"
  <2>1. e = g
    BY <1>8, <1>9
  <2> QED BY <1>1, <1>5, <1>7, <1>9, <2>1 DEF SameAccess, Rewritten
<1>10. CASE d.settings["peer_api_key"] # "absent"
  <2>1. e = [g EXCEPT !.peers["migrated"] = {Migrated},
                      !.plain = @ \cup {"authorized_peers"},
                      !.settings["peer_api_key"] = "absent"]
    BY <1>8, <1>10
  <2> DEFINE ps == [g.peers EXCEPT !["migrated"] = {Migrated}]
             ks == g.plain \cup {"authorized_peers"}
             s  == [g.settings EXCEPT !["peer_api_key"] = "absent"]
  <2>2. /\ g.peers \in [{"paired", "migrated"} -> SUBSET Peer]
        /\ g.plain \in SUBSET KeyTables /\ g.settings \in [Keys -> Values]
    BY <1>6 DEF Database
  <2>3. "peer_api_key" \in Aliases /\ "peer_api_key" \in Keys
    BY KeySets
  <2>4. /\ ps \in [{"paired", "migrated"} -> SUBSET Peer]
        /\ ps["migrated"] = {Migrated} /\ ps["paired"] = g.peers["paired"]
    <3>1. Migrated \in Peer
      BY DEF Migrated, Peer
    <3> QED BY <2>2, <3>1
  <2>5. ks \in SUBSET KeyTables
    BY <2>2 DEF KeyTables
  <2>6. /\ s \in [Keys -> Values]
        /\ \A k \in Keys : s[k] = IF k = "peer_api_key" THEN "absent" ELSE g.settings[k]
    BY <2>2 DEF Values
  <2>7. /\ e \in Database /\ e.version = g.version /\ e.tables = g.tables
        /\ e.columns = g.columns /\ e.job = g.job /\ e.peers = ps /\ e.settings = s
    <3> DEFINE g1 == [g EXCEPT !.peers = ps]
               g2 == [g1 EXCEPT !.plain = ks]
    <3>1. e = [g2 EXCEPT !.settings = s]
      BY <2>1
    <3> HIDE DEF ps, ks, s
    <3>2. /\ g1 \in Database /\ g1.version = g.version /\ g1.tables = g.tables
          /\ g1.columns = g.columns /\ g1.job = g.job /\ g1.peers = ps
      BY <1>6, <2>4 DEF Database
    <3> HIDE DEF g1
    <3>3. /\ g2 \in Database /\ g2.version = g1.version /\ g2.tables = g1.tables
          /\ g2.columns = g1.columns /\ g2.job = g1.job /\ g2.peers = g1.peers
      BY <2>5, <3>2 DEF Database
    <3> HIDE DEF g2
    <3>4. /\ e \in Database /\ e.version = g2.version /\ e.tables = g2.tables
          /\ e.columns = g2.columns /\ e.job = g2.job /\ e.peers = g2.peers /\ e.settings = s
      BY <2>6, <3>1, <3>3, Settles
    <3> QED BY <3>2, <3>3, <3>4
  <2> HIDE DEF ps, ks, s
  <2>8. Grown(g, e, {}, {}, {})
    BY <2>3, <2>6, <2>7, KeySets DEF Grown
  <2>9. Grown(d, e, Created(23), Added(23), Inserted(23))
    BY <1>1, <1>5, <2>8 DEF Grown
  <2>10. SameSettings(g, e)
    <3>1. Server(e.settings) = Server(g.settings) /\ Token(e.settings) = Token(g.settings)
      BY <2>6, <2>7, KeySets DEF Server, Token
    <3> QED BY <2>3, <2>6, <2>7, <3>1 DEF SameSettings
  <2>11. SameSettings(d, e)
    BY <1>5, <2>10 DEF SameSettings
  <2>12. Rewritten(23, e)
    <3>1. g.peers = d.peers /\ g.job.root = d.job.root
      BY <1>5 DEF SameAccess
    <3>2. \A p, q \in e.peers["migrated"] : p = q
      BY <2>4, <2>7
    <3>3. \A p \in e.peers["migrated"] : ~p.ssh
      BY <2>4, <2>7 DEF Migrated
    <3>4. e.settings["peer_api_key"] = "absent"
      BY <2>3, <2>6, <2>7
    <3> QED BY <2>4, <2>7, <3>1, <3>2, <3>3, <3>4 DEF Rewritten
  <2> QED BY <2>9, <2>11, <2>12
<1> QED BY <1>9, <1>10

\* One setting is written.
LEMMA SettingOne ==
    ASSUME NEW d \in Database, NEW k \in Keys, NEW x \in Values, NEW e,
           e = [d EXCEPT !.settings[k] = x]
    PROVE  /\ e \in Database
           /\ e.version = d.version /\ e.tables = d.tables /\ e.columns = d.columns
           /\ e.peers = d.peers /\ e.job = d.job
           /\ \A j \in Keys : e.settings[j] = IF j = k THEN x ELSE d.settings[j]
<1> DEFINE s == [d.settings EXCEPT ![k] = x]
<1>1. e = [d EXCEPT !.settings = s]
  OBVIOUS
<1>2. s \in [Keys -> Values] /\ \A j \in Keys : s[j] = IF j = k THEN x ELSE d.settings[j]
  BY SettingsTyped
<1> HIDE DEF s
<1>3. /\ e \in Database /\ e.settings = s
      /\ e.version = d.version /\ e.tables = d.tables /\ e.columns = d.columns
      /\ e.peers = d.peers /\ e.job = d.job
  BY <1>1, <1>2 DEF Database
<1> QED BY <1>2, <1>3

\* The old names of the notification settings go, their values do not.
LEMMA AliasMigration ==
    ASSUME NEW d \in Database, NEW e, e = up(24, d), Rewritten(23, d)
    PROVE  Grown(d, e, Created(24), Added(24), Inserted(24)) /\ Rewritten(24, e)
           /\ SameSettings(d, e)
<1> DEFINE o == d.settings
           carryUrl == o["ntfy_url"] = "own" /\ o["ntfy_server"] # "own"
           carryToken == o["ntfy_token"] = "own" /\ o["ntfy_auth_token"] = "absent"
           x1 == IF carryUrl THEN "legacy" ELSE o["ntfy_server"]
           d1 == [d EXCEPT !.settings["ntfy_server"] = x1]
           x2 == IF carryToken THEN "legacy" ELSE o["ntfy_auth_token"]
           d2 == [d1 EXCEPT !.settings["ntfy_auth_token"] = x2]
           x3 == IF carryToken /\ o["ntfy_auth_type"] \in {"absent", "default"}
                 THEN "token" ELSE o["ntfy_auth_type"]
           d3 == [d2 EXCEPT !.settings["ntfy_auth_type"] = x3]
           d4 == [d3 EXCEPT !.settings["ntfy_url"] = "absent"]
           d5 == [d4 EXCEPT !.settings["ntfy_token"] = "absent"]
           Rest(a, b) == /\ b \in Database
                         /\ b.version = a.version /\ b.tables = a.tables
                         /\ b.columns = a.columns /\ b.peers = a.peers /\ b.job = a.job
<1>1. e = d5
  <2>1. e = m24(d)
    BY UpIs
  <2>2. m24(d) = d5
    BY Zenon DEF m24
  <2> QED BY <2>1, <2>2
<1>2. /\ {"ntfy_server", "ntfy_auth_token", "ntfy_auth_type", "ntfy_url", "ntfy_token"}
              \subseteq Keys
      /\ {"absent", "legacy", "token"} \subseteq Values
  BY KeySets DEF Values
<1>3. x1 \in Values
  BY <1>2, SettingsTyped
<1>4. Rest(d, d1) /\ \A k \in Keys : d1.settings[k] = IF k = "ntfy_server" THEN x1 ELSE o[k]
  <2> HIDE DEF x1
  <2> QED BY <1>2, <1>3, SettingOne
<1> HIDE DEF d1
<1>5. x2 \in Values
  BY <1>2, <1>4, SettingsTyped
<1>6. Rest(d1, d2) /\ \A k \in Keys :
          d2.settings[k] = IF k = "ntfy_auth_token" THEN x2 ELSE d1.settings[k]
  <2> HIDE DEF x2
  <2> QED BY <1>2, <1>4, <1>5, SettingOne
<1> HIDE DEF d2
<1>7. x3 \in Values
  BY <1>2, <1>6, SettingsTyped
<1>8. Rest(d2, d3) /\ \A k \in Keys :
          d3.settings[k] = IF k = "ntfy_auth_type" THEN x3 ELSE d2.settings[k]
  <2> HIDE DEF x3
  <2> QED BY <1>2, <1>6, <1>7, SettingOne
<1> HIDE DEF d3
<1>9. Rest(d3, d4) /\ \A k \in Keys :
          d4.settings[k] = IF k = "ntfy_url" THEN "absent" ELSE d3.settings[k]
  BY <1>2, <1>8, SettingOne
<1> HIDE DEF d4
<1>10. Rest(d4, e) /\ \A k \in Keys :
          e.settings[k] = IF k = "ntfy_token" THEN "absent" ELSE d4.settings[k]
  BY <1>1, <1>2, <1>9, SettingOne
<1> HIDE DEF d5
<1>11. Rest(d, e)
  BY <1>4, <1>6, <1>8, <1>9, <1>10
<1>12. /\ e.settings["ntfy_server"] = x1
       /\ e.settings["ntfy_auth_token"] = x2
       /\ e.settings["ntfy_url"] = "absent" /\ e.settings["ntfy_token"] = "absent"
       /\ x2 = IF carryToken THEN "legacy" ELSE o["ntfy_auth_token"]
       /\ e.settings["ntfy_auth_type"] = x3
       /\ x3 = "token" \/ x3 = o["ntfy_auth_type"]
       /\ o["ntfy_auth_type"] = "own" => x3 = "own"
  BY <1>2, <1>4, <1>6, <1>8, <1>9, <1>10
<1>13. \A k \in Keys \ {"ntfy_server", "ntfy_auth_token", "ntfy_auth_type", "ntfy_url",
                        "ntfy_token"} : e.settings[k] = o[k]
  BY <1>4, <1>6, <1>8, <1>9, <1>10
<1> HIDE DEF x2, x3
<1>14. Created(24) = {} /\ Added(24) = {} /\ Inserted(24) = {}
  BY NothingCreated, NothingAdded, NothingInserted
<1>15. \A k \in Defaults : e.settings[k] = o[k]
  BY <1>13, KeySets
<1>16. Grown(d, e, Created(24), Added(24), Inserted(24))
  BY <1>11, <1>14, <1>15 DEF Grown
<1>17. e.settings["peer_api_key"] = o["peer_api_key"]
  BY <1>13, KeySets
<1>18. Rewritten(24, e)
  BY <1>11, <1>12, <1>17 DEF Rewritten
<1>19. Server(e.settings) = Server(o)
  BY <1>12 DEF Server
<1>20. Token(e.settings) = Token(o)
  BY <1>12 DEF Token
<1>21. ASSUME NEW k \in Keys \ Aliases, o[k] = "own" PROVE e.settings[k] = "own"
  <2>1. k \notin {"ntfy_url", "ntfy_token"}
    BY KeySets
  <2> QED BY <1>12, <1>13, <1>21, <2>1
<1> QED BY <1>16, <1>18, <1>19, <1>20, <1>21 DEF SameSettings

\* Only peers with a directory, a limit and a key of their own stay enabled.
LEMMA BoundsMigration ==
    ASSUME NEW d \in Database, NEW e, e = up(25, d), Rewritten(24, d)
    PROVE  Grown(d, e, Created(25), Added(25), Inserted(25)) /\ Rewritten(25, e)
           /\ SameSettings(d, e)
<1> DEFINE f == AddColumns(d, {PeerSshKey})
           Keyed(n, p) == [p EXCEPT !.ssh = @ \/ (n = "paired" /\ d.incoming.ssh)]
           Bound(n, p) ==
               [Keyed(n, p) EXCEPT !.enabled = @ /\ Scoped(Keyed(n, p))
                                                 /\ (Keyed(n, p).static => Keyed(n, p).ssh)]
           ps == [n \in DOMAIN f.peers |-> {Bound(n, p) : p \in f.peers[n]}]
<1>1. Created(25) = {} /\ Added(25) = {PeerSshKey} /\ Inserted(25) = {}
  BY NothingCreated, AddedBy, NothingInserted
<1>2. Grown(d, f, {}, Added(25), {}) /\ SameAccess(d, f) /\ SameSettings(d, f)
  BY <1>1, TablesAndColumns, Adds
<1>3. f \in Database
  BY <1>2 DEF Grown
<1>4. e = [f EXCEPT !.peers = ps]
  <2>1. e = m25(d)
    BY UpIs
  <2>2. m25(d) = [f EXCEPT !.peers = ps]
    BY Zenon DEF m25
  <2> QED BY <2>1, <2>2
<1>5. ASSUME NEW n \in {"paired", "migrated"}, NEW p \in Peer
      PROVE  /\ Bound(n, p) \in Peer /\ Bounds(Bound(n, p))
             /\ n = "migrated" /\ ~p.ssh => ~Bound(n, p).ssh
  <2> DEFINE q == Keyed(n, p)
             r == Bound(n, p)
  <2>1. d.incoming.ssh \in BOOLEAN
    BY DEF Database
  <2>2. /\ q \in Peer /\ q.enabled = p.enabled /\ q.path = p.path /\ q.limited = p.limited
        /\ q.static = p.static
        /\ q.ssh = (p.ssh \/ (n = "paired" /\ d.incoming.ssh))
    BY <2>1 DEF Peer
  <2>3. r = [q EXCEPT !.enabled = @ /\ Scoped(q) /\ (q.static => q.ssh)]
    OBVIOUS
  <2> HIDE DEF q, r
  <2>4. /\ r \in Peer /\ r.path = q.path /\ r.limited = q.limited
        /\ r.static = q.static /\ r.ssh = q.ssh
        /\ r.enabled = (q.enabled /\ Scoped(q) /\ (q.static => q.ssh))
    BY <2>2, <2>3 DEF Peer, Scoped
  <2>5. Bounds(r)
    BY <2>4 DEF Bounds, Scoped
  <2>6. n = "migrated" /\ ~p.ssh => ~r.ssh
    BY <2>2, <2>4
  <2> QED BY <2>4, <2>5, <2>6 DEF r
<1>6. f.peers \in [{"paired", "migrated"} -> SUBSET Peer] /\ f.peers = d.peers
      /\ f.job.root = d.job.root
  BY <1>2, <1>3 DEF Database, SameAccess
<1> HIDE DEF f, Bound
<1>7. /\ ps \in [{"paired", "migrated"} -> SUBSET Peer]
      /\ \A n \in {"paired", "migrated"} : ps[n] = {Bound(n, p) : p \in f.peers[n]}
  BY <1>5, <1>6
<1> HIDE DEF ps
<1>8. /\ e \in Database /\ e.version = f.version /\ e.tables = f.tables
      /\ e.columns = f.columns /\ e.job = f.job /\ e.peers = ps /\ e.settings = f.settings
  BY <1>3, <1>4, <1>7 DEF Database
<1>9. Grown(d, e, Created(25), Added(25), Inserted(25))
  BY <1>1, <1>2, <1>8 DEF Grown
<1>10. SameSettings(d, e)
  BY <1>2, <1>8 DEF SameSettings
<1>11. \A n \in {"paired", "migrated"} : \A p, q \in ps[n] : p = q
  BY <1>6, <1>7 DEF Rewritten
<1>12. \A n \in {"paired", "migrated"} : \A p \in ps[n] : Bounds(p)
  BY <1>5, <1>6, <1>7
<1>13. \A p \in ps["migrated"] : ~p.ssh
  BY <1>5, <1>6, <1>7 DEF Rewritten
<1>14. /\ ~e.job.root /\ \A k \in Aliases : e.settings[k] = "absent"
  <2>1. \A k \in Aliases : e.settings[k] = d.settings[k]
    BY <1>2, <1>8 DEF SameAccess
  <2>2. \A k \in Aliases : d.settings[k] = "absent"
    BY DEF Rewritten, Aliases
  <2> QED BY <1>6, <1>8, <2>1, <2>2 DEF Rewritten
<1>15. Rewritten(25, e)
  BY <1>8, <1>11, <1>12, <1>13, <1>14, KeySets DEF Rewritten
<1> QED BY <1>9, <1>10, <1>15

-----------------------------------------------------------------------------
(* Any migration, from a sound database of the version before.             *)

LEMMA SameAccessKeeps ==
    ASSUME NEW d, NEW e, NEW v \in 0..34, v \notin {17, 23, 24, 25},
           Rewritten(v - 1, d), SameAccess(d, e)
    PROVE  Rewritten(v, e)
<1>1. \A k \in {"ntfy_url", "ntfy_token", "peer_api_key"} : e.settings[k] = d.settings[k]
  BY DEF SameAccess, Aliases
<1> QED BY <1>1 DEF Rewritten, SameAccess

LEMMA Migrates ==
    ASSUME NEW v \in 0..34, NEW d \in Database, Rewritten(v - 1, d), NEW e, e = up(v, d)
    PROVE  Grown(d, e, Created(v), Added(v), Inserted(v)) /\ Rewritten(v, e)
           /\ SameSettings(d, e)
<1>1. CASE v \in {17, 23, 24, 25}
  BY <1>1, RootMigration, SharedKeyMigration, AliasMigration, BoundsMigration
<1>2. CASE v \notin {17, 23, 24, 25}
  <2>1. Adding(v, d, e)
    <3>1. CASE v \in {0, 1, 4, 16}
      BY <3>1, TablesFirst
    <3>2. CASE v \in {13, 14, 15, 26}
      BY <3>2, ColumnsThenRows
    <3>3. CASE v \in {22, 33}
      BY <3>3, TablesAndMore
    <3>4. CASE v = 19
      BY <3>4, DockerMigration
    <3>5. CASE v \in {2, 3, 5, 6, 7, 8, 18, 27, 28, 31, 32, 34} \cup {9, 10, 11, 12, 20}
                     \cup {21, 29, 30}
      BY <3>5, StatementMigrations
    <3> QED BY <1>2, <3>1, <3>2, <3>3, <3>4, <3>5
  <2> QED BY <1>2, <2>1, SameAccessKeeps DEF Adding
<1> QED BY <1>1, <1>2

\* One migration and its row in migrations.
LEMMA MigrationKeeps ==
    ASSUME NEW v \in 0..34, NEW d, Sound(d), d.version = v - 1,
           NEW e, e = [up(v, d) EXCEPT !.version = v]
    PROVE  Sound(e) /\ e.version = v /\ SameSettings(d, e)
<1> DEFINE f == up(v, d)
<1>1. Grown(d, f, Created(v), Added(v), Inserted(v)) /\ Rewritten(v, f) /\ SameSettings(d, f)
  BY Migrates DEF Sound
<1>2. f \in Database
  BY <1>1 DEF Grown
<1> HIDE DEF f
<1>3. /\ e \in Database /\ e.version = v
      /\ e.tables = f.tables /\ e.columns = f.columns /\ e.settings = f.settings
      /\ e.peers = f.peers /\ e.job = f.job
  <2>1. e = [f EXCEPT !.version = v]
    BY Zenon DEF f
  <2>2. v \in -1..LATEST
    BY DEF LATEST
  <2> QED BY <1>2, <2>1, <2>2 DEF Database
<1>4. Rewritten(v, e)
  BY <1>1, <1>3 DEF Rewritten
<1>5. Upgraded(e)
  <2> SUFFICES ASSUME NEW w \in 0..v
               PROVE  /\ Created(w) \subseteq e.tables
                      /\ Added(w) \subseteq e.columns
                      /\ \A s \in Inserted(w) : e.settings[s] # "absent"
    BY <1>3 DEF Upgraded
  <2>1. CASE w = v
    BY <1>1, <1>3, <2>1, LeavesTyped DEF Grown
  <2>2. CASE w # v
    <3>1. w \in 0..d.version /\ w \in 0..34
      BY <2>2
    <3>2. /\ Created(w) \subseteq d.tables
          /\ Added(w) \subseteq d.columns
          /\ \A s \in Inserted(w) : d.settings[s] # "absent"
      BY <3>1 DEF Sound, Upgraded
    <3> QED BY <1>1, <1>3, <3>1, <3>2, LeavesTyped DEF Grown
  <2> QED BY <2>1, <2>2
<1>6. SameSettings(d, e)
  BY <1>1, <1>3 DEF SameSettings
<1> QED BY <1>3, <1>4, <1>5, <1>6 DEF Sound

LEMMA LeastNumber ==
    ASSUME NEW S \in SUBSET Nat, S # {}
    PROVE  \E x \in S : \A y \in S : x <= y
<1> DEFINE less == OpToRel(<, Nat)
<1>1. IsWellFoundedOn(less, Nat)
  BY NatLessThanWellFounded
<1>2. PICK x \in S : \A y \in S : ~ (<<y, x>> \in less)
  <2> HIDE DEF less
  <2> QED BY <1>1, WFMin
<1>3. \A y \in S : ~(y < x)
  BY <1>2 DEF OpToRel
<1> QED BY <1>3

\* What holds of 0 and goes on from each number to the next holds up to n.
LEMMA CountUp ==
    ASSUME NEW n \in Nat, NEW S, 0 \in S, \A k \in 0..(n - 1) : k \in S => k + 1 \in S
    PROVE  \A k \in 0..n : k \in S
<1> DEFINE T == (0..n) \ S
<1> SUFFICES ASSUME T # {} PROVE FALSE
  OBVIOUS
<1>1. PICK x \in T : \A y \in T : x <= y
  <2>1. T \in SUBSET Nat
    OBVIOUS
  <2> HIDE DEF T
  <2> QED BY <2>1, LeastNumber
<1>2. x \in 1..n /\ x - 1 \notin T
  BY <1>1
<1>3. x - 1 \in S /\ x - 1 \in 0..(n - 1)
  BY <1>2
<1> QED BY <1>1, <1>2, <1>3

-----------------------------------------------------------------------------
(* All the migrations up to some version.                                  *)

\* The database at version n, from the one at version n - 1.
Step(f, n, j, d) == IF n = j THEN d ELSE [up(n, f[n - 1]) EXCEPT !.version = n]

Steps(d, j) == LET f[n \in j..LATEST] == Step(f, n, j, d) IN f

LEMMA StepFirst == \A f, j, d : Step(f, j, j, d) = d
  BY Zenon DEF Step

LEMMA ThroughIs == \A d, j, k : Through(d, j, k) = IF k <= j THEN d ELSE Steps(d, j)[k]
  BY Zenon DEF Through, Steps, Step

LEMMA StepsUnfold ==
    \A d, j : Steps(d, j) = CHOOSE f : f = [n \in j..LATEST |-> Step(f, n, j, d)]
  BY Zenon DEF Steps

LEMMA StepsExist ==
    ASSUME NEW d, NEW j \in -1..34
    PROVE  \E f : f = [n \in j..34 |-> Step(f, n, j, d)]
<1> DEFINE Solved == {i \in 0..(34 - j) : \E f : f = [n \in j..(j + i) |-> Step(f, n, j, d)]}
<1>1. 0 \in Solved
  <2> DEFINE f == [n \in j..(j + 0) |-> d]
  <2>1. \A n \in j..(j + 0) : Step(f, n, j, d) = f[n]
    BY StepFirst
  <2>2. f = [n \in j..(j + 0) |-> Step(f, n, j, d)]
    BY <2>1
  <2> QED BY <2>2
<1>2. ASSUME NEW i \in 0..((34 - j) - 1), i \in Solved PROVE i + 1 \in Solved
  <2>1. PICK f : f = [n \in j..(j + i) |-> Step(f, n, j, d)]
    BY <1>2
  <2> DEFINE m == j + (i + 1)
             g == [n \in j..m |-> IF n = m THEN Step(f, m, j, d) ELSE f[n]]
  <2>2. ASSUME NEW n \in j..m PROVE Step(g, n, j, d) = Step(f, n, j, d)
    <3>1. n # j => n - 1 \in j..m /\ n - 1 # m
      OBVIOUS
    <3>2. n # j => g[n - 1] = f[n - 1]
      BY <3>1
    <3> HIDE DEF g
    <3> QED BY <3>2 DEF Step
  <2>3. ASSUME NEW n \in j..m PROVE g[n] = Step(g, n, j, d)
    <3>1. CASE n = m
      BY <2>2, <3>1
    <3>2. CASE n # m
      <4>1. n \in j..(j + i) /\ g[n] = f[n]
        BY <3>2
      <4>2. f[n] = Step(f, n, j, d)
        BY <2>1, <4>1
      <4> QED BY <2>2, <4>1, <4>2
    <3> QED BY <3>1, <3>2
  <2>4. g = [n \in j..(j + (i + 1)) |-> Step(g, n, j, d)]
    BY <2>3
  <2>5. i + 1 \in 0..(34 - j)
    OBVIOUS
  <2> QED BY <2>4, <2>5
<1>3. 34 - j \in Solved
  <2> HIDE DEF Solved
  <2>1. 34 - j \in Nat
    OBVIOUS
  <2> QED BY <1>1, <1>2, <2>1, CountUp
<1>4. j + (34 - j) = 34
  OBVIOUS
<1> QED BY <1>3, <1>4

LEMMA StepsAre ==
    ASSUME NEW d, NEW j \in -1..34
    PROVE  \A n \in j..34 : Steps(d, j)[n] = Step(Steps(d, j), n, j, d)
<1>1. Steps(d, j) = CHOOSE f : f = [n \in j..34 |-> Step(f, n, j, d)]
  BY StepsUnfold DEF LATEST
<1>2. Steps(d, j) = [n \in j..34 |-> Step(Steps(d, j), n, j, d)]
  BY <1>1, StepsExist, Zenon
<1> QED BY <1>2

\* However far it is migrated, a sound database stays sound.
LEMMA ThroughKeeps ==
    ASSUME NEW j \in -1..34, NEW k \in j..34, NEW d, Sound(d), d.version = j
    PROVE  Sound(Through(d, j, k)) /\ Through(d, j, k).version = k
<1> DEFINE f == Steps(d, j)
           Kept == {i \in 0..(34 - j) : Sound(f[j + i]) /\ f[j + i].version = j + i}
<1>1. 0 \in Kept
  <2>1. f[j] = d
    BY StepsAre, StepFirst
  <2> HIDE DEF f
  <2> QED BY <2>1
<1>2. ASSUME NEW i \in 0..((34 - j) - 1), i \in Kept PROVE i + 1 \in Kept
  <2> DEFINE m == j + (i + 1)
  <2>1. m \in j..34 /\ m # j /\ m \in 0..34 /\ m - 1 = j + i
    OBVIOUS
  <2>2. f[m] = [up(m, f[m - 1]) EXCEPT !.version = m]
    <3>1. f[m] = Step(f, m, j, d)
      BY <2>1, StepsAre
    <3>2. m # j
      BY <2>1
    <3> HIDE DEF m, f
    <3>3. Step(f, m, j, d) = [up(m, f[m - 1]) EXCEPT !.version = m]
      BY <3>2, Zenon DEF Step
    <3> QED BY <3>1, <3>3, Zenon
  <2>3. Sound(f[m - 1]) /\ f[m - 1].version = m - 1
    BY <1>2, <2>1
  <2> HIDE DEF f
  <2>4. Sound(f[m]) /\ f[m].version = m
    <3> HIDE DEF m
    <3> QED BY <2>1, <2>2, <2>3, MigrationKeeps
  <2>5. i + 1 \in 0..(34 - j)
    OBVIOUS
  <2> QED BY <2>4, <2>5
<1>3. \A i \in 0..(34 - j) : i \in Kept
  <2> HIDE DEF Kept
  <2>1. 34 - j \in Nat
    OBVIOUS
  <2> QED BY <1>1, <1>2, <2>1, CountUp
<1>4. k - j \in 0..(34 - j) /\ j + (k - j) = k
  OBVIOUS
<1>5. Sound(f[k]) /\ f[k].version = k
  BY <1>3, <1>4
<1> HIDE DEF f
<1>6. CASE k <= j
  <2>1. Through(d, j, k) = d /\ k = j
    BY <1>6, ThroughIs
  <2> QED BY <2>1
<1>7. CASE ~(k <= j)
  <2>1. Through(d, j, k) = f[k]
    BY <1>7, ThroughIs DEF f
  <2> QED BY <1>5, <2>1
<1> QED BY <1>6, <1>7

-----------------------------------------------------------------------------
(* The databases a startup may find.                                       *)

LEMMA BaselineIsEmpty ==
    ASSUME NEW d \in Database, d.version = -1,
           \A n \in {"paired", "migrated"} : d.peers[n] = {}
    PROVE  Sound(d)
<1>1. Upgraded(d)
  BY DEF Upgraded
<1>2. Rewritten(d.version, d)
  BY DEF Rewritten
<1> QED BY <1>1, <1>2 DEF Sound

LEMMA NewFileIs ==
    /\ NewFile \in Database /\ NewFile.version = -1 /\ NewFile.settings \in [Keys -> Values]
    /\ \A n \in {"paired", "migrated"} : NewFile.peers[n] = {}
<1>1. -1 \in -1..LATEST
  BY DEF LATEST
<1>2. [k \in Keys |-> "absent"] \in [Keys -> Values]
  BY DEF Values
<1> QED BY <1>1, <1>2 DEF NewFile, Database

LEMMA NewFileSound == Sound(NewFile)
  BY NewFileIs, BaselineIsEmpty

LEMMA InlineSound ==
    ASSUME NEW cs \in InlineColumns
    PROVE  Sound(Inline(cs)) /\ Inline(cs).version = -1
<1> DEFINE s == [NewFile.settings EXCEPT !["docker_socket"] = "default"]
           d1 == [NewFile EXCEPT !.tables = BaselineTables]
           d2 == [d1 EXCEPT !.columns = cs]
           d == [d2 EXCEPT !.settings = s]
<1>1. Inline(cs) = d
  BY Zenon DEF Inline
<1>2. cs \subseteq AllColumns /\ BaselineTables \subseteq AllTables
  <2>1. BaselineColumns \subseteq AllColumns
    BY TablesAndColumns
  <2>2. cs \subseteq BaselineColumns
    <3> HIDE DEF d
    <3> QED BY DEF InlineColumns
  <2> QED BY <2>1, <2>2, TablesAndColumns
<1>3. s \in [Keys -> Values]
  BY NewFileIs DEF Values
<1>4. d1 \in Database /\ d1.version = -1 /\ d1.peers = NewFile.peers
  BY <1>2, NewFileIs DEF Database
<1> HIDE DEF d1
<1>5. d2 \in Database /\ d2.version = -1 /\ d2.peers = NewFile.peers
  BY <1>2, <1>4 DEF Database
<1> HIDE DEF s, d2
<1>6. d \in Database /\ d.version = -1 /\ d.peers = NewFile.peers
  BY <1>3, <1>5 DEF Database
<1> HIDE DEF d
<1> QED BY <1>1, <1>6, NewFileIs, BaselineIsEmpty

LEMMA VersionTyped == ASSUME NEW d \in Database PROVE d.version \in -1..34
<1>1. d.version \in -1..LATEST
  BY DEF Database
<1> QED BY <1>1 DEF LATEST

\* What Sound says of a database of version 22 or earlier.
LEMMA EarlySound ==
    ASSUME NEW d, d \in Database, d.version <= 22,
           Upgraded(d),
           \A n \in {"paired", "migrated"} : \A p, q \in d.peers[n] : p = q,
           \A p \in d.peers["migrated"] : ~p.ssh,
           d.version >= 17 => ~d.job.root
    PROVE  Sound(d)
<1>1. d.version \in -1..34
  BY VersionTyped
<1> QED BY <1>1 DEF Sound, Rewritten

LEMMA PeersSound ==
    ASSUME NEW d, Sound(d), d.version <= 22, NEW e \in PeersOf(d)
    PROVE  Sound(e) /\ e.version = d.version
<1>1. PICK s \in BOOLEAN, p \in Peer : e = WithPeer(d, p, s)
  BY DEF PeersOf
<1>2. d \in Database /\ Upgraded(d) /\ Rewritten(d.version, d)
  BY DEF Sound
<1> DEFINE ps == [d.peers EXCEPT !["paired"] = {p}]
           i == [d.incoming EXCEPT !.ssh = s]
           f == [d EXCEPT !.peers = ps]
<1>3. /\ ps \in [{"paired", "migrated"} -> SUBSET Peer]
      /\ ps["paired"] = {p} /\ ps["migrated"] = d.peers["migrated"]
  BY <1>2 DEF Database
<1>4. i \in [ssh : BOOLEAN]
  BY <1>2 DEF Database
<1>5. e = [f EXCEPT !.incoming = i]
  BY <1>1, Zenon DEF WithPeer
<1> HIDE DEF ps, i
<1>6. /\ f \in Database /\ f.version = d.version /\ f.tables = d.tables /\ f.columns = d.columns
      /\ f.settings = d.settings /\ f.job = d.job /\ f.peers = ps
  BY <1>2, <1>3 DEF Database
<1> HIDE DEF f
<1>7. /\ e \in Database /\ e.version = d.version /\ e.tables = d.tables /\ e.columns = d.columns
      /\ e.settings = d.settings /\ e.job = d.job /\ e.peers = ps
  BY <1>4, <1>5, <1>6 DEF Database
<1>8. Upgraded(e)
  BY <1>2, <1>7 DEF Upgraded
<1>9. \A n \in {"paired", "migrated"} : \A p1, p2 \in e.peers[n] : p1 = p2
  BY <1>2, <1>3, <1>7 DEF Rewritten
<1>10. \A p1 \in e.peers["migrated"] : ~p1.ssh
  BY <1>2, <1>3, <1>7 DEF Rewritten
<1>11. e.version >= 17 => ~e.job.root
  BY <1>2, <1>7 DEF Rewritten
<1> QED BY <1>7, <1>8, <1>9, <1>10, <1>11, EarlySound

LEMMA JobsSound ==
    ASSUME NEW d, Sound(d), d.version <= 22, NEW e \in JobsOf(d)
    PROVE  Sound(e) /\ e.version = d.version
<1>1. PICK r \in {b \in BOOLEAN : b => d.version < 17}, x \in BOOLEAN, o \in BOOLEAN, t \in SUBSET KeyTables :
          e = WithJob(d, r, x, o, t)
  BY DEF JobsOf, KeyTables
<1>2. d \in Database /\ Upgraded(d) /\ Rewritten(d.version, d)
  BY DEF Sound
<1>3. r \in BOOLEAN /\ (d.version >= 17 => ~r)
  <2>1. d.version \in -1..34
    BY <1>2, VersionTyped
  <2> QED BY <1>1, <2>1
<1> DEFINE d1 == [d EXCEPT !.job = [@ EXCEPT !.root = r]]
           d2 == [d1 EXCEPT !.outgoing = [@ EXCEPT !.static = o]]
           d3 == [d2 EXCEPT !.drive = [@ EXCEPT !.deletes = x]]
           Same(f, g) == /\ f \in Database /\ f.version = g.version /\ f.tables = g.tables
                         /\ f.columns = g.columns /\ f.settings = g.settings /\ f.peers = g.peers
<1>4. e = [d3 EXCEPT !.plain = t]
  BY <1>1, Zenon DEF WithJob
<1>5. Same(d1, d) /\ d1.job.root = r
  BY <1>2, <1>3 DEF Database
<1> HIDE DEF d1
<1>6. Same(d2, d1) /\ d2.job = d1.job
  BY <1>5 DEF Database
<1> HIDE DEF d2
<1>7. Same(d3, d2) /\ d3.job = d2.job
  BY <1>6 DEF Database
<1> HIDE DEF d3
<1>8. Same(e, d3) /\ e.job = d3.job
  BY <1>3, <1>4, <1>7 DEF Database
<1>9. Same(e, d) /\ e.job.root = r
  BY <1>5, <1>6, <1>7, <1>8
<1>10. Upgraded(e)
  BY <1>2, <1>9 DEF Upgraded
<1> QED BY <1>2, <1>3, <1>9, <1>10, EarlySound DEF Rewritten

LEMMA SettingsSound ==
    ASSUME NEW d, Sound(d), d.version <= 22, NEW e \in SettingsOf(d)
    PROVE  Sound(e) /\ e.version = d.version
<1>1. PICK own \in SUBSET (Aliases \cup {"ntfy_server", "ntfy_auth_token", "docker_socket"}) :
          e = [d EXCEPT !.settings = [x \in Keys |-> IF x \in own THEN "own" ELSE @[x]]]
  BY DEF SettingsOf
<1>2. d \in Database /\ Upgraded(d) /\ Rewritten(d.version, d)
  BY DEF Sound
<1> DEFINE s == [x \in Keys |-> IF x \in own THEN "own" ELSE d.settings[x]]
<1>3. s \in [Keys -> Values] /\ \A x \in Keys : d.settings[x] # "absent" => s[x] # "absent"
  BY <1>2, SettingsTyped DEF Values
<1>4. e = [d EXCEPT !.settings = s]
  BY <1>1
<1> HIDE DEF s
<1>5. /\ e \in Database /\ e.settings = s
      /\ e.version = d.version /\ e.tables = d.tables /\ e.columns = d.columns
      /\ e.peers = d.peers /\ e.job = d.job
  BY <1>2, <1>3, <1>4 DEF Database
<1>6. Upgraded(e)
  <2> SUFFICES ASSUME NEW v \in 0..d.version
               PROVE  /\ Created(v) \subseteq e.tables
                      /\ Added(v) \subseteq e.columns
                      /\ \A k \in Inserted(v) : e.settings[k] # "absent"
    BY <1>5 DEF Upgraded
  <2>1. v \in 0..34
    BY <1>2, VersionTyped
  <2>2. Inserted(v) \subseteq Keys
    BY <2>1, LeavesTyped, KeySets
  <2> QED BY <1>2, <1>3, <1>5, <2>2 DEF Upgraded
<1> QED BY <1>2, <1>5, <1>6, EarlySound DEF Rewritten

LEMMA SizesSound ==
    ASSUME NEW d, Sound(d), d.version <= 22, NEW e \in SizesOf(d)
    PROVE  Sound(e) /\ e.version = d.version
<1>1. d \in Database /\ Upgraded(d) /\ Rewritten(d.version, d)
  BY DEF Sound
<1>2. PICK b \in SUBSET (BaselineTables \cup {"peer keys"}), t \in SUBSET KeyTables :
          e = [d EXCEPT !.big = b] \/ e = [d EXCEPT !.big = b, !.plain = t]
  BY DEF SizesOf, KeyTables
<1> DEFINE f == [d EXCEPT !.big = b]
           Same(g, h) == /\ g \in Database /\ g.version = h.version /\ g.tables = h.tables
                         /\ g.columns = h.columns /\ g.settings = h.settings
                         /\ g.peers = h.peers /\ g.job = h.job
<1>3. Same(f, d)
  BY <1>1 DEF Database
<1>4. e = f \/ e = [f EXCEPT !.plain = t]
  BY <1>2
<1> HIDE DEF f
<1>5. Same(e, f)
  <2>1. CASE e = f
    BY <1>3, <2>1
  <2>2. CASE e = [f EXCEPT !.plain = t]
    BY <1>3, <2>2 DEF Database
  <2> QED BY <1>4, <2>1, <2>2
<1>6. Same(e, d)
  BY <1>3, <1>5
<1>7. Upgraded(e)
  BY <1>1, <1>6 DEF Upgraded
<1> QED BY <1>1, <1>6, <1>7, EarlySound DEF Rewritten

LEMMA FoundSound ==
    ASSUME NEW k \in -1..34, NEW d \in Found(k)
    PROVE  Sound(d)
<1> DEFINE early == IF k < 22 THEN k ELSE 22
           old == Through(Inline(BaselineColumns), -1, early)
<1>1. early \in -1..34 /\ k \in early..34 /\ early <= 22 /\ -1 \in -1..34
  OBVIOUS
<1>2. BaselineColumns \in InlineColumns
  BY DEF InlineColumns
<1>3. Sound(old) /\ old.version = early
  <2> HIDE DEF early
  <2> QED BY <1>1, <1>2, InlineSound, ThroughKeeps
<1>4. \/ d = Through(NewFile, -1, k)
      \/ \E cs \in InlineColumns : d = Through(Inline(cs), -1, k)
      \/ \E e \in PeersOf(old) \cup JobsOf(old) \cup SettingsOf(old) \cup SizesOf(old) :
            d = Through(e, early, k)
  BY Zenon DEF Found
<1>5. CASE d = Through(NewFile, -1, k)
  BY <1>1, <1>5, NewFileSound, NewFileIs, ThroughKeeps
<1>6. ASSUME NEW cs \in InlineColumns, d = Through(Inline(cs), -1, k) PROVE Sound(d)
  BY <1>1, <1>6, InlineSound, ThroughKeeps
<1> HIDE DEF early, old
<1>7. ASSUME NEW e \in PeersOf(old) \cup JobsOf(old) \cup SettingsOf(old) \cup SizesOf(old),
             d = Through(e, early, k)
      PROVE  Sound(d)
  <2>1. Sound(e) /\ e.version = early
    BY <1>1, <1>3, PeersSound, JobsSound, SettingsSound, SizesSound
  <2> QED BY <1>1, <1>7, <2>1, ThroughKeeps
<1> QED BY <1>4, <1>5, <1>6, <1>7

-----------------------------------------------------------------------------
(* The invariant of the startup and of the edits after it.                 *)

Stages == {"migrating", "secrets", "ssh", "serving", "down"}

StartupInv ==
    /\ Sound(db) /\ Sound(backup)
    /\ pc \in Stages
    /\ pc \in {"secrets", "ssh", "serving"} => db.version = LATEST
    /\ pc \in {"ssh", "serving"} => db.plain = {}
    /\ GrantsMatchLines

\* Sound looks at no row but the peers' and the jobs'.
SameSound(d, e) ==
    /\ e \in Database /\ e.version = d.version /\ e.tables = d.tables
    /\ e.columns = d.columns /\ e.settings = d.settings /\ e.job = d.job

LEMMA SoundStays ==
    ASSUME NEW d, Sound(d), NEW e, SameSound(d, e), e.peers = d.peers
    PROVE  Sound(e)
  BY DEF Sound, SameSound, Upgraded, Rewritten

LEMMA Smaller ==
    ASSUME NEW d, Sound(d), NEW ts \in SUBSET KeyTables,
           NEW e, e = [d EXCEPT !.plain = ts] \/ e = [d EXCEPT !.big = {}]
    PROVE  Sound(e) /\ e.version = d.version
<1>1. d \in Database
  BY DEF Sound
<1>2. SameSound(d, e) /\ e.peers = d.peers
  <2>1. CASE e = [d EXCEPT !.plain = ts]
    BY <1>1, <2>1 DEF SameSound, Database
  <2>2. CASE e = [d EXCEPT !.big = {}]
    BY <1>1, <2>2 DEF SameSound, Database
  <2> QED BY <2>1, <2>2
<1> QED BY <1>2, SoundStays DEF SameSound

LEMMA Repeopled ==
    ASSUME NEW d, Sound(d), NEW ps \in [{"paired", "migrated"} -> SUBSET Peer],
           \A n \in {"paired", "migrated"} : \A p, q \in ps[n] : p = q,
           \A p \in ps["migrated"] : ~p.ssh,
           \A n \in {"paired", "migrated"} : \A p \in ps[n] : Bounds(p),
           NEW e, e = [d EXCEPT !.peers = ps]
    PROVE  Sound(e) /\ e.version = d.version /\ e.peers = ps /\ e.plain = d.plain
<1>1. d \in Database
  BY DEF Sound
<1>2. SameSound(d, e) /\ e.peers = ps /\ e.plain = d.plain
  BY <1>1 DEF SameSound, Database
<1>3. Upgraded(e)
  BY <1>2 DEF Sound, SameSound, Upgraded
<1>4. Rewritten(e.version, e)
  BY <1>2 DEF Sound, SameSound, Rewritten
<1> QED BY <1>2, <1>3, <1>4 DEF Sound, SameSound

\* The peers of a database that is served.
LEMMA PeersAre ==
    ASSUME StartupInv, pc \in {"ssh", "serving"}
    PROVE  /\ db.peers \in [{"paired", "migrated"} -> SUBSET Peer]
           /\ \A n \in {"paired", "migrated"} : \A p, q \in db.peers[n] : p = q
           /\ \A p \in db.peers["migrated"] : ~p.ssh
           /\ \A n \in {"paired", "migrated"} : \A p \in db.peers[n] : Bounds(p)
<1>1. db.version = 34
  BY DEF StartupInv, LATEST
<1>2. db \in Database /\ Rewritten(34, db)
  BY <1>1 DEF StartupInv, Sound
<1>3. db.peers \in [{"paired", "migrated"} -> SUBSET Peer]
  BY <1>2 DEF Database
<1> QED BY <1>2, <1>3 DEF Rewritten

LEMMA InvInitially == StartupInit => StartupInv
<1> SUFFICES ASSUME StartupInit PROVE StartupInv
  OBVIOUS
<1>1. PICK k \in Versions \cup {-1} : db \in Found(k)
  BY DEF StartupInit
<1>2. k \in -1..34
  BY StartupAssumption
<1>3. Sound(db)
  BY <1>1, <1>2, FoundSound
<1>4. backup = db /\ pc = "migrating"
  BY DEF StartupInit
<1> QED BY <1>3, <1>4 DEF StartupInv, Stages, GrantsMatchLines

LEMMA InvMigrate == StartupInv /\ migrate => StartupInv' /\ SameSettings(db, db')
<1> SUFFICES ASSUME StartupInv, migrate PROVE StartupInv' /\ SameSettings(db, db')
  OBVIOUS
<1> DEFINE v == db.version + 1
<1>1. db.version \in -1..34
  BY VersionTyped DEF StartupInv, Sound
<1>2. v \in 0..34 /\ db.version = v - 1
  BY <1>1 DEF migrate, Pending, LATEST
<1>3. db' = [up(v, db) EXCEPT !.version = v]
  BY DEF migrate, Pending
<1>4. Sound(db') /\ SameSettings(db, db')
  <2> HIDE DEF v
  <2> QED BY <1>2, <1>3, MigrationKeeps DEF StartupInv
<1>5. backup' = backup /\ pc' = "migrating"
  BY DEF migrate
<1> QED BY <1>4, <1>5 DEF StartupInv, Stages, GrantsMatchLines

LEMMA InvSecrets == StartupInv /\ migrateInBatches => StartupInv'
<1> SUFFICES ASSUME StartupInv, migrateInBatches PROVE StartupInv'
  OBVIOUS
<1>1. backup' = backup /\ pc = "secrets"
  BY DEF migrateInBatches
<1>2. CASE db.plain = {}
  BY <1>1, <1>2 DEF migrateInBatches, StartupInv, Stages, GrantsMatchLines
<1>3. CASE db.plain # {}
  <2>1. PICK t \in db.plain : db' = [db EXCEPT !.plain = db.plain \ {t}]
    BY <1>3 DEF migrateInBatches
  <2>2. db.plain \ {t} \in SUBSET KeyTables
    BY DEF StartupInv, Sound, Database
  <2>3. Sound(db') /\ db'.version = db.version
    BY <2>1, <2>2, Smaller DEF StartupInv
  <2>4. pc' = "secrets"
    BY <1>1, <1>3 DEF migrateInBatches
  <2> QED BY <1>1, <2>3, <2>4 DEF StartupInv, GrantsMatchLines
<1> QED BY <1>2, <1>3

LEMMA InvReconcile == StartupInv /\ reconcileAtStartup => StartupInv'
<1> SUFFICES ASSUME StartupInv, reconcileAtStartup PROVE StartupInv'
  OBVIOUS
<1> DEFINE ps == [n \in DOMAIN db.peers |-> {Reconciled(p) : p \in db.peers[n]}]
<1>1. pc = "ssh" /\ pc' = "serving" /\ backup' = backup /\ db' = [db EXCEPT !.peers = ps]
  BY DEF reconcileAtStartup
<1>2. /\ db.peers \in [{"paired", "migrated"} -> SUBSET Peer]
      /\ \A n \in {"paired", "migrated"} : \A p, q \in db.peers[n] : p = q
      /\ \A p \in db.peers["migrated"] : ~p.ssh
      /\ \A n \in {"paired", "migrated"} : \A p \in db.peers[n] : Bounds(p)
  BY <1>1, PeersAre
<1>3. ASSUME NEW p \in Peer, Bounds(p), NEW r, r = Reconciled(p)
      PROVE  /\ r \in Peer /\ Bounds(r) /\ r.ssh = p.ssh
  <2>1. /\ r \in Peer /\ r.path = p.path /\ r.limited = p.limited
        /\ r.static = p.static /\ r.ssh = p.ssh /\ (r.enabled => p.enabled)
    <3> DEFINE on == p.enabled /\ IF p.ssh THEN Scoped(p) /\ hostKeys ELSE ~p.static
    <3>1. r = [p EXCEPT !.enabled = on]
      BY <1>3 DEF Reconciled
    <3>2. on \in BOOLEAN /\ (on => p.enabled)
      BY DEF Peer
    <3> HIDE DEF on
    <3> QED BY <3>1, <3>2 DEF Peer
  <2> QED BY <1>3, <2>1 DEF Bounds, Scoped
<1>4. /\ ps \in [{"paired", "migrated"} -> SUBSET Peer]
      /\ \A n \in {"paired", "migrated"} : ps[n] = {Reconciled(p) : p \in db.peers[n]}
  BY <1>2, <1>3
<1>5. /\ \A n \in {"paired", "migrated"} : \A p, q \in ps[n] : p = q
      /\ \A p \in ps["migrated"] : ~p.ssh
      /\ \A n \in {"paired", "migrated"} : \A p \in ps[n] : Bounds(p)
  <2> HIDE DEF ps
  <2> QED BY <1>2, <1>3, <1>4
<1> HIDE DEF ps
<1>6. Sound(db') /\ db'.version = db.version /\ db'.peers = ps /\ db'.plain = db.plain
  BY <1>1, <1>4, <1>5, Repeopled DEF StartupInv
<1>7. GrantsMatchLines'
  <2> SUFFICES ASSUME NEW n \in {"paired", "migrated"}, NEW p \in ps[n], p.enabled
               PROVE  Scoped(p) /\ (p.static => p.ssh) /\ (p.ssh => line' = p.path)
    BY <1>4, <1>6 DEF GrantsMatchLines, Scoped
  <2>1. Scoped(p) /\ (p.static => p.ssh)
    BY <1>5 DEF Bounds
  <2>2. ASSUME p.ssh PROVE line' = p.path
    <3>1. n = "paired"
      BY <1>5, <2>2
    <3>2. line' = (CHOOSE q \in ps["paired"] : TRUE).path
      BY <1>6, <2>2, <3>1 DEF reconcileAtStartup
    <3>3. (CHOOSE q \in ps["paired"] : TRUE) = p
      BY <1>5, <3>1
    <3> QED BY <3>2, <3>3
  <2> QED BY <2>1, <2>2
<1> QED BY <1>1, <1>6, <1>7 DEF StartupInv, Stages

\* The routes that change a peer replace it or remove it.
LEMMA PeerChanged ==
    ASSUME StartupInv, pc = "serving", pc' = "serving", backup' = backup,
           NEW n \in {"paired", "migrated"}, NEW p \in db.peers[n],
           NEW S \in SUBSET Peer,
           NEW ps \in [{"paired", "migrated"} -> SUBSET Peer],
           \A m \in {"paired", "migrated"} : ps[m] = IF m = n THEN S ELSE db.peers[m],
           db' = [db EXCEPT !.peers = ps],
           \A q, r \in S : q = r,
           \A q \in S : /\ Bounds(q) /\ q.ssh = p.ssh
                        /\ q.enabled /\ q.ssh => line' = q.path,
           ~p.ssh => line' = line
    PROVE  StartupInv'
<1>1. /\ db.peers \in [{"paired", "migrated"} -> SUBSET Peer]
      /\ \A m \in {"paired", "migrated"} : \A q, r \in db.peers[m] : q = r
      /\ \A q \in db.peers["migrated"] : ~q.ssh
      /\ \A m \in {"paired", "migrated"} : \A q \in db.peers[m] : Bounds(q)
  BY PeersAre
<1>4. /\ \A m \in {"paired", "migrated"} : \A q, r \in ps[m] : q = r
      /\ \A q \in ps["migrated"] : ~q.ssh
      /\ \A m \in {"paired", "migrated"} : \A q \in ps[m] : Bounds(q)
  BY <1>1
<1>5. Sound(db') /\ db'.version = db.version /\ db'.peers = ps /\ db'.plain = db.plain
  <2>1. Sound(db)
    BY DEF StartupInv
  <2> QED BY <1>4, <2>1, Repeopled
<1>6. GrantsMatchLines'
  <2> SUFFICES ASSUME NEW m \in {"paired", "migrated"}, NEW q \in ps[m], q.enabled
               PROVE  Scoped(q) /\ (q.static => q.ssh) /\ (q.ssh => line' = q.path)
    BY <1>5 DEF GrantsMatchLines, Scoped
  <2>1. Scoped(q) /\ (q.static => q.ssh)
    BY <1>4 DEF Bounds
  <2>2. ASSUME q.ssh PROVE line' = q.path
    <3>1. CASE m = n
      BY <2>2, <3>1
    <3>2. CASE m # n
      <4>1. m = "paired" /\ n = "migrated" /\ q \in db.peers[m]
        BY <1>4, <2>2, <3>2
      <4>2. line' = line
        BY <1>1, <4>1
      <4>3. line = q.path
        BY <1>1, <2>2, <4>1 DEF StartupInv, GrantsMatchLines
      <4> QED BY <4>2, <4>3
    <3> QED BY <3>1, <3>2
  <2> QED BY <2>1, <2>2
<1> QED BY <1>5, <1>6 DEF StartupInv, Stages

LEMMA InvEditPeer == StartupInv /\ editPeer => StartupInv'
<1> SUFFICES ASSUME StartupInv, editPeer PROVE StartupInv'
  OBVIOUS
<1>1. pc = "serving" /\ pc' = "serving" /\ backup' = backup
  BY DEF editPeer
<1>2. db.peers \in [{"paired", "migrated"} -> SUBSET Peer]
  BY <1>1, PeersAre
<1>3. ASSUME NEW n \in DOMAIN db.peers, NEW p \in db.peers[n], NEW on \in BOOLEAN,
             NEW path \in {"/", "p", "q"}, NEW limited \in BOOLEAN,
             on => Scoped(PeerAfter(p, on, path, limited)),
             CanReconcile(p, on),
             line' = LineAfter(p, on, path),
             db' = [db EXCEPT !.peers[n] = {PeerAfter(p, on, path, limited)}]
      PROVE  StartupInv'
  <2> DEFINE q == PeerAfter(p, on, path, limited)
  <2>1. n \in {"paired", "migrated"} /\ p \in Peer
    BY <1>2
  <2>2. /\ q \in Peer /\ q.enabled = on /\ q.path = path /\ q.limited = limited
        /\ q.static = p.static /\ q.ssh = p.ssh
    BY <2>1 DEF Peer, PeerAfter
  <2> DEFINE ps == [db.peers EXCEPT ![n] = {q}]
  <2>3. (on => Scoped(q)) /\ db' = [db EXCEPT !.peers = ps]
    BY <1>3
  <2> HIDE DEF q
  <2>4. Bounds(q)
    BY <1>3, <2>2, <2>3 DEF Bounds, CanReconcile
  <2>5. (q.enabled /\ q.ssh => line' = q.path) /\ (~p.ssh => line' = line)
    BY <1>3, <2>2 DEF LineAfter
  <2>6. \A r \in {q} : /\ Bounds(r) /\ r.ssh = p.ssh
                       /\ r.enabled /\ r.ssh => line' = r.path
    BY <2>2, <2>4, <2>5
  <2>7. {q} \in SUBSET Peer /\ \A r, s \in {q} : r = s
    BY <2>2
  <2>8. /\ ps \in [{"paired", "migrated"} -> SUBSET Peer]
        /\ \A m \in {"paired", "migrated"} : ps[m] = IF m = n THEN {q} ELSE db.peers[m]
    BY <1>2, <2>1, <2>7
  <2> HIDE DEF ps
  <2> QED BY <1>1, <2>1, <2>3, <2>5, <2>6, <2>7, <2>8, PeerChanged
<1> QED BY <1>3 DEF editPeer

LEMMA InvDeletePeer == StartupInv /\ deletePeer => StartupInv'
<1> SUFFICES ASSUME StartupInv, deletePeer PROVE StartupInv'
  OBVIOUS
<1>1. pc = "serving" /\ pc' = "serving" /\ backup' = backup
  BY DEF deletePeer
<1>2. db.peers \in [{"paired", "migrated"} -> SUBSET Peer]
  BY <1>1, PeersAre
<1>3. ASSUME NEW n \in DOMAIN db.peers, NEW p \in db.peers[n],
             line' = LineAfter(p, FALSE, p.path), db' = [db EXCEPT !.peers[n] = {}]
      PROVE  StartupInv'
  <2>1. n \in {"paired", "migrated"}
    BY <1>2
  <2>2. ~p.ssh => line' = line
    BY <1>3 DEF LineAfter
  <2> DEFINE ps == [db.peers EXCEPT ![n] = {}]
  <2>3. db' = [db EXCEPT !.peers = ps]
    BY <1>3
  <2>4. /\ ps \in [{"paired", "migrated"} -> SUBSET Peer]
        /\ \A m \in {"paired", "migrated"} : ps[m] = IF m = n THEN {} ELSE db.peers[m]
    BY <1>2, <2>1
  <2> HIDE DEF ps
  <2> QED BY <1>1, <2>1, <2>2, <2>3, <2>4, PeerChanged
<1> QED BY <1>3, Zenon DEF deletePeer

LEMMA InvStep == StartupInv /\ [StartupNext]_startupVars => StartupInv'
<1> SUFFICES ASSUME StartupInv, [StartupNext]_startupVars PROVE StartupInv'
  OBVIOUS
<1>1. CASE migrate
  BY <1>1, InvMigrate
<1>2. CASE migrationBlocked
  BY <1>2 DEF migrationBlocked, StartupInv, Stages, GrantsMatchLines
<1>3. CASE migrationsDone
  <2>1. db.version \in -1..34 /\ db.version + 1 > 34
    BY <1>3, VersionTyped DEF migrationsDone, Pending, LATEST, StartupInv, Sound
  <2>2. db.version = LATEST
    BY <2>1 DEF LATEST
  <2> QED BY <1>3, <2>2 DEF migrationsDone, StartupInv, Stages, GrantsMatchLines
<1>4. CASE migrateInBatches
  BY <1>4, InvSecrets
<1>5. CASE secretsBlocked
  BY <1>5 DEF secretsBlocked, StartupInv, Stages, GrantsMatchLines
<1>6. CASE reconcileAtStartup
  BY <1>6, InvReconcile
<1>7. CASE editPeer
  BY <1>7, InvEditPeer
<1>8. CASE deletePeer
  BY <1>8, InvDeletePeer
<1>9. CASE backupDatabase
  BY <1>9 DEF backupDatabase, StartupInv, GrantsMatchLines
<1>10. CASE killed \/ crashInEdit
  BY <1>10 DEF killed, crashInEdit, StartupInv, Stages, GrantsMatchLines
<1>11. CASE restart \/ restore
  BY <1>11 DEF restart, restore, StartupInv, Stages, GrantsMatchLines
<1>12. CASE relieve
  <2>1. Sound(db')
    BY <1>12, Smaller DEF relieve, StartupInv
  <2> QED BY <1>12, <2>1 DEF relieve, StartupInv, Stages, GrantsMatchLines
<1>13. CASE remount
  BY <1>13 DEF remount, StartupInv, Stages, GrantsMatchLines
<1>14. CASE UNCHANGED startupVars
  BY <1>14 DEF startupVars, StartupInv, GrantsMatchLines
<1> QED BY <1>1, <1>2, <1>3, <1>4, <1>5, <1>6, <1>7, <1>8, <1>9, <1>10, <1>11, <1>12, <1>13,
           <1>14 DEF StartupNext, startup

LEMMA StartupInvariant == StartupSpec => []StartupInv
<1> QED BY InvInitially, InvStep, PTL DEF StartupSpec

-----------------------------------------------------------------------------
(* The theorems.                                                           *)

LEMMA LeftByAll ==
    ASSUME NEW d, Sound(d), d.version = 34
    PROVE  /\ AllTables \subseteq d.tables /\ AllColumns \subseteq d.columns
           /\ \A k \in Defaults : d.settings[k] # "absent"
<1>1. \A v \in 0..34 : /\ Created(v) \subseteq d.tables
                       /\ Added(v) \subseteq d.columns
                       /\ \A s \in Inserted(v) : d.settings[s] # "absent"
  BY DEF Sound, Upgraded
<1>2. AllTables \subseteq d.tables
  <2>1. \A v \in {0, 21, 22, 29, 30, 33} : Created(v) \subseteq d.tables
    BY <1>1
  <2> QED BY <2>1, CreatedBy DEF AllTables
<1>3. AllColumns \subseteq d.columns
  <2>1. \A v \in {2, 3, 5, 6, 7, 8, 13, 14, 18, 23, 25, 27, 28, 31, 32, 33, 34} :
            Added(v) \subseteq d.columns
    BY <1>1
  <2>2. {FileDate, LastSeenIp, RemoteAccess, Handshake, PeerIdentity, Excludes, JobIdentity,
         RunIdentity, StorageLimit} \subseteq d.columns
    BY <2>1, AddedBy
  <2>3. Notify \cup ProtectedKeys \cup SsdRetention \subseteq d.columns
    BY <2>1, AddedBy
  <2>4. {PeerSshKey, BackupStatus, Reciprocal, SourceRef, SourceKind, RemoteSource, DryRun}
            \subseteq d.columns
    BY <2>1, AddedBy
  <2> QED BY <2>2, <2>3, <2>4 DEF AllColumns, BaselineColumns
<1>4. \A k \in Defaults : d.settings[k] # "absent"
  <2>1. \A v \in {9, 10, 11, 12, 20, 22} : \A s \in Inserted(v) : d.settings[s] # "absent"
    BY <1>1
  <2>2. \A k \in Defaults : \E v \in {9, 10, 11, 12, 20, 22} : k \in Inserted(v)
    BY InsertedBy DEF Defaults
  <2> QED BY <2>1, <2>2
<1> QED BY <1>2, <1>3, <1>4

LEMMA InvServes == StartupInv => ServesComplete
<1> SUFFICES ASSUME StartupInv, pc = "serving"
             PROVE  /\ Complete
                    /\ \A k \in Aliases : db.settings[k] = "absent"
                    /\ db.plain = {}
                    /\ ~db.job.root
  BY DEF ServesComplete
<1>1. db.version = 34 /\ Sound(db) /\ db.plain = {}
  BY DEF StartupInv, LATEST
<1>2. Rewritten(34, db)
  BY <1>1 DEF Sound
<1>3. (\A k \in Aliases : db.settings[k] = "absent") /\ ~db.job.root
  BY <1>2 DEF Rewritten, Aliases
<1>4. Complete
  <2> DEFINE new == Through(NewFile, -1, 34)
  <2>1. Sound(new)
    BY NewFileSound, NewFileIs, ThroughKeeps
  <2> HIDE DEF new
  <2>2. new.tables \subseteq AllTables /\ new.columns \subseteq AllColumns
    BY <2>1 DEF Sound, Database
  <2>3. /\ new.tables \subseteq db.tables /\ new.columns \subseteq db.columns
        /\ \A k \in Defaults : db.settings[k] # "absent"
    BY <1>1, <2>2, LeftByAll
  <2> QED BY <2>3 DEF Complete, LATEST, new
<1> QED BY <1>1, <1>3, <1>4

(* Whatever the version, the columns and the rows a database starts from, and *)
(* however often it is crashed, blocked, restored or restarted, the           *)
(* application serves only with the whole schema and settings of the last     *)
(* release, no setting under an old name and no key in plain text.            *)
THEOREM StartsComplete == StartupSpec => []ServesComplete
<1> QED BY StartupInvariant, InvServes, PTL

(* While it serves, an enabled peer has a directory and a limit of its own,   *)
(* and a paired one the authorized_keys line of that directory.               *)
THEOREM GrantsStayInStep == StartupSpec => []GrantsMatchLines
<1>1. StartupInv => GrantsMatchLines
  BY DEF StartupInv
<1> QED BY <1>1, StartupInvariant, PTL

(* No migration changes where notifications go, the token they go with, or a  *)
(* setting that is the operator's own.                                        *)
THEOREM MigrationsCarrySettings == StartupSpec => SettingsCarriedOver
<1> DEFINE Carried ==
        pc = "migrating" =>
            /\ Server(db'.settings) = Server(db.settings)
            /\ Token(db'.settings) = Token(db.settings)
            /\ \A k \in Keys \ Aliases : db.settings[k] = "own" => db'.settings[k] = "own"
<1>1. StartupInv /\ [StartupNext]_startupVars => [Carried]_startupVars
  <2> SUFFICES ASSUME StartupInv, StartupNext, pc = "migrating"
               PROVE  SameSettings(db, db')
    BY DEF SameSettings
  <2>1. CASE migrate
    BY <2>1, InvMigrate
  <2>2. CASE migrationBlocked \/ migrationsDone \/ killed
    BY <2>2 DEF migrationBlocked, migrationsDone, killed, SameSettings
  <2> QED BY <2>1, <2>2 DEF StartupNext, startup, migrateInBatches, secretsBlocked,
             reconcileAtStartup, editPeer, deletePeer, backupDatabase, crashInEdit, restart,
             restore, relieve, remount
<1> QED BY <1>1, StartupInvariant, PTL DEF StartupSpec, SettingsCarriedOver
=============================================================================
