------------------------------ MODULE JobForms ------------------------------
(* Creating, editing and deleting the jobs of the three scheduled features *)
(* from two tabs, next to the cron tasks that the scheduler keeps in       *)
(* memory and, for Rclone, to the state bisync depends on. A form holds    *)
(* every field of its job; saving it sends them all, however old.          *)
EXTENDS Naturals, FiniteSets

CONSTANTS
    Jobs,           \* job ids, in the order SQLite hands them out
    FormTabs,       \* browser tabs
    Crons,          \* cron expressions
    MaxFormEvents   \* bound on the forms opened and the jobs deleted

ASSUME JobsAssumption == Jobs \subseteq Nat \ {0} /\ MaxFormEvents \in Nat

VARIABLES
    feature,     \* whose page is open
    row,         \* the feature's table
    used,        \* the ids it has handed out (sqlite_sequence)
    cron,        \* activeJobs: the expression each cron task runs on
    started,     \* has startScheduler run
    openForm,    \* what each tab's form holds
    transfer,    \* the run of each rclone job that is in flight
    last,        \* what last moved the job's files: nothing, one way, bisync
    formEvents

formVars == <<feature, row, used, cron, started, openForm, transfer, last,
              formEvents>>

(* The fields that anything depends on. dest: the destination of an SSD    *)
(* config; dir and resync: sync_direction and bisync_resync_needed.        *)
NoRow == [cron |-> "none", enabled |-> FALSE, dest |-> "none",
          dir |-> "none", resync |-> FALSE]
Blank == [NoRow EXCEPT !.enabled = TRUE]
NoForm == [open |-> FALSE, id |-> 0, fields |-> NoRow]
Opened(j, f) == [open |-> TRUE, id |-> j, fields |-> f]
NoTransfer == [dir |-> "none", resync |-> FALSE]

Exists(j) == row[j] # NoRow
\* AUTOINCREMENT: an id is never handed out twice.
NextId == {j \in Jobs : j \notin used /\ \A k \in Jobs : k < j => k \in used}
Spend == formEvents < MaxFormEvents /\ formEvents' = formEvents + 1

-----------------------------------------------------------------------------
(* The forms *)

\* The second lies inside the first.
Dests == {"a", "a/b"}
Overlap(d, e) == d = e \/ {d, e} = {"a", "a/b"}

\* What each form lets its user put in.
SsdForm(f) == {[f EXCEPT !.cron = c, !.enabled = e, !.dest = d] :
                  c \in Crons, e \in BOOLEAN, d \in Dests}
HyperForm(f) == {[f EXCEPT !.cron = c, !.enabled = e] : c \in Crons, e \in BOOLEAN}
RcloneForm(f) == {[f EXCEPT !.cron = c, !.enabled = e, !.dir = d] :
                  c \in Crons, e \in BOOLEAN, d \in {"upload", "download", "bisync"}}
Filled(f) == CASE feature = "ssd" -> SsdForm(f)
               [] feature = "hyper" -> HyperForm(f)
               [] feature = "rclone" -> RcloneForm(f)

NewForm(t) ==
    /\ openForm[t] = NoForm /\ Spend
    /\ \E f \in Filled(Blank) : openForm' = [openForm EXCEPT ![t] = Opened(0, f)]
    /\ UNCHANGED <<feature, row, used, cron, started, transfer, last>>

\* startEdit: the form starts from the list, as it was when it was loaded, and
\* the user changes some of it. bisync_resync_needed is not in the form.
EditForm(t) ==
    /\ openForm[t] = NoForm /\ Spend
    /\ \E j \in Jobs : Exists(j) /\ \E f \in Filled(row[j]) :
          openForm' = [openForm EXCEPT ![t] = Opened(j, f)]
    /\ UNCHANGED <<feature, row, used, cron, started, transfer, last>>

CloseForm(t) ==
    /\ openForm[t] # NoForm
    /\ openForm' = [openForm EXCEPT ![t] = NoForm]
    /\ UNCHANGED <<feature, row, used, cron, started, transfer, last, formEvents>>

-----------------------------------------------------------------------------
(* The routes *)

\* validateConfigPaths: the destination must not overlap that of another config.
Apart(d, self) == \A k \in Jobs \ {self} : Exists(k) => ~Overlap(d, row[k].dest)

\* scheduleJob and removeJob
Scheduled(j, r) == cron' = [cron EXCEPT ![j] = IF r.enabled THEN r.cron ELSE "none"]

(* What a route stores for the form it is sent: nothing when it refuses,   *)
(* which leaves the form open. Of the refusals only the overlap of         *)
(* destinations depends on anything that is kept here.                     *)

\* None of the create routes stores enabled: the column's default is 1.
Fresh(f)        == [f EXCEPT !.enabled = TRUE]
CreateSsd(f)    == IF Apart(f.dest, 0) THEN {Fresh(f)} ELSE {}
CreateHyper(f)  == {Fresh(f)}
CreateRclone(f) == {[Fresh(f) EXCEPT !.resync = f.dir = "bisync"]}
Create(f) == [ssd |-> CreateSsd(f), hyper |-> CreateHyper(f),
              rclone |-> CreateRclone(f)][feature]

UpdateSsd(j, f)   == IF Apart(f.dest, j) THEN {f} ELSE {}
UpdateHyper(j, f) == {f}

\* Mutant of UpdateRclone: only a new job needs --resync.
UpdateRcloneKeeps(j, f) == {[f EXCEPT !.resync = row[j].resync]}

\* A job that becomes a bisync needs --resync again.
UpdateRclone(j, f) ==
    {[f EXCEPT !.resync = row[j].resync \/ (f.dir = "bisync" /\ row[j].dir # "bisync")]}

Update(j, f) == [ssd |-> UpdateSsd(j, f), hyper |-> UpdateHyper(j, f),
                 rclone |-> UpdateRclone(j, f)][feature]

SubmitNew(t) ==
    /\ openForm[t].open /\ openForm[t].id = 0 /\ started
    /\ \E j \in NextId, r \in Create(openForm[t].fields) :
          /\ row' = [row EXCEPT ![j] = r] /\ Scheduled(j, r)
          /\ used' = used \cup {j}
    /\ openForm' = [openForm EXCEPT ![t] = NoForm]
    /\ UNCHANGED <<feature, started, transfer, last, formEvents>>

\* Mutant of Updated: a job that was switched off keeps its cron task.
UpdatedKeepsTask(j, r) ==
    /\ row' = [row EXCEPT ![j] = r]
    /\ cron' = IF r.enabled THEN [cron EXCEPT ![j] = r.cron] ELSE cron

Updated(j, r) == row' = [row EXCEPT ![j] = r] /\ Scheduled(j, r)

SubmitEdit(t) ==
    /\ started
    /\ \E j \in Jobs :
          /\ openForm[t].id = j /\ Exists(j)
          /\ \E r \in Update(j, openForm[t].fields) : Updated(j, r)
    /\ openForm' = [openForm EXCEPT ![t] = NoForm]
    /\ UNCHANGED <<feature, used, started, transfer, last, formEvents>>

\* The delete routes stop the task first; a run in flight goes on.
DeleteJob ==
    /\ started /\ Spend
    /\ \E j \in Jobs :
          /\ Exists(j)
          /\ row' = [row EXCEPT ![j] = NoRow]
          /\ cron' = [cron EXCEPT ![j] = "none"]
    /\ UNCHANGED <<feature, used, started, openForm, transfer, last>>

-----------------------------------------------------------------------------
(* The scheduler and the runs *)

\* cron tasks and runs die with the process.
Stop ==
    /\ started
    /\ started' = FALSE /\ cron' = [j \in Jobs |-> "none"]
    /\ transfer' = [j \in Jobs |-> NoTransfer]
    /\ UNCHANGED <<feature, row, used, openForm, last, formEvents>>

StartScheduler ==
    /\ ~started /\ started' = TRUE
    /\ cron' = [j \in Jobs |-> IF row[j].enabled THEN row[j].cron ELSE "none"]
    /\ UNCHANGED <<feature, row, used, openForm, transfer, last, formEvents>>

\* executeRcloneJob takes direction and flag from the row as it starts. From
\* here on a one-way transfer has changed the files.
StartTransfer(j) ==
    /\ feature = "rclone" /\ started /\ Exists(j) /\ transfer[j] = NoTransfer
    /\ transfer' = [transfer EXCEPT ![j] = [dir |-> row[j].dir, resync |-> row[j].resync]]
    /\ last' = IF row[j].dir = "bisync" THEN last ELSE [last EXCEPT ![j] = "one way"]
    /\ UNCHANGED <<feature, row, used, cron, started, openForm, formEvents>>

\* Only a bisync that ran with --resync and exited 0 clears the flag.
TransferEnds(j, ok) ==
    /\ started /\ transfer[j] # NoTransfer
    /\ transfer' = [transfer EXCEPT ![j] = NoTransfer]
    /\ row' = IF ok /\ transfer[j].resync /\ transfer[j].dir = "bisync" /\ Exists(j)
              THEN [row EXCEPT ![j].resync = FALSE] ELSE row
    /\ last' = IF ok /\ transfer[j].dir = "bisync" THEN [last EXCEPT ![j] = "bisync"]
               ELSE last
    /\ UNCHANGED <<feature, used, cron, started, openForm, formEvents>>

-----------------------------------------------------------------------------
FormInit ==
    /\ feature \in {"ssd", "hyper", "rclone"}
    /\ row = [j \in Jobs |-> NoRow] /\ used = {} /\ cron = [j \in Jobs |-> "none"]
    /\ started = FALSE
    /\ openForm = [t \in FormTabs |-> NoForm]
    /\ transfer = [j \in Jobs |-> NoTransfer] /\ last = [j \in Jobs |-> "nothing"]
    /\ formEvents = 0

FormNext ==
    \/ DeleteJob \/ Stop \/ StartScheduler
    \/ \E t \in FormTabs : NewForm(t) \/ EditForm(t) \/ CloseForm(t)
                           \/ SubmitNew(t) \/ SubmitEdit(t)
    \/ \E j \in Jobs : StartTransfer(j) \/ \E ok \in BOOLEAN : TransferEnds(j, ok)

FormSpec == FormInit /\ [][FormNext]_formVars

-----------------------------------------------------------------------------
(* While the backend runs, the cron tasks in its memory are those of the   *)
(* enabled rows, on the rows' own expressions: whichever tab saved last,   *)
(* and whatever a restart had to build again.                              *)
TasksMatchRows ==
    started => \A j \in Jobs :
        cron[j] = IF row[j].enabled THEN row[j].cron ELSE "none"

(* A bisync only runs without --resync when the transfer before it was a   *)
(* bisync as well: after every detour over a one-way direction, whichever  *)
(* tab, run, failure or restart lies in between, the next one resyncs.     *)
ResyncAfterOneWay ==
    \A j \in Jobs :
        transfer[j].dir = "bisync" /\ ~transfer[j].resync => last[j] = "bisync"
=============================================================================
