------------------------------ MODULE JobPages ------------------------------
(* The console's job pages: SSD backup, Hyper backup, Rclone and Media     *)
(* import, and the boards that only refresh (Overview, Status, External    *)
(* jobs). One browser tab on one page, and the backend as far as the page  *)
(* can tell: one job, its runs one after the other, requests that answer   *)
(* late and out of order, a backend that goes away and comes back, a       *)
(* session that ends. The centre is hooks/useJobProgress.js, which every   *)
(* job page uses to follow its runs.                                       *)
(*                                                                         *)
(* The runs that the page follows live three times over: in the state with *)
(* its queued updates (activeRuns), in what React last rendered (tracked)  *)
(* and in the effects that ran for it (runIdsKey, activeRunsRef). React    *)
(* renders updates made outside of events in batches, so that any number   *)
(* of answers may come between an update, its render and its effects. What *)
(* else a page shows is overwritten whole by the last answer, and is taken *)
(* to be rendered at once.                                                 *)
EXTENDS Naturals, FiniteSets, Functions

CONSTANTS
    Runs,        \* run ids, in the order the backend hands them out
    Slots,       \* how many page loads may be on their way at once
    MaxEvents    \* bound on clicks, tab switches, outages and lost sessions; a
                 \* retry, which only follows a failure, is free

ASSUME RunsAssumption == Runs \subseteq Nat /\ Slots \subseteq Nat /\ MaxEvents \in Nat

(* What the pages differ in. follows: the page tracks active runs; blanks: *)
(* every full load hides the page behind "Loading"; history: the load that *)
(* turning a page of the history causes; ticks: the page refreshes on its  *)
(* own; clears: when a shown load error goes away; mounts: the loads that  *)
(* opening the page starts.                                                *)
SsdPage    == [follows |-> TRUE, blanks |-> TRUE, history |-> "runs",
               ticks |-> FALSE, clears |-> "start", mounts |-> <<"all">>]
HyperPage  == [follows |-> TRUE, blanks |-> TRUE, history |-> "runs",
               ticks |-> FALSE, clears |-> "start", mounts |-> <<"all">>]
RclonePage == [follows |-> TRUE, blanks |-> TRUE, history |-> "runs",
               ticks |-> FALSE, clears |-> "start", mounts |-> <<"all", "runs">>]
\* Media import detects its runs in an effect of its own, with one more render.
MediaPage  == [follows |-> TRUE, blanks |-> FALSE, history |-> "all",
               ticks |-> TRUE, clears |-> "never", mounts |-> <<"all">>]
Overview     == [follows |-> FALSE, blanks |-> FALSE, history |-> "none",
                 ticks |-> TRUE, clears |-> "never", mounts |-> <<"all">>]
StatusBoard  == [follows |-> FALSE, blanks |-> FALSE, history |-> "all",
                 ticks |-> TRUE, clears |-> "end", mounts |-> <<"all">>]
ExternalJobs == [follows |-> FALSE, blanks |-> FALSE, history |-> "none",
                 ticks |-> TRUE, clears |-> "end", mounts |-> <<"all">>]

Page == [ssd |-> SsdPage, hyper |-> HyperPage, rclone |-> RclonePage,
         media |-> MediaPage, overview |-> Overview, status |-> StatusBoard,
         external |-> ExternalJobs]

Active(s) == s \in {"running", "cancelling"}

VARIABLES
    job,       \* does the job exist
    run,       \* backup_runs: the status of each run
    up,        \* does the backend answer
    session,   \* does the browser hold a valid session
    tab,       \* which page this tab shows
    place,     \* "page", "away" (another route) or "login" (AuthGate)
    visible,   \* document.visibilityState
    shown,     \* configs / jobs: is the job in the list
    rows,      \* runs: the status shown for each run
    byAll,     \* did a full load set the rows, rather than a page or filter
    loading,   \* loading
    failed,    \* loadError / actionResult
    loads,     \* page loads on their way
    activeRuns,    \* the runs followed once every queued update is applied
    tracked,       \* the runs followed as last rendered
    effects,       \* have the effects of the last render yet to run
    runIdsKey,     \* the runs that the polling effect last ran for
    activeRunsRef, \* activeRunsRef.current
    poll,      \* the poll on its way: what is known of each run it asks for
    timer,     \* is the next poll scheduled
    asked,     \* the trigger or cancel request on its way
    dialog,    \* the open form or confirmation
    lost,      \* ConnectionStatus: wasDisconnected
    events

server == <<job, run, up, session>>
list   == <<shown, rows, byAll, loading, failed>>
hook   == <<activeRuns, tracked, effects, runIdsKey, activeRunsRef, poll, timer>>
followed == <<activeRuns, tracked, effects, runIdsKey, activeRunsRef>>
jobVars == <<server, tab, place, visible, list, loads, hook, asked, dialog,
             lost, events>>

-----------------------------------------------------------------------------
(* The backend *)

Reachable == up /\ session

\* Runs of a job are claimed one at a time, and their ids only grow.
Claimable(r) ==
    /\ run[r] = "none"
    /\ \A q \in Runs : ~Active(run[q]) /\ (q < r => run[q] # "none")

\* startClaimedRun: the scheduler, or another tab, starts the job.
StartElsewhere ==
    /\ up /\ job
    /\ \E r \in Runs : Claimable(r) /\ run' = [run EXCEPT ![r] = "running"]
    /\ UNCHANGED <<job, up, session, tab, place, visible, list, loads,
                   hook, asked, dialog, lost, events>>

\* A run reaches a terminal status, whatever it was cancelled for.
RunFinishes ==
    /\ up
    /\ \E r \in Runs : Active(run[r]) /\ run' = [run EXCEPT ![r] = "ended"]
    /\ UNCHANGED <<job, up, session, tab, place, visible, list, loads,
                   hook, asked, dialog, lost, events>>

GoDown ==
    /\ up /\ events < MaxEvents
    /\ up' = FALSE /\ events' = events + 1
    /\ UNCHANGED <<job, run, session, tab, place, visible, list, loads, hook,
                   asked, dialog, lost>>

\* The start marks every run the last process left behind as failed.
ComeUp ==
    /\ ~up
    /\ up' = TRUE
    /\ run' = [r \in Runs |-> IF Active(run[r]) THEN "ended" ELSE run[r]]
    /\ UNCHANGED <<job, session, tab, place, visible, list, loads,
                   hook, asked, dialog, lost, events>>

SessionEnds ==
    /\ session /\ events < MaxEvents
    /\ session' = FALSE /\ events' = events + 1
    /\ UNCHANGED <<job, run, up, tab, place, visible, list, loads,
                   hook, asked, dialog, lost>>

-----------------------------------------------------------------------------
(* useJobProgress *)

NoPoll == <<>>
Asking(ids) == [r \in ids |-> "wait"]

\* An update of the state waits for the next render.
Track(ids) ==
    /\ activeRuns' = ids
    /\ UNCHANGED <<tracked, effects, runIdsKey, activeRunsRef, poll, timer>>

\* React renders every update that is queued. The effects of one render run
\* before the next.
Render ==
    /\ ~effects
    /\ activeRuns # tracked \/ activeRuns # activeRunsRef
    /\ tracked' = activeRuns /\ effects' = TRUE
    /\ UNCHANGED <<server, tab, place, visible, list, loads, activeRuns,
                   runIdsKey, activeRunsRef, poll, timer, asked, dialog, lost, events>>

\* The ref follows the state; only a new set of runs drops the poll on its way
\* and the timer, and polls at once unless the tab is hidden.
RunEffects ==
    /\ effects /\ effects' = FALSE
    /\ activeRunsRef' = tracked /\ runIdsKey' = tracked
    /\ IF tracked = runIdsKey THEN UNCHANGED <<poll, timer>>
       ELSE /\ poll' = IF visible THEN Asking(tracked) ELSE NoPoll
            /\ timer' = FALSE
    /\ UNCHANGED <<server, tab, place, visible, list, loads, activeRuns, tracked,
                   asked, dialog, lost, events>>

\* detectRunning: the runs of a fresh list that are not over.
Detected(status) == {r \in Runs : Active(status[r])}

\* Each run of a poll is read on its own. Media import asks the import in
\* memory and takes "none" for failed; the others read the run's row.
PollReads(r) ==
    /\ place = "page" /\ r \in DOMAIN poll /\ poll[r] = "wait"
    /\ ~(up /\ ~session)
    /\ poll' = [poll EXCEPT ![r] = IF up THEN run[r] ELSE "error"]
    /\ UNCHANGED <<server, tab, place, visible, list, loads, followed, timer,
                   asked, dialog, lost, events>>

OverIn(p) == {r \in DOMAIN p : p[r] = "ended"}

Load(kind) == [kind |-> kind, job |-> FALSE, run |-> NoPoll]
Idle == Load("idle")
FreeSlots == {s \in Slots : loads[s] = Idle}
StartLoad(kind) ==
    \E s \in FreeSlots :
        /\ \A q \in FreeSlots : s <= q
        /\ loads' = [loads EXCEPT ![s] = Load(kind)]
        /\ loading' = (loading \/ (kind = "all" /\ Page[tab].blanks))
        /\ failed' = (failed /\ Page[tab].clears # "start")

\* The poll's own update: finished runs leave. React runs the updater, which
\* sets the ref too, at once or with the render. The next poll is scheduled
\* while a run that was asked for goes on, unless the tab is hidden.
PollTold ==
    /\ place = "page" /\ poll # NoPoll
    /\ \A r \in DOMAIN poll : poll[r] # "wait"
    /\ activeRuns' = activeRuns \ OverIn(poll)
    /\ activeRunsRef' \in {activeRunsRef, activeRuns'}
    /\ poll' = NoPoll /\ timer' = (visible /\ OverIn(poll) # DOMAIN poll)
    /\ UNCHANGED <<tracked, effects, runIdsKey>>

\* Mutant of PollDone: finished runs leave without a reload.
PollDoneNoReload ==
    /\ PollTold
    /\ UNCHANGED <<server, tab, place, visible, list, loads, asked, dialog,
                   lost, events>>

\* All answers of a poll are in: finished runs leave, and the page reloads.
PollDone ==
    /\ PollTold
    /\ IF OverIn(poll) = {} THEN UNCHANGED <<loads, loading, failed>>
       ELSE StartLoad("all")
    /\ UNCHANGED <<server, tab, place, visible, shown, rows, byAll, asked,
                   dialog, lost, events>>

TimerFires ==
    /\ timer
    /\ timer' = FALSE /\ poll' = Asking(activeRunsRef)
    /\ UNCHANGED <<server, tab, place, visible, list, loads, followed, asked,
                   dialog, lost, events>>

Hide ==
    /\ visible /\ events < MaxEvents
    /\ visible' = FALSE /\ timer' = FALSE /\ events' = events + 1
    /\ UNCHANGED <<server, tab, place, list, loads, followed, poll, asked,
                   dialog, lost>>

\* Mutant of Show: the polling waits for the next scheduled time.
ShowWaits ==
    /\ ~visible
    /\ visible' = TRUE
    /\ UNCHANGED <<server, tab, place, list, loads, hook, asked, dialog, lost,
                   events>>

\* handleVisibility polls at once, unless a poll is still on its way or the
\* effect has no runs to poll for.
Show ==
    /\ ~visible
    /\ visible' = TRUE /\ timer' = FALSE
    /\ poll' = IF poll = NoPoll /\ runIdsKey # {} THEN Asking(activeRunsRef) ELSE poll
    /\ UNCHANGED <<server, tab, place, list, loads, followed, asked, dialog,
                   lost, events>>

-----------------------------------------------------------------------------
(* Page loads *)

\* A request to a backend that is away fails the whole load.
LoadFails(s) ==
    /\ loads' = [loads EXCEPT ![s] = Idle]
    /\ failed' = TRUE
    /\ loading' = (loading /\ loads[s].kind # "all")

\* listFeatureRuns and the list of jobs. Nothing on the page compares the two,
\* and they are read together.
ListsRead(s) ==
    /\ loads[s].kind # "idle" /\ loads[s].run = NoPoll
    /\ ~(up /\ ~session)
    /\ IF up
       THEN /\ loads' = [loads EXCEPT ![s].run = run,
                                     ![s].job = job /\ loads[s].kind = "all"]
            /\ UNCHANGED <<loading, failed>>
       ELSE LoadFails(s)
    /\ UNCHANGED <<server, tab, place, visible, shown, rows, byAll, hook,
                   asked, dialog, lost, events>>

\* loadAll / refresh / load: everything is in. Answers are taken in the order
\* they come: an older list may replace a newer one.
FullLoadDone(s) ==
    /\ loads[s].kind = "all" /\ loads[s].run # NoPoll
    /\ shown' = loads[s].job
    /\ rows' = loads[s].run /\ byAll' = TRUE
    /\ loads' = [loads EXCEPT ![s] = Idle]
    /\ loading' = FALSE /\ failed' = (failed /\ Page[tab].clears # "end")
    /\ IF Page[tab].follows THEN Track(activeRuns \cup Detected(loads[s].run))
       ELSE UNCHANGED hook
    /\ UNCHANGED <<server, tab, place, visible, asked, dialog, lost, events>>

\* loadRuns shows a page or a filter of the history and follows nothing.
RunsLoadDone(s) ==
    /\ loads[s].kind = "runs" /\ loads[s].run # NoPoll
    /\ rows' = loads[s].run /\ byAll' = FALSE
    /\ loads' = [loads EXCEPT ![s] = Idle]
    /\ UNCHANGED <<server, tab, place, visible, shown, loading, failed, hook,
                   asked, dialog, lost, events>>

\* Media import refreshes every 10 s, the boards every 15, 30 and 60 s: by
\* then the loads before are taken to be answered.
Tick ==
    /\ place = "page" /\ Page[tab].ticks /\ FreeSlots = Slots
    /\ StartLoad("all")
    /\ UNCHANGED <<server, tab, place, visible, shown, rows, byAll, hook, asked,
                   dialog, lost, events>>

-----------------------------------------------------------------------------
(* What the user does; a page that is loading shows nothing to click *)

Clickable == place = "page" /\ ~loading /\ events < MaxEvents
NoRequest == [op |-> "none", run |-> 0]

(* What a job's card offers. Progress and Cancel replace Run while the page *)
(* follows a run of the job; the cards of drives and folders also refuse to *)
(* remove a source that is being imported, and no dialog edits them.        *)
Followed == tracked # {}
SsdCard    == [run |-> ~Followed, cancel |-> Followed, edit |-> TRUE, delete |-> TRUE]
HyperCard  == [run |-> ~Followed, cancel |-> Followed, edit |-> TRUE, delete |-> TRUE]
RcloneCard == [run |-> ~Followed, cancel |-> Followed, edit |-> TRUE, delete |-> TRUE]
SourceCard == [run |-> ~Followed, cancel |-> Followed, edit |-> FALSE,
               delete |-> ~Followed]
NoCard     == [run |-> FALSE, cancel |-> FALSE, edit |-> FALSE, delete |-> FALSE]

Card == IF ~shown THEN NoCard
        ELSE [ssd |-> SsdCard, hyper |-> HyperCard, rclone |-> RcloneCard,
              media |-> SourceCard, overview |-> NoCard, status |-> NoCard,
              external |-> NoCard][tab]

ClickRun ==
    /\ Clickable /\ Card.run /\ asked = NoRequest
    /\ asked' = [op |-> "run", run |-> 0] /\ events' = events + 1
    /\ UNCHANGED <<server, tab, place, visible, list, loads, hook, dialog, lost>>

\* The run route claims a run; 404, 409 and a lost connection tell the page
\* nothing it keeps.
RunRouteAnswers ==
    /\ asked.op = "run" /\ ~(up /\ ~session)
    /\ IF up /\ job /\ \E r \in Runs : Claimable(r)
       THEN \E r \in Runs :
               /\ Claimable(r)
               /\ run' = [run EXCEPT ![r] = "running"]
               /\ asked' = [op |-> "claimed", run |-> r]
       ELSE asked' = NoRequest /\ UNCHANGED run
    /\ UNCHANGED <<job, up, session, tab, place, visible, list, loads,
                   hook, dialog, lost, events>>

\* trackRun
RunAnswerArrives ==
    /\ asked.op = "claimed"
    /\ asked' = NoRequest
    /\ Track(activeRuns \cup {asked.run})
    /\ UNCHANGED <<server, tab, place, visible, list, loads, dialog, lost, events>>

\* getRunIdForConfig: the first run followed for the job.
ClickCancel ==
    /\ Clickable /\ Card.cancel /\ asked = NoRequest
    /\ \E r \in tracked :
          /\ \A q \in tracked : r <= q
          /\ asked' = [op |-> "cancel", run |-> r]
    /\ events' = events + 1
    /\ UNCHANGED <<server, tab, place, visible, list, loads, hook, dialog, lost>>

\* cancelFeatureRun ends the run at once; it refuses a run that is over, and
\* one whose process it does not find.
CancelRouteReads ==
    /\ asked.op = "cancel" /\ tab # "media" /\ ~(up /\ ~session)
    /\ \/ asked' = NoRequest /\ UNCHANGED run
       \/ /\ up /\ run[asked.run] = "running"
          /\ run' = [run EXCEPT ![asked.run] = "ended"]
          /\ asked' = [asked EXCEPT !.op = "cancelled"]
    /\ UNCHANGED <<job, up, session, tab, place, visible, list, loads,
                   hook, dialog, lost, events>>

\* The media route marks the run cancelling and waits for the import to stop;
\* a run that is already cancelling, or cancelled, is answered at once.
MediaCancelReads ==
    /\ asked.op = "cancel" /\ tab = "media" /\ ~(up /\ ~session)
    /\ IF up /\ run[asked.run] = "running"
       THEN /\ run' = [run EXCEPT ![asked.run] = "cancelling"]
            /\ asked' = [asked EXCEPT !.op = "stopping"]
       ELSE /\ asked' = IF up /\ run[asked.run] = "cancelling"
                        THEN [asked EXCEPT !.op = "cancelled"] ELSE NoRequest
            /\ UNCHANGED run
    /\ UNCHANGED <<job, up, session, tab, place, visible, list, loads,
                   hook, dialog, lost, events>>

MediaCancelStops ==
    /\ asked.op = "stopping"
    /\ IF ~up THEN asked' = NoRequest
       ELSE /\ run[asked.run] = "ended"
            /\ asked' \in {NoRequest, [asked EXCEPT !.op = "cancelled"]}
    /\ UNCHANGED <<server, tab, place, visible, list, loads, hook, dialog, lost, events>>

CancelAnswerArrives ==
    /\ asked.op = "cancelled"
    /\ asked' = NoRequest
    /\ StartLoad("all")
    /\ UNCHANGED <<server, tab, place, visible, shown, rows, byAll, hook, dialog,
                   lost, events>>

\* Another page or filter of the history.
ClickHistory ==
    /\ Clickable /\ Page[tab].history # "none"
    /\ StartLoad(Page[tab].history)
    /\ events' = events + 1
    /\ UNCHANGED <<server, tab, place, visible, shown, rows, byAll, hook, asked,
                   dialog, lost>>

\* Retry beside a failed load; the pages that refresh on their own have none.
ClickRetry ==
    /\ place = "page" /\ ~loading /\ failed /\ Page[tab].clears = "start"
    /\ StartLoad("all")
    /\ UNCHANGED <<server, tab, place, visible, shown, rows, byAll, hook, asked,
                   dialog, lost, events>>

-----------------------------------------------------------------------------
(* Forms and confirmations *)

\* startEdit takes the form from the shown list; a new job starts empty.
OpenDialog ==
    /\ Clickable /\ dialog = "none" /\ Page[tab].follows
    /\ \/ dialog' = "create" /\ ~shown
       \/ dialog' = "edit" /\ Card.edit
       \/ dialog' = "delete" /\ Card.delete
    /\ events' = events + 1
    /\ UNCHANGED <<server, tab, place, visible, list, loads, hook, asked, lost>>

ClickConfirm ==
    /\ place = "page" /\ ~loading
    /\ dialog \in {"create", "edit", "delete"}
    /\ dialog' = IF dialog = "create" THEN "creating"
                 ELSE IF dialog = "edit" THEN "saving" ELSE "deleting"
    /\ UNCHANGED <<server, tab, place, visible, list, loads, hook, asked, lost, events>>

\* The delete routes remove the row whatever its runs do, and their run goes
\* on; only a media source stays while its import is active.
SsdDelete    == [refusesActive |-> FALSE]
HyperDelete  == [refusesActive |-> FALSE]
RcloneDelete == [refusesActive |-> FALSE]
MediaDelete  == [refusesActive |-> TRUE]
DeleteRoute  == [ssd |-> SsdDelete, hyper |-> HyperDelete, rclone |-> RcloneDelete,
                 media |-> MediaDelete]

\* A save or a delete of a job that is gone is refused.
Refused ==
    \/ ~up
    \/ dialog \in {"saving", "deleting"} /\ ~job
    \/ /\ dialog = "deleting" /\ DeleteRoute[tab].refusesActive
       /\ \E r \in Runs : Active(run[r])

\* handleSubmit, confirmDelete: a refusal keeps the dialog open, success
\* closes it and reloads the page.
DialogAnswered ==
    /\ dialog \in {"creating", "saving", "deleting"} /\ ~(up /\ ~session)
    /\ IF Refused
       THEN /\ dialog' = IF dialog = "creating" THEN "create"
                         ELSE IF dialog = "saving" THEN "edit" ELSE "delete"
            /\ UNCHANGED <<job, loads, loading, failed>>
       ELSE /\ job' = (dialog # "deleting")
            /\ dialog' = "none"
            /\ StartLoad("all")
    /\ UNCHANGED <<run, up, session, tab, place, visible, shown, rows,
                   byAll, hook, asked, lost, events>>

CloseDialog ==
    /\ dialog \in {"create", "edit", "delete"}
    /\ dialog' = "none"
    /\ UNCHANGED <<server, tab, place, visible, list, loads, hook, asked, lost, events>>

-----------------------------------------------------------------------------
(* The shell: routes, the gate, the connection light *)

NoLoads == [s \in Slots |-> Idle]
Unstarted == [r \in Runs |-> "none"]

\* Leaving a page unmounts it: its state goes, late answers find nobody.
Unmount ==
    /\ shown' = FALSE /\ rows' = Unstarted /\ byAll' = TRUE
    /\ failed' = FALSE
    /\ activeRuns' = {} /\ tracked' = {} /\ effects' = FALSE
    /\ runIdsKey' = {} /\ activeRunsRef' = {} /\ poll' = NoPoll /\ timer' = FALSE
    /\ asked' = NoRequest /\ dialog' = "none"

Mount ==
    /\ Unmount
    /\ loads' = [s \in Slots |-> IF s \in DOMAIN Page[tab].mounts
                                THEN Load(Page[tab].mounts[s]) ELSE Idle]
    /\ loading' = TRUE

OpenPage ==
    /\ place = "away"
    /\ place' = "page" /\ Mount
    /\ UNCHANGED <<server, tab, visible, lost, events>>

LeavePage ==
    /\ place = "page" /\ events < MaxEvents
    /\ place' = "away" /\ Unmount /\ loads' = NoLoads /\ loading' = FALSE
    /\ events' = events + 1
    /\ UNCHANGED <<server, tab, visible, lost>>

Waiting ==
    \/ \E r \in DOMAIN poll : poll[r] = "wait"
    \/ \E s \in Slots : loads[s].kind # "idle" /\ loads[s].run = NoPoll
    \/ asked.op \in {"run", "cancel"}
    \/ dialog \in {"creating", "saving", "deleting"}

\* fetchJSON: an answer 401 announces redman:auth-required, and AuthGate puts
\* the login page in the place of the application.
SignedOut ==
    /\ up /\ ~session /\ Waiting
    /\ place' = "login" /\ Unmount /\ loads' = NoLoads /\ loading' = FALSE
    /\ lost' = FALSE
    /\ UNCHANGED <<server, tab, visible, events>>

\* login: the gate opens on the route the tab was on.
SignIn ==
    /\ place = "login" /\ up
    /\ session' = TRUE /\ place' = "page" /\ Mount
    /\ UNCHANGED <<job, run, up, tab, visible, lost, events>>

\* ConnectionStatus: the first good check after a bad one announces
\* redman:reconnected, and the mounted page reloads.
CheckHealth ==
    /\ place # "login" /\ lost = Reachable
    /\ lost' = ~Reachable
    /\ IF Reachable /\ place = "page" THEN StartLoad("all")
       ELSE UNCHANGED <<loads, loading, failed>>
    /\ UNCHANGED <<server, tab, place, visible, shown, rows, byAll, hook, asked,
                   dialog, events>>

-----------------------------------------------------------------------------
JobInit ==
    /\ job \in BOOLEAN /\ run = Unstarted /\ up = TRUE /\ session = TRUE
    /\ tab \in DOMAIN Page /\ place = "away" /\ visible = TRUE
    /\ shown = FALSE /\ rows = Unstarted /\ byAll = TRUE
    /\ loading = FALSE /\ failed = FALSE /\ loads = NoLoads
    /\ activeRuns = {} /\ tracked = {} /\ effects = FALSE
    /\ runIdsKey = {} /\ activeRunsRef = {} /\ poll = NoPoll /\ timer = FALSE
    /\ asked = NoRequest /\ dialog = "none" /\ lost = FALSE
    /\ events = 0

Backend == StartElsewhere \/ RunFinishes \/ GoDown \/ ComeUp \/ SessionEnds
React == Render \/ RunEffects
Following == PollDone \/ TimerFires \/ \E r \in Runs : PollReads(r)
LoadSteps(s) == ListsRead(s) \/ FullLoadDone(s) \/ RunsLoadDone(s)
Loading == Tick \/ \E s \in Slots : LoadSteps(s)
Answers == RunRouteAnswers \/ RunAnswerArrives \/ CancelRouteReads
           \/ MediaCancelReads \/ MediaCancelStops \/ CancelAnswerArrives \/ DialogAnswered
Clicks == ClickRun \/ ClickCancel \/ ClickHistory \/ ClickRetry \/ OpenDialog \/ ClickConfirm
          \/ CloseDialog
Shell == Hide \/ Show \/ OpenPage \/ LeavePage \/ SignedOut \/ SignIn \/ CheckHealth

JobNext == Backend \/ React \/ Following \/ Loading \/ Answers \/ Clicks \/ Shell
JobSpec == JobInit /\ [][JobNext]_jobVars

(* Updates are rendered and their effects run, requests are answered, and  *)
(* a set timer fires. Nothing else need happen:                            *)
(* nobody has to click, come back to the tab, or end a run.                *)
JobFairness ==
    /\ WF_jobVars(React)
    /\ WF_jobVars(Following)
    /\ \A s \in Slots : WF_jobVars(LoadSteps(s))
    /\ WF_jobVars(Tick)
JobFairSpec == JobSpec /\ JobFairness

-----------------------------------------------------------------------------
(* As long as a run that goes on is followed on a visible page, a poll is  *)
(* on its way or scheduled, or the effect that polls is due: no order of   *)
(* answers, renders, new runs, finished runs and tab switches lets the     *)
(* polling of useJobProgress fall asleep over a run that has not ended.    *)
PollingGoesOn ==
    visible /\ (\E r \in tracked : run[r] # "ended")
        => poll # NoPoll \/ timer \/ tracked # runIdsKey

\* A run that is over still shows as going on. (Rows of a history page or
\* filter are not followed and are left out.)
Behind == \E r \in Runs :
             run[r] = "ended" /\ (r \in tracked \/ (byAll /\ Active(rows[r])))

\* What the code allows: a list that was fetched before the end of a run brings
\* the run back after the poll dropped it and before that was rendered. The
\* set of runs is what it was, so that the polling effect does not run again,
\* and the poll has scheduled nothing.
Asleep == visible /\ activeRuns = runIdsKey /\ runIdsKey # {} /\ poll = NoPoll /\ ~timer

\* Nothing can be expected of a page that nobody looks at, that reported a
\* failed load, or whose backend or session is away.
Excused == place # "page" \/ ~visible \/ failed \/ ~Reachable
=============================================================================
