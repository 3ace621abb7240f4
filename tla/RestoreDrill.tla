---------------------------- MODULE RestoreDrill ----------------------------
(* Test restores of a whole snapshot folder (services/restoreDrill.js) and *)
(* the banner of the SSD page that follows one. The page polls every       *)
(* second without waiting for the poll before, and applies every answer to *)
(* whatever the banner shows when the answer arrives.                      *)
EXTENDS Naturals

CONSTANTS
    Drills,          \* run ids, in the order the backend hands them out
    Polls,           \* how many polls may be on their way at once
    MaxDrillEvents   \* bound on clicks and restarts

ASSUME DrillsAssumption ==
    Drills \subseteq Nat \ {0} /\ MaxDrillEvents \in Nat

VARIABLES
    drill,        \* backup_runs: the status of each drill
    aborting,     \* the drills whose AbortController fired
    serving,      \* does the backend answer
    target,       \* drillTarget: "closed", "open", "starting" or "answered"
    banner,       \* drillRun: id 0 is undefined, status "none" is no banner
    polls,        \* the polls on their way
    drillEvents

drillVars == <<drill, aborting, serving, target, banner, polls, drillEvents>>

NoBanner == [id |-> 0, status |-> "none"]
Unasked == [id |-> 0, status |-> "unasked"]

\* claimBackupRun: one drill of a config at a time; a second start is told of
\* the first.
StartDrill ==
    /\ target = "starting"
    /\ IF ~serving THEN target' = "open" /\ UNCHANGED drill
       ELSE IF \E d \in Drills : drill[d] = "running"
       THEN /\ target' = "answered" /\ UNCHANGED drill
       ELSE \E d \in Drills :
              /\ drill[d] = "none" /\ \A e \in Drills : e < d => drill[e] # "none"
              /\ drill' = [drill EXCEPT ![d] = "running"]
              /\ target' = "answered"
    /\ UNCHANGED <<aborting, serving, banner, polls, drillEvents>>

\* The drill checks for its abort between two files: it may still complete.
DrillStops ==
    /\ serving
    /\ \E d \in Drills, s \in {"ended", "cancelled"} :
          /\ drill[d] = "running" /\ (s = "cancelled" => d \in aborting)
          /\ drill' = [drill EXCEPT ![d] = s]
    /\ UNCHANGED <<aborting, serving, target, banner, polls, drillEvents>>

\* The backend stops, or starts: the start fails the drills the last process left running.
Restart ==
    /\ drillEvents < MaxDrillEvents
    /\ serving' = ~serving
    /\ drill' = IF serving THEN drill
                ELSE [d \in Drills |-> IF drill[d] = "running" THEN "ended" ELSE drill[d]]
    /\ aborting' = {}
    /\ drillEvents' = drillEvents + 1
    /\ UNCHANGED <<target, banner, polls>>

OpenDrill ==
    /\ target = "closed" /\ drillEvents < MaxDrillEvents
    /\ target' = "open" /\ drillEvents' = drillEvents + 1
    /\ UNCHANGED <<drill, aborting, serving, banner, polls>>

ConfirmDrill ==
    /\ target = "open"
    /\ target' \in {"starting", "closed"}
    /\ UNCHANGED <<drill, aborting, serving, banner, polls, drillEvents>>

Started(d) == drill[d] # "none"
Newest(d) == Started(d) /\ \A e \in Drills : Started(e) => e <= d

\* confirmDrill: the answer names the drill and puts up a new banner.
DrillAnswerArrives ==
    /\ target = "answered"
    /\ target' = "closed"
    /\ \E d \in Drills : Newest(d) /\ banner' = [id |-> d, status |-> "running"]
    /\ UNCHANGED <<drill, aborting, serving, polls, drillEvents>>

\* The effect on drillRun: while the banner says running, one poll a second.
PollDrill(p) ==
    /\ banner.status = "running" /\ polls[p] = Unasked
    /\ polls' = [polls EXCEPT ![p] = [id |-> banner.id, status |-> "asking"]]
    /\ UNCHANGED <<drill, aborting, serving, target, banner, drillEvents>>

\* GET restore-drill-runs/:id; an unknown id and a lost connection are errors,
\* which the page passes over.
DrillRead(p) ==
    /\ polls[p].status = "asking"
    /\ polls' = [polls EXCEPT ![p] =
          IF serving /\ polls[p].id \in Drills
          THEN [@ EXCEPT !.status = drill[polls[p].id]] ELSE Unasked]
    /\ UNCHANGED <<drill, aborting, serving, target, banner, drillEvents>>

\* Mutant of DrillShown: an answer that the run is over is taken for the
\* absence of progress.
DrillShownRunning(p) ==
    /\ polls[p].status \notin {"unasked", "asking"}
    /\ banner' = IF polls[p].status = "running"
                 THEN [banner EXCEPT !.status = "running"] ELSE banner
    /\ polls' = [polls EXCEPT ![p] = Unasked]
    /\ UNCHANGED <<drill, aborting, serving, target, drillEvents>>

\* setDrillRun(current => ({...current, status})): the answer is shown in the
\* banner of the moment, be it another drill's, or none.
DrillShown(p) ==
    /\ polls[p].status \notin {"unasked", "asking"}
    /\ banner' = [banner EXCEPT !.status = polls[p].status]
    /\ polls' = [polls EXCEPT ![p] = Unasked]
    /\ UNCHANGED <<drill, aborting, serving, target, drillEvents>>

\* A banner offers Cancel while it says running, Dismiss afterwards.
CancelOrDismiss ==
    /\ drillEvents < MaxDrillEvents /\ banner # NoBanner
    /\ IF banner.status = "running"
       THEN /\ aborting' = aborting \cup
                   {d \in Drills : d = banner.id /\ serving /\ drill[d] = "running"}
            /\ UNCHANGED banner
       ELSE banner' = NoBanner /\ UNCHANGED aborting
    /\ drillEvents' = drillEvents + 1
    /\ UNCHANGED <<drill, serving, target, polls>>

DrillInit ==
    /\ drill = [d \in Drills |-> "none"] /\ aborting = {}
    /\ serving = TRUE /\ target = "closed" /\ banner = NoBanner
    /\ polls = [p \in Polls |-> Unasked] /\ drillEvents = 0

DrillPolling(p) == PollDrill(p) \/ DrillRead(p) \/ DrillShown(p)

DrillNext ==
    \/ StartDrill \/ DrillStops \/ Restart \/ OpenDrill \/ ConfirmDrill
    \/ DrillAnswerArrives \/ CancelOrDismiss
    \/ \E p \in Polls : DrillPolling(p)

\* The interval ticks, requests are answered. Drills need not end.
DrillFairness == \A p \in Polls : WF_drillVars(DrillPolling(p))
DrillSpec == DrillInit /\ [][DrillNext]_drillVars /\ DrillFairness

-----------------------------------------------------------------------------
\* The banner says that a drill that is over is running. (Nothing is said of
\* the banner that a late answer puts up after Dismiss, which has no id.)
Outdated == \E d \in Drills : /\ drill[d] \in {"ended", "cancelled"}
                             /\ banner = [id |-> d, status |-> "running"]
=============================================================================
