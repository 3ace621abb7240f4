------------------------------ MODULE Console ------------------------------
(* The browser console, part by part: the job pages (JobPages), the banner *)
(* of a test restore (RestoreDrill), the pairing dialog (PairingDialog),   *)
(* the forms that show masked secrets (SecretForms) and the forms of the   *)
(* scheduled jobs (JobForms). The parts keep their state in components of  *)
(* their own and share none of it, so that each is explored on its own:    *)
(* a behaviour is about the part its focus names, and the others rest.     *)
EXTENDS JobPages, RestoreDrill, PairingDialog, SecretForms, JobForms

VARIABLE focus

consoleVars == <<jobVars, drillVars, dlgVars, secretVars, formVars, focus>>

Parts == {"jobs", "drill", "pairing", "secrets", "forms"}

\* One initial state of each part that is not looked at. (Without a job and
\* without a page, nothing is fair in JobPages; a closed banner polls nothing.)
RestJobs == ~job /\ tab = "overview"
RestSecrets == kind = "settings" /\ stored.secret = Unset
RestForms == feature = "ssd"

ConsoleInit ==
    /\ focus \in Parts
    /\ JobInit /\ DrillInit /\ DlgInit /\ SecretInit /\ FormInit
    /\ focus # "jobs" => RestJobs
    /\ focus # "secrets" => RestSecrets
    /\ focus # "forms" => RestForms

ConsoleNext ==
    /\ UNCHANGED focus
    /\ \/ focus = "jobs" /\ JobNext /\ UNCHANGED <<drillVars, dlgVars, secretVars, formVars>>
       \/ focus = "drill" /\ DrillNext /\ UNCHANGED <<jobVars, dlgVars, secretVars, formVars>>
       \/ focus = "pairing" /\ DlgNext /\ UNCHANGED <<jobVars, drillVars, secretVars, formVars>>
       \/ focus = "secrets" /\ SecretNext /\ UNCHANGED <<jobVars, drillVars, dlgVars, formVars>>
       \/ focus = "forms" /\ FormNext /\ UNCHANGED <<jobVars, drillVars, dlgVars, secretVars>>

ConsoleSpec == ConsoleInit /\ [][ConsoleNext]_consoleVars /\ JobFairness /\ DrillFairness

-----------------------------------------------------------------------------
(* What is over does not stay "running" on the screen: on a job page the   *)
(* hook drops the run and the reload that follows corrects the list, even  *)
(* when an older list arrives last and brings the run back; the banner of  *)
(* a test restore goes on polling until it shows the end, however many     *)
(* polls overtake each other. The one way out is a polling that fell       *)
(* asleep over ended runs (Asleep). (Only the part in focus ever moves, so *)
(* that this is the conjunction of one such property of each.)             *)
ScreenCatchesUp ==
    Behind \/ Outdated ~> (~Behind \/ Excused \/ Asleep) /\ (~Outdated \/ ~serving)
=============================================================================
