-------------------------------- MODULE Jobs --------------------------------
(* The two kinds of job on the dashboard: a backup job that RedMan runs     *)
(* itself (RunLifecycle), and a job that it only hears of (Heartbeats). One *)
(* process looks after both and keeps their rows in tables of their own;    *)
(* neither reads or writes the other's. So each is explored on its own: a   *)
(* behaviour is about the kind of job it names, and the other one rests.    *)
EXTENDS RunLifecycle, Heartbeats

VARIABLE about

jobsVars == <<vars, heartbeatVars, about>>

JobsInit ==
    /\ about \in {"own", "external"}
    /\ Init /\ HeartbeatInit
    /\ about # "own" => feature = "rclone"
    /\ about # "external" => ~configured

JobsNext ==
    /\ UNCHANGED about
    /\ \/ about = "own" /\ Next /\ UNCHANGED heartbeatVars
       \/ about = "external" /\ HeartbeatNext /\ UNCHANGED vars

\* Nothing is fair in what an external job, its broker and its operator do.
JobsSpec == JobsInit /\ [][JobsNext]_jobsVars /\ Fairness
=============================================================================
