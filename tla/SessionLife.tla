----------------------------- MODULE SessionLife -----------------------------
(***************************************************************************)
(* What a session promises (README.md, docs/adr/001): it is opened once,   *)
(* answers requests while it is live, and when it has ended, by expiry,    *)
(* logout, revocation or the restore of an older database, it never        *)
(* answers again.                                                          *)
(***************************************************************************)
CONSTANT Tokens

VARIABLE status

Stages == {"unborn", "live", "ended"}

Init == status = [t \in Tokens |-> "unborn"]

\* One login, one expiry, or the end of all the sessions of an account at once.
Later(a, b) == a = b \/ a = "unborn" \/ (a = "live" /\ b = "ended")

Next ==
    /\ status' \in [Tokens -> Stages]
    /\ \A t \in Tokens : Later(status[t], status'[t])

Spec == Init /\ [][Next]_status
=============================================================================
