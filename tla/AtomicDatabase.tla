--------------------------- MODULE AtomicDatabase ---------------------------
(***************************************************************************)
(* What the database promises across restarts and restores: it opens with  *)
(* the last commit, or with the restore that was staged, as one step.      *)
(***************************************************************************)
CONSTANTS None, Torn

VARIABLES data, staged, open

vars == <<data, staged, open>>

Init == data = 0 /\ staged = None /\ ~open

Commit == open /\ open' /\ data' # Torn /\ UNCHANGED staged

\* A restore is staged, or the one that was staged is replaced or dropped.
Stage == staged' # staged /\ UNCHANGED <<data, open>>

Install == ~open /\ staged # None /\ data' = staged /\ staged' = None

Open  == ~open /\ open' /\ UNCHANGED <<data, staged>>
Close == open /\ ~open' /\ UNCHANGED <<data, staged>>

Next == Commit \/ Stage \/ (Install /\ UNCHANGED open) \/ Open \/ Close

Spec == Init /\ [][Next]_vars
=============================================================================
