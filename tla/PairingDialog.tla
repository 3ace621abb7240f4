--------------------------- MODULE PairingDialog ---------------------------
(* The pairing dialog of the Hyper page. Every attempt sends a request and *)
(* then runs a polling loop of its own; cancelling, Try Again and a second *)
(* discovered peer start new attempts while loops and answers of older     *)
(* ones are still about. pairingAttempt and pairingCancelled tell them     *)
(* apart. What the two instances do with the request is in Pairing.        *)
EXTENDS Naturals

CONSTANTS
    MaxAttempts,   \* bound on pairing attempts
    MaxRounds      \* polls of one loop: 120 in the code

ASSUME AttemptsAssumption == MaxAttempts \in Nat /\ MaxRounds \in Nat \ {0}

Attempts == 0 .. MaxAttempts

VARIABLES
    attempt,     \* pairingAttempt
    cancelled,   \* pairingCancelled
    dlg,         \* pairing.status, or "closed"
    connect,     \* is the connect dialog, or the peer picker, open
    request,     \* the outgoing pairing of each attempt, as the backend has it
    loop,        \* startPairing and pollPairingStatus of each attempt
    rounds       \* polls each loop has made

dlgVars == <<attempt, cancelled, dlg, connect, request, loop, rounds>>

Over == {"failed", "expired", "declined"}
Current(a) == attempt = a
Watched(a) == ~cancelled /\ Current(a)

-----------------------------------------------------------------------------
(* The backend *)

\* The peer answers, or does not: the row of a request leaves "pending" once.
RequestSettles ==
    /\ \E a \in Attempts, s \in Over \cup {"accepted"} :
          request[a] = "pending" /\ request' = [request EXCEPT ![a] = s]
    /\ UNCHANGED <<attempt, cancelled, dlg, connect, loop, rounds>>

\* POST pair/initiate sends the request; a peer that refuses it, or cannot be
\* reached, makes a failed row, and the page may lose the answer.
InitiateAnswers(a) ==
    /\ loop[a] = "sending"
    /\ \E s \in {"pending", "failed"}, lost \in BOOLEAN :
          /\ request' = [request EXCEPT ![a] = s]
          /\ loop' = [loop EXCEPT ![a] = IF lost THEN "refused"
                                         ELSE IF s = "failed" THEN "refused" ELSE "sent"]
    /\ UNCHANGED <<attempt, cancelled, dlg, connect, rounds>>

-----------------------------------------------------------------------------
(* The dialog *)

\* A discovered peer, from the banner or the picker, opens the connect dialog.
SelectPeer ==
    /\ dlg = "closed" /\ ~connect
    /\ connect' = TRUE
    /\ UNCHANGED <<attempt, cancelled, dlg, request, loop, rounds>>

StartPairing ==
    /\ attempt < MaxAttempts
    /\ attempt' = attempt + 1
    /\ dlg' = "sending" /\ cancelled' = FALSE
    /\ loop' = [loop EXCEPT ![attempt + 1] = "sending"]
    /\ UNCHANGED <<request, rounds>>

ConfirmConnect == connect /\ StartPairing /\ connect' = FALSE
TryAgain == dlg \in Over /\ StartPairing /\ UNCHANGED connect

CloseConnect ==
    /\ connect /\ connect' = FALSE
    /\ UNCHANGED <<attempt, cancelled, dlg, request, loop, rounds>>

\* Cancel, Close and Done are all cancelPairing.
CancelPairing ==
    /\ dlg # "closed" /\ attempt < MaxAttempts
    /\ dlg' = "closed" /\ cancelled' = TRUE /\ attempt' = attempt + 1
    /\ UNCHANGED <<connect, request, loop, rounds>>

Ends(a) == loop' = [loop EXCEPT ![a] = "done"]

InitiateArrives(a) ==
    /\ loop[a] \in {"sent", "refused"}
    /\ IF ~Current(a) THEN Ends(a) /\ UNCHANGED dlg
       ELSE IF loop[a] = "refused" THEN Ends(a) /\ dlg' = "failed"
       ELSE loop' = [loop EXCEPT ![a] = "asleep"] /\ dlg' = "pending"
    /\ UNCHANGED <<attempt, cancelled, connect, request, rounds>>

\* Three seconds later the loop asks, unless it is no longer wanted.
Wakes(a) ==
    /\ loop[a] = "asleep"
    /\ loop' = [loop EXCEPT ![a] = IF Watched(a) THEN "asking" ELSE "done"]
    /\ rounds' = [rounds EXCEPT ![a] = @ + 1]
    /\ UNCHANGED <<attempt, cancelled, dlg, connect, request>>

\* GET pair/status/:id; a failed poll tells nothing.
StatusRead(a) ==
    /\ loop[a] = "asking"
    /\ loop' \in {[loop EXCEPT ![a] = request[a]], [loop EXCEPT ![a] = "unknown"]}
    /\ UNCHANGED <<attempt, cancelled, dlg, connect, request, rounds>>

Told(a) == loop[a] \in Over \cup {"accepted", "pending", "unknown"}

\* After the last round the dialog expires for the attempt it still shows.
NextRound(a) ==
    IF rounds[a] < MaxRounds
    THEN loop' = [loop EXCEPT ![a] = "asleep"] /\ UNCHANGED dlg
    ELSE Ends(a) /\ dlg' = (IF Current(a) THEN "expired" ELSE dlg)

\* Mutant of StatusArrives: the answer is shown without asking again whether
\* the attempt is still wanted.
StatusArrivesUnchecked(a) ==
    /\ Told(a)
    /\ IF loop[a] = "accepted"
       THEN Ends(a) /\ dlg' = "accepted" /\ cancelled' = TRUE
       ELSE /\ UNCHANGED cancelled
            /\ IF loop[a] \in Over THEN Ends(a) /\ dlg' = loop[a] ELSE NextRound(a)
    /\ UNCHANGED <<attempt, connect, request, rounds>>

StatusArrives(a) ==
    /\ Told(a)
    /\ IF loop[a] # "unknown" /\ ~Watched(a)
       THEN Ends(a) /\ UNCHANGED <<dlg, cancelled>>
       ELSE IF loop[a] = "accepted"
       THEN Ends(a) /\ dlg' = "accepted" /\ cancelled' = TRUE
       ELSE /\ UNCHANGED cancelled
            /\ IF loop[a] \in Over THEN Ends(a) /\ dlg' = loop[a] ELSE NextRound(a)
    /\ UNCHANGED <<attempt, connect, request, rounds>>

-----------------------------------------------------------------------------
DlgInit ==
    /\ attempt = 0 /\ cancelled = FALSE /\ dlg = "closed" /\ connect = FALSE
    /\ request = [a \in Attempts |-> "none"]
    /\ loop = [a \in Attempts |-> "none"]
    /\ rounds = [a \in Attempts |-> 0]

DlgNext ==
    \/ RequestSettles \/ SelectPeer \/ ConfirmConnect \/ TryAgain
    \/ CloseConnect \/ CancelPairing
    \/ \E a \in Attempts : \/ InitiateAnswers(a) \/ InitiateArrives(a) \/ Wakes(a)
                           \/ StatusRead(a) \/ StatusArrives(a)

DlgSpec == DlgInit /\ [][DlgNext]_dlgVars

-----------------------------------------------------------------------------
(* The dialog speaks of its own attempt. "Paired!" is only shown for a     *)
(* request the peer accepted, a refusal only for one that really ended,    *)
(* and a dialog that waits has a loop that will end its wait: answers to   *)
(* older attempts, arriving after Cancel or Try Again, neither close a     *)
(* newer attempt's dialog nor decide it.                                   *)
PairingDialogTrue ==
    /\ dlg = "accepted" => request[attempt] = "accepted"
    /\ dlg = "declined" => request[attempt] = "declined"
    /\ dlg \in {"sending", "pending"} =>
          ~cancelled /\ loop[attempt] \notin {"none", "done"}
=============================================================================
