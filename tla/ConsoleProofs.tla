--------------------------- MODULE ConsoleProofs ---------------------------
(* What the browser console shows and stores, for any number of runs, page *)
(* loads, pairing attempts, tabs, jobs and typed values: an invariant for  *)
(* each part, proved of the part on its own, and the step from the parts   *)
(* to the console they make up.                                            *)
EXTENDS Console, TLAPS

-----------------------------------------------------------------------------
(* The pairing dialog is true for any number of attempts and polls. On its *)
(* own PairingDialogTrue is not inductive: an answer that is under way     *)
(* must be the one the backend gave, an attempt not yet made must have     *)
(* left no trace, and a cancelled dialog must have nobody who could still  *)
(* show something in it.                                                   *)

LoopStates == Over \cup {"none", "sending", "sent", "refused", "asleep", "asking",
                         "accepted", "pending", "unknown", "done"}

DlgType ==
    /\ attempt \in Nat
    /\ cancelled \in BOOLEAN
    /\ request \in [Attempts -> Over \cup {"none", "pending", "accepted"}]
    /\ loop \in [Attempts -> LoopStates]
    /\ rounds \in [Attempts -> Nat]
    /\ attempt \in Attempts

\* What a loop is told is what the backend says, and a decision never changes.
Answered ==
    \A a \in Attempts : loop[a] \in Over \cup {"accepted"} => request[a] = loop[a]

\* Requests exist from the moment the backend has handled them, in order.
Untried ==
    \A a \in Attempts :
        /\ a > attempt => loop[a] = "none"
        /\ loop[a] \in {"none", "sending"} <=> request[a] = "none"

\* Nobody is left to write into a dialog that was cancelled or has succeeded.
Abandoned == cancelled => loop[attempt] \in {"none", "done"}

DlgInv == DlgType /\ Answered /\ Untried /\ Abandoned /\ PairingDialogTrue

LEMMA AttemptFacts ==
    /\ Attempts \subseteq Nat /\ 0 \in Attempts
    /\ \A a \in Attempts : a < MaxAttempts => a + 1 \in Attempts
BY AttemptsAssumption DEF AttemptsAssumption, Attempts

LEMMA DlgStarts == DlgInit => DlgInv
BY AttemptFacts
DEF DlgInit, DlgInv, DlgType, LoopStates, Answered, Untried,
    Abandoned, PairingDialogTrue, Over

-----------------------------------------------------------------------------
(* Steps of the backend and of the loops of one attempt.                   *)

LEMMA SettlingKeeps == DlgInv /\ RequestSettles => DlgInv'
BY DEF RequestSettles, DlgInv, DlgType, LoopStates, Answered, Untried, Abandoned,
       PairingDialogTrue, Over

LEMMA SendingKeeps == ASSUME NEW a \in Attempts, DlgInv, InitiateAnswers(a) PROVE DlgInv'
BY DEF InitiateAnswers, DlgInv, DlgType, LoopStates, Answered, Untried, Abandoned,
       PairingDialogTrue, Over

LEMMA InitiateArrivesKeeps == ASSUME NEW a \in Attempts, DlgInv, InitiateArrives(a) PROVE DlgInv'
BY DEF InitiateArrives, Ends, Current, DlgInv, DlgType, LoopStates, Answered, Untried, Abandoned,
       PairingDialogTrue, Over

LEMMA WakingKeeps == ASSUME NEW a \in Attempts, DlgInv, Wakes(a) PROVE DlgInv'
BY DEF Wakes, Watched, Current, DlgInv, DlgType, LoopStates, Answered, Untried, Abandoned,
       PairingDialogTrue, Over

LEMMA ReadingKeeps == ASSUME NEW a \in Attempts, DlgInv, StatusRead(a) PROVE DlgInv'
BY DEF StatusRead, DlgInv, DlgType, LoopStates, Answered, Untried, Abandoned,
       PairingDialogTrue, Over

LEMMA StatusArrivesKeeps == ASSUME NEW a \in Attempts, DlgInv, StatusArrives(a) PROVE DlgInv'
BY DEF StatusArrives, Told, NextRound, Ends, Watched, Current, DlgInv, DlgType, LoopStates,
       Answered, Untried, Abandoned, PairingDialogTrue, Over

-----------------------------------------------------------------------------
(* Steps of the user.                                                      *)

LEMMA StartKeeps == ASSUME DlgInv, StartPairing PROVE DlgInv'
<1>1. /\ attempt + 1 \in Nat /\ attempt + 1 \in Attempts /\ loop[attempt + 1] = "none"
      /\ attempt' = attempt + 1 /\ dlg' = "sending" /\ cancelled' = FALSE
      /\ loop' = [loop EXCEPT ![attempt + 1] = "sending"]
      /\ UNCHANGED <<request, rounds>>
  BY AttemptFacts DEF StartPairing, DlgInv, DlgType, Untried
<1>2. DlgType'
  BY <1>1 DEF DlgInv, DlgType, LoopStates
<1>3. Answered'
  BY <1>1 DEF DlgInv, DlgType, Answered, Over
<1>4. Untried'
  BY <1>1, AttemptFacts DEF DlgInv, DlgType, Untried
<1>5. Abandoned' /\ PairingDialogTrue'
  BY <1>1 DEF DlgInv, DlgType, Abandoned, PairingDialogTrue
<1> QED
  BY <1>2, <1>3, <1>4, <1>5 DEF DlgInv

LEMMA CancelKeeps == ASSUME DlgInv, CancelPairing PROVE DlgInv'
BY AttemptFacts
DEF CancelPairing, DlgInv, DlgType, LoopStates, Answered, Untried,
    Abandoned, PairingDialogTrue, Over

\* Opening and closing the connect dialog leaves all the rest alone.
LEMMA ConnectKeeps == DlgInv /\ (SelectPeer \/ CloseConnect \/ UNCHANGED dlgVars) => DlgInv'
BY DEF SelectPeer, CloseConnect, dlgVars, DlgInv, DlgType, Answered, Untried, Abandoned,
       PairingDialogTrue

LEMMA DlgStep == DlgInv /\ [DlgNext]_dlgVars => DlgInv'
<1> SUFFICES ASSUME DlgInv, [DlgNext]_dlgVars PROVE DlgInv'
  OBVIOUS
<1>1. CASE RequestSettles
  BY <1>1, SettlingKeeps
<1>2. CASE SelectPeer \/ CloseConnect \/ UNCHANGED dlgVars
  BY <1>2, ConnectKeeps
<1>3. CASE ConfirmConnect \/ TryAgain
  BY <1>3, StartKeeps DEF ConfirmConnect, TryAgain
<1>4. CASE CancelPairing
  BY <1>4, CancelKeeps
<1>5. ASSUME NEW a \in Attempts,
             \/ InitiateAnswers(a) \/ InitiateArrives(a) \/ Wakes(a)
             \/ StatusRead(a) \/ StatusArrives(a)
      PROVE  DlgInv'
  BY <1>5, SendingKeeps, InitiateArrivesKeeps, WakingKeeps, ReadingKeeps, StatusArrivesKeeps
<1> QED
  BY <1>1, <1>2, <1>3, <1>4, <1>5 DEF DlgNext

(* The dialog of HyperBackupPage.jsx says "Paired!" or "Declined" only of  *)
(* its own attempt and only if the backend said so, and while it waits     *)
(* there is a loop that will end the wait, whatever older attempts answer. *)
THEOREM DialogSpeaksTrue == DlgSpec => []PairingDialogTrue
<1>1. DlgInv => PairingDialogTrue
  BY DEF DlgInv
<1> QED
  BY <1>1, DlgStarts, DlgStep, PTL DEF DlgSpec

-----------------------------------------------------------------------------
(* No mask is ever stored, for any number of tabs, any typed secrets and   *)
(* any sequence of loads, edits and saves. What makes it inductive is      *)
(* where a mask may be at all: in a form that was loaded, in a save of the *)
(* settings, but in nothing that is on its way to rclone.                  *)

Secrets == Typed \cup {Unset, Mask}
Bodies == [secret : Secrets, note : {"a", "b", "new", "closed", "absent"}]
Ops == {"none", "load", "loaded", "save", "test", "create", "update",
        "stored", "tested", "created"}

SecretType ==
    /\ kind \in {"remote", "settings"}
    /\ stored \in Bodies
    /\ form \in [Tabs -> Bodies]
    /\ saved \in [Tabs -> Bodies]
    /\ sent \in [Tabs -> [op : Ops, body : Bodies]]

\* A remote that is being created was typed, not loaded.
NewIsTyped ==
    \A t \in Tabs : form[t].note = "new" => kind = "remote" /\ form[t].secret # Mask

\* Nothing but the wizard for new remotes speaks of new ones.
OldIsOld ==
    /\ stored.note # "new"
    /\ \A t \in Tabs :
          /\ saved[t].note # "new"
          /\ sent[t].op \in {"loaded", "save", "test", "update", "stored"}
             => sent[t].body.note # "new"

\* What goes to rclone has no mask in it.
NoMaskForRclone ==
    \A t \in Tabs : sent[t].op \in {"create", "update"} => sent[t].body.secret # Mask

SecretInv == SecretType /\ NewIsTyped /\ OldIsOld /\ NoMaskForRclone /\ MasksNeverStored

LEMMA SecretStarts == SecretInit => SecretInv
BY TypedAssumption
DEF TypedAssumption, SecretInit, SecretInv, SecretType, NewIsTyped, OldIsOld, NoMaskForRclone,
    MasksNeverStored, Bodies, Secrets, Ops, Fields, Closed, Quiet, Mask, Unset

-----------------------------------------------------------------------------
(* Loading.                                                                *)

LEMMA OpeningKeeps ==
    ASSUME NEW t \in Tabs, SecretInv, LoadSettings(t) \/ OpenEditRemote(t) \/ OpenNewRemote(t)
    PROVE  SecretInv'
<1>1. CASE LoadSettings(t) \/ OpenEditRemote(t)
  <2>1. /\ UNCHANGED <<kind, stored, form, saved>>
        /\ sent' = [sent EXCEPT ![t] = Request("load", Closed)]
    BY <1>1 DEF LoadSettings, OpenEditRemote
  <2>2. Request("load", Closed) \in [op : Ops, body : Bodies]
    BY DEF Request, Closed, Fields, Ops, Bodies, Secrets
  <2> QED
    BY <2>1, <2>2 DEF SecretInv, SecretType, NewIsTyped, OldIsOld, NoMaskForRclone,
         MasksNeverStored, Request
<1>2. CASE OpenNewRemote(t)
  BY <1>2 DEF OpenNewRemote, SecretInv, SecretType, NewIsTyped, OldIsOld, NoMaskForRclone,
       MasksNeverStored, Bodies, Secrets, Fields, Mask, Unset
<1> QED
  BY <1>1, <1>2

LEMMA LoadingKeeps ==
    ASSUME NEW t \in Tabs, SecretInv, LoadAnswers(t) \/ LoadArrives(t)
    PROVE  SecretInv'
<1>1. CASE LoadAnswers(t)
  BY <1>1 DEF LoadAnswers, SecretInv, SecretType, NewIsTyped, OldIsOld, NoMaskForRclone,
       MasksNeverStored, Bodies, Secrets, Ops, Fields, Closed, Quiet, Request, Shown,
       MaskedSettings, Redacted, Mask, Unset
<1>2. CASE LoadArrives(t)
  BY <1>2 DEF LoadArrives, SecretInv, SecretType, NewIsTyped, OldIsOld, NoMaskForRclone,
       MasksNeverStored, Ops, Bodies, Secrets, Fields, Closed, Quiet
<1> QED
  BY <1>1, <1>2

-----------------------------------------------------------------------------
(* Editing and saving.                                                     *)

\* Whatever is put into one form, if no mask enters the form of a new remote.
LEMMA FormKeeps ==
    ASSUME NEW t \in Tabs, NEW b \in Bodies, SecretInv, form' = [form EXCEPT ![t] = b],
           b.note = "new" => kind = "remote" /\ b.secret # Mask,
           UNCHANGED <<kind, stored, saved, sent>>
    PROVE  SecretInv'
BY DEF SecretInv, SecretType, NewIsTyped, OldIsOld, NoMaskForRclone, MasksNeverStored

LEMMA TypingKeeps == ASSUME NEW t \in Tabs, SecretInv, Type(t) PROVE SecretInv'
<1>1. form[t] \in Bodies /\ UNCHANGED <<kind, stored, saved, sent>>
  BY DEF Type, SecretInv, SecretType
<1>2. ASSUME NEW s \in Typed \cup {Unset}, form' = [form EXCEPT ![t].secret = s]
      PROVE  SecretInv'
  <2> DEFINE b == [form[t] EXCEPT !.secret = s]
  <2>1. b \in Bodies /\ b.note = form[t].note /\ b.secret # Mask
    BY <1>1, TypedAssumption DEF TypedAssumption, Bodies, Secrets, Mask, Unset
  <2> HIDE DEF b
  <2>2. form' = [form EXCEPT ![t] = b]
    BY <1>2 DEF b
  <2> QED
    BY <1>1, <2>1, <2>2, FormKeeps DEF SecretInv, NewIsTyped
<1>3. ASSUME NEW n \in {"a", "b"}, form' = [form EXCEPT ![t].note = n]
      PROVE  SecretInv'
  <2> DEFINE b == [form[t] EXCEPT !.note = n]
  <2>1. b \in Bodies /\ b.note # "new"
    BY <1>1 DEF Bodies
  <2> HIDE DEF b
  <2>2. form' = [form EXCEPT ![t] = b]
    BY <1>3 DEF b
  <2> QED
    BY <1>1, <2>1, <2>2, FormKeeps
<1> QED
  BY <1>2, <1>3 DEF Type

LEMMA SavingKeeps ==
    ASSUME NEW t \in Tabs, SecretInv, SaveSettings(t) \/ SaveForTest(t) \/ SubmitRemote(t)
    PROVE  SecretInv'
<1>1. CASE SaveSettings(t) \/ SaveForTest(t)
  BY <1>1 DEF SaveSettings, SaveForTest, SecretInv, SecretType, NewIsTyped, OldIsOld,
       NoMaskForRclone, MasksNeverStored, Ops, Request
<1>2. CASE SubmitRemote(t)
  BY <1>2 DEF SubmitRemote, SecretInv, SecretType, NewIsTyped, OldIsOld, NoMaskForRclone,
       MasksNeverStored, Bodies, Secrets, Ops, Request, Mask, Unset
<1> QED
  BY <1>1, <1>2

LEMMA ClosingKeeps ==
    ASSUME NEW t \in Tabs, SecretInv, Discard(t) \/ CloseRemote(t)
    PROVE  SecretInv'
<1>1. Closed \in Bodies /\ Closed.note # "new"
  BY DEF Closed, Fields, Bodies, Secrets
<1>2. saved[t] \in Bodies /\ saved[t].note # "new"
  BY DEF SecretInv, SecretType, OldIsOld
<1> QED
  BY <1>1, <1>2, FormKeeps DEF Discard, CloseRemote

-----------------------------------------------------------------------------
(* The backend.                                                            *)

LEMMA PutKeeps == ASSUME NEW t \in Tabs, SecretInv, SettingsPut(t) PROVE SecretInv'
<1>1. SecretType'
  BY DEF SettingsPut, SecretInv, SecretType, Bodies, Secrets, Ops, Quiet, Closed, Fields, Unset
<1>2. NewIsTyped' /\ OldIsOld'
  BY DEF SettingsPut, SecretInv, SecretType, NewIsTyped, OldIsOld, Bodies, Ops, Quiet, Closed, Fields
<1>3. NoMaskForRclone' /\ MasksNeverStored'
  BY DEF SettingsPut, SecretInv, SecretType, NoMaskForRclone, MasksNeverStored, Bodies, Ops, Quiet, Closed, Fields, Mask, Unset
<1> QED
  BY <1>1, <1>2, <1>3 DEF SecretInv

LEMMA QuietBody == Quiet \in [op : Ops, body : Bodies] /\ Quiet.op = "none"
BY DEF Quiet, Closed, Fields, Ops, Bodies, Secrets

\* An answer that brings nothing leaves the tab without a request.
LEMMA QuietKeeps ==
    ASSUME NEW t \in Tabs, SecretInv, sent' = [sent EXCEPT ![t] = Quiet],
           UNCHANGED <<kind, stored, form, saved>>
    PROVE  SecretInv'
BY QuietBody DEF SecretInv, SecretType, NewIsTyped, OldIsOld, NoMaskForRclone, MasksNeverStored

\* rclone has taken what a request carried, and b is what it keeps of it.
LEMMA StoreKeeps ==
    ASSUME NEW t \in Tabs, NEW b \in Bodies, NEW op \in {"created", "stored"}, SecretInv,
           b.note # "new" /\ b.secret # Mask, stored' = b,
           op = "stored" => sent[t].body.note # "new",
           sent' = [sent EXCEPT ![t].op = op], UNCHANGED <<kind, form, saved>>
    PROVE  SecretInv'
BY DEF SecretInv, SecretType, NewIsTyped, OldIsOld, NoMaskForRclone, MasksNeverStored, Ops

LEMMA CreateKeeps == ASSUME NEW t \in Tabs, SecretInv, CreateRemote(t) PROVE SecretInv'
<1>1. CASE stored = Absent
  <2> DEFINE b == [sent[t].body EXCEPT !.note = "a"]
  <2>1. sent[t].body \in Bodies /\ sent[t].body.secret # Mask
    BY DEF CreateRemote, SecretInv, SecretType, NoMaskForRclone
  <2>2. b \in Bodies /\ b.note # "new" /\ b.secret # Mask
    BY <2>1 DEF Bodies
  <2>3. stored' = b /\ sent' = [sent EXCEPT ![t].op = "created"] /\ UNCHANGED <<kind, form, saved>>
    BY <1>1 DEF CreateRemote
  <2> QED
    BY <2>2, <2>3, StoreKeeps
<1>2. CASE stored # Absent
  BY <1>2, QuietKeeps DEF CreateRemote
<1> QED
  BY <1>1, <1>2

LEMMA UpdateKeeps == ASSUME NEW t \in Tabs, SecretInv, UpdateRemote(t) PROVE SecretInv'
<1>1. CASE stored # Absent
  <2> DEFINE b == [sent[t].body EXCEPT !.secret = IF @ = Unset THEN stored.secret ELSE @]
  <2>1. /\ sent[t].body \in Bodies /\ stored \in Bodies /\ sent[t].body.note # "new"
        /\ sent[t].body.secret # Mask /\ stored.secret # Mask
    BY DEF UpdateRemote, SecretInv, SecretType, OldIsOld, NoMaskForRclone, MasksNeverStored
  <2>2. b \in Bodies /\ b.note # "new" /\ b.secret # Mask
    BY <2>1 DEF Bodies
  <2>3. stored' = b /\ sent' = [sent EXCEPT ![t].op = "stored"] /\ UNCHANGED <<kind, form, saved>>
    BY <1>1 DEF UpdateRemote
  <2> QED
    BY <2>1, <2>2, <2>3, StoreKeeps
<1>2. CASE stored = Absent
  BY <1>2, QuietKeeps DEF UpdateRemote
<1> QED
  BY <1>1, <1>2

LEMMA DeleteKeeps == SecretInv /\ DeleteRemote => SecretInv'
BY DEF DeleteRemote, SecretInv, SecretType, NewIsTyped, OldIsOld, NoMaskForRclone,
       MasksNeverStored, Absent, Bodies, Secrets, Mask, Unset

LEMMA SavedKeeps == ASSUME NEW t \in Tabs, SecretInv, SaveArrives(t) PROVE SecretInv'
BY DEF SaveArrives, SecretInv, SecretType, NewIsTyped, OldIsOld, NoMaskForRclone,
       MasksNeverStored, Bodies, Secrets, Ops, Fields, Closed, Quiet, Unset

LEMMA SecretStep == SecretInv /\ [SecretNext]_secretVars => SecretInv'
<1> SUFFICES ASSUME SecretInv, [SecretNext]_secretVars PROVE SecretInv'
  OBVIOUS
<1>1. CASE DeleteRemote
  BY <1>1, DeleteKeeps
<1>2. ASSUME NEW t \in Tabs,
             \/ LoadSettings(t) \/ OpenEditRemote(t) \/ OpenNewRemote(t)
             \/ LoadAnswers(t) \/ LoadArrives(t)
      PROVE  SecretInv'
  BY <1>2, OpeningKeeps, LoadingKeeps
<1>3. ASSUME NEW t \in Tabs,
             \/ Type(t) \/ SaveSettings(t) \/ SaveForTest(t) \/ SubmitRemote(t)
             \/ Discard(t) \/ CloseRemote(t)
      PROVE  SecretInv'
  BY <1>3, TypingKeeps, SavingKeeps, ClosingKeeps
<1>4. ASSUME NEW t \in Tabs,
             SettingsPut(t) \/ CreateRemote(t) \/ UpdateRemote(t) \/ SaveArrives(t)
      PROVE  SecretInv'
  BY <1>4, PutKeeps, CreateKeeps, UpdateKeeps, SavedKeeps
<1>5. CASE UNCHANGED secretVars
  BY <1>5 DEF secretVars, SecretInv, SecretType, NewIsTyped, OldIsOld, NoMaskForRclone,
       MasksNeverStored
<1> QED
  BY <1>1, <1>2, <1>3, <1>4, <1>5 DEF SecretNext

(* The masks that routes/settings.js and rclone.js show for a secret never *)
(* become the secret, whatever the tabs load, type, save and discard.      *)
THEOREM NoMaskIsStored == SecretSpec => []MasksNeverStored
<1>1. SecretInv => MasksNeverStored
  BY DEF SecretInv
<1> QED
  BY <1>1, SecretStarts, SecretStep, PTL DEF SecretSpec

-----------------------------------------------------------------------------
(* The cron tasks and the resync flag follow the rows for any number of    *)
(* jobs, tabs and cron expressions. TasksMatchRows is nearly inductive;    *)
(* ResyncAfterOneWay needs a fact about every row, transferred or not: one *)
(* that says bisync without the flag has had a bisync as its last transfer.*)

Rows == [cron : Crons \cup {"none"}, enabled : BOOLEAN, dest : Dests \cup {"none"},
         dir : {"none", "upload", "download", "bisync"}, resync : BOOLEAN]
Transfers == [dir : {"none", "upload", "download", "bisync"}, resync : BOOLEAN]

FormType ==
    /\ feature \in {"ssd", "hyper", "rclone"}
    /\ row \in [Jobs -> Rows]
    /\ cron \in [Jobs -> Crons \cup {"none"}]
    /\ openForm \in [FormTabs -> [open : BOOLEAN, id : Nat, fields : Rows]]
    /\ transfer \in [Jobs -> Transfers]
    /\ last \in [Jobs -> {"nothing", "one way", "bisync"}]

\* A row that would let a bisync run without --resync had one run last.
NoDetour ==
    feature = "rclone" =>
        \A j \in Jobs :
            row[j].dir = "bisync" /\ ~row[j].resync => last[j] = "bisync"

\* One way or the other, a transfer under way is that of an rclone job.
OnlyRclone == feature # "rclone" => \A j \in Jobs : transfer[j].dir = "none"

FormInv == FormType /\ NoDetour /\ OnlyRclone /\ TasksMatchRows /\ ResyncAfterOneWay

-----------------------------------------------------------------------------
(* What the forms hold and the routes store.                               *)

LEMMA NoRowFacts ==
    /\ NoRow \in Rows /\ NoRow.cron = "none" /\ ~NoRow.enabled /\ NoRow.dir = "none"
    /\ Blank \in Rows
    /\ NoForm \in [open : BOOLEAN, id : Nat, fields : Rows]
    /\ NoTransfer \in Transfers /\ NoTransfer.dir = "none"
BY DEF NoRow, Blank, NoForm, NoTransfer, Rows, Transfers

LEMMA FilledForms ==
    ASSUME NEW f \in Rows, NEW g \in Filled(f), feature \in {"ssd", "hyper", "rclone"}
    PROVE  g \in Rows
<1>1. CASE feature = "ssd"
  <2> DEFINE h(c, e, d) == [f EXCEPT !.cron = c, !.enabled = e, !.dest = d]
  <2>1. SsdForm(f) = {h(c, e, d) : c \in Crons, e \in BOOLEAN, d \in Dests}
    BY DEF SsdForm
  <2>2. \A c \in Crons, e \in BOOLEAN, d \in Dests : h(c, e, d) \in Rows
    BY DEF Rows
  <2>3. g \in SsdForm(f)
    BY <1>1 DEF Filled
  <2> HIDE DEF h
  <2> QED
    BY <2>1, <2>2, <2>3
<1>2. CASE feature = "hyper"
  <2> DEFINE h(c, e) == [f EXCEPT !.cron = c, !.enabled = e]
  <2>1. HyperForm(f) = {h(c, e) : c \in Crons, e \in BOOLEAN}
    BY DEF HyperForm
  <2>2. \A c \in Crons, e \in BOOLEAN : h(c, e) \in Rows
    BY DEF Rows
  <2>3. g \in HyperForm(f)
    BY <1>2 DEF Filled
  <2> HIDE DEF h
  <2> QED
    BY <2>1, <2>2, <2>3
<1>3. CASE feature = "rclone"
  <2> DEFINE h(c, e, d) == [f EXCEPT !.cron = c, !.enabled = e, !.dir = d]
  <2>1. RcloneForm(f) = {h(c, e, d) : c \in Crons, e \in BOOLEAN, d \in {"upload", "download", "bisync"}}
    BY DEF RcloneForm
  <2>2. \A c \in Crons, e \in BOOLEAN, d \in {"upload", "download", "bisync"} : h(c, e, d) \in Rows
    BY DEF Rows
  <2>3. g \in RcloneForm(f)
    BY <1>3 DEF Filled
  <2> HIDE DEF h
  <2> QED
    BY <2>1, <2>2, <2>3
<1> QED
  BY <1>1, <1>2, <1>3

\* A new bisync job asks for a resync.
LEMMA CreatedRows ==
    ASSUME NEW f \in Rows, NEW r \in Create(f), feature \in {"ssd", "hyper", "rclone"}
    PROVE  /\ r \in Rows
           /\ feature = "rclone" /\ r.dir = "bisync" => r.resync
<1>1. CASE feature = "ssd"
  BY <1>1 DEF Create, CreateSsd, Fresh, Rows
<1>2. CASE feature = "hyper"
  BY <1>2 DEF Create, CreateHyper, Fresh, Rows
<1>3. CASE feature = "rclone"
  BY <1>3 DEF Create, CreateRclone, Fresh, Rows
<1> QED
  BY <1>1, <1>2, <1>3

\* An edited job goes without the flag only if it was a bisync without it.
LEMMA UpdatedRows ==
    ASSUME FormType, NEW j \in Jobs, NEW f \in Rows, NEW r \in Update(j, f)
    PROVE  /\ r \in Rows
           /\ feature = "rclone" /\ r.dir = "bisync" /\ ~r.resync
              => row[j].dir = "bisync" /\ ~row[j].resync
<1>1. row[j] \in Rows
  BY DEF FormType
<1>2. CASE feature = "ssd"
  BY <1>2 DEF Update, UpdateSsd
<1>3. CASE feature = "hyper"
  BY <1>3 DEF Update, UpdateHyper
<1>4. CASE feature = "rclone"
  BY <1>1, <1>4 DEF Update, UpdateRclone, Rows
<1> QED
  BY <1>2, <1>3, <1>4 DEF FormType

-----------------------------------------------------------------------------
(* The steps.                                                              *)

LEMMA FormStarts == FormInit => FormInv
BY NoRowFacts
DEF FormInit, FormInv, FormType, NoDetour, OnlyRclone, TasksMatchRows, ResyncAfterOneWay,
    NoForm, NoTransfer, Transfers

\* What is typed into a form changes nothing else.
LEMMA EditingKeeps ==
    ASSUME NEW t \in FormTabs, FormInv, NewForm(t) \/ EditForm(t) \/ CloseForm(t)
    PROVE  FormInv'
<1>1. PICK o \in [open : BOOLEAN, id : Nat, fields : Rows] : openForm' = [openForm EXCEPT ![t] = o]
  <2>1. CASE NewForm(t)
    BY <2>1, NoRowFacts, FilledForms DEF NewForm, Opened, FormInv, FormType
  <2>2. CASE EditForm(t)
    <3>1. PICK j \in Jobs : \E f \in Filled(row[j]) :
              openForm' = [openForm EXCEPT ![t] = Opened(j, f)]
      BY <2>2 DEF EditForm
    <3>2. PICK f \in Filled(row[j]) : openForm' = [openForm EXCEPT ![t] = Opened(j, f)]
      BY <3>1
    <3>3. f \in Rows /\ j \in Nat
      BY FilledForms, JobsAssumption DEF JobsAssumption, FormInv, FormType
    <3> QED
      BY <3>2, <3>3 DEF Opened
  <2>3. CASE CloseForm(t)
    BY <2>3, NoRowFacts DEF CloseForm, NoForm
  <2> QED
    BY <2>1, <2>2, <2>3
<1>2. UNCHANGED <<feature, row, cron, started, transfer, last>>
  BY DEF NewForm, EditForm, CloseForm
<1> QED
  BY <1>1, <1>2 DEF FormInv, FormType, NoDetour, OnlyRclone, TasksMatchRows, ResyncAfterOneWay

\* A row and its task are written in one step, and no transfer is touched.
LEMMA StoringKeeps ==
    ASSUME FormInv, NEW j \in Jobs, NEW r \in Rows,
           row' = [row EXCEPT ![j] = r], Scheduled(j, r), openForm' \in [FormTabs ->
               [open : BOOLEAN, id : Nat, fields : Rows]],
           feature = "rclone" /\ r.dir = "bisync" /\ ~r.resync => last[j] = "bisync",
           UNCHANGED <<feature, started, transfer, last>>
    PROVE  FormInv'
<1>1. r.enabled \in BOOLEAN /\ r.cron \in Crons \cup {"none"}
  BY DEF Rows
<1>2. FormType' /\ NoDetour'
  BY <1>1 DEF FormInv, FormType, NoDetour, Scheduled
<1>3. OnlyRclone' /\ ResyncAfterOneWay'
  BY DEF FormInv, FormType, OnlyRclone, ResyncAfterOneWay
<1>4. TasksMatchRows'
  BY <1>1 DEF FormInv, FormType, TasksMatchRows, Scheduled
<1> QED
  BY <1>2, <1>3, <1>4 DEF FormInv

LEMMA SubmittingKeeps ==
    ASSUME NEW t \in FormTabs, FormInv, SubmitNew(t) \/ SubmitEdit(t)
    PROVE  FormInv'
<1>1. /\ openForm[t].fields \in Rows
      /\ openForm' \in [FormTabs -> [open : BOOLEAN, id : Nat, fields : Rows]]
  BY NoRowFacts DEF FormInv, FormType, SubmitNew, SubmitEdit
<1>2. CASE SubmitNew(t)
  <2>1. PICK j \in Jobs, r \in Create(openForm[t].fields) :
            row' = [row EXCEPT ![j] = r] /\ Scheduled(j, r)
    BY <1>2 DEF SubmitNew, NextId
  <2>2. r \in Rows /\ (feature = "rclone" /\ r.dir = "bisync" => r.resync)
    BY <1>1, CreatedRows DEF FormInv, FormType
  <2> QED
    BY <1>1, <1>2, <2>1, <2>2, StoringKeeps DEF SubmitNew
<1>3. CASE SubmitEdit(t)
  <2>1. PICK j \in Jobs : \E r \in Update(j, openForm[t].fields) :
            row' = [row EXCEPT ![j] = r] /\ Scheduled(j, r)
    BY <1>3 DEF SubmitEdit, Updated
  <2>2. PICK r \in Update(j, openForm[t].fields) :
            row' = [row EXCEPT ![j] = r] /\ Scheduled(j, r)
    BY <2>1
  <2>3. /\ r \in Rows
        /\ feature = "rclone" /\ r.dir = "bisync" /\ ~r.resync => last[j] = "bisync"
    BY <1>1, UpdatedRows DEF FormInv, NoDetour
  <2> QED
    BY <1>1, <1>3, <2>2, <2>3, StoringKeeps DEF SubmitEdit
<1> QED
  BY <1>2, <1>3

LEMMA DeletingKeeps == FormInv /\ DeleteJob => FormInv'
<1> SUFFICES ASSUME FormInv, DeleteJob PROVE FormInv'
  OBVIOUS
<1>1. PICK j \in Jobs : row' = [row EXCEPT ![j] = NoRow] /\ Scheduled(j, NoRow)
  BY NoRowFacts DEF DeleteJob, Scheduled
<1> QED
  BY <1>1, NoRowFacts, StoringKeeps DEF DeleteJob, FormInv, FormType

LEMMA ProcessKeeps == FormInv /\ (Stop \/ StartScheduler) => FormInv'
<1> SUFFICES ASSUME FormInv, Stop \/ StartScheduler PROVE FormInv'
  OBVIOUS
<1>1. CASE Stop
  BY <1>1, NoRowFacts DEF Stop, FormInv, FormType, NoDetour, OnlyRclone, TasksMatchRows,
       ResyncAfterOneWay
<1>2. CASE StartScheduler
  <2>1. \A j \in Jobs : row[j].cron \in Crons \cup {"none"}
    BY DEF FormInv, FormType, Rows
  <2> QED
    BY <1>2, <2>1 DEF StartScheduler, FormInv, FormType, NoDetour, OnlyRclone, TasksMatchRows,
         ResyncAfterOneWay
<1> QED
  BY <1>1, <1>2

LEMMA TransferStarts == ASSUME NEW j \in Jobs, FormInv, StartTransfer(j) PROVE FormInv'
<1>1. row[j] \in Rows
  BY DEF FormInv, FormType
<1>2. FormType'
  BY <1>1 DEF StartTransfer, FormInv, FormType, Rows, Transfers
<1>3. NoDetour' /\ OnlyRclone' /\ TasksMatchRows' /\ ResyncAfterOneWay'
  BY DEF StartTransfer, FormInv, FormType, NoDetour, OnlyRclone, TasksMatchRows,
         ResyncAfterOneWay
<1> QED
  BY <1>2, <1>3 DEF FormInv

LEMMA TransferStops ==
    ASSUME NEW j \in Jobs, NEW ok \in BOOLEAN, FormInv, TransferEnds(j, ok)
    PROVE  FormInv'
<1> DEFINE r == IF ok /\ transfer[j].resync /\ transfer[j].dir = "bisync" /\ Exists(j)
                THEN [row[j] EXCEPT !.resync = FALSE] ELSE row[j]
<1>1. /\ r \in Rows /\ r.cron = row[j].cron /\ r.enabled = row[j].enabled /\ r.dir = row[j].dir
      /\ r.resync = row[j].resync \/ (ok /\ transfer[j].dir = "bisync")
  <2>1. row[j] \in Rows
    BY DEF FormInv, FormType
  <2> QED
    BY <2>1 DEF Rows
<1>2. /\ row' = [row EXCEPT ![j] = r]
      /\ transfer' = [transfer EXCEPT ![j] = NoTransfer]
      /\ last' = IF ok /\ transfer[j].dir = "bisync" THEN [last EXCEPT ![j] = "bisync"] ELSE last
      /\ UNCHANGED <<feature, cron, started, openForm>>
  BY DEF TransferEnds, FormInv, FormType
<1> HIDE DEF r
<1>3. FormType'
  BY <1>1, <1>2, NoRowFacts DEF FormInv, FormType
<1>4. TasksMatchRows'
  BY <1>1, <1>2 DEF FormInv, FormType, TasksMatchRows
<1>5. NoDetour' /\ OnlyRclone' /\ ResyncAfterOneWay'
  BY <1>1, <1>2, NoRowFacts DEF FormInv, FormType, NoDetour, OnlyRclone, ResyncAfterOneWay
<1> QED
  BY <1>3, <1>4, <1>5 DEF FormInv

LEMMA FormStep == FormInv /\ [FormNext]_formVars => FormInv'
<1> SUFFICES ASSUME FormInv, [FormNext]_formVars PROVE FormInv'
  OBVIOUS
<1>1. CASE DeleteJob \/ Stop \/ StartScheduler
  BY <1>1, DeletingKeeps, ProcessKeeps
<1>2. ASSUME NEW t \in FormTabs,
             NewForm(t) \/ EditForm(t) \/ CloseForm(t) \/ SubmitNew(t) \/ SubmitEdit(t)
      PROVE  FormInv'
  BY <1>2, EditingKeeps, SubmittingKeeps
<1>3. ASSUME NEW j \in Jobs, StartTransfer(j) \/ \E ok \in BOOLEAN : TransferEnds(j, ok)
      PROVE  FormInv'
  BY <1>3, TransferStarts, TransferStops
<1>4. CASE UNCHANGED formVars
  BY <1>4 DEF formVars, FormInv, FormType, NoDetour, OnlyRclone, TasksMatchRows,
       ResyncAfterOneWay
<1> QED
  BY <1>1, <1>2, <1>3, <1>4 DEF FormNext

LEMMA FormInvariant == FormSpec => []FormInv
BY FormStarts, FormStep, PTL DEF FormSpec

(* The create, update and delete routes and startScheduler keep the cron   *)
(* tasks in step with the rows, whichever tab saves what.                  *)
THEOREM TasksFollowRows == FormSpec => []TasksMatchRows
<1>1. FormInv => TasksMatchRows
  BY DEF FormInv
<1> QED
  BY <1>1, FormInvariant, PTL

(* A bisync that runs without --resync follows a bisync, whatever edits,   *)
(* failures and restarts came before it.                                   *)
THEOREM DetoursResync == FormSpec => []ResyncAfterOneWay
<1>1. FormInv => ResyncAfterOneWay
  BY DEF FormInv
<1> QED
  BY <1>1, FormInvariant, PTL

-----------------------------------------------------------------------------
(* The polling goes on for any number of runs and page loads, in whatever  *)
(* batches React renders them. Runs that leave a set that is polled for    *)
(* have ended: what the ref misses of the effect's runs, what the state    *)
(* misses of the rendered runs, what a poll does not ask for. So a poll    *)
(* after which nothing is scheduled was the last one that was needed.      *)

Statuses == {"none", "running", "cancelling", "ended"}
Requests == [op : {"none", "run", "claimed", "cancel", "stopping", "cancelled"},
             run : Runs \cup {0}]

HookType ==
    /\ visible \in BOOLEAN /\ timer \in BOOLEAN
    /\ run \in [Runs -> Statuses]
    /\ asked \in Requests /\ (asked.op = "claimed" => asked.run \in Runs)
    /\ activeRuns \subseteq Runs /\ tracked \subseteq Runs
    /\ runIdsKey \subseteq Runs /\ activeRunsRef \subseteq Runs
    /\ DOMAIN poll \subseteq Runs

Gone(ids) == \A r \in ids : run[r] = "ended"

HookInv ==
    /\ HookType
    /\ Gone(runIdsKey \ activeRunsRef)
    /\ Gone((tracked \cup runIdsKey) \ activeRuns)
    /\ Gone(OverIn(poll))
    /\ poll # NoPoll => Gone(runIdsKey \ DOMAIN poll)
    /\ visible /\ poll = NoPoll /\ ~timer => Gone(runIdsKey)

LEMMA HookPollsOn == HookInv => PollingGoesOn
BY DEF HookInv, HookType, PollingGoesOn, Gone

LEMMA AskingFacts ==
    ASSUME NEW ids
    PROVE  DOMAIN Asking(ids) = ids /\ OverIn(Asking(ids)) = {} /\ (Asking(ids) = NoPoll => ids = {})
<1>1. DOMAIN Asking(ids) = ids /\ OverIn(Asking(ids)) = {}
  BY DEF Asking, OverIn
<1>2. DOMAIN NoPoll = {}
  BY DEF NoPoll
<1> QED
  BY <1>1, <1>2

LEMMA NoPollFacts == DOMAIN NoPoll = {} /\ OverIn(NoPoll) = {}
BY DEF NoPoll, OverIn

\* Runs only ever start, are cancelled and end: what has ended stays so.
RunsGoOn ==
    /\ run' \in [Runs -> Statuses]
    /\ \A r \in Runs : run[r] = "ended" => run'[r] = "ended"

AskedFits == asked' \in Requests /\ (asked'.op = "claimed" => asked'.run \in Runs)

LEMMA HookRests ==
    HookInv /\ UNCHANGED <<hook, visible>> /\ RunsGoOn /\ AskedFits => HookInv'
<1> SUFFICES ASSUME HookInv, UNCHANGED <<hook, visible>>, RunsGoOn, AskedFits PROVE HookInv'
  OBVIOUS
<1>1. HookType'
  BY DEF HookInv, HookType, hook, RunsGoOn, AskedFits
<1>2. OverIn(poll) \subseteq DOMAIN poll /\ OverIn(poll') = OverIn(poll)
  BY DEF OverIn, hook
<1> QED
  BY <1>1, <1>2 DEF HookInv, HookType, hook, RunsGoOn, Gone, OverIn

LEMMA RunsRest == HookInv /\ UNCHANGED run => RunsGoOn
BY DEF HookInv, HookType, RunsGoOn

LEMMA AskedRests == HookInv /\ UNCHANGED asked => AskedFits
BY DEF HookInv, HookType, AskedFits

LEMMA NothingAskedFits == asked' = NoRequest => AskedFits
BY DEF AskedFits, NoRequest, Requests

LEMMA TrackingKeeps ==
    ASSUME NEW ids, HookInv, Track(activeRuns \cup ids), ids \subseteq Runs,
           UNCHANGED <<visible, run>>, AskedFits
    PROVE  HookInv'
BY DEF Track, HookInv, HookType, Gone, OverIn, AskedFits

LEMMA RenderKeeps == HookInv /\ Render => HookInv'
BY DEF Render, HookInv, HookType, Gone, OverIn, server

LEMMA EffectsKeep == HookInv /\ RunEffects => HookInv'
<1> SUFFICES ASSUME HookInv, RunEffects PROVE HookInv'
  OBVIOUS
<1>1. HookType' /\ Gone(runIdsKey \ activeRunsRef)' /\ Gone((tracked \cup runIdsKey) \ activeRuns)'
  <2>1. DOMAIN poll' \subseteq Runs
    BY AskingFacts, NoPollFacts DEF RunEffects, HookInv, HookType
  <2> QED
    BY <2>1 DEF RunEffects, HookInv, HookType, Gone, server
<1>2. CASE tracked = runIdsKey
  BY <1>1, <1>2 DEF RunEffects, HookInv, Gone, OverIn, server
<1>3. CASE tracked # runIdsKey
  <2>1. CASE visible
    BY <1>1, <1>3, <2>1, AskingFacts DEF RunEffects, HookInv, Gone, server
  <2>2. CASE ~visible
    BY <1>1, <1>3, <2>2, NoPollFacts DEF RunEffects, HookInv, Gone, server
  <2> QED
    BY <2>1, <2>2
<1> QED
  BY <1>2, <1>3

LEMMA UnmountingKeeps == HookInv /\ Unmount /\ UNCHANGED <<visible, run>> => HookInv'
BY NothingAskedFits, NoPollFacts DEF Unmount, HookInv, HookType, Gone, AskedFits

LEMMA PollDoneKeeps == HookInv /\ PollDone => HookInv'
<1> SUFFICES ASSUME HookInv, PollDone PROVE HookInv'
  OBVIOUS
<1>1. HookType'
  BY NoPollFacts DEF PollDone, PollTold, HookInv, HookType, server
<1>2. Gone(runIdsKey \ activeRunsRef)' /\ Gone((tracked \cup runIdsKey) \ activeRuns)'
  BY DEF PollDone, PollTold, HookInv, Gone, server
<1>3. ~timer' /\ visible => Gone(runIdsKey)'
  <2>1. ASSUME ~timer', visible PROVE OverIn(poll) = DOMAIN poll
    BY <2>1 DEF PollDone, PollTold
  <2> QED
    BY <2>1 DEF PollDone, PollTold, HookInv, Gone, server
<1> QED
  BY <1>1, <1>2, <1>3, NoPollFacts DEF PollDone, PollTold, HookInv, Gone, server

\* An answer that is read leaves the poll what it was: a function of the same
\* runs, of which only one that has ended becomes over.
LEMMA PollReadKeeps == ASSUME NEW r \in Runs, HookInv, PollReads(r) PROVE HookInv'
<1>1. poll # NoPoll /\ DOMAIN poll' = DOMAIN poll /\ r \in DOMAIN poll
  BY DEF PollReads, NoPoll
<1>2. poll' # NoPoll
  BY <1>1 DEF NoPoll
<1>3. ASSUME NEW q \in OverIn(poll') PROVE run[q] = "ended"
  <2>1. CASE q = r
    BY <2>1, <1>1, <1>3 DEF PollReads, OverIn
  <2>2. CASE q # r
    BY <2>2, <1>1, <1>3 DEF PollReads, OverIn, HookInv, Gone
  <2> QED
    BY <2>1, <2>2
<1> QED
  BY <1>1, <1>2, <1>3 DEF PollReads, HookInv, HookType, Gone, followed, server

LEMMA TimerKeeps == HookInv /\ TimerFires => HookInv'
<1> SUFFICES ASSUME HookInv, TimerFires PROVE HookInv'
  OBVIOUS
<1>1. /\ DOMAIN poll' = activeRunsRef /\ OverIn(poll') = {}
      /\ poll' = NoPoll => activeRunsRef = {}
  BY AskingFacts DEF TimerFires
<1>2. UNCHANGED <<followed, run, visible, asked>> /\ timer' = FALSE
  BY DEF TimerFires, server
<1> QED
  BY <1>1, <1>2 DEF HookInv, HookType, Gone, followed

LEMMA FollowingKeeps == HookInv /\ Following => HookInv'
BY TimerKeeps, PollDoneKeeps, PollReadKeeps DEF Following

LEMMA LoadingKeepsPolls == HookInv /\ Loading => HookInv'
<1>1. ASSUME HookInv, Tick PROVE HookInv'
  BY <1>1, HookRests, RunsRest, AskedRests DEF Tick, server
<1>2. ASSUME NEW s \in Slots, HookInv, ListsRead(s) \/ RunsLoadDone(s) PROVE HookInv'
  BY <1>2, HookRests, RunsRest, AskedRests DEF ListsRead, RunsLoadDone, server
<1>3. ASSUME NEW s \in Slots, HookInv, FullLoadDone(s) PROVE HookInv'
  <2>1. UNCHANGED <<visible, run, asked>> /\ Detected(loads[s].run) \subseteq Runs
    BY <1>3 DEF FullLoadDone, server, Detected
  <2>2. CASE Page[tab].follows
    BY <1>3, <2>1, <2>2, TrackingKeeps, AskedRests DEF FullLoadDone
  <2>3. CASE ~Page[tab].follows
    BY <1>3, <2>1, <2>3, HookRests, RunsRest, AskedRests DEF FullLoadDone
  <2> QED
    BY <2>2, <2>3
<1> QED
  BY <1>1, <1>2, <1>3 DEF Loading, LoadSteps

LEMMA RunAnswersKeep == HookInv /\ (RunRouteAnswers \/ RunAnswerArrives) => HookInv'
<1>1. ASSUME HookInv, RunRouteAnswers PROVE HookInv'
  <2>1. RunsGoOn
    BY <1>1 DEF RunRouteAnswers, RunsGoOn, HookInv, HookType, Claimable, Statuses
  <2>2. AskedFits
    BY <1>1 DEF RunRouteAnswers, AskedFits, NoRequest, Requests
  <2> QED
    BY <1>1, <2>1, <2>2, HookRests DEF RunRouteAnswers
<1>2. ASSUME HookInv, RunAnswerArrives PROVE HookInv'
  <2>1. {asked.run} \subseteq Runs /\ UNCHANGED <<visible, run>> /\ asked' = NoRequest
    BY <1>2 DEF RunAnswerArrives, HookInv, HookType, server
  <2> QED
    BY <1>2, <2>1, TrackingKeeps, NothingAskedFits DEF RunAnswerArrives
<1> QED
  BY <1>1, <1>2

LEMMA CancelAnswersKeep ==
    HookInv /\ (CancelRouteReads \/ MediaCancelReads \/ MediaCancelStops) => HookInv'
<1> SUFFICES ASSUME HookInv, CancelRouteReads \/ MediaCancelReads \/ MediaCancelStops
             PROVE  HookInv'
  OBVIOUS
<1>1. RunsGoOn
  BY DEF CancelRouteReads, MediaCancelReads, MediaCancelStops, RunsGoOn, HookInv, HookType,
         Statuses, server
<1>2. AskedFits
  BY DEF CancelRouteReads, MediaCancelReads, MediaCancelStops, AskedFits, HookInv, HookType,
         NoRequest, Requests
<1> QED
  BY <1>1, <1>2, HookRests DEF CancelRouteReads, MediaCancelReads, MediaCancelStops

LEMMA AnswersKeepPolls == HookInv /\ Answers => HookInv'
<1>1. HookInv /\ CancelAnswerArrives => HookInv'
  BY HookRests, RunsRest, NothingAskedFits DEF CancelAnswerArrives, server
<1>2. HookInv /\ DialogAnswered => HookInv'
  BY HookRests, RunsRest, AskedRests DEF DialogAnswered
<1> QED
  BY <1>1, <1>2, RunAnswersKeep, CancelAnswersKeep DEF Answers

LEMMA ClicksKeepPolls == HookInv /\ Clicks => HookInv'
<1>1. HookInv /\ (ClickRun \/ ClickCancel) => AskedFits
  BY DEF ClickRun, ClickCancel, AskedFits, HookInv, HookType, Requests
<1>2. HookInv /\ (ClickRun \/ ClickCancel) => HookInv'
  BY <1>1, HookRests, RunsRest DEF ClickRun, ClickCancel, server
<1>3. HookInv /\ (ClickHistory \/ ClickRetry \/ OpenDialog \/ ClickConfirm \/ CloseDialog)
        => HookInv'
  BY HookRests, RunsRest, AskedRests
  DEF ClickHistory, ClickRetry, OpenDialog, ClickConfirm, CloseDialog, server
<1> QED
  BY <1>2, <1>3 DEF Clicks

LEMMA BackendKeepsPolls == HookInv /\ Backend => HookInv'
<1> SUFFICES ASSUME HookInv, Backend PROVE HookInv'
  OBVIOUS
<1>1. RunsGoOn
  BY DEF Backend, StartElsewhere, RunFinishes, GoDown, ComeUp, SessionEnds, RunsGoOn, HookInv,
         HookType, Claimable, Statuses
<1>2. UNCHANGED <<hook, visible, asked>>
  BY DEF Backend, StartElsewhere, RunFinishes, GoDown, ComeUp, SessionEnds
<1> QED
  BY <1>1, <1>2, HookRests, AskedRests

LEMMA HidingKeeps == HookInv /\ Hide => HookInv'
BY DEF Hide, HookInv, HookType, Gone, OverIn, followed, server

LEMMA ShowingKeeps == HookInv /\ Show => HookInv'
<1> SUFFICES ASSUME HookInv, Show PROVE HookInv'
  OBVIOUS
<1>1. CASE poll = NoPoll /\ runIdsKey # {}
  <2>1. /\ DOMAIN poll' = activeRunsRef /\ OverIn(poll') = {}
        /\ poll' = NoPoll => activeRunsRef = {}
    BY <1>1, AskingFacts DEF Show
  <2>2. UNCHANGED <<followed, run, asked>> /\ timer' = FALSE /\ visible' = TRUE
    BY DEF Show, server
  <2> QED
    BY <2>1, <2>2 DEF HookInv, HookType, Gone, followed
<1>2. CASE ~(poll = NoPoll /\ runIdsKey # {})
  BY <1>2 DEF Show, HookInv, HookType, Gone, OverIn, followed, server
<1> QED
  BY <1>1, <1>2

LEMMA ShellKeepsPolls == HookInv /\ Shell => HookInv'
<1>1. ASSUME HookInv, OpenPage \/ LeavePage \/ SignedOut \/ SignIn PROVE HookInv'
  BY <1>1, UnmountingKeeps DEF OpenPage, LeavePage, SignedOut, SignIn, Mount, server
<1>2. ASSUME HookInv, CheckHealth PROVE HookInv'
  BY <1>2, HookRests, RunsRest, AskedRests DEF CheckHealth, server
<1> QED
  BY <1>1, <1>2, HidingKeeps, ShowingKeeps DEF Shell

LEMMA JobStep == HookInv /\ [JobNext]_jobVars => HookInv'
<1>1. HookInv /\ UNCHANGED jobVars => HookInv'
  BY HookRests, RunsRest, AskedRests DEF jobVars, server
<1> QED
  BY <1>1, RenderKeeps, EffectsKeep, FollowingKeeps, LoadingKeepsPolls, AnswersKeepPolls,
     ClicksKeepPolls, BackendKeepsPolls, ShellKeepsPolls
  DEF JobNext, React

(* useJobProgress.js: as long as a run that goes on is followed on a       *)
(* visible page, a poll is on its way or scheduled, or due with the        *)
(* effects of a render, in whatever batches the answers are rendered.      *)
THEOREM PollingNeverSleeps == JobSpec => []PollingGoesOn
<1>1. ASSUME JobInit PROVE HookInv
  <2>1. HookType
    BY <1>1, NoPollFacts DEF JobInit, HookType, Unstarted, Statuses, NoRequest, Requests
  <2>2. OverIn(poll) = {} /\ runIdsKey = {} /\ tracked = {}
    BY <1>1, NoPollFacts DEF JobInit
  <2> QED
    BY <2>1, <2>2 DEF HookInv, Gone
<1> QED
  BY <1>1, HookPollsOn, JobStep, PTL DEF JobSpec

-----------------------------------------------------------------------------
(* The console implements each of its parts: the steps of the others leave *)
(* it alone. So what was proved of the parts holds of all of them together.*)

LEMMA ConsoleStartsParts == ConsoleInit => JobInit /\ DlgInit /\ SecretInit /\ FormInit
BY DEF ConsoleInit

LEMMA ConsoleStepsParts ==
    [ConsoleNext]_consoleVars =>
        [JobNext]_jobVars /\ [DlgNext]_dlgVars /\ [SecretNext]_secretVars /\ [FormNext]_formVars
BY DEF ConsoleNext, consoleVars

LEMMA ConsoleImplementsParts ==
    ConsoleSpec => JobSpec /\ DlgSpec /\ SecretSpec /\ FormSpec
BY ConsoleStartsParts, ConsoleStepsParts, PTL DEF ConsoleSpec, JobSpec, DlgSpec, SecretSpec, FormSpec

(* The safety of the console as a whole: polling, pairing dialog, masked   *)
(* secrets, cron tasks and the resync flag.                                *)
THEOREM ConsoleIsTrue ==
    ConsoleSpec => [](/\ PollingGoesOn /\ PairingDialogTrue /\ MasksNeverStored
                      /\ TasksMatchRows /\ ResyncAfterOneWay)
BY ConsoleImplementsParts, PollingNeverSleeps, DialogSpeaksTrue, NoMaskIsStored, TasksFollowRows,
   DetoursResync, PTL

=============================================================================
