---------------------------- MODULE SecretForms ----------------------------
(* The two forms of the console that show stored secrets as a mask: the    *)
(* settings page and the rclone remote dialog. The backend masks a secret  *)
(* on the way out; on the way back the settings route drops a mask that    *)
(* nobody typed over, while for remotes the page does. Two tabs edit the   *)
(* same secret; a reconnect loads the settings again under an open form.   *)
EXTENDS Naturals

CONSTANTS
    Tabs,            \* browser tabs
    Typed,           \* secrets a user may type
    MaxSecretEvents  \* bound on edits, saves and reloads

Mask == "masked"

ASSUME TypedAssumption == Mask \notin Typed /\ MaxSecretEvents \in Nat

Unset == "unset"
Absent == [secret |-> Unset, note |-> "absent"]
Fields(s, n) == [secret |-> s, note |-> n]
Closed == Fields(Unset, "closed")

VARIABLES
    kind,     \* which form: "remote" or "settings"
    stored,   \* the row of settings, or the remote in rclone's config
    form,     \* settings / remoteForm of each tab
    saved,    \* savedSettings of each tab
    sent,     \* what each tab's request carries: [op, body]
    secretEvents

secretVars == <<kind, stored, form, saved, sent, secretEvents>>

Quiet == [op |-> "none", body |-> Closed]
Request(op, f) == [op |-> op, body |-> f]
Bump == secretEvents < MaxSecretEvents /\ secretEvents' = secretEvents + 1

\* SENSITIVE_KEYS of the settings route; redactSensitive of the rclone service.
MaskedSettings(f) == [f EXCEPT !.secret = IF @ = Unset THEN Unset ELSE Mask]
Redacted(f) == [f EXCEPT !.secret = IF @ = Unset THEN Unset ELSE Mask]
Shown(f) == IF kind = "settings" THEN MaskedSettings(f) ELSE Redacted(f)

-----------------------------------------------------------------------------
(* Loading *)

\* loadSettings, at mount and after every reconnect, whatever is being edited.
LoadSettings(t) ==
    /\ kind = "settings" /\ sent[t] = Quiet /\ Bump
    /\ sent' = [sent EXCEPT ![t] = Request("load", Closed)]
    /\ UNCHANGED <<kind, stored, form, saved>>

\* openEditRemote
OpenEditRemote(t) ==
    /\ kind = "remote" /\ form[t] = Closed /\ sent[t] = Quiet /\ Bump
    /\ sent' = [sent EXCEPT ![t] = Request("load", Closed)]
    /\ UNCHANGED <<kind, stored, form, saved>>

\* openNewRemote: the wizard asks for a name, then for the parameters.
OpenNewRemote(t) ==
    /\ kind = "remote" /\ form[t] = Closed /\ sent[t] = Quiet /\ Bump
    /\ form' = [form EXCEPT ![t] = Fields(Unset, "new")]
    /\ UNCHANGED <<kind, stored, saved, sent>>

\* GET settings, GET remotes/:name/config
LoadAnswers(t) ==
    /\ sent[t].op = "load"
    /\ sent' = [sent EXCEPT ![t] =
          IF stored = Absent THEN Quiet ELSE Request("loaded", Shown(stored))]
    /\ UNCHANGED <<kind, stored, form, saved, secretEvents>>

LoadArrives(t) ==
    /\ sent[t].op = "loaded"
    /\ form' = [form EXCEPT ![t] = sent[t].body]
    /\ saved' = [saved EXCEPT ![t] = sent[t].body]
    /\ sent' = [sent EXCEPT ![t] = Quiet]
    /\ UNCHANGED <<kind, stored, secretEvents>>

-----------------------------------------------------------------------------
(* Editing and saving *)

\* update, updateRemoteParam
Type(t) ==
    /\ form[t] # Closed /\ Bump
    /\ \/ \E s \in Typed \cup {Unset} : form' = [form EXCEPT ![t].secret = s]
       \/ form[t].note # "new" /\ \E n \in {"a", "b"} : form' = [form EXCEPT ![t].note = n]
    /\ UNCHANGED <<kind, stored, saved, sent>>

\* handleSave sends the whole form, mask included.
SaveSettings(t) ==
    /\ kind = "settings" /\ form[t] # Closed /\ sent[t] = Quiet
    /\ sent' = [sent EXCEPT ![t] = Request("save", form[t])]
    /\ UNCHANGED <<kind, stored, form, saved, secretEvents>>

\* doSave, and the toggles: the same save, which savedSettings hear nothing of.
SaveForTest(t) ==
    /\ kind = "settings" /\ form[t] # Closed /\ sent[t] = Quiet
    /\ sent' = [sent EXCEPT ![t] = Request("test", form[t])]
    /\ UNCHANGED <<kind, stored, form, saved, secretEvents>>

Discard(t) ==
    /\ kind = "settings" /\ form[t] # Closed
    /\ form' = [form EXCEPT ![t] = saved[t]]
    /\ UNCHANGED <<kind, stored, saved, sent, secretEvents>>

\* Mutant of SubmitRemote: the page sends the form as it stands.
SubmitRemoteAsShown(t) ==
    /\ kind = "remote" /\ form[t] # Closed /\ sent[t] = Quiet
    /\ sent' = [sent EXCEPT ![t] =
          Request(IF form[t].note = "new" THEN "create" ELSE "update", form[t])]
    /\ UNCHANGED <<kind, stored, form, saved, secretEvents>>

\* handleRemoteSubmit: an update leaves out what still shows the mask.
SubmitRemote(t) ==
    /\ kind = "remote" /\ form[t] # Closed /\ sent[t] = Quiet
    /\ sent' = [sent EXCEPT ![t] =
          IF form[t].note = "new" THEN Request("create", form[t])
          ELSE Request("update", [form[t] EXCEPT !.secret = IF @ = Mask THEN Unset ELSE @])]
    /\ UNCHANGED <<kind, stored, form, saved, secretEvents>>

CloseRemote(t) ==
    /\ kind = "remote" /\ form[t] # Closed /\ sent[t] = Quiet
    /\ form' = [form EXCEPT ![t] = Closed]
    /\ UNCHANGED <<kind, stored, saved, sent, secretEvents>>

-----------------------------------------------------------------------------
(* The backend *)

\* PUT settings: masks are dropped, an empty value is stored.
SettingsPut(t) ==
    /\ sent[t].op \in {"save", "test"}
    /\ stored' = [sent[t].body EXCEPT !.secret = IF @ = Mask THEN stored.secret ELSE @]
    /\ sent' = [sent EXCEPT ![t].op = IF @ = "save" THEN "stored" ELSE "tested"]
    /\ UNCHANGED <<kind, form, saved, secretEvents>>

\* createRemote refuses a name that exists.
CreateRemote(t) ==
    /\ sent[t].op = "create"
    /\ IF stored = Absent
       THEN /\ stored' = [sent[t].body EXCEPT !.note = "a"]
            /\ sent' = [sent EXCEPT ![t].op = "created"]
       ELSE UNCHANGED stored /\ sent' = [sent EXCEPT ![t] = Quiet]
    /\ UNCHANGED <<kind, form, saved, secretEvents>>

\* updateRemote: rclone config update with the values that are not empty.
UpdateRemote(t) ==
    /\ sent[t].op = "update"
    /\ IF stored # Absent
       THEN /\ stored' = [sent[t].body EXCEPT !.secret = IF @ = Unset THEN stored.secret ELSE @]
            /\ sent' = [sent EXCEPT ![t].op = "stored"]
       ELSE UNCHANGED stored /\ sent' = [sent EXCEPT ![t] = Quiet]
    /\ UNCHANGED <<kind, form, saved, secretEvents>>

\* confirmDeleteRemote, deleteRemote
DeleteRemote ==
    /\ kind = "remote" /\ stored # Absent /\ Bump
    /\ stored' = Absent
    /\ UNCHANGED <<kind, form, saved, sent>>

\* A save of the settings is remembered, plain secret and all; a remote's
\* dialog closes, or moves on to the test of the new remote.
SaveArrives(t) ==
    /\ sent[t].op \in {"stored", "tested", "created"}
    /\ sent' = [sent EXCEPT ![t] = Quiet]
    /\ form' = IF kind = "remote" THEN [form EXCEPT ![t] = Closed] ELSE form
    /\ saved' = IF kind = "settings" /\ sent[t].op = "stored"
                THEN [saved EXCEPT ![t] = sent[t].body] ELSE saved
    /\ UNCHANGED <<kind, stored, secretEvents>>

SecretInit ==
    /\ kind \in {"remote", "settings"}
    /\ stored \in {Fields(s, "a") : s \in Typed \cup {Unset}}
    /\ form = [t \in Tabs |-> Closed] /\ saved = [t \in Tabs |-> Closed]
    /\ sent = [t \in Tabs |-> Quiet] /\ secretEvents = 0

SecretNext ==
    \/ DeleteRemote
    \/ \E t \in Tabs :
          \/ LoadSettings(t) \/ OpenEditRemote(t) \/ OpenNewRemote(t)
          \/ LoadAnswers(t) \/ LoadArrives(t) \/ Type(t) \/ SaveSettings(t)
          \/ SaveForTest(t) \/ Discard(t) \/ SubmitRemote(t) \/ CloseRemote(t)
          \/ SettingsPut(t) \/ CreateRemote(t) \/ UpdateRemote(t) \/ SaveArrives(t)

SecretSpec == SecretInit /\ [][SecretNext]_secretVars

-----------------------------------------------------------------------------
(* A mask that was shown in place of a secret never becomes the secret: no *)
(* order of loads, edits, saves, tests, discards and reconnects of the two *)
(* tabs brings it back into the settings or into rclone's config.          *)
MasksNeverStored == stored.secret # Mask
=============================================================================
