CONSTANTS
    Runs = {1, 2}
    Slots = {1, 2}
    MaxEvents = 1
    Drills = {1, 2}
    Polls = {1, 2}
    MaxDrillEvents = 5
    MaxAttempts = 3
    MaxRounds = 2
    Tabs = {t1, t2}
    Typed = {"x"}
    MaxSecretEvents = 3
    Jobs = {1, 2}
    FormTabs = {t1, t2}
    Crons = {"hourly", "daily"}
    MaxFormEvents = 3
SPECIFICATION ConsoleSpec
INVARIANTS PollingGoesOn PairingDialogTrue MasksNeverStored TasksMatchRows ResyncAfterOneWay
PROPERTIES ScreenCatchesUp
CHECK_DEADLOCK FALSE
