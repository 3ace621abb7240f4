CONSTANTS
    Versions = {4, 12, 16, 22, 24, 30}
    MaxCrashes = 1
SPECIFICATION FairSpec
INVARIANTS ServesComplete GrantsMatchLines
PROPERTIES SettingsCarriedOver StartsEventually
CHECK_DEADLOCK FALSE
