CONSTANTS
    Nodes = {A, B}
    MaxPairings = 2
    MaxActive = 1
    MaxRare = 1
    EnvEvents = {"offer", "decline", "lose", "expire", "crash", "failure", "unpair"}
    None = None
SPECIFICATION FairSpec
INVARIANTS CredentialsWereAuthorised AcceptedIsMutual DeclinedGrantsNothing
PROPERTIES AcceptingEnds
CHECK_DEADLOCK FALSE
