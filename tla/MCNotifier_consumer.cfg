CONSTANTS
    n1 = n1
    n2 = n2
    Member <- MCMember
    NoMember = NoMember
    MaxMessages = 3
    MaxCrashes = 1
    MaxCommitFails = 1
    MaxRebalances = 1

SPECIFICATION Spec

INVARIANT CommittedWereHandled

PROPERTY EveryMessageHandled
