SPECIFICATION Spec
CONSTANTS
    Specs <- MCSpecs
    TimeLock = 1
    CreateAttempts = 2
    MaxPolicies = 64
    Funding = 1
    Amounts = {1, 2}
    MaxMints = 2
    MaxOthers = 1
    MaxAccounts = 1
    MaxSpends = 1
    MaxEdits = 1
    MaxFaults = 1
    MaxTime = 1
    None = None
INVARIANTS TabMatchesTheChain AuthorityComesFromOwners 
CHECK_DEADLOCK FALSE
