SPECIFICATION Spec
CONSTANTS
    Specs <- MCSpecs
    TimeLock = 1
    CreateAttempts = 2
    MaxPolicies = 64
    Funding = 1
    Amounts = {1}
    MaxMints = 2
    MaxOthers = 0
    MaxAccounts = 1
    MaxSpends = 1
    MaxEdits = 0
    MaxFaults = 0
    MaxTime = 1
    None = None
INVARIANT SameIsAlwaysTicked
CHECK_DEADLOCK FALSE
