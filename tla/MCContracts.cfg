SPECIFICATION Spec
CONSTANTS
    Address = {0, 4, 6, 7, 8, 9}
    Domain = {5, 26}
    SOLANA_DOMAIN = 5
    None = None
    x1 = x1
    x2 = x2
    y1 = y1
    y2 = y2
    j1 = j1
    r1 = r1
SYMMETRY Symmetry
INVARIANTS
    TypesOK
     IdsAreNotReused
    
    TreasuriesGetTheirFloor
    RatingsRestOnPaidJobs CountersAgree BindingsAreCurrent
  
CHECK_DEADLOCK FALSE
