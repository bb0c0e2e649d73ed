SPECIFICATION Spec
INVARIANTS
    TypesOK
    BroadcastsAreAccountedFor 
    OwnersFindTheWallet SubmissionsAreSerial
    
PROPERTIES OnlyALiveReviewLeaves SignerIsReleased RequestsAreAnswered RunsLeaveItFunded
CHECK_DEADLOCK FALSE
