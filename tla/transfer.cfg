SPECIFICATION FairSpec
CONSTANTS
    Sizes <- FewSizes
    Full = 3
    PutsTrain = 4
    GetsTrain = 3
    MaxAttempts = 3
INVARIANTS TypeOK DoneHasTheRest TempIsNotAhead
PROPERTIES TransferEnds
CHECK_DEADLOCK FALSE
