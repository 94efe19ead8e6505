SPECIFICATION Spec
CONSTANTS
    Sizes <- FewSizes
    Full = 3
    PutsTrain = 4
    GetsTrain = 3
    MaxAttempts = 1
INVARIANTS UploadIsWhole
CHECK_DEADLOCK FALSE
