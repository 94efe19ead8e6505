SPECIFICATION Spec
CONSTANTS
    s1 = s1
    s2 = s2
    s3 = s3
    Sessions = {s1, s2, s3}
    UserOf <- TwoUsers
    DirNames <- FewNames
    FileNames = {"a"}
    Workers = {w1}
    MaxPath = 3
    MaxId = 4
INVARIANTS TypeOK ParentIsOwnDirectory RightDirectory CachedIdIsCurrent CurrentDirectoryStays
SYMMETRY Twins
CHECK_DEADLOCK FALSE
