SPECIFICATION Spec
CONSTANTS
    c1 = c1
    c2 = c2
    Clients = {c1, c2}
    Commands = 3
    ClientOf <- TwoAndOne
    Nobody = Nobody
    Files = {"e", "f", "g"}
    Length <- Lengths
    Dirs = {"home", "sub"}
    FirstRows <- OneRow
    FirstStored <- WithOrWithout
    w1 = w1
    w2 = w2
    Workers = {w1, w2}
    THREADNUM = 1
    Where <- Directories
    Menu <- Menus
    Lifetime = 1
    Made <- OneOlder
    MaxClock = 1
INVARIANTS TypeOK InStep RowsAreEarned ExitHasCause
PROPERTIES ServerComesBack EveryTransferEnds
CHECK_DEADLOCK FALSE
