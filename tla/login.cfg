SPECIFICATION Spec
CONSTANTS
    Clients = {c1, c2}
    Names = {"gxg", "longname"}
    LongNames = {"longname"}
    Passwords <- SomePasswords
    Registered <- OneOrNone
    Salts = {"s"}
    MaxWrong = 2
    CLIENTMAX = 1
    NoUser = NoUser
INVARIANTS TypeOK InStep Authenticated
PROPERTIES DialogueEnds EveryoneGetsIn
CHECK_DEADLOCK FALSE
