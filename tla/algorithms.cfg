SPECIFICATION AllSpec
CONSTANTS
    UserName = "u"
    Lines <- SomeLines
    Names <- SomeNames
    Size <- Sizes
    ARGCMAX = 10
    BUFFERSIZE = 20
    VARCHAR = 8
    ROUTEDEPTH = 4
    READ_DATA_SIZE = 128
    Transform <- MD5Transform
    Files <- SomeFiles
    EXPIRETIME = 30
    Times <- SomeTimes
INVARIANTS AnswerFitsCommand DigestIsRight ExpiryIsRight
PROPERTIES PathsFollowTree
