CONSTANTS
    Main = main
    Background = background
    Worker = {w1}
    Reporter = reporter
    Topic = {t1, t2}
    MaxLosses = 2
    Client = {c1}
    Route <- Routes
    Body <- Bodies
    Order <- Orders
    MaxMessages = 2
    Chunk = 2
    MaxSize = 3
    Updater = {u1}
    Doc <- MCDoc
    Valid <- MCValid
    Loadable <- MCLoadable
    Document <- MCDocument
    FirstDoc = "good"
    Inode = {i1, i2}
    NoInode = NoInode
    Empty = Empty
    Torn = Torn
    DayTicks = 2
    retentionDays_ = 2
    FirstDay = 2
    MaxTime = 11
    CameraId = {1, 2}
    MaxObjects = 1
    MaxFailures = 2
    MaxImages = 1
    OBJ_CLASS_NUM = 2
    OBJ_NUMB_MAX_SIZE = 2
    ScoreZp <- Zp
    ScoreThres <- Threshold
    NmsPercent = 45
    Side = 8
    FontSize = 2
    LabelGap = 2
    LabelText <- SomeText
    Scene <- Pictures
    NoScene = NoScene
SPECIFICATION MCSpec
CHECK_DEADLOCK FALSE
INVARIANTS
    NoDeafSession
    RequestUnderstood
    FileServedWhole
    CommandsDoNotEndIt
    ConfigSound
    SuccessMeansInstalled
    FailureLeavesConfig
    LoadedIsConsistent
    AlarmJustified
    LeaksExplained
    PicturesInside
    DetectionsSound
    LogKept
PROPERTIES
    ConnectedAgain
    ConnectionsEnd
