CONSTANTS
    t1 = t1
    t2 = t2
    c1 = c1
    Task = {t1, t2}
    Worker = {w1, w2}
    Car = {c1}
    CarOf <- MCCarOf
    Mqtt = {t1, t2}
    Acking = {t1, t2}
    Malformed = {}
    NoTask = NoTask
    NoCar = NoCar
    Device = {c1}
    Ready = {c1}
    StatusByte = {257}
    NoReply = 65535
    Frames = 2
    Polls = 1
    NoCommand = NoCommand
SPECIFICATION CmdSpec
INVARIANTS
 AbortOnlyForNewer
 LastCommandWinsUnlessRaced
PROPERTY EveryCommandEnds
CHECK_DEADLOCK FALSE
