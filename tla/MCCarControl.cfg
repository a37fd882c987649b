CONSTANTS
    Proc = {p1, p2}
    Device = {c1, c2}
    CarId = {c1, c2, c3}
    Ready = {c1}
    Command = {go}
    StatusByte = {257}
    NoReply = 65535
    Frames = 2
    Polls = 1
    NoProc = NoProc
    NoCommand = NoCommand
    MaxInterrupts = 2
SPECIFICATION MCSpec
INVARIANTS
    PromptAbort
    LastStatusIsLastWindow
PROPERTY
    OperateReturns
