CONSTANTS
    q1 = q1
    Client = {a, b}
    Refresher = refresher
    Plc = {q1}
    Dev = {d1}
    PlcOf <- MCPlcOf
    Wired = {q1}
    Operable = {d1}
    Command = {"ON", "OFF", "other"}
    MaxWrites = 2
    NoProc = NoProc
    NoDev = NoDev
    NoPlc = NoPlc
SPECIFICATION PlcSpec
SYMMETRY ClientSymmetry
INVARIANTS
    CacheNotStale
    NoStaleAnswer
    AnswerMatchesCommand
