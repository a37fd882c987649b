CONSTANTS
    q1 = q1
    Client = {a}
    Refresher = refresher
    Plc = {q1, q2}
    Dev = {d1, d2}
    PlcOf <- MCPlcOf
    Wired = {q1}
    Operable = {d1}
    Command = {"ON", "other"}
    MaxWrites = 1
    NoProc = NoProc
    NoDev = NoDev
    NoPlc = NoPlc
SPECIFICATION PlcSpec
INVARIANT
    OneSnapshot
PROPERTIES
    WrongStatusHeals
    CallReturns
