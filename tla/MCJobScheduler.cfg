CONSTANTS
    t1 = t1
    t2 = t2
    t3 = t3
    c1 = c1
    Task = {t1, t2, t3}
    Worker = {w1, w2}
    Car = {c1}
    CarOf <- MCCarOf
    Mqtt = {t1}
    Acking = {t1, t2}
    Malformed = {t2}
    NoTask = NoTask
    NoCar = NoCar
SPECIFICATION Spec
INVARIANTS
    OneAnswer
    QueueOrder
    OnlyOlderSuperseded
PROPERTIES
    ImplementsTaskService
\* the process may end in std::terminate
CHECK_DEADLOCK FALSE
