CONSTANTS
    MinuteTicks = 2
    DayMinutes = 3
    SegmentTicks = 2
    RetainTicks = 3
    RetainDays = 0
    MaxNow = 8
    Sensor = {s1, s2}
    Opened = {s1}
    SensorId = {s1, s2, s3}
    MaxHumidity = 1
    Rise = 1
    MaxChecks = 1
    Lister = {t1}
    Asker = {v1}
    Refresher = Refresher
    NoThread = NoThread
SPECIFICATION MCSpec
CHECK_DEADLOCK FALSE
INVARIANTS
    Playback
    SegmentTimes
    VerifiedMeansOpen
    ListIsFresh
PROPERTIES
    NoSegmentOverwritten
    VerifyReturns
