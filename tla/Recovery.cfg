CONSTANTS
    Sessions = {1, 2, 3}
    MaxAttempts = 1  MaxQr = 1  MaxRequests = 1  MaxDrops = 1  MaxLapses = 1
    MaxCrashes = 1  MaxEvents = 1  MaxTasks = 2  PastRace = FALSE
    a1 = a1  t1 = t1
    Accounts = {a1}  Tasks = {t1}  HalfHour = 2  MaxMoves = 1
    MaxThrows = 1  MaxTicks = 0
SPECIFICATION RecoverySpec
PROPERTIES ConnectedRowServed  EmptyPoolKeepsAlerting
CHECK_DEADLOCK FALSE
