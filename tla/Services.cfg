CONSTANTS
    Sessions = {1, 2, 3}
    MaxAttempts = 1  MaxQr = 1  MaxRequests = 2  MaxDrops = 1  MaxLapses = 0
    MaxCrashes = 1  MaxEvents = 2  MaxTasks = 2  PastRace = FALSE
    Clients = {x, y}  Keys = {k}  NoKey = NoKey  MaxBulk = 2  MaxQuota = 1
    MaxLimit = 1  Forms <- ProjectForms  MaxRows = 3  MaxTurns = 1
    Admins = {x, y}  Links = {1, 2, 3}  Handlers = {x, y}  MaxActions = 3
    Accounts = {x, y}  Tasks = {x, y}  HalfHour = 3  MaxMoves = 1
    MaxThrows = 1  MaxTicks = 3
    DaysPerMonth = 2  RetentionDays = 3  MonthsAhead = 2  LastDay = 6
    MaxMessages = 1  MaxCutRuns = 1
    TicksPerMinute = 2  MinutesPerHour = 4  HoursPerDay = 6
    SilentStart = 5  SilentEnd = 2  Instants <- LocalInstants  Zones <- LocalZones
    Replies = {x, y}  ReplyForms <- ReplyKinds  Projects = {p}  MaxOut = 1
    MaxPages = 3  MaxLosses = 1
INIT Init
NEXT Next
INVARIANTS
    FleetTypeOK OneSocket StoppedStaysDown  NoOrphanSession
     OneMessagePerKey QueuedByItsCreator 
    UsersTypeOK WorkingUserLeft SetupNotStranded ResetLinksBounded
    AlertRepeatsBounded MonthAlwaysOpen WindowKept CalendarExact
    
PROPERTY TokenEndsAccess
SYMMETRY Swapping
CHECK_DEADLOCK FALSE
