SPECIFICATION WorkerSpec
CONSTANTS
  Parts = {"queue", "lock", "files", "cron"}
  w1 = w1
  w2 = w2
  a1 = a1
  r1 = r1
  r2 = r2
  r3 = r3
  o1 = o1
  o2 = o2
  o3 = o3
  users = users
  bindings = bindings
  Jobs = {1, 2}
  Silent = {2}
  Workers = {w1, w2}
  MaxAttempts = 2
  RetryDelay = 1
  RunningTimeout = 2
  HandlerBound = 1
  SerialClaims = TRUE
  Tasks = {1, 2}
  Catalogue = {1}
  Edited = {2}
  JobSilent = {}
  JobWorkers = {w1, w2}
  Admins = {a1}
  MaxJobAttempts = 2
  JobRetryDelay = 1
  Lease = 2
  Shortest = 2
  Period = 2
  JobHandlerBound = 1
  JobSerial = TRUE
  MaxAlarms = 1
  NoOwner = NoOwner
  Survivors = {r1, r2}
  Runners = {r1, r2, r3}
  Owners = {o1, o2, o3}
  OwnerOf <- OwnOwners
  Ttl = 2
  LockHandlerBound = 4
  Bounded = TRUE
  LockSerial = FALSE
  NoRequest = NoRequest
  Pool = Pool
  Requests = {r1, r2, r3}
  Scopes = {users, bindings}
  ScopesOf <- CreateUsers
  Background = {r3}
  Events = {r1}
  MaxWaiting = 1
  MaxFailures = 2
  MaxCrashes = 1
  Files = {1, 2}
  ExportTasks = {1}
  TaskKinds = {"log", "import"}
  FileWorkers = {w1, w2}
  Records = {r1}
  CleanupBatch = 1
  MaxFileFaults = 1
  SecondsPerMinute = 2
  MinutesPerHour = 3
  HoursPerDay = 2
  DaysPerWeek = 3
  MonthLengths <- MCMonthLengths
  MonthsPerYear = 2
  LongestMonth = 4
  HorizonDays = 6
  Expressions <- MCExpressions
  LatestStart = 24
  Delays = {0, 1, 5}
INVARIANTS
  QueueIsSound
  FilesAreSound
  NextRunIsFirst
PROPERTIES
  ImplementsContract
  EventuallySettled
  LeaseIsKept
  EventuallyRunAgain
  InvalidIsPurged
CHECK_DEADLOCK FALSE
