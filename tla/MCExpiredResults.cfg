SPECIFICATION FilesSpec
CONSTANTS
  Files = {1, 2}
  ExportTasks = {1, 2}
  TaskKinds = {"log", "import"}
  FileWorkers = {"w1"}
  Records = {}
  CleanupBatch = 1
  MaxFileFaults = 0
PROPERTIES
  ExpiredIsPurged
CHECK_DEADLOCK FALSE
