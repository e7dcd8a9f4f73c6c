\* The world thread, the main thread and one that outlasts StopServer, two workers, two serial ids
SPECIFICATION FairSpec
CONSTANTS
  World = "world"
  Main = "main"
  Callers = {"world", "main", "shop"}
  Outlasting = {"shop"}
  NumWorkers = 2
  SerialIds = {1, 2}
  QueryCallbacks = {"safe", "unsafe"}
  MaxOps = 2
INVARIANTS SerialOrder HaltDrains ResultsInv
PROPERTIES SerialExecutionSpec IssuedIsExecuted StopTerminates
