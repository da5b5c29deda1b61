CONSTANTS
  Caller = {c1, c2}
  NoCaller = NoCaller
  WorkerCount = 2
  MaxLanes = 2
  MaxGeneration = 2
  Failure = {"returned_error"}
SPECIFICATION FairSpec
PROPERTIES DispatchReturns ShutdownJoins
