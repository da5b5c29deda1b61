CONSTANTS
  Caller = {c1, c2}
  NoCaller = NoCaller
  WorkerCount = 1
  MaxLanes = 3
  MaxGeneration = 2
  Failure = {"returned_error", "unknown_exception"}
SPECIFICATION Spec
PROPERTIES StageBarrierSpec
