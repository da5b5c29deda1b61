CONSTANTS
  Caller = {c1, c2}
  NoCaller = NoCaller
  WorkerCount = 2
  MaxLanes = 3
  MaxGeneration = 2
  Failure = {"returned_error"}
SPECIFICATION Spec
INVARIANT FrameOutlivesWorkers
PROPERTIES NoGenerationMissed StageBarrierSpec
