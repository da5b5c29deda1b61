CONSTANTS
  h1 = h1
  h2 = h2
  Handle = {h1, h2}
  Slot <- MCSlot
  Capacity = 2
  MaxBatch = 2
  NoCall = NoCall
  NoView = NoView
SPECIFICATION Spec
INVARIANT ViewFaithful
PROPERTY ChannelSpec
CONSTRAINT OneObject
