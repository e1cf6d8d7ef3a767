SPECIFICATION MCSpec
CONSTANTS
  Subjects = {"link", "frames", "stream"}
  SeqMod = 4
  MaxDrops = 1
  NoFrame = NoFrame
  Samples <- MCSamples
  Damages <- MCDamages
  NonFinite = NonFinite
  SeqRange = 3
  MaxFrames = 4
  MaxDamage = 2
  Chunks = {1, 8}
INVARIANTS
  TypeOK
  BufferStable
  BusyCoversTransfer
  FailureBeforeReuse
  QuietWhenStopped
  FramesDecode
  StreamRecovers
PROPERTIES
  FeedReturns
  GapIsFlagged
  BusyIsReleased
